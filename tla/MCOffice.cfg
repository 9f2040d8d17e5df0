SPECIFICATION SmallSpec
CONSTANTS
  None = None
  Workers = {w1, w2}
  MaxRequests = 3
  Cards = {a}
  Quotes = {q}
  Keys = {k}
  Prices = {1, 2}
  Forms <- Versions
  Invoices = {i1, i2}
  Extras = {p1}
  MaxUsed = 1
  Appointments = {a}
  MaxBookings = 4
  Reminders = {r1, r2}
  Dues = {r2}
  Period = 1
  LeadDays = 1
  LastDay = 2
  MaxRuns = 4
  Entries = {e1, e2, e3}
  Lists = {{e1, e2}, {e3}}
  Vendors = {e3}
  Local = {e1, e3}
  Customers = {c1, c2}
  Vehicles = {v1, v2}
  Phones = {p}
  Loose = {s}
  Plates = {q}
  MaxBatch = 2
  Staff = {s1, s2}
  YearInvoices = {d1, d2}
  Roles = {"MECHANIC", "MANAGER"}
  Months = {1, 5}
  Totals = {1020}
  JoinDates <- Joins
  Settings <- SavedSettings
  Codes = {a, pro}
  BuiltIn = {a}
  Organizations = {o}
  Documents = {d1}
  Workshops = {o, elsewhere}
  Users = {u1, u2, u3}
  Workshop <- WorkshopOf
  Agents = {g1, g2}
  i1 = i1
  i2 = i2
  k = k
  o = o
  elsewhere = elsewhere
  u1 = u1
  u2 = u2
  u3 = u3
SYMMETRY OfficeSymmetry
INVARIANTS
  WalletIsDebited
  ExtrasAreCredited
  BilledPriceStands
  PickupsFollow
  RemindedOnce
  BooksKept
  PortalOpens
  ImportsStayApart
  SharesAddUp
  ChangesStand
  TicketsStand
CHECK_DEADLOCK FALSE
