------------------------------ MODULE OfficeParts ------------------------------
(***************************************************************************)
(* The records of a workshop's daily work, its targets and the plans it is *)
(* sold, in one module: a behaviour is one of CustomerWallet, JobCards,    *)
(* Bookings, Reminders, Books, Clients, Targets, PlanCatalog or            *)
(* SharedDocuments, the part chosen in its first state.  The parts share   *)
(* no state, and each property is of one of them.                          *)
(***************************************************************************)
EXTENDS JobCards

CONSTANTS
  Invoices, Extras, MaxUsed,                        \* CustomerWallet
  Appointments, MaxBookings,                        \* Bookings
  Reminders, Dues, Period, LeadDays, LastDay, MaxRuns,  \* Reminders
  Entries, Lists, Vendors, Local,                   \* Books
  Customers, Vehicles, Phones, Loose, Plates, MaxBatch,  \* Clients
  Staff, YearInvoices, Roles, Months, Totals, JoinDates, Settings,  \* Targets
  Codes, BuiltIn, Organizations,                    \* PlanCatalog
  Documents, Workshops, Users, Workshop, Agents     \* SharedDocuments

VARIABLES
  part,
  wallet, manual, entered, debited, credited, stored, copy, walletTask, doubtful, walletRequests,
  document, row, leg, bookTask, disturbed, arrived, bookRequests,
  today, reminder, owed, runs, messages, unsure, runRequests,
  scoped, legacy, mirrored, missed, saves, seen, savesOvertaken, last, saveRequests,
  customer, vehicle, session, clientTask, told, clientOvertaken, raced, imported, clientRequests,
  settings, staff, yearInvoices,
  payload, sold, planTask, planOvertaken, waived, planRequests,
  shared, loaded, ticketTask, stale, ticketRaced, said, owner, author, ticketRequests

W == INSTANCE CustomerWallet WITH
       Browsers <- Workers, Payments <- Extras,
       invoice <- stored, task <- walletTask, requests <- walletRequests
A == INSTANCE Bookings WITH
       MaxRequests <- MaxBookings, task <- bookTask, requests <- bookRequests
R == INSTANCE Reminders WITH
       Payments <- Dues, MaxRequests <- MaxRuns,
       task <- runs, disturbed <- unsure, requests <- runRequests
B == INSTANCE Books WITH
       task <- saves, overtaken <- savesOvertaken, requests <- saveRequests
C == INSTANCE Clients WITH
       task <- clientTask, overtaken <- clientOvertaken, requests <- clientRequests
T == INSTANCE Targets WITH
       Invoices <- YearInvoices, invoices <- yearInvoices
P == INSTANCE PlanCatalog WITH
       Admins <- Workers,
       task <- planTask, overtaken <- planOvertaken, requests <- planRequests
D == INSTANCE SharedDocuments WITH
       Organizations <- Workshops,
       row <- shared, copy <- loaded, task <- ticketTask, raced <- ticketRaced, owed <- said,
       requests <- ticketRequests

ASSUME OfficeAssumption ==
  /\ JobCardsAssumption /\ W!WalletAssumption
  /\ A!BookingsAssumption /\ R!RemindersAssumption
  /\ B!BooksAssumption /\ C!ClientsAssumption /\ T!TargetsAssumption
  /\ P!PlanCatalogAssumption /\ D!SharedDocumentsAssumption

walletVars == <<wallet, manual, entered, debited, credited, stored, copy, walletTask, doubtful,
                walletRequests>>
bookVars == <<document, row, leg, bookTask, disturbed, arrived, bookRequests>>
runVars == <<today, reminder, owed, runs, messages, unsure, runRequests>>
saveVars == <<scoped, legacy, mirrored, missed, saves, seen, savesOvertaken, last, saveRequests>>
clientVars == <<customer, vehicle, session, clientTask, told, clientOvertaken, raced, imported,
                clientRequests>>
targetVars == <<settings, staff, yearInvoices>>
planVars == <<payload, sold, planTask, planOvertaken, waived, planRequests>>
ticketVars == <<shared, loaded, ticketTask, stale, ticketRaced, said, owner, author,
                ticketRequests>>
officeVars == <<part, vars, walletVars, bookVars, runVars, saveVars, clientVars, targetVars,
                planVars, ticketVars>>

-----------------------------------------------------------------------------

OfficeInit ==
  /\ part \in {"wallet", "cards", "bookings", "reminders", "books", "clients", "targets",
               "plans", "tickets"}
  /\ Init /\ W!Init /\ A!Init /\ R!Init /\ B!Init /\ C!Init /\ T!Init /\ P!Init /\ D!Init

OfficeNext ==
  \/ /\ part = "wallet" /\ W!Next
     /\ UNCHANGED <<part, vars, bookVars, runVars, saveVars, clientVars, targetVars,
                    planVars, ticketVars>>
  \/ /\ part = "cards" /\ Next
     /\ UNCHANGED <<part, walletVars, bookVars, runVars, saveVars, clientVars, targetVars,
                    planVars, ticketVars>>
  \/ /\ part = "bookings" /\ A!Next
     /\ UNCHANGED <<part, vars, walletVars, runVars, saveVars, clientVars, targetVars,
                    planVars, ticketVars>>
  \/ /\ part = "reminders" /\ R!Next
     /\ UNCHANGED <<part, vars, walletVars, bookVars, saveVars, clientVars, targetVars,
                    planVars, ticketVars>>
  \/ /\ part = "books" /\ B!Next
     /\ UNCHANGED <<part, vars, walletVars, bookVars, runVars, clientVars, targetVars,
                    planVars, ticketVars>>
  \/ /\ part = "clients" /\ C!Next
     /\ UNCHANGED <<part, vars, walletVars, bookVars, runVars, saveVars, targetVars,
                    planVars, ticketVars>>
  \/ /\ part = "targets" /\ T!Next
     /\ UNCHANGED <<part, vars, walletVars, bookVars, runVars, saveVars, clientVars,
                    planVars, ticketVars>>
  \/ /\ part = "plans" /\ P!Next
     /\ UNCHANGED <<part, vars, walletVars, bookVars, runVars, saveVars, clientVars,
                    targetVars, ticketVars>>
  \/ /\ part = "tickets" /\ D!Next
     /\ UNCHANGED <<part, vars, walletVars, bookVars, runVars, saveVars, clientVars,
                    targetVars, planVars>>

OfficeSpec == OfficeInit /\ [][OfficeNext]_officeVars

-----------------------------------------------------------------------------

\* The properties of the parts, of the behaviours that are theirs; stated and
\* explained in their modules.
WalletIsDebited == part = "wallet" => W!WalletIsDebited
ExtrasAreCredited == part = "wallet" => W!ExtrasAreCredited
PickupsFollow == part = "bookings" => A!PickupsFollow
RemindedOnce == part = "reminders" => R!RemindedOnce
BooksKept == part = "books" => B!BooksKept
PortalOpens == part = "clients" => C!PortalOpens
ImportsStayApart == part = "clients" => C!ImportsStayApart
SharesAddUp == part = "targets" => T!SharesAddUp
ChangesStand == part = "plans" => P!ChangesStand
TicketsStand == part = "tickets" => D!TicketsStand
=============================================================================
