SPECIFICATION SmallSpec
CONSTANTS
  None = None
  Workers = {w1, w2}
  MaxRequests = 3
  Accounts <- ThreeAccounts
  Newcomers <- NewAccount
  SamePhone <- Twins
  MaxLinks = 2
  DemoCode = TRUE
  People = {o, p1}
  Owner = o
  Branches = {b1, b2}
  HeadOffice = b1
  Rows = {1, 2, 3}
  Terminals = {t1, t2}
  MaxUsers = 1
  MaxBranches = 2
  Module = m
  Home = b1
  Elsewhere = b2
  Customers = {c}
  Profiles = {f}
  Names <- Spellings
  Norm <- Lowered
  MirrorKey <- Lowered
  MaxOpening = 1
  MaxWrites = 4
  Records = {d1, d2}
  Days = {1, 2}
  Items = {x1}
  MaxAmount = 2
  a1 = a1
  a2 = a2
  a3 = a3
  Cafe = Cafe
  cafe = cafe
  bee = bee
SYMMETRY Symmetry
INVARIANTS
  SeatsAreSold
  WorkHasBranch
  InAtMostOnce
  CodeLogsInOnce
  MailedLinkWorks
  LinksAreMutual
  AccessIsBounded
  EachCountedOnce
  LedgersAgree
CHECK_DEADLOCK FALSE
