SPECIFICATION Spec
CONSTANTS
  h1 = h1
  h2 = h2
  Starter = Starter
  Growth = Growth
  NoOverride = NoOverride
  Handlers <- TwoHandlers
  Plans <- OnePlan
  PlanLimit <- MCPlanLimit
  Terms <- Month
  DefaultTerm = 1
  Price = 1
  MaxPayments = 2
  MaxExtra = 0
  MaxEarned = 2
  MaxNow = 0
  MaxCrashes = 1
  MaxRequests = 3
  Origins <- Trial
  Referred = TRUE
  Operations <- RaceOps
SYMMETRY HandlerSymmetry
INVARIANTS
  BillNumbersGapless
  PaidIsBilled
  DiscountsAreFunded
  WalletBalanced
PROPERTIES
  ImplementsLedger
CHECK_DEADLOCK FALSE
