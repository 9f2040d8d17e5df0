SPECIFICATION Spec
CONSTANTS
  h1 = h1
  h2 = h2
  Starter = Starter
  Growth = Growth
  NoOverride = NoOverride
  Handlers <- TwoHandlers
  Plans <- OnePlan
  PlanLimit <- MCPlanLimit
  Terms <- Month
  DefaultTerm = 1
  Price = 1
  MaxPayments = 2
  MaxExtra = 0
  MaxEarned = 0
  MaxNow = 0
  MaxCrashes = 0
  MaxRequests = 4
  Origins <- Trial
  Referred = TRUE
  Operations <- OverlapOps
PROPERTIES
  SettlementExtends
CHECK_DEADLOCK FALSE
