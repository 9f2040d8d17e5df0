SPECIFICATION Spec
CONSTANTS
  h1 = h1
  h2 = h2
  Starter = Starter
  Growth = Growth
  NoOverride = NoOverride
  Handlers <- OneHandler
  Plans <- OnePlan
  PlanLimit <- MCPlanLimit
  Terms <- Month
  DefaultTerm = 1
  Price = 1
  MaxPayments = 2
  MaxExtra = 1
  MaxEarned = 1
  MaxNow = 1
  MaxCrashes = 0
  MaxRequests = 3
  Origins <- AnyOrigin
  Referred = TRUE
  Operations <- AllOps
PROPERTIES
  SettlementExtends
CHECK_DEADLOCK FALSE
