SPECIFICATION FairSpec
CONSTANTS
  h1 = h1
  h2 = h2
  Starter = Starter
  Growth = Growth
  NoOverride = NoOverride
  Handlers <- TwoHandlers
  Plans <- OnePlan
  PlanLimit <- MCPlanLimit
  Terms <- Month
  DefaultTerm = 1
  Price = 1
  MaxPayments = 2
  MaxExtra = 0
  MaxEarned = 1
  MaxNow = 0
  MaxCrashes = 1
  MaxRequests = 3
  Origins <- Trial
  Referred = TRUE
  Operations <- LiveOps
PROPERTIES
  CapturedIsBilled
  RequestsAnswered
CHECK_DEADLOCK FALSE
