SPECIFICATION Spec
CONSTANTS
  None = None
  Reminders = {s, p}
  Payments = {p}
  Workers = {w1}
  Period = 1
  LeadDays = 1
  LastDay = 1
  MaxRequests = 3
INVARIANT IdempotentRuns
CHECK_DEADLOCK FALSE
