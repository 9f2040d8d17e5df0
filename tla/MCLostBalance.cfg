SPECIFICATION Spec
CONSTANTS
  None = None
  b1 = b1
  b2 = b2
  i1 = i1
  i2 = i2
  p1 = p1
  Browsers <- TwoBrowsers
  Invoices <- TwoInvoices
  Payments <- OnePayment
  MaxUsed = 1
  MaxRequests = 2
INVARIANTS
  BalanceIsExplained
CHECK_DEADLOCK FALSE
