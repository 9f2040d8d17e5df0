SPECIFICATION FairSpec
CONSTANTS
  None = None
  h1 = h1
  h2 = h2
  h3 = h3
  q1 = q1
  whatsapp = whatsapp
  email = email
  Handlers <- ThreeHandlers
  Requests <- OneRequest
  Messages <- BothChannels
  Emails <- ByResend
  Faults <- AllFaults
  MaxCalls = 3
  MaxFaults = 2
INVARIANTS
  HandedOverOnce
  AnswersOwnMessage
  StatusIsBacked
PROPERTIES
  StatusNeverReturns
  QueuedIsSettled
CHECK_DEADLOCK FALSE
