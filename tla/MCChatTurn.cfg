SPECIFICATION Spec
CONSTANTS
  Asked <- AskedHere
  Slots = {t1, t2}
  Limit = 1
  MaxStarts = 3
  MaxFaults = 1
  CloudEnabled = TRUE
  LoopEnabled = TRUE
INVARIANTS SensitiveStaysLocal CloudCallsBounded BufferedHidesSentinel ServiceNeverQuotes
PROPERTIES ImplementsContract
CHECK_DEADLOCK FALSE
