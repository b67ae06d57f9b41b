SPECIFICATION FairSpec
CONSTANTS
  Size <- MCSize
  Full = 3
  MaxSerial = 5
INVARIANTS SizeIsTheClients
PROPERTIES OperationsAreAnswered OperationArrives
CHECK_DEADLOCK FALSE
