SPECIFICATION Spec
CONSTANTS
  Connectors = {1}
  MaxTransactions = 2
  MaxRequests = 6
  MaxBoots = 1
  MaxSoftStops = 0
  MaxRoamingFailures = 1
  NoConnector = NoConnector
  NoTransaction = NoTransaction
CHECK_DEADLOCK FALSE
INVARIANTS
  ConnectorsAgree
  ExtraInactivityPerFailure
  FreedUnlessRebooted
PROPERTIES
  
  FinalizedIsBilled
  EndTaskBills
