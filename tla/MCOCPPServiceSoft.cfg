SPECIFICATION Spec
CONSTANTS
  Connectors = {c1, c2}
  MaxTransactions = 2
  MaxRequests = 5
  MaxBoots = 1
  MaxSoftStops = 1
  MaxRoamingFailures = 1
  NoConnector = NoConnector
  NoTransaction = NoTransaction
CHECK_DEADLOCK FALSE
SYMMETRY MCSymmetry
PROPERTIES
  BillingOffIsFinal
