SPECIFICATION Spec
CONSTANTS
  Connectors = {1}
  MaxTransactions = 1
  MaxRequests = 5
  MaxBoots = 0
  MaxSoftStops = 0
  MaxRoamingFailures = 0
  NoConnector = NoConnector
  NoTransaction = NoTransaction
CHECK_DEADLOCK FALSE
INVARIANTS
  InvoicedStaysBilled
