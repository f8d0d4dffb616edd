SPECIFICATION MCSpec
CONSTANTS
  Sessions = {1, 2}
  MaxDay = 2
  MaxCharges = 1
  MaxFaults = 1
  PageSize = 1
  Admins = {a, b}
  MaxTransfers = 2
  MaxDispatches = 2
  Workers = {v, w}
  Cards = {j, k}
  MaxCustomers = 3
  MaxRequests = 4
  None = None
  MaxAmps = 1
  UserLimit = 0
  Capacity <- OneConnector
  MaxSessions = 2
  MaxRuns = 2
  MaxEvents = 1
INVARIANTS InvoicesAgree TransfersAgree CustomerCanPay PlansAgree
PROPERTY OnlyForward
CHECK_DEADLOCK FALSE
