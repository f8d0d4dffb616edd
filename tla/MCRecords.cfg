SPECIFICATION MCSpec
CONSTANTS
  Notifiers = {n1, n2}
  Abouts = {"x", "y"}
  Admins = {"m"}
  Interval = 1
  Day = 1
  MaxClock = 2
  IDs = {1, 2}
  UserIDs = {u, v}
  Requests = {r1, r2}
  MaxRequests = 3
  MaxUploads = 2
  Lines = 2
  BatchSize = 2
  PageSize = 1
INVARIANTS TagsAgree CarsAgree  
SYMMETRY Symmetry
CHECK_DEADLOCK FALSE
