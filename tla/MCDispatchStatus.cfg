\* One client, two requests.
CONSTANTS
  Clients = {c1}
  Header = 1
  Body = 1
  DataLen = 1
  Capacity = 1
  MaxRequests = 2
  MaxTasks = 2
SPECIFICATION Spec
INVARIANT StatusMeansData
CHECK_DEADLOCK FALSE
