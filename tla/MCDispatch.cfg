\* Two clients, two requests each; lengths of two bytes, which can be read torn, and
\* a rest that is long enough to be taken for the length of another request.
CONSTANTS
  Clients = {c1, c2}
  Header = 2
  Body = 1
  DataLen = 2
  Capacity = 2
  MaxRequests = 2
  MaxTasks = 2
SPECIFICATION FairSpec
INVARIANTS
  TypeOK
  ExclusiveService
  NoLostWakeup
  WholeRequests
PROPERTY RequestsAnswered
CHECK_DEADLOCK FALSE
