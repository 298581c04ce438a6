\* mysql_query is taken as atomic; another thread begins a query before a count is read.
CONSTANTS
  c1 = c1
  c2 = c2
  q1 = q1
  u1 = u1
  q2 = q2
  Workers = {w1, w2}
  Statements = {q1, u1, q2}
  Selects = {q1, q2}
  NoStatement = none
  Overlap = FALSE
  MaxRows = 1
  Clients = {c1, c2}
  Client <- MCClient
  Header = 2
  DataLen = 2
  FieldsLen = 1
  RowLen = 3
  Misread <- MCMisread
SPECIFICATION Spec
INVARIANT
  CountsOwnRows
CHECK_DEADLOCK FALSE
