\* A row of the joined list is deleted.
CONSTANTS
  Text = {"a", "b"}
  Scores = {"9.5", "9.50", "9.1"}
  Canonical <- MCCanonical
  Exact = {"9.5", "9.50"}
  Clients = {c1}
  InitialDbs <- MCInitialDbs
  Faults = {}
  MaxClicks = 5
SPECIFICATION Spec
INVARIANT
  DeletesSelectedRow
CHECK_DEADLOCK FALSE
