\* Two clients; ids and names from two texts.
CONSTANTS
  Text = {"a", "b"}
  Scores = {"9.5", "9.50", "9.1"}
  Canonical <- MCCanonical
  Exact = {"9.5", "9.50"}
  Clients = {c1, c2}
  InitialDbs <- MCInitialDbs
  Faults = {"connect", "query"}
  MaxClicks = 3
SPECIFICATION Spec
INVARIANTS
  TypeOK
  
SYMMETRY Symmetric
CHECK_DEADLOCK FALSE
