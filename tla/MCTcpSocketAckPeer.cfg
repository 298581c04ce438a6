\* Two clients answered at the same time.
CONSTANTS
  Clients = {c1, c2}
  Server = s
  MaxUp = 1
  MaxDown = 1
  MaxSendList = 3
  MaxRecvList = 2
  LateEstablish = FALSE
  Lossy = FALSE
  Faults = {}
SPECIFICATION Spec
INVARIANT RepliesRetained
