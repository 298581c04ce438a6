\* Duplicates in the receive list.
CONSTANTS
  Clients = {c1}
  Server = s
  MaxUp = 4
  MaxDown = 0
  MaxSendList = 4
  MaxRecvList = 4
  LateEstablish = FALSE
  Lossy = FALSE
  Faults = {}
SPECIFICATION Spec
INVARIANT NothingStranded
