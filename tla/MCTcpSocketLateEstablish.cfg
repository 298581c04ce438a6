\* A copy of ESTABLISH_1 overtaken by the data that followed it.
CONSTANTS
  Clients = {c1}
  Server = s
  MaxUp = 1
  MaxDown = 0
  MaxSendList = 2
  MaxRecvList = 2
  LateEstablish = TRUE
  Lossy = FALSE
  Faults = {}
SPECIFICATION Spec
INVARIANT NextRecvIsNext
