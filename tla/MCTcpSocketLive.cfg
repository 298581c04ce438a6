\* One client on a network that loses datagrams; it ends when everything allowed
\* by the bounds has been sent.
CONSTANTS
  Clients = {c1}
  Server = s
  MaxUp = 2
  MaxDown = 1
  MaxSendList = 3
  MaxRecvList = 2
  LateEstablish = FALSE
  Lossy = TRUE
  Faults = {}
SPECIFICATION FairSpec
PROPERTY EventuallyDelivered
CHECK_DEADLOCK FALSE
