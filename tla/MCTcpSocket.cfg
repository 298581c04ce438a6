\* One client, three request chunks, two reply chunks; every datagram may be delayed,
\* duplicated and reordered without limit, and socket, sendto and recvfrom may fail at
\* any call, which may stop the system for good.
CONSTANTS
  Clients = {c1}
  Server = s
  MaxUp = 3
  MaxDown = 2
  MaxSendList = 3
  MaxRecvList = 3
  LateEstablish = FALSE
  Lossy = FALSE
  Faults = {"socket", "sendto", "recvfrom"}
SPECIFICATION Spec
INVARIANTS
  TypeOK
  InOrderDelivery
  NextRecvIsNext
  RequestsRetained
  RepliesRetained
  StrandedOnlyBehindDuplicate
PROPERTY ImplementsFifoStream
CHECK_DEADLOCK FALSE
