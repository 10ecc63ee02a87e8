SPECIFICATION Spec
CONSTANTS
  Listeners = {l1, l2}
  UdpSocks = {u1}
  Conns = {c1, c2}
  Fds = {1, 2, 3, 4}
  NoSock = NoSock
  NoFd = NoFd
  MaxSegments = 1
  MaxDatagrams = 2
  Faults = {"setup", "fcntl", "epoll_add", "accept", "refuse", "empty_dgram", "bad_package"}
SYMMETRY Symmetry
INVARIANTS
  TypeOK
  TablesAgree
  BatchFresh
PROPERTY ServiceKept
CHECK_DEADLOCK FALSE
