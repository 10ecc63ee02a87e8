SPECIFICATION FairSpec
CONSTANTS
  Listeners = {l1}
  UdpSocks = {u1}
  Conns = {c1, c2}
  Fds = {1, 2, 3, 4}
  NoSock = NoSock
  NoFd = NoFd
  MaxSegments = 1
  MaxDatagrams = 2
  Faults = {"refuse"}
PROPERTY QueuedIsServed
