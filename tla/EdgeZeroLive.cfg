SPECIFICATION FairSpec
CONSTANTS
  Ops = {o1, o2, o3, o4, o5, o6, o7}
  BufAddrs = {b1, b2, b3, b4, b5, b6, b7}
  br_n_bufs = 4
  cq_depth = 1
  Fds = {udp, tun}
  MaxPkts = 3
  Faults = {}
  NULL = NULL
  Pick <- AnyOne
  udp_fd = udp
  tun_fd = tun
  ReadCounts = {1, 7}
  IsClient = FALSE
INVARIANTS
  DemandInv
PROPERTIES
  StopsForAReason
  Delivered
  StopsAtNextPacket
