SPECIFICATION Spec
CONSTANTS
  Ops = {o1, o2, o3, o4, o5, o6}
  BufAddrs = {b1, b2, b3, b4, b5, b6}
  br_n_bufs = 12
  cq_depth = 6
  Fds = {udp, tun}
  MaxPkts = 6
  Faults = {}
  NULL = NULL
  Pick <- AnyOne
  udp_fd = udp
  tun_fd = tun
  ReadCounts = {1}
  IsClient = TRUE
INVARIANTS
  KeepsRunning
