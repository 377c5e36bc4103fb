SPECIFICATION Spec
CONSTANTS
  Ops = {o1, o2, o3, o4}
  BufAddrs = {b1, b2, b3, b4}
  br_n_bufs = 2
  cq_depth = 2
  Fds = {udp, tun}
  MaxPkts = 2
  Faults = {"submit", "cqe", "empty", "late"}
  NULL = NULL
  Pick <- AnyOne
  udp_fd = udp
  tun_fd = tun
  ReadCounts = {1}
  IsClient = FALSE
INVARIANTS
  TypeOK
  IndInv
  NothingLost
  AlwaysListening
  SpareBuffer
  FreeOnce
PROPERTIES
  ReadsConserved
  TunnelRelay
