SPECIFICATION Spec
CONSTANTS
  Ops = {o1, o2, o3, o4, o5}
  BufAddrs = {b1, b2, b3, b4, b5}
  br_n_bufs = 4
  cq_depth = 1
  Fds = {udp, tun}
  MaxPkts = 2
  Faults = {"late"}
  NULL = NULL
  Pick <- AnyOne
  udp_fd = udp
  tun_fd = tun
  ReadCounts = {1}
  IsClient = TRUE
INVARIANTS
  KernelMemory
