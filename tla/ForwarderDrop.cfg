SPECIFICATION Spec
CONSTANTS
  Ops = {o1, o2, o3, o4, o5, o6, o7, o8}
  BufAddrs = {b1, b2, b3, b4, b5, b6, b7, b8}
  br_n_bufs = 4
  cq_depth = 1
  Fds = {inbound, outbound}
  MaxPkts = 2
  Faults = {"bad"}
  NULL = NULL
  Pick <- AnyOne
  in_fd = inbound
  out_fd = outbound
INVARIANTS
  SurvivesBadPacket
