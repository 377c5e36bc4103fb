SPECIFICATION FairSpec
CONSTANTS
  Ops = {o1, o2, o3, o4}
  BufAddrs = {b1, b2, b3, b4}
  br_n_bufs = 2
  cq_depth = 1
  Fds = {inbound, outbound}
  MaxPkts = 2
  Faults = {"late", "bad", "submit"}
  NULL = NULL
  Pick <- AnyOne
  in_fd = inbound
  out_fd = outbound
INVARIANTS
  ForwarderInv
  OpExclusive
  BufExclusive
  LossBounded
  BothListening
  NeverBoth
PROPERTIES
  ForwardingRelay
  Accounted
