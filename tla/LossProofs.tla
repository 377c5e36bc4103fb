----------------------------- MODULE LossProofs -----------------------------
(***************************************************************************)
(* What the steps of packet_handler.c and of the kernel lose: nothing,     *)
(* unless wait_for_recv returns NULL.  Every lemma is about one step, in   *)
(* any program it is part of.                                              *)
(***************************************************************************)
EXTENDS PacketHandlerProofs

(* A step loses nothing: operations and buffers are kept, no ring buffer   *)
(* gets stranded, and the receives stay.                                   *)
Keeps ==
  /\ Kept'
  /\ Stranded' \subseteq Stranded
  /\ \A o \in Ops : op[o].is_multi => op'[o].is_multi /\ op'[o].fd = op[o].fd

(* The program moves on, and drops what is in hand only between packets.   *)
Careful ==
  \/ pc' = pc /\ hand' = hand
  \/ pc = "handle" /\ hand # NULL /\ pc' = "release" /\ hand' = hand
  \/ /\ pc \notin {"handle", "release"} /\ pc' \notin {"handle", "release"}
     /\ hand' \in {hand, NULL}

-----------------------------------------------------------------------------
(* After iouring_init everything is free.                                  *)
LEMMA InitKept ==
  ASSUME iouring_init
  PROVE  Kept /\ Stranded = {}
<1>1. /\ io_op_pool = Ops /\ buf_addr_pool = BufAddrs /\ br = RingBufs
      /\ \A o \in Ops : op[o] = Zeroed
  BY DEF iouring_init, iouring_alloc_io_op_pool, iouring_alloc_buf_addr_pool,
     iouring_alloc_multishot_buffers
<1>2. \A o \in Ops : ~op[o].is_multi
  BY <1>1, Fields
<1> QED
  BY <1>1, <1>2 DEF Kept, Stranded, InUse

(* iouring_cqe_seen, from the side of the entries that were there before.  *)
LEMMA QueueMovesUp ==
  ASSUME HandlerInv, Completion
  PROVE  /\ cqe = cq[1] /\ 1 \in CqIndex /\ Len(cq) \in Nat
         /\ \A i \in CqIndex \ {1} : i - 1 \in CqIndex' /\ cq'[i - 1] = cq[i]
<1>1. cq \in Seq(Cqe) /\ cq # <<>> /\ cq' = Tail(cq)
  BY DEF HandlerInv, HandlerTypeOK, UringTypeOK, Completion
<1>2. /\ cqe = cq[1] /\ 1 \in CqIndex /\ Len(cq) \in Nat /\ Len(cq') = Len(cq) - 1
      /\ \A i \in 1 .. Len(cq') : cq'[i] = cq[i + 1]
  BY <1>1, TailFacts DEF cqe, CqIndex
<1>3. \A i \in CqIndex \ {1} : i - 1 \in CqIndex'
  BY <1>2 DEF CqIndex
<1>4. ASSUME NEW i \in CqIndex \ {1} PROVE cq'[i - 1] = cq[i]
  <2>1. i - 1 \in 1 .. Len(cq') /\ (i - 1) + 1 = i
    BY <1>2 DEF CqIndex
  <2> QED
    BY <1>2, <2>1
<1> QED
  BY <1>2, <1>3, <1>4

(* What every step of the kernel does to the two queues and to the ring.   *)
LEMMA KernelFacts ==
  ASSUME HandlerInv, Kernel
  PROVE  \E o \in inflight, e \in Cqe :
           /\ cq' = Append(cq, e) /\ e.op = o
           /\ inflight' = IF e.more THEN inflight ELSE inflight \ {o}
           /\ br' = br \ {e.buf}
           /\ UNCHANGED <<io_op_pool, buf_addr_pool, op>>
           /\ e.buf # NO_BUF => op[o].is_multi
<1>1. PICK o \in inflight :
        \/ KRecv(o) \/ KNoBufs(o) \/ KRecvEnd(o) \/ KRead(o)
        \/ KWrite(o) \/ KNoDest(o) \/ KError(o)
  BY DEF Kernel
<1>2. o \in Ops /\ br \subseteq RingBufs /\ NO_BUF \notin br
  BY UringAssumption DEF HandlerInv, HandlerTypeOK, UringTypeOK, NO_BUF, RingBufs
<1>3. CASE KRecv(o)
  <2>1. PICK i \in Pick(br), more \in BOOLEAN, res \in RecvResults :
          br' = br \ {i} /\ Complete(o, res, i, more)
    BY <1>3 DEF KRecv
  <2>2. i \in RingBufs
    BY <1>2, PickFacts DEF HandlerInv
  <2> DEFINE e == [op |-> o, res |-> res, buf |-> i, more |-> more]
  <2>3. e \in Cqe /\ e.op = o /\ e.more = more /\ e.buf = i
    BY <1>2, <2>2 DEF Cqe, RecvResults
  <2>4. cq' = Append(cq, e) /\ inflight' = IF e.more THEN inflight ELSE inflight \ {o}
    BY <2>1 DEF Complete
  <2>5. op[o].is_multi /\ UNCHANGED <<io_op_pool, buf_addr_pool, op>>
    BY <1>3 DEF KRecv
  <2> HIDE DEF e
  <2> QED
    BY <2>1, <2>3, <2>4, <2>5
<1>4. CASE ~KRecv(o)
  <2>1. PICK res \in {"ok", "empty", "err"} : Complete(o, res, NO_BUF, FALSE)
    BY <1>1, <1>4 DEF KNoBufs, KRecvEnd, KRead, KWrite, KNoDest, KError, RecvResults
  <2>2. UNCHANGED <<io_op_pool, buf_addr_pool, op, br>>
    BY <1>1, <1>4 DEF KNoBufs, KRecvEnd, KRead, KWrite, KNoDest, KError, poolVars
  <2> DEFINE e == [op |-> o, res |-> res, buf |-> NO_BUF, more |-> FALSE]
  <2>3. e \in Cqe /\ e.op = o /\ ~e.more /\ e.buf = NO_BUF
    BY <1>2 DEF Cqe
  <2>4. cq' = Append(cq, e) /\ inflight' = inflight \ {o}
    BY <2>1 DEF Complete
  <2> HIDE DEF e
  <2> QED
    BY <1>2, <2>2, <2>3, <2>4
<1> QED
  BY <1>3, <1>4

(* The kernel loses nothing.                                               *)
LEMMA KernelKeeps ==
  ASSUME HandlerInv, Kept, Kernel, UNCHANGED loopVars
  PROVE  Keeps
<1>1. PICK o \in inflight, e \in Cqe :
        /\ cq' = Append(cq, e) /\ e.op = o
        /\ inflight' = IF e.more THEN inflight ELSE inflight \ {o}
        /\ br' = br \ {e.buf}
        /\ UNCHANGED <<io_op_pool, buf_addr_pool, op>>
  BY KernelFacts
<1>2. /\ Len(cq) \in Nat
      /\ CqIndex' = CqIndex \cup {Len(cq) + 1}
      /\ \A i \in CqIndex : cq'[i] = cq[i]
      /\ cq'[Len(cq) + 1] = e
  BY <1>1, AppendFacts DEF CqIndex, HandlerInv, HandlerTypeOK, UringTypeOK
<1>3. UNCHANGED <<pc, hand>>
  BY DEF loopVars
<1>4. Kept'
  <2>1. \A p \in Ops : op'[p].is_multi =>
          p \in inflight' \/ \E i \in CqIndex' : cq'[i].op = p /\ ~cq'[i].more
    <3> SUFFICES ASSUME NEW p \in Ops, op[p].is_multi, p \notin inflight'
                 PROVE  \E i \in CqIndex' : cq'[i].op = p /\ ~cq'[i].more
      BY <1>1
    <3>1. CASE p \in inflight
      BY <1>1, <1>2, <3>1
    <3>2. CASE p \notin inflight
      <4>1. PICK i \in CqIndex : cq[i].op = p /\ ~cq[i].more
        BY <3>2 DEF Kept
      <4> QED
        BY <1>2, <4>1
    <3> QED
      BY <3>1, <3>2
  <2>2. \A p \in Ops : ~op'[p].is_multi =>
          p \in io_op_pool' \cup inflight' \cup Queued' \cup {hand'}
    <3>1. Queued \subseteq Queued' /\ o \in Queued'
      BY <1>1, <1>2 DEF Queued
    <3> QED
      BY <1>1, <1>3, <3>1 DEF Kept
  <2>3. BufAddrs \subseteq buf_addr_pool' \cup {op'[p].buf_addr : p \in Ops}
    BY <1>1 DEF Kept
  <2> QED
    BY <2>1, <2>2, <2>3 DEF Kept
<1>5. Stranded' \subseteq Stranded
  BY <1>1, <1>2, <1>3 DEF Stranded, InUse
<1> QED
  BY <1>1, <1>4, <1>5 DEF Keeps

(* Moving on carefully loses nothing.                                      *)
LEMMA PlainKeeps ==
  ASSUME HandlerInv, Kept, Careful, UNCHANGED <<poolVars, kernelVars>>
  PROVE  Keeps
<1>1. UNCHANGED <<io_op_pool, buf_addr_pool, br, op, inflight, cq>>
      /\ CqIndex' = CqIndex /\ Queued' = Queued
  BY DEF poolVars, kernelVars, CqIndex, Queued
<1>2. \A o \in Ops : ~op[o].is_multi /\ o = hand => hand' = hand
  BY UringAssumption DEF Careful, HandlerInv, Bookkeeping
<1>3. Kept'
  BY <1>1, <1>2 DEF Kept
<1>4. Stranded' \subseteq Stranded
  BY <1>1 DEF Stranded, InUse, Careful
<1> QED
  BY <1>1, <1>3, <1>4 DEF Keeps

(* io_op_free of the packet in hand gives back all it has.                 *)
LEMMA FreeHandKeeps ==
  ASSUME HandlerInv, Kept, pc \in {"handle", "release"}, hand # NULL,
         io_op_free(hand), UNCHANGED kernelVars,
         pc' \notin {"handle", "release"}
  PROVE  Keeps
<1>1. /\ hand \in Ops /\ hand \notin io_op_pool /\ op[hand] \in OpRecord
      /\ op \in [Ops -> OpRecord]
      /\ op[hand].is_multi => op[hand].buf_idx # NO_BUF /\ op[hand].buf_addr = NULL
      /\ op[hand].buf_addr # NULL => op[hand].buf_idx = NO_BUF
      /\ NULL \notin BufAddrs /\ NO_BUF \notin RingBufs /\ DO_NOT_FREE \notin RingBufs
  BY UringAssumption DEF HandlerInv, HandlerTypeOK, UringTypeOK, OpExclusive,
     BufExclusive, Bookkeeping, NO_BUF, DO_NOT_FREE, RingBufs, Buffers
<1>2. UNCHANGED <<inflight, cq>> /\ CqIndex' = CqIndex /\ Queued' = Queued
  BY DEF kernelVars, CqIndex, Queued
<1>3. /\ \A p \in Ops \ {hand} : op'[p] = op[p]
      /\ op[hand].is_multi => op'[hand].is_multi /\ io_op_pool' = io_op_pool
           /\ buf_addr_pool' = buf_addr_pool /\ op'[hand].fd = op[hand].fd
           /\ op'[hand].buf_addr = NULL
           /\ br' = br \cup ({op[hand].buf_idx} \cap RingBufs)
      /\ ~op[hand].is_multi => op'[hand] = Zeroed /\ io_op_pool' = io_op_pool \cup {hand}
           /\ buf_addr_pool' = buf_addr_pool \cup ({op[hand].buf_addr} \ {NULL})
           /\ br' = br \cup ({op[hand].buf_idx} \cap RingBufs)
  <2>1. CASE op[hand].is_multi /\ op[hand].buf_idx \in RingBufs /\ iouring_recycle_buffer(hand)
    <3>1. /\ op' = [op EXCEPT ![hand] = Recycled(op[hand])] /\ br' = br \cup {op[hand].buf_idx}
          /\ UNCHANGED <<io_op_pool, buf_addr_pool>>
      BY <2>1 DEF iouring_recycle_buffer
    <3>2. /\ Recycled(op[hand]).is_multi /\ Recycled(op[hand]).fd = op[hand].fd
          /\ Recycled(op[hand]).buf_addr = op[hand].buf_addr
      BY <1>1, <2>1, MovedFields
    <3> QED
      BY <1>1, <2>1, <3>1, <3>2
  <2>2. CASE op[hand].is_multi /\ op[hand].buf_idx = DO_NOT_FREE /\ UNCHANGED poolVars
    BY <1>1, <2>2 DEF poolVars
  <2>3. CASE ~op[hand].is_multi /\ ReturnBuf(op[hand]) /\ iouring_put_io_op(hand)
    <3>1. /\ io_op_pool' = io_op_pool \cup {hand} /\ op' = [op EXCEPT ![hand] = Zeroed]
          /\ buf_addr_pool' = buf_addr_pool \cup ({op[hand].buf_addr} \ {NULL})
          /\ br' = br \cup (IF op[hand].buf_addr = NULL
                             THEN {op[hand].buf_idx} \cap RingBufs ELSE {})
      BY <2>3 DEF ReturnBuf, iouring_put_io_op
    <3>2. br' = br \cup ({op[hand].buf_idx} \cap RingBufs)
      BY <1>1, <3>1
    <3> QED
      BY <1>1, <2>3, <3>1, <3>2
  <2> QED
    BY <1>1, <2>1, <2>2, <2>3 DEF io_op_free
<1>4. ~Zeroed.is_multi
  BY Fields
<1>5. Kept'
  <2>1. \A p \in Ops : op'[p].is_multi =>
          p \in inflight' \/ \E i \in CqIndex' : cq'[i].op = p /\ ~cq'[i].more
    BY <1>2, <1>3, <1>4 DEF Kept
  <2>2. \A p \in Ops : ~op'[p].is_multi =>
          p \in io_op_pool' \cup inflight' \cup Queued' \cup {hand'}
    BY <1>2, <1>3 DEF Kept
  <2>3. BufAddrs \subseteq buf_addr_pool' \cup {op'[p].buf_addr : p \in Ops}
    <3> SUFFICES ASSUME NEW b \in BufAddrs, b \notin buf_addr_pool'
                 PROVE  \E p \in Ops : op'[p].buf_addr = b
      OBVIOUS
    <3>1. b \notin buf_addr_pool
      BY <1>3
    <3>2. PICK p \in Ops : op[p].buf_addr = b
      BY <3>1 DEF Kept
    <3> QED
      BY <1>1, <1>3, <3>2
  <2> QED
    BY <2>1, <2>2, <2>3 DEF Kept
<1>6. Stranded' \subseteq Stranded
  <2> SUFFICES ASSUME NEW b \in RingBufs, InUse(b) PROVE InUse(b)'
    BY DEF Stranded
  <2>1. CASE b \in br \/ \E i \in CqIndex : cq[i].buf = b
    BY <1>2, <1>3, <2>1 DEF InUse
  <2>2. CASE op[hand].buf_idx = b
    BY <1>3, <2>2 DEF InUse
  <2>3. CASE \E p \in Ops \ {hand} : op[p].buf_idx = b /\ ~op[p].is_multi
    BY <1>3, <2>3 DEF InUse
  <2> QED
    BY <2>1, <2>2, <2>3 DEF InUse
<1> QED
  BY <1>3, <1>5, <1>6 DEF Keeps

(* A request with a fresh operation and a fresh buffer loses nothing.      *)
LEMMA NewRequestKeeps ==
  ASSUME HandlerInv, Kept, Careful,
         NEW o \in Pick(io_op_pool), NEW b \in Pick(buf_addr_pool),
         NEW R \in OpRecord, ~R.is_multi, R.buf_addr = b,
         io_op_pool' = io_op_pool \ {o},
         buf_addr_pool' = buf_addr_pool \ {b},
         op' = [op EXCEPT ![o] = R],
         inflight' = inflight \cup {o},
         UNCHANGED <<br, cq>>
  PROVE  Keeps
<1>1. CqIndex' = CqIndex /\ Queued' = Queued
  BY DEF CqIndex, Queued
<1>2. /\ o \in io_op_pool /\ o \in Ops /\ op \in [Ops -> OpRecord] /\ o # hand
      /\ op[o] = Zeroed /\ NULL \notin BufAddrs /\ NO_BUF \notin RingBufs
  BY FreshOp, Distinct DEF HandlerInv, HandlerTypeOK, UringTypeOK
<1>3. ~op[o].is_multi /\ op[o].buf_addr = NULL /\ op[o].buf_idx = NO_BUF
  BY <1>2, Fields
<1>4. op'[o] = R /\ \A p \in Ops \ {o} : op'[p] = op[p]
  BY <1>2
<1>5. \A p \in Ops : ~op[p].is_multi /\ p = hand => hand' = hand
  BY UringAssumption DEF Careful, HandlerInv, Bookkeeping
<1>6. Kept'
  <2>1. \A p \in Ops : op'[p].is_multi =>
          p \in inflight' \/ \E i \in CqIndex' : cq'[i].op = p /\ ~cq'[i].more
    BY <1>1, <1>4 DEF Kept
  <2>2. \A p \in Ops : ~op'[p].is_multi =>
          p \in io_op_pool' \cup inflight' \cup Queued' \cup {hand'}
    BY <1>1, <1>4, <1>5 DEF Kept
  <2>3. BufAddrs \subseteq buf_addr_pool' \cup {op'[p].buf_addr : p \in Ops}
    <3> SUFFICES ASSUME NEW c \in BufAddrs, c \notin buf_addr_pool'
                 PROVE  \E p \in Ops : op'[p].buf_addr = c
      OBVIOUS
    <3>1. CASE c = b
      BY <1>2, <1>4, <3>1
    <3>2. CASE c # b
      <4>1. PICK p \in Ops : op[p].buf_addr = c
        BY <3>2 DEF Kept
      <4> QED
        BY <1>2, <1>3, <1>4, <4>1
    <3> QED
      BY <3>1, <3>2
  <2> QED
    BY <2>1, <2>2, <2>3 DEF Kept
<1>7. Stranded' \subseteq Stranded
  BY <1>1, <1>2, <1>3, <1>4 DEF Stranded, InUse, Careful
<1> QED
  BY <1>3, <1>4, <1>6, <1>7 DEF Keeps

(* Nor does starting a multishot receive, which is then there.             *)
LEMMA InitialRecvKeeps ==
  ASSUME HandlerInv, Kept, NEW fd \in Fds, iouring_initial_udp_recvs(fd),
         pc \notin {"handle", "release"}, pc' \notin {"handle", "release"},
         UNCHANGED hand
  PROVE  Keeps /\ \E o \in Ops : op'[o].is_multi /\ op'[o].fd = fd
<1> DEFINE R == MultiOp("UDP_RECV", fd)
<1>1. PICK o \in Pick(io_op_pool) :
        /\ io_op_pool' = io_op_pool \ {o}
        /\ op' = [op EXCEPT ![o] = R]
        /\ inflight' = inflight \cup {o}
  BY DEF iouring_initial_udp_recvs
<1>2. UNCHANGED <<buf_addr_pool, br, cq>> /\ CqIndex' = CqIndex /\ Queued' = Queued
  BY DEF iouring_initial_udp_recvs, CqIndex, Queued
<1>3. R.is_multi /\ R.fd = fd
  BY Fields
<1> HIDE DEF R
<1>4. /\ o \in io_op_pool /\ o \in Ops /\ op \in [Ops -> OpRecord] /\ o # hand
      /\ op[o] = Zeroed /\ NULL \notin BufAddrs /\ NO_BUF \notin RingBufs
  BY FreshOp, Distinct DEF HandlerInv, HandlerTypeOK, UringTypeOK
<1>5. ~op[o].is_multi /\ op[o].buf_addr = NULL /\ op[o].buf_idx = NO_BUF
  BY <1>4, Fields
<1>6. op'[o] = R /\ \A p \in Ops \ {o} : op'[p] = op[p]
  BY <1>1, <1>4
<1>7. Kept'
  <2>1. \A p \in Ops : op'[p].is_multi =>
          p \in inflight' \/ \E i \in CqIndex' : cq'[i].op = p /\ ~cq'[i].more
    BY <1>1, <1>2, <1>6 DEF Kept
  <2>2. \A p \in Ops : ~op'[p].is_multi =>
          p \in io_op_pool' \cup inflight' \cup Queued' \cup {hand'}
    BY <1>1, <1>2, <1>6 DEF Kept
  <2>3. BufAddrs \subseteq buf_addr_pool' \cup {op'[p].buf_addr : p \in Ops}
    BY <1>2, <1>4, <1>5, <1>6 DEF Kept
  <2> QED
    BY <2>1, <2>2, <2>3 DEF Kept
<1>8. Stranded' \subseteq Stranded
  BY <1>2, <1>4, <1>5, <1>6 DEF Stranded, InUse
<1> QED
  BY <1>3, <1>4, <1>5, <1>6, <1>7, <1>8 DEF Keeps

-----------------------------------------------------------------------------
(***************************************************************************)
(* wait_for_recv.                                                          *)
(***************************************************************************)

(* A finished send is freed with its buffer.                               *)
LEMMA WaitSentKeeps ==
  ASSUME HandlerInv, Kept, WaitSent
  PROVE  Keeps
<1> DEFINE o == cqe.op
<1>1. Completion /\ io_op_free(o) /\ IsSend(o) /\ UNCHANGED <<inflight, pc, hand>>
      /\ pc = "wait"
  BY DEF WaitSent, loopVars, Completion
<1>2. /\ o \in Ops /\ o \notin io_op_pool /\ ~op[o].is_multi /\ o # hand
      /\ op \in [Ops -> OpRecord]
      /\ op[o].buf_addr # NULL => op[o].buf_idx = NO_BUF
  BY <1>1, SeenEntry DEF IsSend, HandlerInv, HandlerTypeOK, UringTypeOK, Bookkeeping,
     BufExclusive
<1>3. cqe = cq[1] /\ 1 \in CqIndex /\ Len(cq) \in Nat
      /\ \A i \in CqIndex \ {1} : i - 1 \in CqIndex' /\ cq'[i - 1] = cq[i]
  BY <1>1, QueueMovesUp
<1> HIDE DEF o
<1>4. /\ io_op_pool' = io_op_pool \cup {o} /\ op'[o] = Zeroed
      /\ \A p \in Ops \ {o} : op'[p] = op[p]
      /\ buf_addr_pool' = buf_addr_pool \cup ({op[o].buf_addr} \ {NULL})
      /\ br' = br \cup ({op[o].buf_idx} \cap RingBufs)
  BY <1>1, <1>2, Distinct DEF io_op_free, ReturnBuf, iouring_put_io_op
<1>5. ~Zeroed.is_multi /\ (cqe.buf = NO_BUF)
  <2>1. cq[1].buf # NO_BUF => op[cq[1].op].is_multi
    BY <1>3 DEF HandlerInv, Bookkeeping
  <2> QED
    BY <1>2, <1>3, <2>1, Fields DEF o
<1>6. Kept'
  <2>1. \A p \in Ops : op'[p].is_multi =>
          p \in inflight' \/ \E i \in CqIndex' : cq'[i].op = p /\ ~cq'[i].more
    <3> SUFFICES ASSUME NEW p \in Ops, op'[p].is_multi, p \notin inflight'
                 PROVE  \E i \in CqIndex' : cq'[i].op = p /\ ~cq'[i].more
      OBVIOUS
    <3>1. p # o /\ op[p].is_multi
      BY <1>4, <1>5
    <3>2. PICK i \in CqIndex : cq[i].op = p /\ ~cq[i].more
      BY <1>1, <3>1 DEF Kept
    <3> QED
      BY <1>3, <3>1, <3>2 DEF o
  <2>2. \A p \in Ops : ~op'[p].is_multi =>
          p \in io_op_pool' \cup inflight' \cup Queued' \cup {hand'}
    <3> SUFFICES ASSUME NEW p \in Ops, p # o, ~op[p].is_multi
                 PROVE  p \in io_op_pool' \cup inflight' \cup Queued' \cup {hand'}
      BY <1>4
    <3>1. CASE p \in Queued
      <4>1. PICK i \in CqIndex : cq[i].op = p
        BY <3>1 DEF Queued
      <4> QED
        BY <1>3, <4>1 DEF o, Queued
    <3> QED
      BY <1>1, <1>4, <3>1 DEF Kept
  <2>3. BufAddrs \subseteq buf_addr_pool' \cup {op'[p].buf_addr : p \in Ops}
    <3> SUFFICES ASSUME NEW c \in BufAddrs, c \notin buf_addr_pool'
                 PROVE  \E p \in Ops : op'[p].buf_addr = c
      OBVIOUS
    <3>1. PICK p \in Ops : op[p].buf_addr = c
      BY <1>4 DEF Kept
    <3> QED
      BY <1>4, <3>1, Distinct
  <2> QED
    BY <2>1, <2>2, <2>3 DEF Kept
<1>7. Stranded' \subseteq Stranded
  <2> SUFFICES ASSUME NEW b \in RingBufs, InUse(b) PROVE InUse(b)'
    BY DEF Stranded
  <2>1. CASE \E i \in CqIndex : cq[i].buf = b
    BY <1>3, <1>5, <2>1, Distinct DEF InUse
  <2>2. CASE b \in br \/ op[o].buf_idx = b
    BY <1>4, <2>2 DEF InUse
  <2>3. CASE \E p \in Ops \ {o} : op[p].buf_idx = b /\ ~op[p].is_multi
    BY <1>4, <2>3 DEF InUse
  <2> QED
    BY <1>1, <2>1, <2>2, <2>3 DEF InUse
<1> QED
  BY <1>2, <1>4, <1>6, <1>7 DEF Keeps

(* A datagram is received: its buffer is now in hand, and the receive is   *)
(* still armed, or armed again, or will be.                                *)
LEMMA WaitRecvKeeps ==
  ASSUME HandlerInv, Kept, WaitRecv
  PROVE  Keeps
<1> DEFINE o == cqe.op
           R == Received(op[o], cqe.buf, DataLen)
<1>1. /\ Completion /\ op[o].is_multi
      /\ op' = [op EXCEPT ![o] = R]
      /\ inflight' = IF cqe.more THEN inflight ELSE inflight \cup {o}
      /\ UNCHANGED <<io_op_pool, buf_addr_pool, br>>
      /\ pc = "wait" /\ pc' = "handle" /\ hand' = o
  BY DEF WaitRecv, Return, Completion
<1>2. o \in Ops /\ op[o] \in OpRecord /\ op \in [Ops -> OpRecord]
  BY <1>1, SeenEntry DEF HandlerInv, HandlerTypeOK, UringTypeOK
<1>3. cqe = cq[1] /\ 1 \in CqIndex
      /\ \A i \in CqIndex \ {1} : i - 1 \in CqIndex' /\ cq'[i - 1] = cq[i]
  BY <1>1, QueueMovesUp
<1>4. R.is_multi = op[o].is_multi /\ R.fd = op[o].fd /\ R.buf_addr = op[o].buf_addr
      /\ R.buf_idx = cqe.buf
  <2> HIDE DEF o
  <2> QED
    BY <1>2, MovedFields
<1> HIDE DEF o, R
<1>5. op'[o] = R /\ \A p \in Ops \ {o} : op'[p] = op[p]
  BY <1>1, <1>2
<1>6. \A p \in Ops : /\ op'[p].is_multi = op[p].is_multi /\ op'[p].fd = op[p].fd
                     /\ op'[p].buf_addr = op[p].buf_addr
  BY <1>4, <1>5
<1>7. \A p \in Ops : ~op[p].is_multi => p # hand
  BY <1>1, Distinct DEF HandlerInv, Bookkeeping
<1>8. Kept'
  <2>1. \A p \in Ops : op'[p].is_multi =>
          p \in inflight' \/ \E i \in CqIndex' : cq'[i].op = p /\ ~cq'[i].more
    <3> SUFFICES ASSUME NEW p \in Ops, op[p].is_multi, p \notin inflight'
                 PROVE  \E i \in CqIndex' : cq'[i].op = p /\ ~cq'[i].more
      BY <1>6
    <3>1. PICK i \in CqIndex : cq[i].op = p /\ ~cq[i].more
      BY <1>1 DEF Kept
    <3>2. i # 1
      BY <1>1, <1>3, <3>1 DEF o
    <3> QED
      BY <1>3, <3>1, <3>2
  <2>2. \A p \in Ops : ~op'[p].is_multi =>
          p \in io_op_pool' \cup inflight' \cup Queued' \cup {hand'}
    <3> SUFFICES ASSUME NEW p \in Ops, p # o, ~op[p].is_multi
                 PROVE  p \in io_op_pool' \cup inflight' \cup Queued' \cup {hand'}
      BY <1>1, <1>6
    <3>1. CASE p \in Queued
      <4>1. PICK i \in CqIndex : cq[i].op = p
        BY <3>1 DEF Queued
      <4> QED
        BY <1>3, <4>1 DEF o, Queued
    <3> QED
      BY <1>1, <1>7, <3>1 DEF Kept
  <2>3. BufAddrs \subseteq buf_addr_pool' \cup {op'[p].buf_addr : p \in Ops}
    BY <1>1, <1>6 DEF Kept
  <2> QED
    BY <2>1, <2>2, <2>3 DEF Kept
<1>9. Stranded' \subseteq Stranded
  <2> SUFFICES ASSUME NEW b \in RingBufs, InUse(b) PROVE InUse(b)'
    BY DEF Stranded
  <2>1. CASE \E i \in CqIndex : cq[i].buf = b
    <3>1. PICK i \in CqIndex : cq[i].buf = b
      BY <2>1
    <3>2. CASE i = 1
      BY <1>1, <1>2, <1>3, <1>4, <1>5, <3>1, <3>2 DEF InUse
    <3>3. CASE i # 1
      BY <1>3, <3>1, <3>3 DEF InUse
    <3> QED
      BY <3>2, <3>3
  <2>2. CASE b \in br
    BY <1>1, <2>2 DEF InUse
  <2>3. CASE \E p \in Ops : op[p].buf_idx = b /\ ~op[p].is_multi
    BY <1>1, <1>5, <2>3 DEF InUse
  <2> QED
    BY <1>1, <2>1, <2>2, <2>3 DEF InUse
<1> QED
  BY <1>6, <1>8, <1>9 DEF Keeps

(* A read is finished: the new one has a new buffer, and the finished one  *)
(* is in hand with its own.                                                *)
LEMMA WaitReadKeeps ==
  ASSUME HandlerInv, Kept, WaitRead
  PROVE  Keeps
<1> DEFINE o == cqe.op
           R == [op[o] EXCEPT !.data_len = DataLen]
<1>1. /\ Completion /\ ~op[o].is_multi /\ br' = br
      /\ pc = "wait" /\ pc' = "handle" /\ hand' = o
  BY DEF WaitRead, Return, Completion
<1>2. PICK n \in Pick(io_op_pool), b \in Pick(buf_addr_pool) :
        /\ io_op_pool' = io_op_pool \ {n}
        /\ buf_addr_pool' = buf_addr_pool \ {b}
        /\ op' = [op EXCEPT ![n] = SingleOp(op[o].op_type, op[o].fd, b), ![o] = R]
        /\ inflight' = inflight \cup {n}
  BY DEF WaitRead
<1> DEFINE N == SingleOp(op[o].op_type, op[o].fd, b)
<1>3. /\ o \in Ops /\ o \notin io_op_pool /\ op[o] \in OpRecord
      /\ op \in [Ops -> OpRecord]
  BY <1>1, SeenEntry DEF HandlerInv, HandlerTypeOK, UringTypeOK
<1>4. cqe = cq[1] /\ 1 \in CqIndex
      /\ \A i \in CqIndex \ {1} : i - 1 \in CqIndex' /\ cq'[i - 1] = cq[i]
  BY <1>1, QueueMovesUp
<1>5. /\ ~R.is_multi /\ R.buf_addr = op[o].buf_addr /\ R.buf_idx = op[o].buf_idx
      /\ ~N.is_multi /\ N.buf_addr = b
  <2> HIDE DEF o
  <2> QED
    BY <1>1, <1>3, MovedFields, Fields
<1>6. /\ n \in Ops /\ n \in io_op_pool /\ ~op[n].is_multi
      /\ op[n].buf_addr = NULL /\ op[n].buf_idx = NO_BUF
  BY FreshOp
<1> HIDE DEF o, R, N
<1>7. op'[o] = R /\ op'[n] = N /\ \A p \in Ops \ {o, n} : op'[p] = op[p]
  BY <1>2, <1>3, <1>6 DEF N
<1>8. \A p \in Ops : ~op[p].is_multi => p # hand
  BY <1>1, Distinct DEF HandlerInv, Bookkeeping
<1>9. Kept'
  <2>1. \A p \in Ops : op'[p].is_multi =>
          p \in inflight' \/ \E i \in CqIndex' : cq'[i].op = p /\ ~cq'[i].more
    <3> SUFFICES ASSUME NEW p \in Ops, op'[p].is_multi, p \notin inflight'
                 PROVE  \E i \in CqIndex' : cq'[i].op = p /\ ~cq'[i].more
      OBVIOUS
    <3>1. p # o /\ op[p].is_multi
      BY <1>5, <1>7
    <3>2. PICK i \in CqIndex : cq[i].op = p /\ ~cq[i].more
      BY <1>2, <3>1 DEF Kept
    <3> QED
      BY <1>4, <3>1, <3>2 DEF o
  <2>2. \A p \in Ops : ~op'[p].is_multi =>
          p \in io_op_pool' \cup inflight' \cup Queued' \cup {hand'}
    <3> SUFFICES ASSUME NEW p \in Ops, p # o, p # n, ~op[p].is_multi
                 PROVE  p \in io_op_pool' \cup inflight' \cup Queued' \cup {hand'}
      BY <1>1, <1>2, <1>7
    <3>1. CASE p \in Queued
      <4>1. PICK i \in CqIndex : cq[i].op = p
        BY <3>1 DEF Queued
      <4> QED
        BY <1>4, <4>1 DEF o, Queued
    <3> QED
      BY <1>2, <1>8, <3>1 DEF Kept
  <2>3. BufAddrs \subseteq buf_addr_pool' \cup {op'[p].buf_addr : p \in Ops}
    <3> SUFFICES ASSUME NEW c \in BufAddrs, c \notin buf_addr_pool'
                 PROVE  \E p \in Ops : op'[p].buf_addr = c
      OBVIOUS
    <3>1. CASE c = b
      BY <1>5, <1>6, <1>7, <3>1
    <3>2. CASE c # b
      <4>1. PICK p \in Ops : op[p].buf_addr = c
        BY <1>2, <3>2 DEF Kept
      <4> QED
        BY <1>5, <1>6, <1>7, <4>1, Distinct
    <3> QED
      BY <3>1, <3>2
  <2> QED
    BY <2>1, <2>2, <2>3 DEF Kept
<1>10. Stranded' \subseteq Stranded
  <2> SUFFICES ASSUME NEW c \in RingBufs, InUse(c) PROVE InUse(c)'
    BY DEF Stranded
  <2>1. CASE \E i \in CqIndex : cq[i].buf = c
    <3>1. cq[1].buf = NO_BUF
      BY <1>1, <1>4 DEF o, HandlerInv, Bookkeeping
    <3> QED
      BY <1>4, <2>1, <3>1, Distinct DEF InUse
  <2>2. CASE c \in br
    BY <1>1, <2>2 DEF InUse
  <2>3. CASE \E p \in Ops : op[p].buf_idx = c /\ ~op[p].is_multi
    <3>1. PICK p \in Ops : op[p].buf_idx = c /\ ~op[p].is_multi
      BY <2>3
    <3>2. op'[p].buf_idx = c /\ ~op'[p].is_multi
      BY <1>5, <1>6, <1>7, <3>1, Distinct
    <3> QED
      BY <3>2 DEF InUse
  <2> QED
    BY <1>1, <2>1, <2>2, <2>3 DEF InUse
<1>11. \A p \in Ops : op[p].is_multi => p # o /\ p # n
  BY <1>1, <1>6
<1> QED
  BY <1>7, <1>9, <1>10, <1>11 DEF Keeps

(* wait_for_recv loses nothing, or it returns NULL.                        *)
LEMMA WaitKeeps ==
  ASSUME HandlerInv, Kept, wait_for_recv
  PROVE  Keeps \/ (pc' = "handle" /\ hand' = NULL)
<1>1. CASE WaitSent
  BY <1>1, WaitSentKeeps
<1>2. CASE WaitRecv
  BY <1>2, WaitRecvKeeps
<1>3. CASE WaitRead
  BY <1>3, WaitReadKeeps
<1>4. CASE WaitFailed \/ WaitRecvFailed \/ WaitRecvNoBuf \/ WaitReadNoOp \/ WaitReadFailed
  BY <1>4 DEF WaitFailed, WaitRecvFailed, WaitRecvNoBuf, WaitReadNoOp, WaitReadFailed, Return
<1> QED
  BY <1>1, <1>2, <1>3, <1>4 DEF wait_for_recv

-----------------------------------------------------------------------------
(* Passing a packet on moves its buffer to the send, or gives it back.     *)
LEMMA ForwardKeeps ==
  ASSUME HandlerInv, Kept, pc = "handle", hand # NULL,
         NEW type \in {"UDP_SEND", "TUN_WRITE"}, NEW fd \in Fds,
         NEW a \in {0, 1}, Forward(type, fd, a)
  PROVE  Keeps
<1> DEFINE S == SendOp(type, fd, a)
           D == Disowned(op[hand])
<1>1. UNCHANGED <<hand, cq>> /\ pc' = "release" /\ CqIndex' = CqIndex /\ Queued' = Queued
  BY DEF Forward, CqIndex, Queued
<1>2. /\ hand \in Ops /\ op[hand] \in OpRecord /\ op \in [Ops -> OpRecord]
      /\ op[hand].is_multi => op[hand].buf_addr = NULL
      /\ op[hand].buf_addr # NULL => op[hand].buf_idx = NO_BUF
      /\ hand \notin io_op_pool
  BY DEF HandlerInv, HandlerTypeOK, UringTypeOK, Bookkeeping, BufExclusive, OpExclusive
<1>3. /\ ~S.is_multi
      /\ S.buf_addr = IF op[hand].is_multi THEN NULL ELSE op[hand].buf_addr
      /\ S.buf_idx = IF op[hand].is_multi THEN op[hand].buf_idx ELSE NO_BUF
  BY <1>2, MovedFields DEF SendOp
<1>4. /\ D.is_multi = op[hand].is_multi /\ D.fd = op[hand].fd
      /\ D.buf_addr = NULL
      /\ D.buf_idx = IF op[hand].is_multi THEN DO_NOT_FREE ELSE op[hand].buf_idx
  BY <1>2, MovedFields
<1> HIDE DEF S, D
<1>5. CASE Forwarded(type, fd, a)
  <2>1. PICK s \in Pick(io_op_pool) :
          /\ io_op_pool' = io_op_pool \ {s}
          /\ op' = [op EXCEPT ![s] = S, ![hand] = D]
          /\ inflight' = inflight \cup {s}
    BY <1>5 DEF Forwarded, S, D
  <2>2. UNCHANGED <<buf_addr_pool, br>>
    BY <1>5 DEF Forwarded
  <2>3. /\ s \in io_op_pool /\ s \in Ops /\ s # hand /\ ~op[s].is_multi
        /\ op[s].buf_addr = NULL /\ op[s].buf_idx = NO_BUF
    BY FreshOp
  <2>4. op'[s] = S /\ op'[hand] = D /\ \A p \in Ops \ {s, hand} : op'[p] = op[p]
    BY <1>2, <2>1, <2>3
  <2>5. Kept'
    <3>1. \A p \in Ops : op'[p].is_multi =>
            p \in inflight' \/ \E i \in CqIndex' : cq'[i].op = p /\ ~cq'[i].more
      BY <1>1, <1>3, <1>4, <2>1, <2>4 DEF Kept
    <3>2. \A p \in Ops : ~op'[p].is_multi =>
            p \in io_op_pool' \cup inflight' \cup Queued' \cup {hand'}
      BY <1>1, <2>1, <2>4 DEF Kept
    <3>3. BufAddrs \subseteq buf_addr_pool' \cup {op'[p].buf_addr : p \in Ops}
      <4> SUFFICES ASSUME NEW c \in BufAddrs, c \notin buf_addr_pool'
                   PROVE  \E p \in Ops : op'[p].buf_addr = c
        OBVIOUS
      <4>1. PICK p \in Ops : op[p].buf_addr = c
        BY <2>2 DEF Kept
      <4> QED
        BY <1>2, <1>3, <2>3, <2>4, <4>1, Distinct
    <3> QED
      BY <3>1, <3>2, <3>3 DEF Kept
  <2>6. Stranded' \subseteq Stranded
    <3> SUFFICES ASSUME NEW b \in RingBufs, InUse(b) PROVE InUse(b)'
      BY DEF Stranded
    <3>1. CASE b \in br \/ \E i \in CqIndex : cq[i].buf = b
      BY <1>1, <2>2, <3>1 DEF InUse
    <3>2. CASE op[hand].buf_idx = b
      BY <1>1, <1>2, <1>3, <1>4, <2>3, <2>4, <3>2 DEF InUse
    <3>3. CASE \E p \in Ops \ {hand} : op[p].buf_idx = b /\ ~op[p].is_multi
      <4>1. PICK p \in Ops \ {hand} : op[p].buf_idx = b /\ ~op[p].is_multi
        BY <3>3
      <4>2. p # s
        BY <2>3, <4>1, Distinct
      <4> QED
        BY <2>4, <4>1, <4>2 DEF InUse
    <3> QED
      BY <3>1, <3>2, <3>3 DEF InUse
  <2> QED
    BY <1>2, <1>4, <2>3, <2>4, <2>5, <2>6 DEF Keeps
<1>6. CASE ForwardNoOp
  <2>1. UNCHANGED <<poolVars, kernelVars>> /\ Careful
    BY <1>1, <1>6 DEF ForwardNoOp, kernelVars, Careful
  <2> QED
    BY <2>1, PlainKeeps
<1>7. CASE ForwardFailed(type, fd, a)
  <2>1. /\ buf_addr_pool' = buf_addr_pool \cup ({S.buf_addr} \ {NULL})
        /\ br' = br \cup (IF S.buf_addr = NULL THEN {S.buf_idx} \cap RingBufs ELSE {})
        /\ op' = [op EXCEPT ![hand] = D]
        /\ UNCHANGED <<io_op_pool, inflight>>
    BY <1>7 DEF ForwardFailed, ReturnBuf, S, D
  <2>2. op'[hand] = D /\ \A p \in Ops \ {hand} : op'[p] = op[p]
    BY <1>2, <2>1
  <2>3. Kept'
    <3>1. \A p \in Ops : op'[p].is_multi =>
            p \in inflight' \/ \E i \in CqIndex' : cq'[i].op = p /\ ~cq'[i].more
      BY <1>1, <1>4, <2>1, <2>2 DEF Kept
    <3>2. \A p \in Ops : ~op'[p].is_multi =>
            p \in io_op_pool' \cup inflight' \cup Queued' \cup {hand'}
      BY <1>1, <2>1, <2>2 DEF Kept
    <3>3. BufAddrs \subseteq buf_addr_pool' \cup {op'[p].buf_addr : p \in Ops}
      <4> SUFFICES ASSUME NEW c \in BufAddrs, c \notin buf_addr_pool'
                   PROVE  \E p \in Ops : op'[p].buf_addr = c
        OBVIOUS
      <4>1. PICK p \in Ops : op[p].buf_addr = c
        BY <2>1 DEF Kept
      <4> QED
        BY <1>2, <1>3, <2>1, <2>2, <4>1, Distinct
    <3> QED
      BY <3>1, <3>2, <3>3 DEF Kept
  <2>4. Stranded' \subseteq Stranded
    <3> SUFFICES ASSUME NEW b \in RingBufs, InUse(b) PROVE InUse(b)'
      BY DEF Stranded
    <3>1. CASE b \in br \/ \E i \in CqIndex : cq[i].buf = b
      BY <1>1, <2>1, <3>1 DEF InUse
    <3>2. CASE op[hand].buf_idx = b
      BY <1>1, <1>2, <1>3, <1>4, <2>1, <2>2, <3>2 DEF InUse
    <3>3. CASE \E p \in Ops \ {hand} : op[p].buf_idx = b /\ ~op[p].is_multi
      BY <2>2, <3>3 DEF InUse
    <3> QED
      BY <3>1, <3>2, <3>3 DEF InUse
  <2> QED
    BY <1>2, <1>4, <2>2, <2>3, <2>4 DEF Keeps
<1> QED
  BY <1>5, <1>6, <1>7 DEF Forward
=============================================================================
