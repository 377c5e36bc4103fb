-------------------------- MODULE ForwarderProofs --------------------------
(***************************************************************************)
(* Proofs about Forwarder, for every size of the pools, of the buffer ring *)
(* and of the completion queue, every number of packets, every set of      *)
(* faults and every policy of the free lists.                              *)
(***************************************************************************)
EXTENDS Forwarder, DtlsProofs, FiniteSetTheorems

(* The two connections.                                                    *)
LEMMA Connections ==
  /\ in_fd \in Fds /\ out_fd \in Fds /\ conn \in Fds
  /\ \A f \in Fds : Other(f) \in Fds /\ Other(f) # f
  /\ \A f, g \in Fds : f # g => f = Other(g)
  BY ForwarderAssumption DEF conn, Other

(* The forwarder starts in the invariant.                                  *)
LEMMA InitForwarderInv == Init => ForwarderInv
<1> SUFFICES ASSUME Init PROVE ForwarderInv
  OBVIOUS
<1>1. /\ iouring_init /\ hand = NULL /\ ret = 0 /\ pc = "init_in"
      /\ shaken = {} /\ dropped = {}
      /\ op = [o \in Ops |-> Zeroed]
  BY DEF Init, iouring_init, iouring_alloc_io_op_pool
<1>2. HandlerInv
  BY <1>1, InitHandlerInv
<1>3. Custody("converted")
  BY <1>1, InitCustody
<1>4. TypeOK
  BY <1>1, <1>2 DEF Init, TypeOK, HandlerInv, HandlerTypeOK
<1>5. OnlyMultishot
  BY <1>1, Fields DEF OnlyMultishot, IsRecv
<1>6. ServingInv
  <2>1. Kept /\ Stranded = {} /\ Cardinality({}) = 0
    BY <1>1, InitKept, FS_EmptySet
  <2> QED
    BY <1>1, <2>1 DEF ServingInv
<1> QED
  BY <1>1, <1>2, <1>3, <1>4, <1>5, <1>6 DEF ForwarderInv

-----------------------------------------------------------------------------
(***************************************************************************)
(* Operations, buffers and packets.                                        *)
(***************************************************************************)

(* The steps that change nothing but where the program is, or stop the     *)
(* kernel and empty the pools.                                             *)
Idle ==
  \/ InitialRecvsFailed \/ RunFailed \/ forwarder_destroy \/ ShakeOther
  \/ signal_handler \/ UNCHANGED vars

LEMMA IdleSteps ==
  ASSUME ForwarderInv, Idle
  PROVE  /\ Moves /\ UNCHANGED <<op, cq, dataVars>>
         /\ pc = "release" => UNCHANGED <<pc, hand>>
         /\ io_op_pool' \in {io_op_pool, {}} /\ buf_addr_pool' \in {buf_addr_pool, {}}
         /\ br' \in {br, {}} /\ inflight' \in {inflight, {}}
<1>1. ret \in {0, -1} /\ (hand # NULL => op[hand].is_multi)
  BY DEF ForwarderInv, OnlyMultishot, HandlerInv, HandlerTypeOK
<1>2. CASE InitialRecvsFailed
  BY <1>1, <1>2 DEF InitialRecvsFailed, Moves, poolVars
<1>3. CASE RunFailed
  BY <1>1, <1>3 DEF RunFailed, Moves, uringVars, poolVars, kernelVars
<1>4. CASE forwarder_destroy
  BY <1>1, <1>4 DEF forwarder_destroy, Moves
<1>5. CASE ShakeOther
  BY <1>1, <1>5 DEF ShakeOther, HandshakeOther, Moves, uringVars, poolVars, kernelVars
<1>6. CASE signal_handler
  BY <1>1, <1>6 DEF signal_handler, WaitInterrupted, Return, Moves, uringVars, poolVars,
     kernelVars, loopVars
<1>7. CASE UNCHANGED vars
  BY <1>1, <1>7 DEF vars, Moves, uringVars, poolVars, kernelVars, loopVars
<1> QED
  BY <1>2, <1>3, <1>4, <1>5, <1>6, <1>7 DEF Idle

(* What passing a packet on comes to.                                      *)
LEMMA ForwardSteps ==
  ASSUME ForwarderInv, forward_udp_packet
  PROVE  /\ pc = "handle" /\ hand # NULL /\ hand' = hand
         /\ op[hand].fd \in Fds /\ op[hand].is_multi
         /\ UNCHANGED <<connVars, running, history>>
         /\ \/ CopyFailed /\ pc' = "destroy"
            \/ /\ Copied("UDP_SEND", Other(op[hand].fd), addr_len[Other(op[hand].fd)])
               /\ pc' = "release"
<1>1. hand # NULL /\ hand \in Ops /\ op[hand].is_multi
  BY DEF forward_udp_packet, ForwarderInv, OnlyMultishot, HandlerInv, HandlerTypeOK
<1>2. op[hand] \in OpRecord /\ op[hand].fd # NULL
  BY <1>1 DEF ForwarderInv, HandlerInv, HandlerTypeOK, UringTypeOK, Bookkeeping
<1>3. op[hand].fd \in Fds
  BY <1>2 DEF OpRecord
<1>4. /\ CopyFailed => ret' = -1
      /\ Copied("UDP_SEND", Other(op[hand].fd), addr_len[Other(op[hand].fd)]) => ret' = 0
  BY DEF CopyFailed, Copied
<1> QED
  BY <1>1, <1>3, <1>4 DEF forward_udp_packet, dtls_encrypt_and_send_udp

(* Every step keeps operations and buffers apart, and packets as they are, *)
(* and does not bring back a packet that was finished with.                *)
LEMMA NextHandler ==
  ASSUME ForwarderInv, [Next]_vars PROVE HandlerInv' /\ Custody("converted")' /\ Lasting
<1>1. /\ HandlerInv /\ Custody("converted") /\ \A f \in Fds : addr_len[f] \in {0, 1}
      /\ pc = "release" => hand # NULL
  BY DEF ForwarderInv, TypeOK, HandlerInv, Bookkeeping
<1>2. CASE InitialRecvs
  <2>1. PICK fd \in Fds : iouring_initial_udp_recvs(fd)
    BY <1>2, Connections DEF InitialRecvs
  <2>2. /\ pc \notin {"handle", "release"} /\ pc' \notin {"handle", "release"}
        /\ UNCHANGED <<hand, ret>>
    BY <1>2 DEF InitialRecvs
  <2> QED
    BY <1>1, <2>1, <2>2, InitialRecvStep, InitialRecvCustody
<1>3. CASE Shake
  <2>1. \/ HandshakeWants(conn, addr_len[conn])
        \/ \E next \in {"shake", "wait", "new_tun"} : HandshakeDone(conn, addr_len[conn], next)
    BY <1>3 DEF Shake
  <2> QED
    BY <1>1, <2>1, Connections, ShakeStep
<1>4. CASE ShakeFailed
  BY <1>1, <1>4, Connections, ShakeFailedStep DEF ShakeFailed
<1>5. CASE ShakeRecv
  BY <1>1, <1>5, Connections, ShakeRecvStep DEF ShakeRecv
<1>6. CASE Wait
  BY <1>1, <1>6, WaitStep, WaitCustody DEF Wait
<1>7. CASE forward_udp_packet
  <2>1. CASE CopyFailed /\ pc' = "destroy"
    <3>1. /\ Moves /\ UNCHANGED <<op, cq, dataVars>>
          /\ UNCHANGED <<io_op_pool, buf_addr_pool, br, inflight>> /\ pc # "release"
      BY <1>7, <2>1, ForwardSteps DEF CopyFailed, Moves, uringVars, poolVars, kernelVars
    <3> QED
      BY <1>1, <3>1, PlainStep, PlainCustody
  <2>2. CASE /\ Copied("UDP_SEND", Other(op[hand].fd), addr_len[Other(op[hand].fd)])
             /\ pc' = "release"
    <3>1. /\ pc = "handle" /\ hand # NULL /\ hand' = hand
          /\ Other(op[hand].fd) \in Fds /\ Other(op[hand].fd) # op[hand].fd
      BY <1>7, ForwardSteps, Connections
    <3> QED
      BY <1>1, <2>2, <3>1, CopiedStep
  <2> QED
    BY <1>7, <2>1, <2>2, ForwardSteps
<1>8. CASE Release
  BY <1>1, <1>8, FreeHandStep, FreeHandCustody DEF Release
<1>9. CASE Idle
  <2>1. /\ Moves /\ UNCHANGED <<op, cq, dataVars>>
        /\ pc = "release" => UNCHANGED <<pc, hand>>
        /\ io_op_pool' \in {io_op_pool, {}} /\ buf_addr_pool' \in {buf_addr_pool, {}}
        /\ br' \in {br, {}} /\ inflight' \in {inflight, {}}
    BY <1>9, IdleSteps
  <2> QED
    BY <1>1, <2>1, PlainStep, PlainCustody
<1>10. CASE Kern
  BY <1>1, <1>10, KernelStep, KernelCustody DEF Kern
<1> QED
  BY <1>2, <1>3, <1>4, <1>5, <1>6, <1>7, <1>8, <1>9, <1>10
     DEF Next, Program, Idle, Ended

(* What a handshake uses up or drops is the packet in hand, and it is      *)
(* finished with.                                                          *)
LEMMA NextHistory ==
  ASSUME ForwarderInv, [Next]_vars
  PROVE  (shaken \cup dropped)' \subseteq Finished'
<1>1. HandlerInv /\ Custody("converted") /\ shaken \cup dropped \subseteq Finished
  BY DEF ForwarderInv
<1>2. shaken \cup dropped \subseteq Finished'
  BY <1>1, NextHandler DEF Lasting
<1>3. Held = InHandNow
  BY DEF Held, InHandNow
<1>4. CASE ShakeRecv
  <2>1. Drops /\ pc = "handle" /\ hand # NULL /\ pc' = "shake"
    BY <1>1, <1>4, Connections, ShakeRecvStep DEF ShakeRecv
  <2>2. Held \in Finished'
    BY <1>3, <2>1 DEF Drops
  <2> QED
    BY <1>2, <1>4, <2>2 DEF ShakeRecv
<1>5. CASE ShakeOther
  <2>1. /\ Moves /\ UNCHANGED <<op, cq, dataVars>>
        /\ pc = "release" => UNCHANGED <<pc, hand>>
        /\ inflight' \in {inflight, {}}
    BY <1>5, IdleSteps DEF Idle
  <2>2. Drops /\ pc = "handle" /\ hand # NULL /\ pc' = "shake"
    BY <1>1, <1>5, <2>1, PlainCustody DEF ShakeOther, HandshakeOther
  <2>3. Held \in Finished'
    BY <1>3, <2>2 DEF Drops
  <2> QED
    BY <1>2, <1>5, <2>3 DEF ShakeOther
<1>6. CASE ~ShakeRecv /\ ~ShakeOther
  <2>1. UNCHANGED history
    BY <1>6 DEF Next, Program, InitialRecvs, InitialRecvsFailed, Shake, ShakeFailed, Wait,
       RunFailed, forward_udp_packet, Release, forwarder_destroy, signal_handler, Kern, Ended,
       vars
  <2> QED
    BY <1>2, <2>1 DEF history
<1> QED
  BY <1>4, <1>5, <1>6

-----------------------------------------------------------------------------
(***************************************************************************)
(* Types and kinds of operations.                                          *)
(***************************************************************************)

(* Every step keeps the state in its type.                                 *)
LEMMA NextTypeOK == ASSUME ForwarderInv, [Next]_vars PROVE TypeOK'
<1>1. UringTypeOK' /\ hand' \in Ops \cup {NULL}
  BY NextHandler DEF HandlerInv, HandlerTypeOK
<1>2. (shaken \cup dropped)' \subseteq Fds \X (1 .. MaxPkts)
  BY NextHistory DEF Finished
<1>3. TypeOK /\ conn \in Fds
  BY Connections DEF ForwarderInv
<1> USE DEF TypeOK
<1>4. CASE InitialRecvs \/ InitialRecvsFailed
  BY <1>1, <1>2, <1>3, <1>4 DEF InitialRecvs, InitialRecvsFailed, connVars
<1>5. CASE Shake
  <2>1. conn_state' \in [Fds -> {"HANDSHAKING", "ESTABLISHED"}]
    BY <1>3, <1>5 DEF Shake
  <2> QED
    BY <1>1, <1>2, <1>3, <1>5, <2>1 DEF Shake, HandshakeWants, HandshakeDone
<1>6. CASE ShakeFailed
  BY <1>1, <1>2, <1>3, <1>6 DEF ShakeFailed, HandshakeFailed, connVars
<1>7. CASE ShakeRecv
  <2>1. pc' = "shake" /\ op[hand].addr_len \in {0, 1}
    <3>1. hand \in Ops /\ op \in [Ops -> OpRecord]
      BY <1>3, <1>7 DEF ShakeRecv, HandshakeRecv, UringTypeOK
    <3> QED
      BY <1>7, <3>1 DEF ShakeRecv, HandshakeRecv, OpRecord
  <2>2. addr_len' \in [Fds -> {0, 1}]
    BY <1>3, <1>7, <2>1 DEF ShakeRecv, LearnedLen
  <2> QED
    BY <1>1, <1>2, <1>3, <1>7, <2>1, <2>2 DEF ShakeRecv
<1>8. CASE ShakeOther
  BY <1>1, <1>2, <1>3, <1>8 DEF ShakeOther, HandshakeOther, connVars
<1>9. CASE Wait
  <2>1. pc' \in {"wait", "handle"}
    BY <1>9 DEF Wait, wait_for_recv, WaitFailed, WaitSent, WaitRecv, WaitRecvFailed,
       WaitRecvNoBuf, WaitRead, WaitReadNoOp, WaitReadFailed, Completion, Return, loopVars
  <2> QED
    BY <1>1, <1>2, <1>3, <1>9, <2>1 DEF Wait, connVars
<1>10. CASE RunFailed \/ forward_udp_packet \/ Release \/ forwarder_destroy
  BY <1>1, <1>2, <1>3, <1>10 DEF RunFailed, forward_udp_packet, Release, forwarder_destroy,
     connVars
<1>11. CASE signal_handler
  BY <1>1, <1>2, <1>3, <1>11 DEF signal_handler, WaitInterrupted, Return, loopVars, connVars
<1>12. CASE Kern \/ UNCHANGED vars
  BY <1>1, <1>2, <1>3, <1>12 DEF Kern, vars, loopVars, connVars
<1> QED
  BY <1>4, <1>5, <1>6, <1>7, <1>8, <1>9, <1>10, <1>11, <1>12 DEF Next, Program, Ended

(* Operations are only made to send, or to receive many times.             *)
LEMMA NextReceives ==
  ASSUME ForwarderInv, [Next]_vars PROVE \A o \in Ops : IsRecv(o)' => op'[o].is_multi
<1>1. /\ HandlerInv /\ Custody("converted") /\ \A f \in Fds : addr_len[f] \in {0, 1}
      /\ op \in [Ops -> OpRecord] /\ hand \in Ops \cup {NULL}
      /\ pc = "release" => hand # NULL
      /\ \A o \in Ops : IsRecv(o) => op[o].is_multi
  BY DEF ForwarderInv, OnlyMultishot, TypeOK, HandlerInv, HandlerTypeOK, UringTypeOK, Bookkeeping
<1>2. ASSUME NEW fd, Requested("UDP_SEND", fd)
      PROVE  \A o \in Ops : IsRecv(o)' => op'[o].is_multi
  BY <1>1, <1>2 DEF Requested, IsRecv
<1>3. ASSUME op' = op PROVE \A o \in Ops : IsRecv(o)' => op'[o].is_multi
  BY <1>1, <1>3 DEF IsRecv
<1>4. CASE InitialRecvs
  <2>1. PICK fd \in Fds : iouring_initial_udp_recvs(fd)
    BY <1>4, Connections DEF InitialRecvs
  <2>2. PICK s \in Pick(io_op_pool) : op' = [op EXCEPT ![s] = MultiOp("UDP_RECV", fd)]
    BY <2>1 DEF iouring_initial_udp_recvs
  <2>3. s \in Ops /\ MultiOp("UDP_RECV", fd).is_multi
    BY <1>1, FreshOp, Fields
  <2>4. op'[s] = MultiOp("UDP_RECV", fd) /\ \A o \in Ops \ {s} : op'[o] = op[o]
    BY <1>1, <2>2, <2>3
  <2> QED
    BY <1>1, <2>3, <2>4 DEF IsRecv
<1>5. CASE Shake
  <2>1. \/ HandshakeWants(conn, addr_len[conn])
        \/ \E next \in {"shake", "wait", "new_tun"} : HandshakeDone(conn, addr_len[conn], next)
    BY <1>5 DEF Shake
  <2>2. Requested("UDP_SEND", conn)
    BY <1>1, <2>1, Connections, ShakeStep
  <2> QED
    BY <1>2, <2>2
<1>6. CASE ShakeFailed
  BY <1>1, <1>3, <1>6, Connections, ShakeFailedStep DEF ShakeFailed
<1>7. CASE ShakeRecv \/ Release
  <2>1. hand # NULL /\ hand \in Ops /\ io_op_free(hand) /\ hand \notin io_op_pool
        /\ op[hand] \in OpRecord
    BY <1>1, <1>7 DEF ShakeRecv, HandshakeRecv, Release, HandlerInv, OpExclusive
  <2>2. /\ \A p \in Ops \ {hand} : op'[p] = op[p]
        /\ op'[hand] \in {Zeroed, op[hand], Recycled(op[hand])}
    BY <1>1, <2>1, FreeFacts
  <2>3. LET r == Recycled(op[hand]) IN
          r.op_type = op[hand].op_type /\ r.is_multi = op[hand].is_multi
    BY <2>1, MovedFields
  <2> QED
    BY <1>1, <2>1, <2>2, <2>3, Fields DEF IsRecv
<1>8. CASE Wait
  <2>1. WaitOps
    BY <1>1, <1>8, WaitCustody DEF Wait
  <2>2. ASSUME NEW o \in Ops, IsRecv(o)' PROVE op'[o].is_multi
    <3>1. op'[o].op_type \in {"UDP_RECV", "TUN_READ"}
      BY <2>2 DEF IsRecv
    <3>2. CASE GoesOn(o)
      BY <1>1, <3>1, <3>2 DEF GoesOn, IsRecv
    <3>3. CASE Freed(o)
      BY <3>1, <3>3 DEF Freed
    <3>4. CASE StaysMulti(o)
      BY <3>4 DEF StaysMulti
    <3>5. CASE \E r \in Ops : op'[o].op_type = op[r].op_type /\ ~op[r].is_multi
      BY <1>1, <3>1, <3>5 DEF IsRecv
    <3> QED
      BY <2>1, <3>2, <3>3, <3>4, <3>5 DEF WaitOps
  <2> QED
    BY <2>2
<1>9. CASE forward_udp_packet
  <2>1. CASE CopyFailed
    BY <1>3, <2>1 DEF CopyFailed, uringVars, poolVars
  <2>2. CASE /\ Copied("UDP_SEND", Other(op[hand].fd), addr_len[Other(op[hand].fd)])
             /\ pc' = "release"
    <3>1. /\ pc = "handle" /\ hand # NULL /\ hand' = hand
          /\ Other(op[hand].fd) \in Fds /\ Other(op[hand].fd) # op[hand].fd
      BY <1>9, ForwardSteps, Connections
    <3>2. Requested("UDP_SEND", Other(op[hand].fd))
      BY <1>1, <2>2, <3>1, CopiedStep
    <3> QED
      BY <1>2, <3>2
  <2> QED
    BY <1>9, <2>1, <2>2, ForwardSteps
<1>10. CASE Idle
  BY <1>3, <1>10, IdleSteps
<1>11. CASE Kern
  BY <1>1, <1>3, <1>11, KernelFacts DEF Kern
<1> QED
  BY <1>4, <1>5, <1>6, <1>7, <1>8, <1>9, <1>10, <1>11 DEF Next, Program, Idle, Ended

(* Only a multishot operation is ever in hand.                             *)
LEMMA NextOnlyMultishot ==
  ASSUME ForwarderInv, [Next]_vars PROVE OnlyMultishot'
<1>1. \A o \in Ops : IsRecv(o)' => op'[o].is_multi
  BY NextReceives
<1>2. HandlerInv /\ HandlerInv' /\ OnlyMultishot /\ hand \in Ops \cup {NULL}
  BY NextHandler DEF ForwarderInv, HandlerInv, HandlerTypeOK
<1>3. pc' \notin {"handle", "release"} /\ hand' # NULL => op'[hand'].is_multi
  BY <1>2 DEF HandlerInv, Bookkeeping
<1>4. ASSUME pc' \in {"handle", "release"}, hand' # NULL PROVE op'[hand'].is_multi
  <2>1. CASE UNCHANGED <<op, hand>>
    BY <1>2, <1>4, <2>1 DEF OnlyMultishot
  <2>2. CASE Wait
    <3>1. CASE WaitRecv
      <4>1. hand' = cqe.op /\ cqe.op \in Ops /\ IsRecv(cqe.op)
        BY <1>2, <3>1, SeenEntry DEF WaitRecv, Return
      <4>2. op' = [op EXCEPT ![cqe.op] = Received(@, cqe.buf, DataLen)]
        BY <3>1 DEF WaitRecv
      <4>3. op[cqe.op] \in OpRecord /\ op \in [Ops -> OpRecord]
        BY <1>2, <4>1 DEF HandlerInv, HandlerTypeOK, UringTypeOK
      <4>4. Received(op[cqe.op], cqe.buf, DataLen).is_multi = op[cqe.op].is_multi
        BY <4>3, MovedFields
      <4> QED
        BY <1>2, <4>1, <4>2, <4>3, <4>4 DEF OnlyMultishot
    <3>2. CASE WaitRead
      <4>1. cqe.op \in Ops /\ IsRecv(cqe.op) /\ ~op[cqe.op].is_multi
        BY <1>2, <3>2, SeenEntry DEF WaitRead
      <4> QED
        BY <1>2, <4>1 DEF OnlyMultishot
    <3>3. CASE ~WaitRecv /\ ~WaitRead
      BY <1>4, <2>2, <3>3 DEF Wait, wait_for_recv, WaitFailed, WaitSent, WaitRecvFailed,
         WaitRecvNoBuf, WaitReadNoOp, WaitReadFailed, Completion, Return, loopVars
    <3> QED
      BY <3>1, <3>2, <3>3
  <2>3. CASE forward_udp_packet
    <3>1. hand' = hand /\ hand # NULL /\ op[hand].is_multi
      BY <2>3, ForwardSteps
    <3>2. CASE op' = op
      BY <3>1, <3>2
    <3>3. CASE Copied("UDP_SEND", Other(op[hand].fd), addr_len[Other(op[hand].fd)])
      <4>1. PICK s \in Pick(io_op_pool) : \E r : op' = [op EXCEPT ![s] = r]
        BY <3>3 DEF Copied, SubmitNew
      <4>2. s # hand /\ op \in [Ops -> OpRecord] /\ hand \in Ops
        BY <1>2, <3>1, FreshOp DEF HandlerInv, HandlerTypeOK, UringTypeOK
      <4> QED
        BY <3>1, <4>1, <4>2
    <3> QED
      BY <2>3, <3>2, <3>3, ForwardSteps DEF CopyFailed, uringVars, poolVars
  <2>4. CASE Kern
    <3>1. op' = op
      BY <1>2, <2>4, KernelFacts DEF Kern
    <3> QED
      BY <2>1, <2>4, <3>1 DEF Kern, loopVars
  <2>5. CASE InitialRecvs \/ Shake \/ ShakeFailed \/ ShakeRecv \/ Release
    BY <1>4, <2>5 DEF InitialRecvs, Shake, HandshakeWants, HandshakeDone, ShakeFailed,
       HandshakeFailed, ShakeRecv, HandshakeRecv, Release
  <2>6. CASE Idle
    <3>1. op' = op /\ hand' \in {hand, NULL}
      BY <2>6, IdleSteps DEF Moves
    <3> QED
      BY <1>4, <2>1, <3>1
  <2> QED
    BY <2>2, <2>3, <2>4, <2>5, <2>6 DEF Next, Program, Idle, Ended
<1> QED
  BY <1>1, <1>3, <1>4 DEF OnlyMultishot

-----------------------------------------------------------------------------
(***************************************************************************)
(* What is lost, and who is listened to.                                   *)
(***************************************************************************)

(* Counting buffers and packets.                                           *)
LEMMA Counting ==
  /\ IsFiniteSet(Stranded) /\ Cardinality(Stranded) \in Nat
  /\ \A S \in SUBSET Stranded : Cardinality(S) <= Cardinality(Stranded)
  /\ \A b : \A S \in SUBSET (Stranded \cup {b}) : Cardinality(S) <= Cardinality(Stranded) + 1
  /\ \A D \in SUBSET (Fds \X (1 .. MaxPkts)) : \A u :
       /\ Cardinality(D) \in Nat
       /\ u \notin D => Cardinality(D \cup {u}) = Cardinality(D) + 1
<1>1. IsFiniteSet(Stranded)
  <2>1. IsFiniteSet(RingBufs) /\ Stranded \in SUBSET RingBufs
    BY FS_Interval, UringAssumption DEF RingBufs, Stranded
  <2> QED
    BY <2>1, FS_Subset
<1>2. Cardinality(Stranded) \in Nat
  BY <1>1, FS_CardinalityType
<1>3. \A S \in SUBSET Stranded : Cardinality(S) <= Cardinality(Stranded)
  BY <1>1, FS_Subset
<1>4. ASSUME NEW b, NEW S \in SUBSET (Stranded \cup {b})
      PROVE  Cardinality(S) <= Cardinality(Stranded) + 1
  <2>1. /\ IsFiniteSet(Stranded \cup {b})
        /\ \/ Cardinality(Stranded \cup {b}) = Cardinality(Stranded)
           \/ Cardinality(Stranded \cup {b}) = Cardinality(Stranded) + 1
    BY <1>1, FS_AddElement
  <2>2. Cardinality(S) <= Cardinality(Stranded \cup {b}) /\ IsFiniteSet(S)
    BY <2>1, FS_Subset
  <2>3. Cardinality(S) \in Nat
    BY <2>2, FS_CardinalityType
  <2> QED
    BY <1>2, <2>1, <2>2, <2>3
<1>5. ASSUME NEW D \in SUBSET (Fds \X (1 .. MaxPkts)), NEW u
      PROVE  /\ Cardinality(D) \in Nat
             /\ u \notin D => Cardinality(D \cup {u}) = Cardinality(D) + 1
  <2>1. IsFiniteSet(Fds)
    <3>1. IsFiniteSet({in_fd})
      BY FS_Singleton
    <3>2. IsFiniteSet({in_fd} \cup {out_fd})
      BY <3>1, FS_AddElement
    <3>3. Fds = {in_fd} \cup {out_fd}
      BY ForwarderAssumption
    <3> QED
      BY <3>2, <3>3
  <2>2. IsFiniteSet(1 .. MaxPkts)
    BY FS_Interval, UringAssumption
  <2>3. IsFiniteSet(Fds \X (1 .. MaxPkts))
    BY <2>1, <2>2, FS_Product
  <2>4. IsFiniteSet(D)
    BY <2>3, FS_Subset
  <2>5. Cardinality(D) \in Nat
    BY <2>4, FS_CardinalityType
  <2> QED
    BY <2>4, <2>5, FS_AddElement
<1> QED
  BY <1>1, <1>2, <1>3, <1>4, <1>5

(* A packet dropped in the handshake of the other connection costs the     *)
(* ring buffer it was in, and nothing else.                                *)
LEMMA DropCosts ==
  ASSUME ForwarderInv, ShakeOther
  PROVE  /\ Kept => Kept'
         /\ Stranded' \subseteq Stranded \cup {op[hand].buf_idx}
         /\ Held \notin dropped
<1>1. /\ pc = "handle" /\ hand # NULL /\ pc' = "shake" /\ UNCHANGED <<uringVars, hand>>
  BY DEF ShakeOther, HandshakeOther
<1>2. /\ UNCHANGED <<io_op_pool, buf_addr_pool, br, op, inflight, cq, hand>>
      /\ CqIndex' = CqIndex /\ Queued' = Queued
  BY <1>1 DEF uringVars, poolVars, kernelVars, CqIndex, Queued
<1>3. Kept => Kept'
  BY <1>2 DEF Kept
<1>4. Stranded' \subseteq Stranded \cup {op[hand].buf_idx}
  BY <1>2 DEF Stranded, InUse
<1>5. Held \notin Finished
  BY <1>1, InHandFacts DEF ForwarderInv, Held, InHandNow
<1> QED
  BY <1>3, <1>4, <1>5 DEF ForwarderInv

(* Until something fails only dropped packets cost anything, and every     *)
(* socket that was armed stays armed.                                      *)
LEMMA NextServing == ASSUME ForwarderInv, [Next]_vars PROVE ServingInv'
<1> SUFFICES ASSUME Serving'
             PROVE  /\ Kept' /\ Cardinality(Stranded') <= Cardinality(dropped')
                    /\ pc' # "init_in" => Armed(in_fd)'
                    /\ pc' \notin {"init_in", "init_out"} => Armed(out_fd)'
  BY DEF ServingInv
<1>1. /\ HandlerInv /\ Custody("converted") /\ \A f \in Fds : addr_len[f] \in {0, 1}
      /\ pc = "release" => hand # NULL
      /\ dropped \in SUBSET (Fds \X (1 .. MaxPkts))
  BY DEF ForwarderInv, TypeOK, HandlerInv, Bookkeeping
<1>2. pc' \notin {"destroy", "done"} /\ ~(pc' = "handle" /\ hand' = NULL)
  BY DEF Serving
<1>3. Serving => /\ Kept /\ Cardinality(Stranded) <= Cardinality(dropped)
                 /\ pc # "init_in" => Armed(in_fd)
                 /\ pc \notin {"init_in", "init_out"} => Armed(out_fd)
  BY DEF ForwarderInv, ServingInv
<1>4. ASSUME Serving, Keeps, dropped' = dropped
      PROVE  /\ Kept' /\ Cardinality(Stranded') <= Cardinality(dropped')
             /\ \A f \in Fds : Armed(f) => Armed(f)'
  <2>1. Kept' /\ Stranded' \in SUBSET Stranded
    BY <1>4 DEF Keeps
  <2>2. /\ Cardinality(Stranded) \in Nat /\ IsFiniteSet(Stranded')
        /\ Cardinality(Stranded') <= Cardinality(Stranded)
    BY <2>1, Counting, FS_Subset
  <2>3. Cardinality(Stranded') \in Nat /\ Cardinality(dropped) \in Nat
    BY <1>1, <2>2, Counting, FS_CardinalityType
  <2>4. \A f \in Fds : Armed(f) => Armed(f)'
    BY <1>4 DEF Keeps, Armed
  <2> QED
    BY <1>3, <1>4, <2>1, <2>2, <2>3, <2>4
<1>5. ASSUME Serving, Keeps, dropped' = dropped,
             pc' = pc \/ pc \notin {"init_in", "init_out"}
      PROVE  /\ Kept' /\ Cardinality(Stranded') <= Cardinality(dropped')
             /\ pc' # "init_in" => Armed(in_fd)'
             /\ pc' \notin {"init_in", "init_out"} => Armed(out_fd)'
  BY <1>3, <1>4, <1>5, Connections
<1>6. CASE InitialRecvs
  <2>1. /\ Serving /\ pc \notin {"handle", "release"} /\ pc' \notin {"handle", "release"}
        /\ UNCHANGED <<hand, dropped>>
    BY <1>6 DEF InitialRecvs, Serving, history
  <2>2. \/ pc = "init_in" /\ iouring_initial_udp_recvs(in_fd) /\ pc' = "init_out"
        \/ pc = "init_out" /\ iouring_initial_udp_recvs(out_fd) /\ pc' = "shake"
    BY <1>6 DEF InitialRecvs
  <2>3. Keeps
    BY <1>1, <1>3, <2>1, <2>2, Connections, InitialRecvKeeps
  <2>4. /\ pc = "init_in" => Armed(in_fd)'
        /\ pc = "init_out" => Armed(out_fd)'
    BY <1>1, <1>3, <2>1, <2>2, Connections, InitialRecvKeeps DEF Armed
  <2> QED
    BY <1>3, <1>4, <2>1, <2>2, <2>3, <2>4, Connections
<1>7. CASE Shake
  <2>1. \/ HandshakeWants(conn, addr_len[conn])
        \/ \E next \in {"shake", "wait", "new_tun"} : HandshakeDone(conn, addr_len[conn], next)
    BY <1>7 DEF Shake
  <2>2. pc = "shake" /\ (Kept => Keeps)
    BY <1>1, <2>1, Connections, ShakeStep
  <2>3. Serving /\ dropped' = dropped
    BY <1>7, <2>2 DEF Serving, Shake, history
  <2> QED
    BY <1>3, <1>5, <2>2, <2>3
<1>8. CASE ShakeRecv
  <2>1. pc = "handle" /\ hand # NULL /\ (Kept => Keeps)
    BY <1>1, <1>8, Connections, ShakeRecvStep DEF ShakeRecv
  <2>2. Serving /\ dropped' = dropped
    BY <1>8, <2>1 DEF Serving, ShakeRecv
  <2> QED
    BY <1>3, <1>5, <2>1, <2>2
<1>9. CASE ShakeOther
  <2>1. Serving /\ pc = "handle" /\ op' = op /\ dropped' = dropped \cup {Held}
    BY <1>9 DEF Serving, ShakeOther, HandshakeOther, uringVars, poolVars
  <2>2. Kept' /\ Armed(in_fd)' /\ Armed(out_fd)'
    BY <1>3, <1>9, <2>1, DropCosts DEF Armed
  <2>3. Cardinality(dropped') = Cardinality(dropped) + 1 /\ Cardinality(dropped) \in Nat
    BY <1>1, <1>9, <2>1, Counting, DropCosts
  <2>4. Stranded' \in SUBSET (Stranded \cup {op[hand].buf_idx})
    BY <1>9, DropCosts
  <2>5. Cardinality(Stranded') <= Cardinality(Stranded) + 1 /\ Cardinality(Stranded) \in Nat
        /\ IsFiniteSet(Stranded')
    <3>1. IsFiniteSet(Stranded \cup {op[hand].buf_idx})
      BY Counting, FS_AddElement
    <3>2. IsFiniteSet(Stranded')
      BY <2>4, <3>1, FS_Subset
    <3> QED
      BY <2>4, <3>2, Counting
  <2>6. Cardinality(Stranded') \in Nat
    BY <2>5, FS_CardinalityType
  <2> QED
    BY <1>3, <2>1, <2>2, <2>3, <2>5, <2>6
<1>10. CASE Wait
  <2>1. pc = "wait" /\ Serving /\ wait_for_recv /\ dropped' = dropped
    BY <1>10 DEF Wait, wait_for_recv, WaitFailed, WaitSent, WaitRecv, WaitRecvFailed,
       WaitRecvNoBuf, WaitRead, WaitReadNoOp, WaitReadFailed, Completion, Serving, history
  <2> QED
    BY <1>1, <1>2, <1>3, <1>5, <2>1, WaitKeeps
<1>11. CASE forward_udp_packet
  <2>1. /\ pc = "handle" /\ hand # NULL /\ hand' = hand /\ dropped' = dropped
        /\ Other(op[hand].fd) \in Fds /\ Other(op[hand].fd) # op[hand].fd
        /\ Copied("UDP_SEND", Other(op[hand].fd), addr_len[Other(op[hand].fd)])
        /\ pc' = "release"
    BY <1>2, <1>11, ForwardSteps, Connections DEF history
  <2>2. Serving /\ (Kept => Keeps)
    BY <1>1, <2>1, CopiedStep DEF Serving
  <2> QED
    BY <1>3, <1>5, <2>1, <2>2
<1>12. CASE Release
  <2>1. pc = "release" /\ hand # NULL /\ Serving /\ dropped' = dropped
    BY <1>1, <1>12 DEF Release, Serving, history
  <2> QED
    BY <1>1, <1>3, <1>5, <1>12, <2>1, FreeHandKeeps DEF Release
<1>13. CASE InitialRecvsFailed \/ ShakeFailed \/ RunFailed \/ forwarder_destroy
  BY <1>2, <1>13 DEF InitialRecvsFailed, ShakeFailed, HandshakeFailed, RunFailed,
     forwarder_destroy
<1>14. CASE signal_handler \/ UNCHANGED vars
  <2>1. UNCHANGED <<uringVars, loopVars, dropped>>
    BY <1>2, <1>14 DEF signal_handler, WaitInterrupted, Return, vars, history
  <2>2. Serving /\ Careful /\ UNCHANGED <<poolVars, kernelVars, pc, dropped>>
    BY <1>2, <2>1 DEF uringVars, loopVars, Careful, Serving
  <2>3. Keeps
    BY <1>1, <1>3, <2>2, PlainKeeps
  <2> QED
    BY <1>5, <2>2, <2>3
<1>15. CASE Kern
  <2>1. Serving /\ Kernel /\ UNCHANGED loopVars /\ pc' = pc /\ dropped' = dropped
    BY <1>2, <1>15 DEF Kern, loopVars, Serving, history
  <2>2. Keeps
    BY <1>1, <1>3, <2>1, KernelKeeps
  <2> QED
    BY <1>5, <2>1, <2>2
<1> QED
  BY <1>6, <1>7, <1>8, <1>9, <1>10, <1>11, <1>12, <1>13, <1>14, <1>15
     DEF Next, Program, Ended

-----------------------------------------------------------------------------
(***************************************************************************)
(* The theorems.                                                           *)
(***************************************************************************)

(* Every step of the forwarder, of the kernel and of a signal preserves    *)
(* the inductive invariant.                                                *)
LEMMA NextForwarderInv == ForwarderInv /\ [Next]_vars => ForwarderInv'
<1> SUFFICES ASSUME ForwarderInv, [Next]_vars PROVE ForwarderInv'
  OBVIOUS
<1>1. /\ HandlerInv' /\ Custody("converted")' /\ TypeOK' /\ OnlyMultishot' /\ ServingInv'
      /\ (shaken \cup dropped)' \subseteq Finished'
  BY NextHandler, NextTypeOK, NextOnlyMultishot, NextServing, NextHistory
<1> QED
  BY <1>1 DEF ForwarderInv

(* The forwarder keeps its bookkeeping of operations, buffers and packets  *)
(* consistent through both handshakes and the loop, whatever fails.        *)
THEOREM ForwarderInvariance == Spec => []ForwarderInv
<1>1. ForwarderInv /\ [Next]_vars => ForwarderInv'
  BY NextForwarderInv
<1> QED
  BY InitForwarderInv, <1>1, PTL DEF Spec

(* Every variable of the forwarder keeps its type.                         *)
THEOREM ForwarderTypeCorrect == Spec => []TypeOK
<1>1. ForwarderInv => TypeOK
  BY DEF ForwarderInv
<1> QED
  BY ForwarderInvariance, <1>1, PTL

(* With two connections on one ring, no io_op_t has two users ...          *)
THEOREM ForwarderOpsExclusive == Spec => []OpExclusive
<1>1. ForwarderInv => OpExclusive
  BY DEF ForwarderInv, HandlerInv
<1> QED
  BY ForwarderInvariance, <1>1, PTL

(* ... and no buffer has, although do_dtls_handshake drops the datagrams   *)
(* of the other connection without io_op_free.                             *)
THEOREM ForwarderBufsExclusive == Spec => []BufExclusive
<1>1. ForwarderInv => BufExclusive
  BY DEF ForwarderInv, HandlerInv
<1> QED
  BY ForwarderInvariance, <1>1, PTL

(* What do_dtls_handshake fails to free costs one ring buffer per dropped  *)
(* datagram at most, and never an operation or a buf_addr_t.               *)
THEOREM LossIsBounded == Spec => []LossBounded
<1>1. ForwarderInv => LossBounded
  <2> DEFINE L == RingBufs \ (br \cup {op[o].buf_idx : o \in Ops}
                                 \cup {cq[i].buf : i \in CqIndex})
  <2> SUFFICES ASSUME ForwarderInv, Healthy
               PROVE  /\ Ops = io_op_pool \cup inflight \cup Queued \cup ({hand} \ {NULL})
                      /\ BufAddrs \subseteq buf_addr_pool \cup {op[o].buf_addr : o \in Ops}
                      /\ Cardinality(L) <= Cardinality(dropped)
    BY DEF LossBounded
  <2>1. /\ Kept /\ Cardinality(Stranded) <= Cardinality(dropped) /\ HandlerInv
        /\ dropped \in SUBSET (Fds \X (1 .. MaxPkts))
    BY DEF ForwarderInv, ServingInv, Serving, Healthy, TypeOK
  <2>2. /\ io_op_pool \cup inflight \cup ({hand} \ {NULL}) \subseteq Ops
        /\ NULL \notin Ops /\ \A i \in CqIndex : cq[i].op \in Ops
    BY <2>1, EntryTypes, Distinct DEF HandlerInv, HandlerTypeOK, UringTypeOK
  <2>3. Ops = io_op_pool \cup inflight \cup Queued \cup ({hand} \ {NULL})
    BY <2>1, <2>2 DEF Kept, Queued
  <2>4. L \in SUBSET Stranded
    BY DEF Stranded, InUse
  <2>5. IsFiniteSet(L) /\ Cardinality(L) <= Cardinality(Stranded)
    BY <2>4, Counting, FS_Subset
  <2>6. Cardinality(L) \in Nat /\ Cardinality(Stranded) \in Nat /\ Cardinality(dropped) \in Nat
    BY <2>1, <2>5, Counting, FS_CardinalityType
  <2> HIDE DEF L
  <2> QED
    BY <2>1, <2>3, <2>5, <2>6 DEF Kept
<1> QED
  BY ForwarderInvariance, <1>1, PTL

(* Neither connection makes the other deaf: each socket has a receive that *)
(* is armed, or whose last completion wait_for_recv has still to see and   *)
(* will arm it again.                                                      *)
THEOREM ListensToBoth == Spec => []BothListening
<1>1. ForwarderInv => BothListening
  <2> SUFFICES ASSUME ForwarderInv, Healthy, NEW f \in Fds
               PROVE  \E o \in Ops :
                        /\ op[o].is_multi /\ op[o].fd = f
                        /\ o \in inflight <=>
                             ~\E i \in CqIndex : cq[i].op = o /\ ~cq[i].more
    BY DEF BothListening
  <2>1. Kept /\ Armed(in_fd) /\ Armed(out_fd) /\ HandlerInv
    BY DEF ForwarderInv, ServingInv, Serving, Healthy
  <2>2. PICK o \in Ops : op[o].is_multi /\ op[o].fd = f
    BY <2>1, ForwarderAssumption DEF Armed
  <2>3. o \in inflight \/ \E i \in CqIndex : cq[i].op = o /\ ~cq[i].more
    BY <2>1, <2>2 DEF Kept
  <2>4. \A i \in CqIndex : cq[i].op = o /\ ~cq[i].more => o \notin inflight
    BY <2>1 DEF HandlerInv, OpExclusive
  <2> QED
    BY <2>2, <2>3, <2>4
<1> QED
  BY ForwarderInvariance, <1>1, PTL

(* Nothing leaves but flights and packets of the other side, encrypted     *)
(* again, and a datagram that a handshake has used up or dropped is not    *)
(* forwarded as well.                                                      *)
THEOREM HasOneFate == Spec => []NeverBoth
<1>1. ForwarderInv => NeverBoth
  <2> SUFFICES ASSUME ForwarderInv, NEW f \in Fds, NEW p \in Payloads \cup {NULL},
                      out[f][p] > 0
               PROVE  /\ p # NULL /\ p[3] = "converted"
                      /\ p[2] > 0 => p[1] = Other(f) /\ <<p[1], p[2]>> \notin shaken \cup dropped
    BY DEF NeverBoth
  <2>1. p \in Payloads /\ p[3] = "converted" /\ (p[2] > 0 => p[1] # f)
    BY DEF ForwarderInv, Custody, Sending, GoesTo
  <2>2. p[2] > 0 => p[1] = Other(f)
    BY <2>1, PayloadFacts, Connections
  <2>3. p[2] > 0 => <<p[1], p[2]>> \notin Finished
    BY <2>1 DEF Finished, SamePacket
  <2> QED
    BY <2>1, <2>2, <2>3, Distinct DEF ForwarderInv
<1> QED
  BY ForwarderInvariance, <1>1, PTL

-----------------------------------------------------------------------------
(***************************************************************************)
(* The forwarder implements a relay.                                       *)
(***************************************************************************)

Datagrams == Fds \X (1 .. MaxPkts)
Entered(arr) == {p \in Datagrams : p[2] <= arr[p[1]]}
Passed(o) == [p \in Datagrams |-> o[Other(p[1])][Converted(p)]]

(* A datagram that comes in is taken.                                      *)
LEMMA ComesEnters ==
  ASSUME HandlerInv, NEW fd \in Fds, Comes(fd)
  PROVE  \E q \in Datagrams : /\ q \notin Entered(arrived)
                              /\ Entered(arrived') = Entered(arrived) \cup {q}
                              /\ Passed(out') = Passed(out)
<1> DEFINE n == arrived[fd] + 1
           q == <<fd, n>>
<1>1. arrived \in [Fds -> 0 .. MaxPkts] /\ arrived[fd] < MaxPkts /\ out' = out
      /\ arrived' = [arrived EXCEPT ![fd] = n]
  BY DEF HandlerInv, HandlerTypeOK, UringTypeOK, Comes
<1>2. arrived[fd] \in Nat /\ n \in 1 .. MaxPkts /\ n > arrived[fd]
  BY <1>1, UringAssumption
<1>3. arrived'[fd] = n /\ \A g \in Fds \ {fd} : arrived'[g] = arrived[g]
  BY <1>1
<1>4. q \in Datagrams /\ q \notin Entered(arrived)
  BY <1>2 DEF Datagrams, Entered
<1>5. ASSUME NEW p \in Datagrams
      PROVE  p[2] <= arrived'[p[1]] <=> p[2] <= arrived[p[1]] \/ p = q
  <2>1. p = <<p[1], p[2]>> /\ p[1] \in Fds /\ p[2] \in Nat
    BY DEF Datagrams
  <2>2. CASE p[1] = fd
    <3>1. p = q <=> p[2] = n
      BY <2>1, <2>2
    <3>2. p[2] <= n <=> p[2] <= arrived[fd] \/ p[2] = n
      BY <1>2, <2>1
    <3> QED
      BY <1>3, <2>2, <3>1, <3>2
  <2>3. CASE p[1] # fd
    BY <1>3, <2>1, <2>3
  <2> QED
    BY <2>2, <2>3
<1> HIDE DEF q
<1>6. Entered(arrived') = Entered(arrived) \cup {q}
  BY <1>4, <1>5 DEF Entered
<1> QED
  BY <1>1, <1>4, <1>6

(* A datagram that leaves is delivered; flights are none of the relay's.   *)
LEMMA LeavesPasses ==
  ASSUME HandlerInv, NEW fd \in Fds, NEW p \in Payloads,
         Leaves(fd, p), GoesTo(fd, p, "converted"),
         p[2] > 0 => out[fd][p] = 0 /\ Arrived(p)
  PROVE  \/ \E q \in Datagrams : /\ q \in Entered(arrived) /\ Passed(out)[q] = 0
                                 /\ Passed(out') = [Passed(out) EXCEPT ![q] = 1]
                                 /\ Entered(arrived') = Entered(arrived)
         \/ Passed(out') = Passed(out) /\ Entered(arrived') = Entered(arrived)
<1> DEFINE q == <<p[1], p[2]>>
<1>1. /\ out \in [Fds -> [Payloads \cup {NULL} -> Nat]] /\ arrived' = arrived
      /\ out' = [out EXCEPT ![fd][p] = @ + 1]
  BY DEF HandlerInv, HandlerTypeOK, UringTypeOK, Leaves
<1>2. \A f \in Fds, r \in Payloads :
        out'[f][r] = IF f = fd /\ r = p THEN out[f][r] + 1 ELSE out[f][r]
  BY <1>1
<1>3. /\ p[1] \in Fds /\ p[2] \in 0 .. MaxPkts /\ p = <<p[1], p[2], "converted">>
      /\ p[2] > 0 => p[1] # fd
  BY PayloadFacts DEF GoesTo
<1>4. ASSUME NEW r \in Datagrams
      PROVE  /\ r = <<r[1], r[2]>> /\ r[1] \in Fds /\ r[2] > 0
             /\ Other(r[1]) \in Fds /\ Other(r[1]) # r[1]
             /\ Converted(r) = <<r[1], r[2], "converted">> /\ Converted(r) \in Payloads
  <2>1. r = <<r[1], r[2]>> /\ r[1] \in Fds /\ r[2] \in 0 .. MaxPkts /\ r[2] > 0
    BY UringAssumption DEF Datagrams
  <2> QED
    BY <2>1, PayloadFacts, Connections DEF Converted
<1>5. CASE p[2] > 0
  <2>1. fd = Other(p[1]) /\ q \in Datagrams /\ q[1] = p[1] /\ q[2] = p[2]
    BY <1>3, <1>5, Connections DEF Datagrams
  <2>2. q \in Entered(arrived)
    BY <1>5, <2>1 DEF Entered, Arrived
  <2>3. Converted(q) = p
    BY <1>3, <1>4, <2>1
  <2>4. Passed(out)[q] = 0
    BY <1>5, <2>1, <2>3 DEF Passed
  <2>5. ASSUME NEW r \in Datagrams
        PROVE  out'[Other(r[1])][Converted(r)] =
                 IF r = q THEN 1 ELSE out[Other(r[1])][Converted(r)]
    <3>1. CASE r = q
      BY <1>2, <1>5, <2>1, <2>3, <3>1
    <3>2. CASE r # q
      <4>1. Converted(r) # p
        BY <1>3, <1>4, <3>2
      <4> QED
        BY <1>2, <1>4, <3>2, <4>1
    <3> QED
      BY <3>1, <3>2
  <2> HIDE DEF q
  <2>6. Passed(out') = [Passed(out) EXCEPT ![q] = 1]
    BY <2>5 DEF Passed
  <2> QED
    BY <1>1, <2>1, <2>2, <2>4, <2>6
<1>6. CASE p[2] = 0
  <2>1. ASSUME NEW r \in Datagrams
        PROVE  out'[Other(r[1])][Converted(r)] = out[Other(r[1])][Converted(r)]
    <3>1. Converted(r) # p
      <4> SUFFICES ASSUME Converted(r) = p PROVE FALSE
        OBVIOUS
      <4>1. p[2] = r[2] /\ r[2] > 0
        BY <1>3, <1>4
      <4> QED
        BY <1>6, <4>1
    <3> QED
      BY <1>2, <1>4, <3>1
  <2>2. Passed(out') = Passed(out)
    BY <2>1 DEF Passed
  <2> QED
    BY <1>1, <2>2
<1> QED
  BY <1>3, <1>5, <1>6

(* Only the kernel takes datagrams in and lets them out.                   *)
LEMMA NextForwarding ==
  ASSUME ForwarderInv, [Next]_vars PROVE [Forwarding!Next]_(Forwarding!vars)
<1>1. /\ HandlerInv /\ Custody("converted") /\ \A f \in Fds : addr_len[f] \in {0, 1}
  BY DEF ForwarderInv, TypeOK
<1>2. /\ {p \in Fds \X (1 .. MaxPkts) : p[2] <= arrived[p[1]]} = Entered(arrived)
      /\ {p \in Fds \X (1 .. MaxPkts) : p[2] <= arrived[p[1]]}' = Entered(arrived')
      /\ [p \in Fds \X (1 .. MaxPkts) |-> out[Other(p[1])][Converted(p)]] = Passed(out)
      /\ [p \in Fds \X (1 .. MaxPkts) |-> out[Other(p[1])][Converted(p)]]' = Passed(out')
  BY DEF Entered, Passed, Datagrams, Other, Converted
<1>3. CASE Kern
  <2>1. \/ UNCHANGED <<arrived, out>>
        \/ \E fd \in Fds : Comes(fd)
        \/ \E fd \in Fds, p \in Payloads :
             /\ Leaves(fd, p) /\ GoesTo(fd, p, "converted")
             /\ p[2] > 0 => out[fd][p] = 0 /\ Arrived(p)
    BY <1>1, <1>3, KernelCustody DEF Kern
  <2>2. \/ \E q \in Datagrams :
             \/ /\ q \notin Entered(arrived)
                /\ Entered(arrived') = Entered(arrived) \cup {q}
                /\ Passed(out') = Passed(out)
             \/ /\ q \in Entered(arrived) /\ Passed(out)[q] = 0
                /\ Passed(out') = [Passed(out) EXCEPT ![q] = 1]
                /\ Entered(arrived') = Entered(arrived)
        \/ Passed(out') = Passed(out) /\ Entered(arrived') = Entered(arrived)
    <3>1. CASE UNCHANGED <<arrived, out>>
      BY <3>1
    <3>2. CASE \E fd \in Fds : Comes(fd)
      BY <1>1, <3>2, ComesEnters
    <3>3. CASE \E fd \in Fds, p \in Payloads :
                 /\ Leaves(fd, p) /\ GoesTo(fd, p, "converted")
                 /\ p[2] > 0 => out[fd][p] = 0 /\ Arrived(p)
      BY <1>1, <3>3, LeavesPasses
    <3> QED
      BY <2>1, <3>1, <3>2, <3>3
  <2> QED
    BY <1>2, <2>2 DEF Forwarding!Next, Forwarding!Take, Forwarding!Deliver, Forwarding!vars,
       Datagrams
<1>4. ASSUME UNCHANGED <<arrived, out>> PROVE [Forwarding!Next]_(Forwarding!vars)
  BY <1>2, <1>4 DEF Forwarding!vars
<1>5. CASE Shake
  <2>1. \/ HandshakeWants(conn, addr_len[conn])
        \/ \E next \in {"shake", "wait", "new_tun"} : HandshakeDone(conn, addr_len[conn], next)
    BY <1>5 DEF Shake
  <2>2. UNCHANGED <<arrived, out>>
    BY <1>1, <2>1, Connections, ShakeStep
  <2> QED
    BY <1>4, <2>2
<1>6. CASE Idle
  <2>1. UNCHANGED <<arrived, out>>
    BY <1>6, IdleSteps DEF dataVars
  <2> QED
    BY <1>4, <2>1
<1>7. CASE forward_udp_packet
  <2>1. UNCHANGED <<arrived, out>>
    BY <1>7, ForwardSteps DEF Copied, SubmitNew, CopyFailed, uringVars, dataVars
  <2> QED
    BY <1>4, <2>1
<1>8. CASE InitialRecvs \/ ShakeFailed \/ ShakeRecv \/ Wait \/ Release
  <2>1. UNCHANGED <<arrived, out>>
    BY <1>8 DEF InitialRecvs, iouring_initial_udp_recvs, ShakeFailed, HandshakeFailed,
       ShakeRecv, HandshakeRecv, Wait, wait_for_recv, WaitFailed, WaitSent, WaitRecv,
       WaitRecvFailed, WaitRecvNoBuf, WaitRead, WaitReadNoOp, WaitReadFailed, Release, dataVars
  <2> QED
    BY <1>4, <2>1
<1> QED
  BY <1>3, <1>5, <1>6, <1>7, <1>8 DEF Next, Program, Idle, Ended

(* The forwarder implements a relay between its two connections: what      *)
(* leaves on one, encrypted again, is a datagram that came in on the other,*)
(* and none leaves twice.                                                  *)
THEOREM ForwarderImplementsRelay == Spec => ForwardingRelay
<1>1. Init => Forwarding!Init
  <2> SUFFICES ASSUME Init PROVE Forwarding!Init
    OBVIOUS
  <2>1. /\ arrived = [f \in Fds |-> 0]
        /\ out = [f \in Fds |-> [p \in Payloads \cup {NULL} |-> 0]]
    BY DEF Init, iouring_init
  <2>2. ASSUME NEW p \in Fds \X (1 .. MaxPkts)
        PROVE  ~(p[2] <= arrived[p[1]]) /\ out[Other(p[1])][Converted(p)] = 0
    <3>1. p[1] \in Fds /\ p[2] \in 0 .. MaxPkts /\ p[2] > 0
      BY UringAssumption
    <3>2. Converted(p) \in Payloads /\ Other(p[1]) \in Fds
      BY <3>1, PayloadFacts, Connections DEF Converted
    <3> QED
      BY <2>1, <3>1, <3>2
  <2> QED
    BY <2>2 DEF Forwarding!Init
<1>2. ForwarderInv /\ [Next]_vars => [Forwarding!Next]_(Forwarding!vars)
  BY NextForwarding
<1> QED
  BY ForwarderInvariance, <1>1, <1>2, PTL DEF Spec, ForwardingRelay, Forwarding!Spec
=============================================================================
