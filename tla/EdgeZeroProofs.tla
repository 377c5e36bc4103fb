--------------------------- MODULE EdgeZeroProofs ---------------------------
(***************************************************************************)
(* Proofs about EdgeZero, for every size of the pools, of the buffer ring  *)
(* and of the completion queue, and for every policy of the free lists.    *)
(***************************************************************************)
EXTENDS EdgeZero, CustodyProofs, FiniteSetTheorems

-----------------------------------------------------------------------------
(***************************************************************************)
(* Operations and buffers have one user.                                   *)
(***************************************************************************)

(* The program starts in the inductive invariant.                          *)
LEMMA InitIndInv == Init => IndInv
<1> SUFFICES ASSUME Init PROVE IndInv
  OBVIOUS
<1>1. HandlerInv
  BY InitHandlerInv DEF Init
<1>2. TypeOK
  BY <1>1, EdgeAssumption DEF Init, HandlerInv, HandlerTypeOK, TypeOK, Startup
<1>3. HeapKept
  BY DEF Init, HeapKept
<1>4. LossInv
  BY InitKept DEF Init, LossInv
<1>5. Descriptors
  BY Fields DEF Init, iouring_init, iouring_alloc_io_op_pool, Descriptors
<1>6. Custody("raw")
  BY InitCustody DEF Init
<1>7. ReadsInv
  BY DEF Init, iouring_init, iouring_alloc_io_op_pool, ReadsInv, Healthy, InLoop
<1> QED
  BY <1>1, <1>2, <1>3, <1>4, <1>5, <1>6, <1>7 DEF IndInv

(* The steps of the program that only move it on, close the ring or empty  *)
(* the pools, as the lemmas about packet_handler.c see them.               *)
LEMMA PlainSteps ==
  ASSUME HandlerInv,
         \/ NewTun \/ InitialReadSkipped \/ InitialReadsDone \/ StartupFailed
         \/ LoopCheck \/ HandleNull \/ Leave \/ iouring_free_buffers \/ QueueExit
         \/ signal_handler \/ UNCHANGED vars
  PROVE  /\ Moves /\ UNCHANGED <<op, cq, dataVars>>
         /\ pc = "release" => UNCHANGED <<pc, hand>>
         /\ io_op_pool' \in {io_op_pool, {}} /\ buf_addr_pool' \in {buf_addr_pool, {}}
         /\ br' \in {br, {}} /\ inflight' \in {inflight, {}}
<1>1. ret \in {0, -1} /\ (pc = "release" => hand # NULL)
  BY DEF HandlerInv, HandlerTypeOK, Bookkeeping
<1> USE DEF Moves
<1>2. CASE NewTun \/ InitialReadSkipped \/ InitialReadsDone \/ LoopCheck
  BY <1>1, <1>2 DEF NewTun, InitialReadSkipped, InitialReadsDone, LoopCheck,
     uringVars, poolVars, kernelVars, loopVars
<1>3. CASE StartupFailed \/ QueueExit
  BY <1>1, <1>3 DEF StartupFailed, QueueExit, poolVars
<1>4. CASE HandleNull \/ Leave
  BY <1>1, <1>4 DEF HandleNull, Leave, uringVars, poolVars, kernelVars
<1>5. CASE iouring_free_buffers
  BY <1>1, <1>5 DEF iouring_free_buffers, kernelVars
<1>6. CASE signal_handler
  BY <1>1, <1>6 DEF signal_handler, WaitInterrupted, Return, uringVars, poolVars,
     kernelVars, loopVars
<1>7. CASE UNCHANGED vars
  BY <1>1, <1>7 DEF vars, uringVars, poolVars, kernelVars, loopVars
<1> QED
  BY <1>2, <1>3, <1>4, <1>5, <1>6, <1>7

(* A TUN read of the start-up is a new request.                            *)
LEMMA InitialReadStep == ASSUME HandlerInv, InitialRead PROVE HandlerInv'
<1>1. PICK o \in Pick(io_op_pool), b \in Pick(buf_addr_pool) :
        /\ io_op_pool' = io_op_pool \ {o}
        /\ buf_addr_pool' = buf_addr_pool \ {b}
        /\ op' = [op EXCEPT ![o] = SingleOp("TUN_READ", tun_fd, b)]
        /\ inflight' = inflight \cup {o}
  BY DEF InitialRead
<1> DEFINE R == SingleOp("TUN_READ", tun_fd, b)
<1>2. UNCHANGED <<br, cq, mem, arrived, out>> /\ Moves
      /\ mem \in [Buffers -> Payloads \cup {NULL}]
  BY DEF InitialRead, dataVars, loopVars, Moves, HandlerInv, HandlerTypeOK, UringTypeOK
<1>3. /\ R \in OpRecord /\ ~R.is_multi /\ R.op_type # "NONE" /\ R.fd # NULL
      /\ R.buf_addr = b /\ R.buf_idx = NO_BUF
  <2>1. b \in BufAddrs
    BY <1>2, PickFacts DEF HandlerInv, HandlerTypeOK, UringTypeOK
  <2>2. tun_fd \in Fds /\ tun_fd # NULL /\ "TUN_READ" \in OpTypes
    BY EdgeAssumption, UringAssumption DEF OpTypes
  <2> QED
    BY <2>1, <2>2, RecordTypes, Fields
<1> HIDE DEF R
<1>4. op' = [op EXCEPT ![o] = R]
  BY <1>1 DEF R
<1> QED
  BY <1>1, <1>2, <1>3, <1>4, NewRequestStep

(* Passing a packet on, for the two directions.                            *)
LEMMA HandleForwards ==
  ASSUME IndInv, HandleTun \/ HandleUdp
  PROVE  /\ pc = "handle" /\ hand # NULL
         /\ \E type \in {"UDP_SEND", "TUN_WRITE"}, fd \in Fds, a \in {0, 1} :
              /\ Forward(type, fd, a)
              /\ type = "UDP_SEND" => fd = udp_fd /\ op[hand].op_type = "TUN_READ"
              /\ type = "TUN_WRITE" => fd = tun_fd /\ op[hand].op_type = "UDP_RECV"
<1>1. udp_fd \in Fds /\ tun_fd \in Fds /\ addr_len \in {0, 1}
  BY EdgeAssumption DEF IndInv, TypeOK
<1>2. CASE HandleTun
  BY <1>1, <1>2 DEF HandleTun, tun_to_udp
<1>3. CASE HandleUdp
  BY <1>1, <1>3 DEF HandleUdp, udp_to_tun
<1> QED
  BY <1>2, <1>3

(* Every step keeps operations and buffers apart.                          *)
LEMMA NextHandlerInv == ASSUME IndInv, [Next]_vars PROVE HandlerInv'
<1>1. HandlerInv
  BY DEF IndInv
<1>2. CASE InitialRecv
  <2>1. udp_fd \in Fds
    BY EdgeAssumption
  <2> QED
    BY <1>1, <1>2, <2>1, InitialRecvStep DEF InitialRecv
<1>3. CASE InitialRead
  BY <1>1, <1>3, InitialReadStep
<1>4. CASE \/ NewTun \/ InitialReadSkipped \/ InitialReadsDone \/ StartupFailed
           \/ LoopCheck \/ HandleNull \/ Leave \/ iouring_free_buffers \/ QueueExit
           \/ signal_handler \/ UNCHANGED vars
  BY <1>1, <1>4, PlainSteps, PlainStep
<1>5. CASE Wait
  BY <1>1, <1>5, WaitStep DEF Wait
<1>6. CASE HandleTun \/ HandleUdp
  BY <1>1, <1>6, HandleForwards, ForwardStep
<1>7. CASE Release
  <2>1. hand # NULL
    BY <1>1, <1>7 DEF Release, HandlerInv, Bookkeeping
  <2> QED
    BY <1>1, <1>7, <2>1, FreeHandStep DEF Release
<1>8. CASE Kern
  BY <1>1, <1>8, KernelStep DEF Kern
<1> QED
  BY <1>2, <1>3, <1>4, <1>5, <1>6, <1>7, <1>8 DEF Next, Program, Ended

(* ... and the rest of the state in its type, and the heap as it should be.*)
LEMMA NextTypes == ASSUME IndInv, [Next]_vars PROVE TypeOK' /\ HeapKept'
<1>1. HandlerInv'
  BY NextHandlerInv
<1>2. UringTypeOK' /\ hand' \in Ops \cup {NULL} /\ ret' \in {0, -1}
  BY <1>1 DEF HandlerInv, HandlerTypeOK
<1> USE DEF TypeOK, HeapKept, Startup, InLoop, Exit
<1>3. CASE InitialRecv \/ NewTun \/ InitialReadsDone \/ StartupFailed \/ LoopCheck \/ HandleNull
  BY <1>2, <1>3 DEF IndInv, InitialRecv, NewTun, InitialReadsDone, StartupFailed,
     LoopCheck, HandleNull
<1>4. CASE InitialRead \/ InitialReadSkipped
  <2>1. reads_left' \in Nat
    BY <1>4 DEF IndInv, InitialRead, InitialReadSkipped
  <2> QED
    BY <1>2, <1>4, <2>1 DEF IndInv, InitialRead, InitialReadSkipped, loopVars
<1>5. CASE Wait
  <2>1. pc = "wait" /\ pc' \in {"wait", "handle"} /\ UNCHANGED <<running, addr_len, reads_left, heap>>
    BY <1>5 DEF Wait, wait_for_recv, WaitFailed, WaitSent, WaitRecv, WaitRecvFailed,
       WaitRecvNoBuf, WaitRead, WaitReadNoOp, WaitReadFailed, Completion, Return, loopVars
  <2> QED
    BY <1>2, <2>1 DEF IndInv
<1>6. CASE HandleTun \/ HandleUdp
  <2>1. op[hand].addr_len \in {0, 1} /\ addr_len' \in {0, 1}
    <3>1. hand \in Ops /\ op[hand] \in OpRecord
      BY <1>6 DEF IndInv, UringTypeOK, HandleTun, HandleUdp
    <3> QED
      BY <1>6, <3>1 DEF OpRecord, IndInv, HandleTun, HandleUdp
  <2>2. pc = "handle" /\ pc' = "release" /\ UNCHANGED <<hand, running, reads_left, heap>>
    BY <1>6 DEF HandleTun, HandleUdp, tun_to_udp, udp_to_tun, Forward
  <2> QED
    BY <1>2, <2>1, <2>2 DEF IndInv
<1>7. CASE Release \/ Leave \/ QueueExit
  BY <1>2, <1>7 DEF IndInv, Release, Leave, QueueExit
<1>8. CASE iouring_free_buffers
  BY <1>2, <1>8 DEF IndInv, iouring_free_buffers
<1>9. CASE signal_handler
  BY <1>2, <1>9 DEF IndInv, signal_handler, WaitInterrupted, Return, loopVars
<1>10. CASE Kern \/ UNCHANGED vars
  BY <1>2, <1>10 DEF IndInv, Kern, vars, loopVars
<1> QED
  BY <1>3, <1>4, <1>5, <1>6, <1>7, <1>8, <1>9, <1>10 DEF Next, Program, Ended

-----------------------------------------------------------------------------
(***************************************************************************)
(* Nothing is lost.                                                        *)
(***************************************************************************)

(* A TUN read of the start-up loses nothing.                               *)
LEMMA InitialReadKeeps == ASSUME HandlerInv, Kept, InitialRead PROVE Keeps
<1>1. PICK o \in Pick(io_op_pool), b \in Pick(buf_addr_pool) :
        /\ io_op_pool' = io_op_pool \ {o}
        /\ buf_addr_pool' = buf_addr_pool \ {b}
        /\ op' = [op EXCEPT ![o] = SingleOp("TUN_READ", tun_fd, b)]
        /\ inflight' = inflight \cup {o}
  BY DEF InitialRead
<1> DEFINE R == SingleOp("TUN_READ", tun_fd, b)
<1>2. UNCHANGED <<br, cq>> /\ Careful
  BY DEF InitialRead, loopVars, Careful
<1>3. R \in OpRecord /\ ~R.is_multi /\ R.buf_addr = b
  BY FreshBuf, EdgeAssumption, RecordTypes, Fields DEF OpTypes
<1> HIDE DEF R
<1>4. op' = [op EXCEPT ![o] = R]
  BY <1>1 DEF R
<1> QED
  BY <1>1, <1>2, <1>3, <1>4, NewRequestKeeps

(* A program that is still going has lost nothing.                         *)
LEMMA NextLossInv == ASSUME IndInv, [Next]_vars PROVE LossInv'
<1> SUFFICES ASSUME Going'
             PROVE  /\ Kept' /\ Stranded' = {}
                    /\ pc' # "init_recv" => \E o \in Ops : op'[o].is_multi
  BY DEF LossInv
<1>1. HandlerInv
  BY DEF IndInv
<1>2. /\ pc' \notin Exit /\ ~(pc' = "handle" /\ hand' = NULL)
  BY DEF Going
<1>3. Going => /\ Kept /\ Stranded = {}
               /\ pc # "init_recv" => \E o \in Ops : op[o].is_multi
  BY DEF IndInv, LossInv
<1>4. ASSUME Going, Keeps, pc # "init_recv"
      PROVE  /\ Kept' /\ Stranded' = {} /\ \E o \in Ops : op'[o].is_multi
  BY <1>3, <1>4 DEF Keeps
<1> USE DEF Exit
<1>5. CASE InitialRecv
  <2>1. Going /\ udp_fd \in Fds /\ pc = "init_recv" /\ pc' = "new_tun"
    BY <1>5, EdgeAssumption DEF InitialRecv, Going
  <2>2. Keeps /\ \E o \in Ops : op'[o].is_multi /\ op'[o].fd = udp_fd
    BY <1>1, <1>3, <1>5, <2>1, InitialRecvKeeps DEF InitialRecv
  <2> QED
    BY <1>3, <2>1, <2>2 DEF Keeps
<1>6. CASE InitialRead
  <2>1. Going /\ pc # "init_recv"
    BY <1>6 DEF InitialRead, Going
  <2> QED
    BY <1>1, <1>3, <1>4, <1>6, <2>1, InitialReadKeeps
<1>7. CASE NewTun \/ InitialReadSkipped \/ InitialReadsDone \/ LoopCheck \/ UNCHANGED vars
  <2>1. Going /\ Careful /\ UNCHANGED <<poolVars, kernelVars>>
    BY <1>2, <1>7 DEF NewTun, InitialReadSkipped, InitialReadsDone, LoopCheck, vars,
       uringVars, loopVars, Careful, Going
  <2>2. Keeps
    BY <1>1, <1>3, <2>1, PlainKeeps
  <2>3. pc' # "init_recv" => pc # "init_recv"
    BY <1>7 DEF NewTun, InitialReadSkipped, InitialReadsDone, LoopCheck, vars, loopVars
  <2> QED
    BY <1>3, <2>1, <2>2, <2>3 DEF Keeps
<1>8. CASE Wait
  <2>1. pc = "wait" /\ Going /\ wait_for_recv
    BY <1>8 DEF Wait, wait_for_recv, WaitFailed, WaitSent, WaitRecv, WaitRecvFailed,
       WaitRecvNoBuf, WaitRead, WaitReadNoOp, WaitReadFailed, Completion, Going
  <2> QED
    BY <1>1, <1>2, <1>3, <1>4, <2>1, WaitKeeps
<1>9. CASE HandleTun \/ HandleUdp
  <2>1. pc = "handle" /\ hand # NULL /\ Going
    BY <1>9 DEF HandleTun, HandleUdp, Going
  <2> QED
    BY <1>1, <1>3, <1>4, <1>9, <2>1, HandleForwards, ForwardKeeps
<1>10. CASE Release
  <2>1. pc = "release" /\ hand # NULL /\ Going
    BY <1>1, <1>10 DEF Release, Going, HandlerInv, Bookkeeping
  <2> QED
    BY <1>1, <1>3, <1>4, <1>10, <2>1, FreeHandKeeps DEF Release
<1>11. CASE HandleNull \/ Leave \/ iouring_free_buffers \/ QueueExit \/ StartupFailed
  BY <1>2, <1>11 DEF HandleNull, Leave, iouring_free_buffers, QueueExit, StartupFailed
<1>12. CASE signal_handler
  <2>1. UNCHANGED <<uringVars, loopVars>>
    BY <1>2, <1>12 DEF signal_handler, WaitInterrupted, Return
  <2>2. Going /\ Careful /\ UNCHANGED <<poolVars, kernelVars, pc>>
    BY <1>2, <2>1 DEF uringVars, loopVars, Careful, Going
  <2>3. Keeps
    BY <1>1, <1>3, <2>2, PlainKeeps
  <2> QED
    BY <1>3, <2>2, <2>3 DEF Keeps
<1>13. CASE Kern
  <2>1. Going /\ Kernel /\ UNCHANGED loopVars /\ pc' = pc
    BY <1>2, <1>13 DEF Kern, loopVars, Going
  <2>2. Keeps
    BY <1>1, <1>3, <2>1, KernelKeeps
  <2> QED
    BY <1>3, <2>1, <2>2 DEF Keeps
<1> QED
  BY <1>5, <1>6, <1>7, <1>8, <1>9, <1>10, <1>11, <1>12, <1>13 DEF Next, Program, Ended

-----------------------------------------------------------------------------
(***************************************************************************)
(* Packets stay what they are.                                             *)
(***************************************************************************)

(* Operations that are made for the right descriptor keep it.              *)
LEMMA DescriptorsKept ==
  ASSUME Descriptors,
         \A o \in Ops :
           \/ op'[o].op_type = "NONE"
           \/ \E r \in Ops : op'[o].op_type = op[r].op_type /\ op'[o].fd = op[r].fd
           \/ op'[o].op_type \in {"TUN_READ", "TUN_WRITE"} /\ op'[o].fd = tun_fd
           \/ op'[o].op_type \in {"UDP_RECV", "UDP_SEND"} /\ op'[o].fd = udp_fd
  PROVE  Descriptors'
  BY DEF Descriptors

(* The descriptors of the start-up and of the loop.                        *)
LEMMA InitialReadDescriptors ==
  ASSUME HandlerInv, Descriptors, InitialRead PROVE Descriptors'
<1>1. PICK o \in Pick(io_op_pool), b \in Pick(buf_addr_pool) :
        op' = [op EXCEPT ![o] = SingleOp("TUN_READ", tun_fd, b)]
  BY DEF InitialRead
<1> DEFINE R == SingleOp("TUN_READ", tun_fd, b)
<1>2. op \in [Ops -> OpRecord]
  BY DEF HandlerInv, HandlerTypeOK, UringTypeOK
<1>3. o \in Ops /\ R.op_type = "TUN_READ" /\ R.fd = tun_fd
  BY FreshOp, Fields
<1> HIDE DEF R
<1>4. /\ op'[o].op_type = "TUN_READ" /\ op'[o].fd = tun_fd
      /\ \A p \in Ops \ {o} : op'[p] = op[p]
  <2>1. op'[o] = R /\ \A p \in Ops \ {o} : op'[p] = op[p]
    BY <1>1, <1>2, <1>3 DEF R
  <2> QED
    BY <1>3, <2>1
<1> QED
  BY <1>4, DescriptorsKept

LEMMA InitialRecvDescriptors ==
  ASSUME HandlerInv, Descriptors, iouring_initial_udp_recvs(udp_fd) PROVE Descriptors'
<1>1. PICK o \in Pick(io_op_pool) : op' = [op EXCEPT ![o] = MultiOp("UDP_RECV", udp_fd)]
  BY DEF iouring_initial_udp_recvs
<1> DEFINE R == MultiOp("UDP_RECV", udp_fd)
<1>2. op \in [Ops -> OpRecord]
  BY DEF HandlerInv, HandlerTypeOK, UringTypeOK
<1>3. o \in Ops /\ R.op_type = "UDP_RECV" /\ R.fd = udp_fd
  BY FreshOp, Fields
<1> HIDE DEF R
<1>4. /\ op'[o].op_type = "UDP_RECV" /\ op'[o].fd = udp_fd
      /\ \A p \in Ops \ {o} : op'[p] = op[p]
  <2>1. op'[o] = R /\ \A p \in Ops \ {o} : op'[p] = op[p]
    BY <1>1, <1>2, <1>3 DEF R
  <2> QED
    BY <1>3, <2>1
<1> QED
  BY <1>4, DescriptorsKept

LEMMA WaitDescriptors ==
  ASSUME Descriptors, WaitOps PROVE Descriptors'
<1>1. ASSUME NEW o \in Ops
      PROVE  \/ op'[o].op_type = "NONE"
             \/ \E r \in Ops : op'[o].op_type = op[r].op_type /\ op'[o].fd = op[r].fd
  BY DEF WaitOps, GoesOn, Freed, StaysMulti
<1> QED
  BY <1>1, DescriptorsKept

LEMMA FreeHandDescriptors ==
  ASSUME HandlerInv, Descriptors, hand # NULL, io_op_free(hand) PROVE Descriptors'
<1>1. hand \in Ops /\ hand \notin io_op_pool /\ op[hand] \in OpRecord
  BY DEF HandlerInv, HandlerTypeOK, UringTypeOK, OpExclusive
<1>2. /\ \A p \in Ops \ {hand} : op'[p] = op[p]
      /\ op'[hand] \in {Zeroed, op[hand], Recycled(op[hand])}
  BY <1>1, FreeFacts
<1>3. /\ Zeroed.op_type = "NONE"
      /\ LET r == Recycled(op[hand]) IN r.op_type = op[hand].op_type /\ r.fd = op[hand].fd
  BY <1>1, Fields, MovedFields
<1> QED
  BY <1>1, <1>2, <1>3, DescriptorsKept

LEMMA ForwardDescriptors ==
  ASSUME HandlerInv, Descriptors, hand # NULL,
         NEW type, NEW fd, NEW a, Forward(type, fd, a),
         \/ type = "UDP_SEND" /\ fd = udp_fd
         \/ type = "TUN_WRITE" /\ fd = tun_fd
  PROVE  Descriptors'
<1> DEFINE S == SendOp(type, fd, a)
           D == Disowned(op[hand])
<1>1. hand \in Ops /\ op[hand] \in OpRecord /\ op \in [Ops -> OpRecord]
  BY DEF HandlerInv, HandlerTypeOK, UringTypeOK
<1>2. S.op_type = type /\ S.fd = fd /\ D.op_type = op[hand].op_type /\ D.fd = op[hand].fd
  BY <1>1, MovedFields DEF SendOp
<1>3. \/ \E s \in Pick(io_op_pool) : op' = [op EXCEPT ![s] = S, ![hand] = D]
      \/ op' \in {op, [op EXCEPT ![hand] = D]}
  BY DEF Forward, Forwarded, ForwardNoOp, ForwardFailed, poolVars
<1> HIDE DEF S, D
<1>4. ASSUME NEW o \in Ops PROVE op'[o] \in {op[o], S} \/ (o = hand /\ op'[o] = D)
  BY <1>1, <1>3
<1>5. ASSUME NEW o \in Ops
      PROVE  \/ op'[o].op_type = type /\ op'[o].fd = fd
             \/ \E r \in Ops : op'[o].op_type = op[r].op_type /\ op'[o].fd = op[r].fd
  BY <1>1, <1>2, <1>4
<1> QED
  BY <1>5, DescriptorsKept

(* A read of the start-up brings no packet yet.                            *)
LEMMA InitialReadCustody ==
  ASSUME HandlerInv, NEW form, Custody(form), InitialRead PROVE Custody(form)'
<1>1. PICK o \in Pick(io_op_pool), b \in Pick(buf_addr_pool) :
        /\ op' = [op EXCEPT ![o] = SingleOp("TUN_READ", tun_fd, b)]
        /\ inflight' = inflight \cup {o}
  BY DEF InitialRead
<1> DEFINE R == SingleOp("TUN_READ", tun_fd, b)
<1>2. R.op_type = "TUN_READ" /\ ~R.is_multi /\ R.buf_addr = b /\ R.buffer = b
  BY Fields
<1>3. pc # "release" /\ UNCHANGED <<cq, dataVars, pc, hand>>
  BY DEF InitialRead, loopVars
<1> HIDE DEF R
<1>4. op' = [op EXCEPT ![o] = R]
  BY <1>1 DEF R
<1> QED
  BY <1>1, <1>2, <1>3, <1>4, NewReadCustody

(* Every step of edge_zero keeps packets and descriptors as they are.      *)
LEMMA NextCustody == ASSUME IndInv, [Next]_vars PROVE Descriptors' /\ Custody("raw")'
<1>1. HandlerInv /\ Descriptors /\ Custody("raw")
  BY DEF IndInv
<1>2. CASE InitialRecv
  <2>1. udp_fd \in Fds
    BY EdgeAssumption
  <2> QED
    BY <1>1, <1>2, <2>1, InitialRecvCustody, InitialRecvDescriptors DEF InitialRecv
<1>3. CASE InitialRead
  BY <1>1, <1>3, InitialReadCustody, InitialReadDescriptors
<1>4. CASE \/ NewTun \/ InitialReadSkipped \/ InitialReadsDone \/ StartupFailed
           \/ LoopCheck \/ HandleNull \/ Leave \/ iouring_free_buffers \/ QueueExit
           \/ signal_handler \/ UNCHANGED vars
  <2>1. /\ Moves /\ UNCHANGED <<op, cq, dataVars>>
        /\ pc = "release" => UNCHANGED <<pc, hand>>
        /\ inflight' \in {inflight, {}}
    BY <1>1, <1>4, PlainSteps
  <2> QED
    BY <1>1, <2>1, PlainCustody, DescriptorsKept
<1>5. CASE Wait
  BY <1>1, <1>5, WaitCustody, WaitDescriptors DEF Wait
<1>6. CASE HandleTun \/ HandleUdp
  <2>1. PICK type \in {"UDP_SEND", "TUN_WRITE"}, fd \in Fds, a \in {0, 1} :
          /\ Forward(type, fd, a)
          /\ type = "UDP_SEND" => fd = udp_fd /\ op[hand].op_type = "TUN_READ"
          /\ type = "TUN_WRITE" => fd = tun_fd /\ op[hand].op_type = "UDP_RECV"
    BY <1>6, HandleForwards
  <2>2. pc = "handle" /\ hand # NULL /\ hand \in Ops
    BY <1>1, <1>6, HandleForwards DEF HandlerInv, HandlerTypeOK
  <2>3. IsRecv(hand) /\ fd # op[hand].fd
    BY <1>1, <2>1, <2>2, EdgeAssumption DEF IsRecv, Descriptors
  <2> QED
    BY <1>1, <2>1, <2>2, <2>3, ForwardCustody, ForwardDescriptors
<1>7. CASE Release
  <2>1. hand # NULL
    BY <1>1, <1>7 DEF Release, HandlerInv, Bookkeeping
  <2> QED
    BY <1>1, <1>7, <2>1, FreeHandCustody, FreeHandDescriptors DEF Release
<1>8. CASE Kern
  <2>1. Custody("raw")'
    BY <1>1, <1>8, KernelCustody DEF Kern
  <2>2. op' = op
    BY <1>1, <1>8, KernelFacts DEF Kern
  <2> QED
    BY <1>1, <2>1, <2>2, DescriptorsKept
<1> QED
  BY <1>2, <1>3, <1>4, <1>5, <1>6, <1>7, <1>8 DEF Next, Program, Ended

-----------------------------------------------------------------------------
(***************************************************************************)
(* The reads.                                                              *)
(***************************************************************************)

(* The reads are the same, or a finished one was replaced.                 *)
Replaced ==
  \/ ReadOps' = ReadOps
  \/ \E r \in ReadOps, n \in Ops \ ReadOps : ReadOps' = (ReadOps \ {r}) \cup {n}

(* Reads are operations, and none of them is free.                         *)
LEMMA ReadFacts ==
  ASSUME HandlerInv
  PROVE  /\ ReadOps \subseteq Ops /\ inflight \cup Queued \subseteq Ops
         /\ (inflight \cup Queued) \cap io_op_pool = {}
         /\ IsFiniteSet(ReadOps) /\ Reads \in Nat
<1>1. inflight \cup Queued \subseteq Ops
  BY EntryTypes DEF HandlerInv, HandlerTypeOK, UringTypeOK, Queued
<1>2. (inflight \cup Queued) \cap io_op_pool = {}
  BY DEF HandlerInv, OpExclusive, Queued
<1>3. ReadOps \in SUBSET Ops
  BY <1>1 DEF ReadOps
<1>4. IsFiniteSet(ReadOps)
  BY <1>3, SizeAssumption, FS_Subset
<1>5. Reads \in Nat
  BY <1>4, FS_CardinalityType DEF Reads
<1> QED
  BY <1>1, <1>2, <1>3, <1>4, <1>5

(* Replacing a read does not change their number.                          *)
LEMMA ReplacedCounts ==
  ASSUME HandlerInv, Replaced
  PROVE  Reads' = Reads
<1>1. IsFiniteSet(ReadOps) /\ Cardinality(ReadOps) \in Nat
  BY ReadFacts DEF Reads
<1>2. ASSUME NEW r \in ReadOps, NEW n \in Ops \ ReadOps
      PROVE  Cardinality((ReadOps \ {r}) \cup {n}) = Cardinality(ReadOps)
  <2>1. /\ IsFiniteSet(ReadOps \ {r})
        /\ Cardinality(ReadOps \ {r}) = Cardinality(ReadOps) - 1
    BY <1>1, FS_RemoveElement
  <2>2. Cardinality((ReadOps \ {r}) \cup {n}) = Cardinality(ReadOps \ {r}) + 1
    BY <2>1, FS_AddElement
  <2> QED
    BY <1>1, <2>1, <2>2
<1> QED
  BY <1>2 DEF Replaced, Reads

(* The kernel moves requests from inflight to the queue.                   *)
LEMMA KernelReads ==
  ASSUME HandlerInv, Kernel
  PROVE  ReadOps' = ReadOps
<1>1. PICK o \in inflight, e \in Cqe :
        /\ cq' = Append(cq, e) /\ e.op = o
        /\ inflight' = IF e.more THEN inflight ELSE inflight \ {o}
        /\ UNCHANGED op
  BY KernelFacts
<1>2. cq \in Seq(Cqe)
  BY DEF HandlerInv, HandlerTypeOK, UringTypeOK
<1>3. /\ CqIndex' = CqIndex \cup {Len(cq) + 1}
      /\ \A i \in CqIndex : cq'[i] = cq[i]
      /\ cq'[Len(cq) + 1] = e
  BY <1>1, <1>2, AppendFacts DEF CqIndex
<1>4. Queued' = Queued \cup {o}
  BY <1>1, <1>3 DEF Queued
<1>5. inflight' \cup Queued' = inflight \cup Queued
  BY <1>1, <1>4
<1> QED
  BY <1>1, <1>5 DEF ReadOps

(* wait_for_recv consumes completions of sends and datagrams, which are no *)
(* reads, and replaces a read whose completion it consumes.                *)
LEMMA WaitReads ==
  ASSUME HandlerInv, wait_for_recv, ~(pc' = "handle" /\ hand' = NULL)
  PROVE  Replaced
<1> DEFINE o == cqe.op
<1>1. Completion /\ (WaitSent \/ WaitRecv \/ WaitRead)
  BY DEF wait_for_recv, WaitFailed, WaitSent, WaitRecv, WaitRecvFailed, WaitRecvNoBuf,
     WaitRead, WaitReadNoOp, WaitReadFailed, Return
<1>2. /\ o \in Ops /\ o \notin io_op_pool /\ op \in [Ops -> OpRecord] /\ op[o] \in OpRecord
      /\ ~op[o].is_multi => ~cqe.more /\ o \notin inflight /\ o \notin Queued'
      /\ op[o].is_multi => op[o].op_type = "UDP_RECV"
  BY <1>1, SeenEntry DEF HandlerInv, HandlerTypeOK, UringTypeOK, Queued, Bookkeeping
<1>3. Queued = Queued' \cup {o}
  <2>1. /\ cqe = cq[1] /\ 1 \in CqIndex
        /\ \A i \in CqIndex \ {1} : i - 1 \in CqIndex' /\ cq'[i - 1] = cq[i]
    BY <1>1, QueueMovesUp
  <2>2. \A i \in CqIndex' : i + 1 \in CqIndex /\ cq'[i] = cq[i + 1]
    BY <1>1, SeenEntry
  <2>3. Queued \subseteq Queued' \cup {o}
    BY <2>1 DEF Queued
  <2> QED
    BY <2>1, <2>2, <2>3 DEF Queued
<1> HIDE DEF o
<1>4. CASE WaitSent
  <2>1. io_op_free(o) /\ UNCHANGED inflight /\ IsSend(o)
    BY <1>4 DEF WaitSent, o
  <2>2. (\A p \in Ops \ {o} : op'[p] = op[p]) /\ op[o].op_type # "TUN_READ"
    BY <1>2, <2>1, FreeFacts DEF IsSend
  <2>3. o \notin inflight' /\ o \notin Queued'
    BY <1>2, <2>1 DEF IsSend
  <2> QED
    BY <1>3, <2>1, <2>2, <2>3, ReadFacts DEF Replaced, ReadOps
<1>5. CASE WaitRecv
  <2> DEFINE R == Received(op[o], cqe.buf, DataLen)
  <2>1. op' = [op EXCEPT ![o] = R] /\ inflight' \in {inflight, inflight \cup {o}}
        /\ op[o].op_type = "UDP_RECV"
    BY <1>2, <1>5 DEF WaitRecv, o
  <2>2. R.op_type = "UDP_RECV"
    BY <1>2, <2>1, MovedFields DEF Received
  <2> HIDE DEF R
  <2>3. op'[o].op_type = "UDP_RECV" /\ \A p \in Ops \ {o} : op'[p] = op[p]
    BY <1>2, <2>1, <2>2
  <2> QED
    BY <1>2, <1>3, <2>1, <2>3, ReadFacts DEF Replaced, ReadOps
<1>6. CASE WaitRead
  <2>1. PICK n \in Pick(io_op_pool), b \in Pick(buf_addr_pool) :
          /\ op' = [op EXCEPT ![n] = SingleOp(op[o].op_type, op[o].fd, b),
                              ![o] = [@ EXCEPT !.data_len = DataLen]]
          /\ inflight' = inflight \cup {n}
    BY <1>6 DEF WaitRead, o
  <2> DEFINE R == SingleOp(op[o].op_type, op[o].fd, b)
  <2>2. n \in Ops /\ n \notin inflight \cup Queued /\ n # o /\ R.op_type = op[o].op_type
    BY <1>2, FreshOp, Fields DEF Queued
  <2> HIDE DEF R
  <2>3. op'[n] = R /\ \A p \in Ops \ {n, o} : op'[p] = op[p]
    BY <1>2, <2>1, <2>2 DEF R
  <2>4. o \notin inflight' \cup Queued' /\ o \in Queued
    BY <1>2, <1>3, <1>6, <2>1, <2>2 DEF WaitRead, o
  <2>5. \A p \in Ops \ {n, o} : p \in ReadOps' <=> p \in ReadOps
    BY <1>3, <2>1, <2>3, ReadFacts DEF ReadOps
  <2>6. ReadOps \subseteq Ops /\ ReadOps' \subseteq Ops
    BY <1>3, <2>1, <2>2, ReadFacts DEF ReadOps
  <2>7. /\ n \notin ReadOps /\ o \notin ReadOps'
        /\ o \in ReadOps <=> op[o].op_type = "TUN_READ"
        /\ n \in ReadOps' <=> op[o].op_type = "TUN_READ"
    BY <2>1, <2>2, <2>3, <2>4 DEF ReadOps
  <2>8. CASE op[o].op_type = "TUN_READ"
    <3>1. ReadOps' = (ReadOps \ {o}) \cup {n}
      BY <2>2, <2>5, <2>6, <2>7, <2>8
    <3> QED
      BY <2>2, <2>7, <2>8, <3>1 DEF Replaced
  <2>9. CASE op[o].op_type # "TUN_READ"
    BY <2>5, <2>6, <2>7, <2>9 DEF Replaced
  <2> QED
    BY <2>8, <2>9
<1> QED
  BY <1>1, <1>4, <1>5, <1>6

(* tun_to_udp and udp_to_tun start a send.                                 *)
LEMMA ForwardReads ==
  ASSUME HandlerInv, hand # NULL,
         NEW type \in {"UDP_SEND", "TUN_WRITE"}, NEW fd, NEW a, Forward(type, fd, a)
  PROVE  ReadOps' = ReadOps
<1> DEFINE S == SendOp(type, fd, a)
           D == Disowned(op[hand])
<1>1. hand \in Ops /\ op[hand] \in OpRecord /\ op \in [Ops -> OpRecord]
  BY DEF HandlerInv, HandlerTypeOK, UringTypeOK
<1>2. S.op_type = type /\ D.op_type = op[hand].op_type
  BY <1>1, MovedFields DEF SendOp
<1>3. \/ \E s \in Pick(io_op_pool) :
           op' = [op EXCEPT ![s] = S, ![hand] = D] /\ inflight' = inflight \cup {s}
      \/ op' \in {op, [op EXCEPT ![hand] = D]} /\ inflight' = inflight
  BY DEF Forward, Forwarded, ForwardNoOp, ForwardFailed, poolVars
<1>4. Queued' = Queued
  BY DEF Forward, Queued, CqIndex
<1> HIDE DEF S, D
<1>5. CASE op' \in {op, [op EXCEPT ![hand] = D]} /\ inflight' = inflight
  <2>1. \A p \in Ops : op'[p].op_type = op[p].op_type
    BY <1>1, <1>2, <1>5
  <2> QED
    BY <1>4, <1>5, <2>1, ReadFacts DEF ReadOps
<1>6. CASE \E s \in Pick(io_op_pool) :
             op' = [op EXCEPT ![s] = S, ![hand] = D] /\ inflight' = inflight \cup {s}
  <2>1. PICK s \in Pick(io_op_pool) :
          op' = [op EXCEPT ![s] = S, ![hand] = D] /\ inflight' = inflight \cup {s}
    BY <1>6
  <2>2. s \in Ops /\ s # hand /\ s \notin inflight \cup Queued
    BY FreshOp DEF Queued
  <2>3. op'[s] = S /\ \A p \in Ops \ {s} : op'[p].op_type = op[p].op_type
    BY <1>1, <1>2, <2>1, <2>2
  <2> QED
    BY <1>2, <1>4, <2>1, <2>2, <2>3, ReadFacts DEF ReadOps
<1> QED
  BY <1>3, <1>5, <1>6

(* What is in hand is no pending read, and so may be freed.                *)
LEMMA FreeHandReads ==
  ASSUME HandlerInv, hand # NULL, io_op_free(hand), UNCHANGED kernelVars
  PROVE  ReadOps' = ReadOps
<1>1. hand \in Ops /\ hand \notin io_op_pool /\ op[hand] \in OpRecord
  BY DEF HandlerInv, HandlerTypeOK, UringTypeOK, OpExclusive
<1>2. /\ \A p \in Ops \ {hand} : op'[p] = op[p]
      /\ op'[hand] \in {Zeroed, op[hand], Recycled(op[hand])}
  BY <1>1, FreeFacts
<1>3. op'[hand].op_type \in {"NONE", op[hand].op_type}
  BY <1>1, <1>2, Fields, MovedFields
<1>4. inflight' = inflight /\ Queued' = Queued
  BY DEF kernelVars, Queued, CqIndex
<1>5. hand \in inflight \cup Queued => op[hand].op_type # "TUN_READ"
  <2>1. ~op[hand].is_multi => hand \notin inflight \cup Queued
    BY <1>1 DEF HandlerInv, OpExclusive, Queued
  <2>2. op[hand].is_multi => op[hand].op_type = "UDP_RECV"
    BY <1>1 DEF HandlerInv, Bookkeeping
  <2> QED
    BY <2>1, <2>2
<1> QED
  BY <1>2, <1>3, <1>4, <1>5, ReadFacts DEF ReadOps

(* There are as many buf_addr_t as operations, and an operation has at     *)
(* most one: the multishot receive, which is not free and has none, leaves *)
(* one over.                                                               *)
LEMMA OneOver ==
  ASSUME HandlerInv, Kept, NEW m \in Ops, op[m].is_multi
  PROVE  Cardinality(io_op_pool) < Cardinality(buf_addr_pool)
<1> DEFINE D == (Ops \ io_op_pool) \ {m}
           T == {op[o].buf_addr : o \in D}
           f == [o \in D |-> op[o].buf_addr]
<1>1. io_op_pool \subseteq Ops /\ buf_addr_pool \subseteq BufAddrs
  BY DEF HandlerInv, HandlerTypeOK, UringTypeOK
<1>2. (\A o \in io_op_pool : op[o].buf_addr = NULL) /\ m \notin io_op_pool
      /\ op[m].buf_addr = NULL
  BY DEF HandlerInv, Bookkeeping, Zeroed
<1>3. BufAddrs \ buf_addr_pool \subseteq T
  BY <1>1, <1>2, Distinct DEF Kept
<1>4. f \in Surjection(D, T)
  BY DEF Surjection
<1>5. /\ IsFiniteSet(Ops \ io_op_pool) /\ IsFiniteSet(D) /\ IsFiniteSet(io_op_pool)
      /\ Cardinality(Ops \ io_op_pool) = Cardinality(Ops) - Cardinality(io_op_pool)
      /\ Cardinality(D) = Cardinality(Ops \ io_op_pool) - 1
  <2>1. Ops \cap io_op_pool = io_op_pool /\ io_op_pool \in SUBSET Ops
        /\ m \in Ops \ io_op_pool
    BY <1>1, <1>2
  <2>2. IsFiniteSet(io_op_pool)
    BY <2>1, SizeAssumption, FS_Subset
  <2>3. /\ IsFiniteSet(Ops \ io_op_pool)
        /\ Cardinality(Ops \ io_op_pool) = Cardinality(Ops) - Cardinality(Ops \cap io_op_pool)
    BY SizeAssumption, FS_Difference
  <2>4. IsFiniteSet(D) /\ Cardinality(D) = Cardinality(Ops \ io_op_pool) - 1
    BY <2>1, <2>3, FS_RemoveElement
  <2> QED
    BY <2>1, <2>2, <2>3, <2>4
<1>6. /\ IsFiniteSet(buf_addr_pool) /\ IsFiniteSet(BufAddrs \ buf_addr_pool)
      /\ Cardinality(BufAddrs \ buf_addr_pool) =
           Cardinality(BufAddrs) - Cardinality(buf_addr_pool)
  <2>1. BufAddrs \cap buf_addr_pool = buf_addr_pool /\ buf_addr_pool \in SUBSET BufAddrs
    BY <1>1
  <2>2. IsFiniteSet(buf_addr_pool)
    BY <2>1, SizeAssumption, FS_Subset
  <2>3. /\ IsFiniteSet(BufAddrs \ buf_addr_pool)
        /\ Cardinality(BufAddrs \ buf_addr_pool) =
             Cardinality(BufAddrs) - Cardinality(BufAddrs \cap buf_addr_pool)
    BY SizeAssumption, FS_Difference
  <2> QED
    BY <2>1, <2>2, <2>3
<1>7. IsFiniteSet(T) /\ Cardinality(T) <= Cardinality(D)
  BY <1>4, <1>5, FS_Surjection
<1>8. Cardinality(BufAddrs \ buf_addr_pool) <= Cardinality(T)
  BY <1>3, <1>7, FS_Subset
<1>9. /\ Cardinality(Ops) \in Nat /\ Cardinality(io_op_pool) \in Nat
      /\ Cardinality(BufAddrs) \in Nat /\ Cardinality(buf_addr_pool) \in Nat
      /\ Cardinality(D) \in Nat /\ Cardinality(T) \in Nat
      /\ Cardinality(BufAddrs \ buf_addr_pool) \in Nat
  BY <1>5, <1>6, <1>7, SizeAssumption, FS_CardinalityType
<1> HIDE DEF D, T
<1> QED
  BY <1>5, <1>6, <1>7, <1>8, <1>9, SizeAssumption

(* One more read, of an operation that was free.                           *)
LEMMA OneMoreRead ==
  ASSUME HandlerInv, InitialRead
  PROVE  /\ Reads' = Reads + 1 /\ Reads \in Nat
         /\ \E s \in io_op_pool :
              s \in Ops /\ io_op_pool' = io_op_pool \ {s} /\ ReadOps' = ReadOps \cup {s}
<1>1. op \in [Ops -> OpRecord] /\ Queued' = Queued
  BY DEF InitialRead, HandlerInv, HandlerTypeOK, UringTypeOK, Queued, CqIndex
<1>2. PICK s \in Pick(io_op_pool), b \in Pick(buf_addr_pool) :
        /\ io_op_pool' = io_op_pool \ {s}
        /\ op' = [op EXCEPT ![s] = SingleOp("TUN_READ", tun_fd, b)]
        /\ inflight' = inflight \cup {s}
  BY DEF InitialRead
<1> DEFINE R == SingleOp("TUN_READ", tun_fd, b)
<1>3. s \in io_op_pool /\ s \in Ops /\ s \notin inflight \cup Queued /\ R.op_type = "TUN_READ"
  BY FreshOp, Fields DEF Queued
<1> HIDE DEF R
<1>4. op'[s] = R /\ \A p \in Ops \ {s} : op'[p] = op[p]
  BY <1>1, <1>2, <1>3 DEF R
<1>5. ReadOps' = ReadOps \cup {s} /\ s \notin ReadOps
  BY <1>1, <1>2, <1>3, <1>4, ReadFacts DEF ReadOps
<1>6. Reads' = Reads + 1 /\ Reads \in Nat
  <2>1. IsFiniteSet(ReadOps) /\ Reads \in Nat
    BY ReadFacts
  <2>2. Cardinality(ReadOps \cup {s}) = Cardinality(ReadOps) + 1
    BY <1>5, <2>1, FS_AddElement
  <2> QED
    BY <1>5, <2>1, <2>2 DEF Reads
<1> QED
  BY <1>2, <1>3, <1>5, <1>6

LEMMA InitialReadCounts ==
  ASSUME HandlerInv, ReadsInv, InitialRead, TypeOK
  PROVE  ReadsInv'
<1>1. /\ pc = "init_reads" /\ pc' = "init_reads" /\ reads_left \in Nat
      /\ reads_left > 0 /\ reads_left' = reads_left - 1
  BY DEF InitialRead, TypeOK, loopVars
<1>2. Reads' = Reads + 1 /\ Reads \in Nat
  BY OneMoreRead
<1>3. PICK s \in io_op_pool :
        s \in Ops /\ io_op_pool' = io_op_pool \ {s} /\ ReadOps' = ReadOps \cup {s}
  BY OneMoreRead
<1>4. PICK m \in Ops \ ReadOps : io_op_pool = Ops \ (ReadOps \cup {m})
  BY <1>1 DEF ReadsInv
<1>5. m \in Ops \ ReadOps' /\ io_op_pool' = Ops \ (ReadOps' \cup {m})
  BY <1>3, <1>4
<1>6. PICK n \in ReadCounts : Reads + reads_left = n
  BY <1>1, <1>3 DEF ReadsInv
<1>7. Reads' + reads_left' = n
  BY <1>1, <1>2, <1>6
<1>8. ~Healthy'
  BY <1>1 DEF Healthy, InLoop
<1> QED
  BY <1>1, <1>5, <1>6, <1>7, <1>8 DEF ReadsInv

(* A round is only skipped when no operation is free: there is a buffer    *)
(* for each.                                                               *)
LEMMA SkippedWithout ==
  ASSUME HandlerInv, LossInv, InitialReadSkipped
  PROVE  /\ io_op_pool = {} /\ io_op_pool' = {}
         /\ ReadOps' = ReadOps /\ Reads' = Reads /\ Reads \in Nat
<1>1. /\ pc = "init_reads"
      /\ io_op_pool = {} \/ buf_addr_pool = {}
      /\ UNCHANGED <<io_op_pool, op, inflight, cq>>
  BY DEF InitialReadSkipped, uringVars, poolVars, kernelVars
<1>2. ReadOps' = ReadOps /\ Reads' = Reads /\ Reads \in Nat
  BY <1>1, ReadFacts DEF ReadOps, Reads, Queued, CqIndex
<1>3. io_op_pool = {}
  <2>1. PICK m \in Ops : Kept /\ op[m].is_multi
    BY <1>1 DEF LossInv, Going, Exit
  <2>2. Cardinality(io_op_pool) < Cardinality(buf_addr_pool)
    BY <2>1, OneOver
  <2>3. IsFiniteSet(io_op_pool)
    <3>1. io_op_pool \in SUBSET Ops
      BY DEF HandlerInv, HandlerTypeOK, UringTypeOK
    <3> QED
      BY <3>1, SizeAssumption, FS_Subset
  <2>4. Cardinality(io_op_pool) \in Nat
    BY <2>3, FS_CardinalityType
  <2>5. Cardinality({}) = 0
    BY FS_EmptySet
  <2> QED
    BY <1>1, <2>2, <2>4, <2>5
<1> QED
  BY <1>1, <1>2, <1>3

LEMMA SkippedCounts ==
  ASSUME HandlerInv, LossInv, ReadsInv, InitialReadSkipped, TypeOK
  PROVE  ReadsInv'
<1>1. /\ pc = "init_reads" /\ pc' = "init_reads" /\ reads_left \in Nat
      /\ reads_left > 0 /\ reads_left' = reads_left - 1
  BY DEF InitialReadSkipped, TypeOK, loopVars
<1>2. /\ ReadOps' = ReadOps /\ Reads' = Reads /\ Reads \in Nat
      /\ io_op_pool = {} /\ io_op_pool' = {}
  BY SkippedWithout
<1>3. PICK n \in ReadCounts : Reads + reads_left <= n
  BY <1>1, <1>2, EdgeAssumption DEF ReadsInv
<1>4. Reads' + reads_left' < n /\ io_op_pool' = {}
  BY <1>1, <1>2, <1>3, EdgeAssumption
<1>5. ~Healthy'
  BY <1>1 DEF Healthy, InLoop
<1>6. \E m \in Ops \ ReadOps' : io_op_pool' = Ops \ (ReadOps' \cup {m})
  BY <1>1, <1>2 DEF ReadsInv
<1> QED
  BY <1>1, <1>4, <1>5, <1>6 DEF ReadsInv

(* When iouring_initial_tun_reads is done, there are as many reads as were *)
(* asked for, or all operations but that of the receive are reads.         *)
LEMMA DoneCounts ==
  ASSUME HandlerInv, ReadsInv, pc = "init_reads", reads_left = 0
  PROVE  AsAsked
<1>1. PICK m \in Ops \ ReadOps : io_op_pool = Ops \ (ReadOps \cup {m})
  BY DEF ReadsInv
<1>2. PICK n \in ReadCounts :
        Reads + reads_left = n \/ (io_op_pool = {} /\ Reads + reads_left < n)
  BY DEF ReadsInv
<1>3. n \in Nat /\ Reads \in Nat /\ ReadOps \subseteq Ops
  BY EdgeAssumption, ReadFacts
<1>4. /\ IsFiniteSet(Ops \ {m}) /\ Cardinality(Ops \ {m}) = Cardinality(Ops) - 1
      /\ Cardinality(Ops) \in Nat
  <2>1. IsFiniteSet(Ops \ {m}) /\ Cardinality(Ops \ {m}) = Cardinality(Ops) - 1
    BY SizeAssumption, FS_RemoveElement
  <2>2. Cardinality(Ops) \in Nat
    BY SizeAssumption, FS_CardinalityType
  <2> QED
    BY <2>1, <2>2
<1>5. Reads <= Cardinality(Ops) - 1
  <2>1. ReadOps \in SUBSET (Ops \ {m})
    BY <1>1, <1>3
  <2>2. Cardinality(ReadOps) <= Cardinality(Ops \ {m})
    BY <1>4, <2>1, FS_Subset
  <2> QED
    BY <1>4, <2>2 DEF Reads
<1>6. CASE Reads = n
  BY <1>3, <1>4, <1>5, <1>6 DEF AsAsked
<1>7. CASE io_op_pool = {} /\ Reads < n
  <2>1. ReadOps = Ops \ {m}
    BY <1>1, <1>3, <1>7
  <2>2. Reads = Cardinality(Ops) - 1
    BY <1>4, <2>1 DEF Reads
  <2> QED
    BY <1>3, <1>4, <1>7, <2>2 DEF AsAsked
<1> QED
  BY <1>2, <1>3, <1>6, <1>7

(* Every step in the loop keeps the reads or replaces one.                 *)
LEMMA LoopReads ==
  ASSUME IndInv, [Next]_vars, Healthy, Healthy'
  PROVE  Replaced
<1>1. HandlerInv /\ pc \in InLoop /\ pc' \in InLoop /\ ~(pc' = "handle" /\ hand' = NULL)
  BY DEF IndInv, Healthy
<1>2. CASE UNCHANGED <<op, inflight, cq>>
  BY <1>2 DEF Replaced, ReadOps, Queued, CqIndex
<1>3. CASE LoopCheck \/ signal_handler \/ UNCHANGED vars
  BY <1>2, <1>3 DEF LoopCheck, signal_handler, WaitInterrupted, vars, uringVars, poolVars,
     kernelVars
<1>4. CASE Wait
  BY <1>1, <1>4, WaitReads DEF Wait
<1>5. CASE HandleTun \/ HandleUdp
  BY <1>1, <1>5, HandleForwards, ForwardReads DEF Replaced
<1>6. CASE Release
  <2>1. hand # NULL
    BY <1>1, <1>6 DEF Release, HandlerInv, Bookkeeping
  <2> QED
    BY <1>1, <1>6, <2>1, FreeHandReads DEF Release, Replaced
<1>7. CASE Kern
  BY <1>1, <1>7, KernelReads DEF Kern, Replaced
<1>8. CASE \/ InitialRecv \/ NewTun \/ InitialRead \/ InitialReadSkipped
           \/ InitialReadsDone \/ StartupFailed \/ HandleNull
           \/ Leave \/ iouring_free_buffers \/ QueueExit
  BY <1>1, <1>8 DEF InitialRecv, NewTun, InitialRead, InitialReadSkipped,
     InitialReadsDone, StartupFailed, HandleNull, Leave, iouring_free_buffers, QueueExit,
     InLoop
<1> QED
  BY <1>3, <1>4, <1>5, <1>6, <1>7, <1>8 DEF Next, Program, Ended

(* Only start-up leads into the loop, and nothing leads out of a failure.  *)
LEMMA PhaseFacts ==
  ASSUME IndInv, [Next]_vars, pc \notin Startup
  PROVE  pc' \notin Startup /\ (Healthy' => Healthy)
<1> USE DEF Healthy, InLoop, Startup
<1>1. CASE \/ InitialRecv \/ NewTun \/ InitialRead \/ InitialReadSkipped
           \/ InitialReadsDone \/ StartupFailed \/ LoopCheck \/ HandleNull
           \/ Leave \/ iouring_free_buffers \/ QueueExit \/ Release
  BY <1>1 DEF InitialRecv, NewTun, InitialRead, InitialReadSkipped,
     InitialReadsDone, StartupFailed, LoopCheck, HandleNull, Leave, iouring_free_buffers,
     QueueExit, Release
<1>2. CASE Wait \/ signal_handler \/ Kern \/ UNCHANGED vars
  <2>1. pc = "wait" \/ UNCHANGED <<pc, hand>>
    BY <1>2 DEF Wait, wait_for_recv, WaitFailed, WaitSent, WaitRecv, WaitRecvFailed,
       WaitRecvNoBuf, WaitRead, WaitReadNoOp, WaitReadFailed, Completion,
       signal_handler, WaitInterrupted, Kern, vars, loopVars
  <2>2. pc' \in {pc, "handle"}
    BY <1>2 DEF Wait, wait_for_recv, WaitFailed, WaitSent, WaitRecv, WaitRecvFailed,
       WaitRecvNoBuf, WaitRead, WaitReadNoOp, WaitReadFailed, Return,
       signal_handler, WaitInterrupted, Kern, vars, loopVars
  <2> QED
    BY <2>1, <2>2
<1>3. CASE HandleTun \/ HandleUdp
  BY <1>3 DEF HandleTun, HandleUdp, tun_to_udp, udp_to_tun, Forward
<1> QED
  BY <1>1, <1>2, <1>3 DEF Next, Program, Ended

(* Every step keeps the account of the reads.                              *)
LEMMA NextReads == ASSUME IndInv, [Next]_vars PROVE ReadsInv'
<1>1. HandlerInv /\ ReadsInv /\ LossInv /\ TypeOK
  BY DEF IndInv
<1>2. CASE pc \notin Startup
  <2>1. pc' \notin Startup /\ (Healthy' => Healthy)
    BY <1>2, PhaseFacts
  <2>2. ASSUME Healthy' PROVE AsAsked'
    <3>1. Reads' = Reads /\ AsAsked
      BY <1>1, <2>1, <2>2, LoopReads, ReplacedCounts DEF ReadsInv
    <3> QED
      BY <3>1 DEF AsAsked
  <2> QED
    BY <2>1, <2>2 DEF ReadsInv, Startup
<1>3. CASE pc = "init_recv"
  <2>1. io_op_pool = Ops /\ reads_left \in ReadCounts /\ inflight = {}
        /\ op \in [Ops -> OpRecord]
    BY <1>1, <1>3, ReadFacts DEF ReadsInv, TypeOK, UringTypeOK
  <2>2. CASE InitialRecv
    <3>1. PICK o \in Pick(io_op_pool) :
            /\ io_op_pool' = io_op_pool \ {o}
            /\ op' = [op EXCEPT ![o] = MultiOp("UDP_RECV", udp_fd)]
            /\ inflight' = inflight \cup {o}
      BY <2>2 DEF InitialRecv, iouring_initial_udp_recvs
    <3> DEFINE R == MultiOp("UDP_RECV", udp_fd)
    <3>2. o \in Ops /\ R.op_type = "UDP_RECV"
      BY <1>1, FreshOp, Fields
    <3> HIDE DEF R
    <3>3. op'[o].op_type = "UDP_RECV"
      BY <2>1, <3>1, <3>2 DEF R
    <3>4. Queued = {} /\ Queued' = Queued
      <4>1. Queued = {}
        BY <1>1, <2>1, ReadFacts
      <4>2. Queued' = Queued
        BY <2>2 DEF InitialRecv, iouring_initial_udp_recvs, Queued, CqIndex
      <4> QED
        BY <4>1, <4>2
    <3>5. ReadOps' = {}
      BY <2>1, <3>1, <3>3, <3>4 DEF ReadOps
    <3>6. Reads' = 0
      BY <3>5, FS_EmptySet DEF Reads
    <3>7. pc' = "new_tun" /\ reads_left' = reads_left /\ reads_left \in Nat /\ ~Healthy'
      BY <1>1, <2>2 DEF InitialRecv, Healthy, InLoop, TypeOK
    <3> QED
      BY <2>1, <3>1, <3>2, <3>5, <3>6, <3>7 DEF ReadsInv
  <2>3. CASE StartupFailed
    BY <2>3 DEF StartupFailed, ReadsInv, Healthy, InLoop
  <2>4. CASE signal_handler \/ UNCHANGED vars
    BY <1>3, <2>1, <2>4 DEF signal_handler, WaitInterrupted, ReadsInv, Healthy, InLoop,
       vars, uringVars, poolVars, loopVars
  <2>5. ~Kern /\ ~Wait
    BY <1>3, <2>1 DEF Kern, Kernel, Wait, wait_for_recv, WaitFailed, WaitSent, WaitRecv,
       WaitRecvFailed, WaitRecvNoBuf, WaitRead, WaitReadNoOp, WaitReadFailed, Completion
  <2> QED
    BY <1>3, <2>2, <2>3, <2>4, <2>5 DEF Next, Program, Ended, NewTun, InitialRead,
       InitialReadSkipped, InitialReadsDone, LoopCheck, HandleNull, HandleTun, HandleUdp,
       Release, Leave, iouring_free_buffers, QueueExit
<1>4. CASE pc \in {"new_tun", "init_reads"}
  <2>1. ASSUME ReadOps' = ReadOps, UNCHANGED <<io_op_pool, reads_left>>,
               pc' \in {"new_tun", "init_reads"}
        PROVE  ReadsInv'
    BY <1>1, <1>4, <2>1 DEF ReadsInv, Reads, Healthy, InLoop
  <2>2. CASE NewTun \/ signal_handler \/ UNCHANGED vars
    <3>1. UNCHANGED <<io_op_pool, reads_left, op, inflight, cq>>
          /\ pc' \in {"new_tun", "init_reads"}
      BY <1>4, <2>2 DEF NewTun, signal_handler, WaitInterrupted, vars, uringVars, poolVars,
         kernelVars, loopVars
    <3>2. ReadOps' = ReadOps
      BY <3>1 DEF ReadOps, Queued, CqIndex
    <3> QED
      BY <2>1, <3>1, <3>2
  <2>3. CASE Kern
    <3>1. UNCHANGED <<io_op_pool, reads_left, pc>>
      BY <1>1, <2>3, KernelFacts DEF Kern, loopVars
    <3>2. ReadOps' = ReadOps
      BY <1>1, <2>3, KernelReads DEF Kern
    <3> QED
      BY <1>4, <2>1, <3>1, <3>2
  <2>4. CASE InitialRead
    BY <1>1, <2>4, InitialReadCounts
  <2>5. CASE InitialReadSkipped
    BY <1>1, <2>5, SkippedCounts
  <2>6. CASE InitialReadsDone
    <3>1. AsAsked /\ pc' = "check" /\ UNCHANGED <<op, inflight, cq>>
      BY <1>1, <2>6, DoneCounts DEF InitialReadsDone, uringVars, poolVars, kernelVars
    <3>2. Reads' = Reads
      BY <3>1 DEF Reads, ReadOps, Queued, CqIndex
    <3>3. AsAsked'
      BY <3>1, <3>2 DEF AsAsked
    <3> QED
      BY <3>1, <3>3 DEF ReadsInv
  <2>7. CASE StartupFailed
    BY <2>7 DEF StartupFailed, ReadsInv, Healthy, InLoop
  <2>8. ~Wait
    BY <1>4 DEF Wait, wait_for_recv, WaitFailed, WaitSent, WaitRecv,
       WaitRecvFailed, WaitRecvNoBuf, WaitRead, WaitReadNoOp, WaitReadFailed, Completion
  <2> QED
    BY <1>4, <2>2, <2>3, <2>4, <2>5, <2>6, <2>7, <2>8 DEF Next, Program, Ended, InitialRecv,
       LoopCheck, HandleNull, HandleTun, HandleUdp, Release, Leave, iouring_free_buffers,
       QueueExit
<1> QED
  BY <1>2, <1>3, <1>4 DEF Startup

-----------------------------------------------------------------------------
(***************************************************************************)
(* The theorems.                                                           *)
(***************************************************************************)

(* The invariant says where everything is.                                 *)
LEMMA FreedOnce == ASSUME HandlerInv, HeapKept PROVE FreeOnce
<1>1. pc = "leave" => hand \in heap \cup {NULL}
  BY DEF HandlerInv, HandlerTypeOK, HeapKept
<1>2. ASSUME pc = "cleanup"
      PROVE  io_op_pool \cup buf_addr_pool \cup {BR_BUFS} \subseteq heap
  <2>1. heap = (Ops \cup BufAddrs \cup {BR_BUFS}) \ {hand}
    BY <1>2 DEF HeapKept
  <2>2. io_op_pool \subseteq Ops /\ buf_addr_pool \subseteq BufAddrs
        /\ hand \in Ops \cup {NULL} /\ hand \notin io_op_pool
    BY DEF HandlerInv, HandlerTypeOK, UringTypeOK, OpExclusive
  <2>3. NULL \notin Ops \cup BufAddrs /\ Ops \cap BufAddrs = {}
    BY UringAssumption, EdgeAssumption DEF Buffers
  <2>4. BR_BUFS # hand
    BY <2>2, EdgeAssumption DEF BR_BUFS
  <2> QED
    BY <2>1, <2>2, <2>3, <2>4
<1> QED
  BY <1>1, <1>2 DEF FreeOnce

LEMMA NoneLost == ASSUME HandlerInv, LossInv PROVE NothingLost
<1> SUFFICES ASSUME Healthy PROVE
      /\ Ops = io_op_pool \cup inflight \cup Queued \cup ({hand} \ {NULL})
      /\ BufAddrs \subseteq buf_addr_pool \cup {op[o].buf_addr : o \in Ops}
      /\ RingBufs \subseteq br \cup {op[o].buf_idx : o \in Ops}
                             \cup {cq[i].buf : i \in CqIndex}
  BY DEF NothingLost
<1>1. Kept /\ Stranded = {}
  BY DEF LossInv, Going, Healthy, InLoop, Exit
<1>2. /\ io_op_pool \subseteq Ops /\ inflight \subseteq Ops /\ hand \in Ops \cup {NULL}
      /\ \A i \in CqIndex : cq[i].op \in Ops
  BY EntryTypes DEF HandlerInv, HandlerTypeOK, UringTypeOK
<1>3. Ops \subseteq io_op_pool \cup inflight \cup Queued \cup ({hand} \ {NULL})
  BY <1>1, Distinct DEF Kept, Queued
<1>4. RingBufs \subseteq br \cup {op[o].buf_idx : o \in Ops}
                          \cup {cq[i].buf : i \in CqIndex}
  BY <1>1 DEF Stranded, InUse
<1> QED
  BY <1>1, <1>2, <1>3, <1>4 DEF Kept, Queued

(* Every step of the program, of the kernel and of a signal preserves the  *)
(* inductive invariant.                                                    *)
LEMMA NextIndInv == IndInv /\ [Next]_vars => IndInv'
  BY NextHandlerInv, NextTypes, NextLossInv, NextReads, NextCustody DEF IndInv

(* For any number of operations, buffers, completion entries and packets,  *)
(* and with every fault, edge_zero keeps its bookkeeping of operations and *)
(* buffers consistent.                                                     *)
THEOREM Invariance == Spec => []IndInv
<1>1. IndInv /\ [Next]_vars => IndInv'
  BY NextIndInv
<1> QED
  BY InitIndInv, <1>1, PTL DEF Spec

(* Type correctness of the edge program.                                   *)
THEOREM TypeCorrect == Spec => []TypeOK
<1>1. IndInv => TypeOK
  BY DEF IndInv
<1> QED
  BY Invariance, <1>1, PTL

(* An io_op_t never has two users: io_op_free never puts one on the free   *)
(* list that the kernel, the completion queue or the loop still uses.      *)
THEOREM OpsExclusive == Spec => []OpExclusive
<1>1. IndInv => OpExclusive
  BY DEF IndInv, HandlerInv
<1> QED
  BY Invariance, <1>1, PTL

(* A buffer never has two users: passing a received buffer on to a send    *)
(* with io_op_alloc_buf leaves it with exactly one owner.                  *)
THEOREM BufsExclusive == Spec => []BufExclusive
<1>1. IndInv => BufExclusive
  BY DEF IndInv, HandlerInv
<1> QED
  BY Invariance, <1>1, PTL

(* Leaving tun_udp_run_zero and cleaning up frees no memory twice.         *)
THEOREM NoDoubleFree == Spec => []FreeOnce
<1>1. IndInv => FreeOnce
  BY FreedOnce DEF IndInv
<1> QED
  BY Invariance, <1>1, PTL

(* edge_zero loses nothing while its loop is going: after any number of    *)
(* packets every operation, buf_addr_t and ring buffer is free or in use.  *)
THEOREM LosesNothing == Spec => []NothingLost
<1>1. IndInv => NothingLost
  BY NoneLost DEF IndInv
<1> QED
  BY Invariance, <1>1, PTL

(* While the loop is going, wait_for_recv has the multishot receive armed, *)
(* or will arm it again when it handles its last completion.               *)
THEOREM StaysListening == Spec => []AlwaysListening
<1>1. IndInv => AlwaysListening
  <2> SUFFICES ASSUME IndInv, Healthy
               PROVE  \E o \in Ops :
                        /\ op[o].is_multi
                        /\ o \in inflight <=> ~\E i \in CqIndex : cq[i].op = o /\ ~cq[i].more
    BY DEF AlwaysListening
  <2>1. Kept /\ \E o \in Ops : op[o].is_multi
    BY DEF IndInv, LossInv, Going, Healthy, InLoop, Exit
  <2> QED
    BY <2>1 DEF Kept, IndInv, HandlerInv, OpExclusive
<1> QED
  BY Invariance, <1>1, PTL

(* While the loop is going there is a buffer for every free operation.     *)
THEOREM BufferForEach == Spec => []SpareBuffer
<1>1. IndInv => SpareBuffer
  <2> SUFFICES ASSUME IndInv, Healthy
               PROVE  Cardinality(io_op_pool) < Cardinality(buf_addr_pool)
    BY DEF SpareBuffer
  <2>1. Kept /\ \E o \in Ops : op[o].is_multi
    BY DEF IndInv, LossInv, Going, Healthy, InLoop, Exit
  <2> QED
    BY <2>1, OneOver DEF IndInv
<1> QED
  BY Invariance, <1>1, PTL

(* edge_zero keeps as many TUN reads going as iouring_initial_tun_reads    *)
(* was asked for, or could find operations for: wait_for_recv replaces     *)
(* every one that finishes, and starts no other.                           *)
THEOREM KeepsReading == Spec => ReadsConserved
<1>1. IndInv => (Healthy => AsAsked)
  BY DEF IndInv, ReadsInv
<1>2. IndInv /\ [Next]_vars => [Healthy /\ Healthy' => Reads' = Reads]_vars
  <2> SUFFICES ASSUME IndInv, [Next]_vars, Healthy, Healthy' PROVE Reads' = Reads
    OBVIOUS
  <2> QED
    BY LoopReads, ReplacedCounts DEF IndInv
<1> QED
  BY Invariance, <1>1, <1>2, PTL DEF Spec, ReadsConserved

-----------------------------------------------------------------------------
(***************************************************************************)
(* The programs implement a relay.                                         *)
(***************************************************************************)

(* A packet is taken in for the other descriptor, and leaves in the form   *)
(* that the program gives it.                                              *)
Across(fd) == IF fd = tun_fd THEN udp_fd ELSE tun_fd

TakenIn(arr, form) ==
  {q \in Fds \X Payloads :
     q[1] = Across(q[2][1]) /\ q[2][2] \in 1 .. arr[q[2][1]] /\ q[2][3] = form}

Delivery(o, L) == [q \in L |-> o[q[1]][q[2]]]

(* A step of the relay of the packets L, or none.                          *)
RelayStep(L, form) ==
  \/ \E q \in L :
       \/ /\ q \notin TakenIn(arrived, form)
          /\ TakenIn(arrived', form) = TakenIn(arrived, form) \cup {q}
          /\ Delivery(out', L) = Delivery(out, L)
       \/ /\ q \in TakenIn(arrived, form)
          /\ Delivery(out, L)[q] = 0
          /\ Delivery(out', L) = [Delivery(out, L) EXCEPT ![q] = 1]
          /\ TakenIn(arrived', form) = TakenIn(arrived, form)
  \/ /\ TakenIn(arrived', form) = TakenIn(arrived, form)
     /\ Delivery(out', L) = Delivery(out, L)

(* L has every packet in this form, and nothing of DTLS's own.             *)
PacketSet(L, form) ==
  /\ form \in {"raw", "converted"}
  /\ \A q \in L :
       /\ q[1] \in Fds /\ q[2] \in Payloads \cup {NULL}
       /\ q = <<q[1], q[2]>>
       /\ q[2] \in Payloads => q[2][2] > 0
  /\ \A f \in Fds, g \in Fds, n \in 1 .. MaxPkts : <<f, <<g, n, form>>>> \in L

LEMMA TakenFacts ==
  ASSUME NEW arr \in [Fds -> 0 .. MaxPkts], NEW form \in {"raw", "converted"}, NEW q
  PROVE  q \in TakenIn(arr, form) <=>
           \E g \in Fds : \E n \in 1 .. arr[g] : q = <<Across(g), <<g, n, form>>>>
<1>1. ASSUME q \in TakenIn(arr, form)
      PROVE  \E g \in Fds : \E n \in 1 .. arr[g] : q = <<Across(g), <<g, n, form>>>>
  <2>1. /\ q[2] \in Payloads /\ q = <<q[1], q[2]>> /\ q[1] = Across(q[2][1])
        /\ q[2][2] \in 1 .. arr[q[2][1]] /\ q[2][3] = form
    BY <1>1 DEF TakenIn
  <2>2. q[2][1] \in Fds /\ q[2] = <<q[2][1], q[2][2], q[2][3]>>
    BY <2>1, PayloadFacts
  <2> QED
    BY <2>1, <2>2
<1>2. ASSUME NEW g \in Fds, NEW n \in 1 .. arr[g], q = <<Across(g), <<g, n, form>>>>
      PROVE  q \in TakenIn(arr, form)
  <2>1. n \in 0 .. MaxPkts
    BY UringAssumption
  <2>2. <<g, n, form>> \in Payloads /\ Across(g) \in Fds
    BY <2>1, PayloadFacts, EdgeAssumption DEF Across
  <2> QED
    BY <1>2, <2>2 DEF TakenIn
<1> QED
  BY <1>1, <1>2

(* A packet that comes in is taken.                                        *)
LEMMA ComesTakes ==
  ASSUME HandlerInv, NEW L, NEW form, PacketSet(L, form), NEW fd \in Fds, Comes(fd)
  PROVE  RelayStep(L, form)
<1> DEFINE n == arrived[fd] + 1
           q == <<Across(fd), <<fd, n, form>>>>
<1>1. arrived \in [Fds -> 0 .. MaxPkts] /\ arrived[fd] < MaxPkts /\ out' = out
      /\ arrived' = [arrived EXCEPT ![fd] = n] /\ form \in {"raw", "converted"}
  BY DEF HandlerInv, HandlerTypeOK, UringTypeOK, Comes, PacketSet
<1>2. /\ arrived[fd] \in Nat /\ n \in 1 .. MaxPkts /\ n \notin 1 .. arrived[fd]
      /\ 1 .. n = (1 .. arrived[fd]) \cup {n}
  BY <1>1, UringAssumption
<1>3. arrived' \in [Fds -> 0 .. MaxPkts] /\ arrived'[fd] = n
      /\ \A g \in Fds \ {fd} : arrived'[g] = arrived[g]
  BY <1>1, <1>2
<1>4. q \in L
  BY <1>2, EdgeAssumption DEF Across, PacketSet
<1> HIDE DEF n
<1>5. q \notin TakenIn(arrived, form)
  <2> SUFFICES ASSUME NEW g \in Fds, NEW m \in 1 .. arrived[g],
                      q = <<Across(g), <<g, m, form>>>>
               PROVE  FALSE
    BY <1>1, TakenFacts
  <2>1. g = fd /\ m = n
    OBVIOUS
  <2> QED
    BY <1>2, <2>1
<1>6. TakenIn(arrived', form) = TakenIn(arrived, form) \cup {q}
  <2>1. ASSUME NEW r PROVE r \in TakenIn(arrived', form) <=> r \in TakenIn(arrived, form) \/ r = q
    <3>1. r \in TakenIn(arrived', form) <=>
            \E g \in Fds : \E m \in 1 .. arrived'[g] : r = <<Across(g), <<g, m, form>>>>
      <4>1. arrived' \in [Fds -> 0 .. MaxPkts] /\ form \in {"raw", "converted"}
        BY <1>1, <1>3
      <4> QED
        BY <4>1, TakenFacts
    <3>2. r \in TakenIn(arrived, form) <=>
            \E g \in Fds : \E m \in 1 .. arrived[g] : r = <<Across(g), <<g, m, form>>>>
      BY <1>1, TakenFacts
    <3>3. \A g \in Fds : 1 .. arrived'[g] = (1 .. arrived[g]) \cup {m \in {n} : g = fd}
      BY <1>2, <1>3
    <3> QED
      BY <3>1, <3>2, <3>3
  <2> QED
    BY <2>1
<1>7. Delivery(out', L) = Delivery(out, L)
  BY <1>1
<1> QED
  BY <1>4, <1>5, <1>6, <1>7 DEF RelayStep

(* A packet that leaves is delivered; anything else that leaves is none of *)
(* the relay's.                                                            *)
LEMMA LeavesDelivers ==
  ASSUME HandlerInv, NEW L, NEW form, PacketSet(L, form), NEW fd \in Fds, NEW p \in Payloads,
         Leaves(fd, p), GoesTo(fd, p, form),
         p[2] > 0 => out[fd][p] = 0 /\ Arrived(p)
  PROVE  RelayStep(L, form)
<1> DEFINE q == <<fd, p>>
<1>1. /\ out \in [Fds -> [Payloads \cup {NULL} -> Nat]] /\ arrived' = arrived
      /\ out' = [out EXCEPT ![fd][p] = @ + 1] /\ arrived \in [Fds -> 0 .. MaxPkts]
      /\ form \in {"raw", "converted"}
  BY DEF HandlerInv, HandlerTypeOK, UringTypeOK, Leaves, PacketSet
<1>2. \A f \in Fds, r \in Payloads \cup {NULL} :
        out'[f][r] = IF f = fd /\ r = p THEN out[f][r] + 1 ELSE out[f][r]
  BY <1>1
<1>3. p[1] \in Fds /\ p[2] \in 0 .. MaxPkts /\ p = <<p[1], p[2], form>>
      /\ (p[2] > 0 => p[1] # fd)
  BY PayloadFacts DEF GoesTo
<1>4. ASSUME NEW r \in L
      PROVE  /\ r[1] \in Fds /\ r[2] \in Payloads \cup {NULL} /\ r = <<r[1], r[2]>>
             /\ r[2] \in Payloads => r[2][2] > 0
  BY DEF PacketSet
<1>5. CASE p[2] > 0
  <2>1. fd = Across(p[1]) /\ p[2] \in 1 .. arrived[p[1]] /\ p[2] \in 1 .. MaxPkts
    BY <1>1, <1>3, <1>5, EdgeAssumption DEF Across, Arrived
  <2>2. q \in L
    BY <1>3, <2>1 DEF PacketSet
  <2>3. q \in TakenIn(arrived, form)
    BY <1>1, <1>3, <2>1, TakenFacts
  <2>4. Delivery(out, L)[q] = 0
    BY <1>5, <2>2 DEF Delivery
  <2>5. Delivery(out', L) = [Delivery(out, L) EXCEPT ![q] = 1]
    <3>1. ASSUME NEW r \in L
          PROVE  out'[r[1]][r[2]] = IF r = q THEN 1 ELSE out[r[1]][r[2]]
      <4>1. CASE r[1] = fd /\ r[2] = p
        <5>1. r = q
          BY <1>4, <4>1
        <5> QED
          BY <1>2, <1>4, <1>5, <4>1, <5>1
      <4>2. CASE ~(r[1] = fd /\ r[2] = p)
        <5>1. r # q
          BY <4>2
        <5> QED
          BY <1>2, <1>4, <4>2, <5>1
      <4> QED
        BY <4>1, <4>2
    <3> QED
      BY <3>1 DEF Delivery
  <2> QED
    BY <1>1, <2>2, <2>3, <2>4, <2>5 DEF RelayStep
<1>6. CASE p[2] = 0
  <2>1. ASSUME NEW r \in L PROVE out'[r[1]][r[2]] = out[r[1]][r[2]]
    <3>1. r[2] # p
      <4> SUFFICES ASSUME r[2] = p PROVE FALSE
        OBVIOUS
      <4>1. r[2][2] = 0 /\ r[2][2] > 0
        BY <1>4, <1>6
      <4> QED
        BY <4>1
    <3> QED
      BY <1>2, <1>4, <3>1
  <2>2. Delivery(out', L) = Delivery(out, L)
    BY <2>1 DEF Delivery
  <2> QED
    BY <1>1, <2>2 DEF RelayStep
<1> QED
  BY <1>3, <1>5, <1>6

(* Only the kernel lets packets in and out.                                *)
LEMMA KernelRelays ==
  ASSUME HandlerInv, NEW form, Custody(form), Kernel, UNCHANGED loopVars,
         NEW L, PacketSet(L, form)
  PROVE  RelayStep(L, form)
<1>1. \/ UNCHANGED <<arrived, out>>
      \/ \E fd \in Fds : Comes(fd)
      \/ \E fd \in Fds, p \in Payloads :
           /\ Leaves(fd, p) /\ GoesTo(fd, p, form)
           /\ p[2] > 0 => out[fd][p] = 0 /\ Arrived(p)
  BY KernelCustody
<1> QED
  BY <1>1, ComesTakes, LeavesDelivers DEF RelayStep

(* The relay starts empty.                                                 *)
LEMMA RelayStarts ==
  ASSUME iouring_init, NEW L, NEW form, PacketSet(L, form)
  PROVE  TakenIn(arrived, form) = {} /\ Delivery(out, L) = [q \in L |-> 0]
<1>1. /\ arrived = [f \in Fds |-> 0] /\ out = [f \in Fds |-> [p \in Payloads \cup {NULL} |-> 0]]
      /\ form \in {"raw", "converted"}
  BY DEF iouring_init, PacketSet
<1>2. TakenIn(arrived, form) = {}
  <2>1. /\ arrived \in [Fds -> 0 .. MaxPkts]
        /\ \A f \in Fds : 1 .. arrived[f] = {}
    BY <1>1, UringAssumption
  <2>2. ASSUME NEW q PROVE q \notin TakenIn(arrived, form)
    BY <1>1, <2>1, TakenFacts
  <2> QED
    BY <2>2
<1>3. \A q \in L : out[q[1]][q[2]] = 0
  BY <1>1 DEF PacketSet
<1> QED
  BY <1>2, <1>3 DEF Delivery

-----------------------------------------------------------------------------
(* edge_zero leaves packets as they are.                                   *)
LEMMA RawPackets == PacketSet(Leaving, "raw")
<1>1. \A p \in Fds \X (1 .. MaxPkts) \X {"raw"} : p \in Payloads /\ p[2] > 0
  BY UringAssumption DEF Payloads
<1> QED
  BY <1>1, Distinct DEF Leaving, PacketSet

LEMMA RawTaken ==
  ASSUME NEW arr \in [Fds -> 0 .. MaxPkts]
  PROVE  ({tun_fd} \X ({udp_fd} \X (1 .. arr[udp_fd]) \X {"raw"}))
           \cup ({udp_fd} \X ({tun_fd} \X (1 .. arr[tun_fd]) \X {"raw"})) = TakenIn(arr, "raw")
<1> DEFINE T == ({tun_fd} \X ({udp_fd} \X (1 .. arr[udp_fd]) \X {"raw"}))
                  \cup ({udp_fd} \X ({tun_fd} \X (1 .. arr[tun_fd]) \X {"raw"}))
<1>1. Fds = {udp_fd, tun_fd} /\ udp_fd # tun_fd
  BY EdgeAssumption
<1>2. ASSUME NEW q PROVE q \in T <=> q \in TakenIn(arr, "raw")
  <2>1. q \in {tun_fd} \X ({udp_fd} \X (1 .. arr[udp_fd]) \X {"raw"}) <=>
          \E n \in 1 .. arr[udp_fd] : q = <<tun_fd, <<udp_fd, n, "raw">>>>
    OBVIOUS
  <2>2. q \in {udp_fd} \X ({tun_fd} \X (1 .. arr[tun_fd]) \X {"raw"}) <=>
          \E n \in 1 .. arr[tun_fd] : q = <<udp_fd, <<tun_fd, n, "raw">>>>
    OBVIOUS
  <2>3. q \in TakenIn(arr, "raw") <=>
          \E g \in Fds : \E n \in 1 .. arr[g] : q = <<Across(g), <<g, n, "raw">>>>
    BY TakenFacts
  <2> QED
    BY <1>1, <2>1, <2>2, <2>3 DEF Across
<1> QED
  BY <1>2

(* The relay of module EdgeZero, in these terms.                           *)
LEMMA TunnelSteps ==
  ASSUME HandlerInv
  PROVE  /\ TakenIn(arrived, "raw") = {} /\ Delivery(out, Leaving) = [q \in Leaving |-> 0]
              => Tunnel!Init
         /\ HandlerInv' /\ RelayStep(Leaving, "raw") => [Tunnel!Next]_(Tunnel!vars)
<1>1. ({tun_fd} \X Came(udp_fd)) \cup ({udp_fd} \X Came(tun_fd)) = TakenIn(arrived, "raw")
  BY RawTaken DEF Came, HandlerInv, HandlerTypeOK, UringTypeOK
<1>2. HandlerInv' => (({tun_fd} \X Came(udp_fd)) \cup ({udp_fd} \X Came(tun_fd)))'
                       = TakenIn(arrived', "raw")
  BY RawTaken DEF Came, HandlerInv, HandlerTypeOK, UringTypeOK
<1>3. /\ [q \in Leaving |-> out[q[1]][q[2]]] = Delivery(out, Leaving)
      /\ [q \in Leaving |-> out[q[1]][q[2]]]' = Delivery(out', Leaving)
  BY DEF Delivery
<1>4. TakenIn(arrived, "raw") = {} /\ Delivery(out, Leaving) = [q \in Leaving |-> 0]
        => Tunnel!Init
  BY <1>1, <1>3 DEF Tunnel!Init
<1>5. HandlerInv' /\ RelayStep(Leaving, "raw") => [Tunnel!Next]_(Tunnel!vars)
  BY <1>1, <1>2, <1>3 DEF RelayStep, Tunnel!Next, Tunnel!Take, Tunnel!Deliver, Tunnel!vars
<1> QED
  BY <1>4, <1>5

LEMMA NextRelay == ASSUME IndInv, [Next]_vars PROVE [Tunnel!Next]_(Tunnel!vars)
<1>1. HandlerInv /\ HandlerInv' /\ Custody("raw")
  BY NextHandlerInv DEF IndInv
<1>2. CASE Kern
  BY <1>1, <1>2, KernelRelays, RawPackets, TunnelSteps DEF Kern
<1>3. CASE ~Kern
  <2>1. UNCHANGED <<arrived, out>>
    BY <1>3 DEF Next, Program, Ended, InitialRecv, iouring_initial_udp_recvs, NewTun,
       InitialRead, InitialReadSkipped, InitialReadsDone, StartupFailed, LoopCheck, Wait,
       wait_for_recv, WaitFailed, WaitSent, WaitRecv, WaitRecvFailed, WaitRecvNoBuf,
       WaitRead, WaitReadNoOp, WaitReadFailed, HandleNull, HandleTun, HandleUdp, tun_to_udp,
       udp_to_tun, Forward, Release, Leave, iouring_free_buffers, QueueExit,
       signal_handler, WaitInterrupted, vars, uringVars, dataVars
  <2>2. RelayStep(Leaving, "raw")
    BY <2>1 DEF RelayStep
  <2> QED
    BY <1>1, <2>2, TunnelSteps
<1> QED
  BY <1>2, <1>3

(* edge_zero implements a relay between device and socket: for any number  *)
(* of packets and with every fault, what leaves on one side is a packet    *)
(* that came in on the other, unharmed, and no packet leaves twice.        *)
THEOREM ImplementsRelay == Spec => TunnelRelay
<1>1. Init => Tunnel!Init
  <2> SUFFICES ASSUME Init PROVE Tunnel!Init
    OBVIOUS
  <2>1. iouring_init /\ HandlerInv
    BY InitIndInv DEF Init, IndInv
  <2> QED
    BY <2>1, RelayStarts, RawPackets, TunnelSteps
<1>2. IndInv /\ [Next]_vars => [Tunnel!Next]_(Tunnel!vars)
  BY NextRelay
<1> QED
  BY Invariance, <1>1, <1>2, PTL DEF Spec, TunnelRelay, Tunnel!Spec

-----------------------------------------------------------------------------
(***************************************************************************)
(* The program gives up only for a reason.  Unless sends stay in the       *)
(* kernel, what is in use stays within bounds, whatever the sizes are.     *)
(***************************************************************************)

(* Counting.                                                               *)
LEMMA AtMostLess ==
  ASSUME NEW S, NEW T, NEW n \in Int, NEW k \in Int, AtMost(S, n), T \subseteq S, n <= k
  PROVE  AtMost(T, k)
<1>1. IsFiniteSet(T) /\ Cardinality(T) <= Cardinality(S)
  BY FS_Subset DEF AtMost
<1>2. Cardinality(S) \in Nat /\ Cardinality(T) \in Nat
  BY <1>1, FS_CardinalityType DEF AtMost
<1> QED
  BY <1>1, <1>2 DEF AtMost

LEMMA AtMostTwo ==
  ASSUME NEW S, NEW T, NEW n \in Int, NEW k \in Int, AtMost(S, n), AtMost(T, k)
  PROVE  AtMost(S \cup T, n + k)
<1>1. IsFiniteSet(S) /\ IsFiniteSet(T) /\ IsFiniteSet(S \cap T)
  BY FS_Intersection DEF AtMost
<1>2. /\ IsFiniteSet(S \cup T)
      /\ Cardinality(S \cup T) = Cardinality(S) + Cardinality(T) - Cardinality(S \cap T)
  BY <1>1, FS_Union
<1>3. Cardinality(S) \in Nat /\ Cardinality(T) \in Nat /\ Cardinality(S \cap T) \in Nat
  BY <1>1, FS_CardinalityType
<1> QED
  BY <1>2, <1>3 DEF AtMost

LEMMA AtMostOne ==
  ASSUME NEW x
  PROVE  AtMost({x}, 1)
<1>1. IsFiniteSet({x}) /\ Cardinality({x}) = 1
  BY FS_Singleton
<1> QED
  BY <1>1 DEF AtMost

(* One element in exchange for another.                                    *)
LEMMA AtMostSwap ==
  ASSUME NEW S, NEW n \in Int, AtMost(S, n), NEW c \in S, NEW d
  PROVE  AtMost((S \ {c}) \cup {d}, n)
<1>1. Cardinality(S) \in Nat /\ IsFiniteSet(S) /\ Cardinality(S) <= n
  BY FS_CardinalityType DEF AtMost
<1>2. IsFiniteSet(S \ {c}) /\ Cardinality(S \ {c}) = Cardinality(S) - 1
  BY <1>1, FS_RemoveElement
<1>3. AtMost(S \ {c}, n - 1)
  BY <1>1, <1>2 DEF AtMost
<1>4. AtMost({d}, 1)
  BY AtMostOne
<1>5. n - 1 \in Int
  OBVIOUS
<1>7. AtMost((S \ {c}) \cup {d}, (n - 1) + 1)
  BY <1>3, <1>4, <1>5, AtMostTwo
<1>6. (n - 1) + 1 = n
  OBVIOUS
<1> QED
  BY <1>6, <1>7

(* A function has no more values than arguments.                           *)
LEMMA AtMostValues ==
  ASSUME NEW S, NEW n \in Int, AtMost(S, n), NEW f
  PROVE  AtMost({f[x] : x \in S}, n)
<1> DEFINE T == {f[x] : x \in S}
           g == [x \in S |-> f[x]]
<1>1. g \in Surjection(S, T)
  BY DEF Surjection
<1>2. IsFiniteSet(T) /\ Cardinality(T) <= Cardinality(S)
  BY <1>1, FS_Surjection DEF AtMost
<1>3. Cardinality(S) \in Nat /\ Cardinality(T) \in Nat
  BY <1>2, FS_CardinalityType DEF AtMost
<1> QED
  BY <1>2, <1>3 DEF AtMost

LEMMA AtMostRange ==
  ASSUME NEW n \in Nat
  PROVE  AtMost(1 .. n, n)
<1>1. IsFiniteSet(1 .. n) /\ Cardinality(1 .. n) = IF 1 > n THEN 0 ELSE n - 1 + 1
  BY FS_Interval
<1> QED
  BY <1>1 DEF AtMost

-----------------------------------------------------------------------------
(* Operation o plays the same part in the queue after the step.            *)
Alike(o) ==
  /\ op'[o].op_type = op[o].op_type /\ op'[o].is_multi = op[o].is_multi
  /\ IsSend(o) => op'[o].buf_idx = op[o].buf_idx

(* A step that leaves the queue alone.                                     *)
LEMMA QueueKept ==
  ASSUME UNCHANGED cq, \A i \in CqIndex : Alike(cq[i].op)
  PROVE  /\ Reported' = Reported /\ Returning' = Returning
         /\ \A i : Around(i)' = Around(i)
<1>1. CqIndex' = CqIndex
  BY DEF CqIndex
<1>2. \A i \in CqIndex : /\ IsSend(cq[i].op)' <=> IsSend(cq[i].op)
                         /\ IsRecv(cq[i].op)' <=> IsRecv(cq[i].op)
  BY DEF Alike, IsSend, IsRecv
<1>3. Reported' = Reported
  BY <1>1 DEF Reported
<1>4. Returning' = Returning
  BY <1>1, <1>2 DEF Returning, Alike
<1>5. ASSUME NEW i PROVE Around(i)' = Around(i)
  BY <1>1, <1>2 DEF Around
<1> QED
  BY <1>3, <1>4, <1>5

(* A step of wait_for_recv, which takes the first entry.                   *)
LEMMA QueuePopped ==
  ASSUME HandlerInv, Completion, \A i \in CqIndex \ {1} : Alike(cq[i].op)
  PROVE  /\ Reported' \subseteq Reported
         /\ \A b \in Returning \ Returning' : IsSend(cqe.op) /\ b = op[cqe.op].buf_idx
         /\ \A i \in 1 .. Len(cq') + 1 :
              /\ i + 1 \in 1 .. Len(cq) + 1
              /\ Around(i)' \subseteq Around(i + 1)
              /\ IsRecv(cqe.op) => <<cqe.op, cqe.buf>> \in Around(i + 1)
<1>1. /\ cqe = cq[1] /\ 1 \in CqIndex /\ Len(cq) \in Nat
      /\ \A i \in CqIndex \ {1} : i - 1 \in CqIndex' /\ cq'[i - 1] = cq[i]
  BY QueueMovesUp
<1>2. \A i \in CqIndex' : i + 1 \in CqIndex \ {1} /\ cq'[i] = cq[i + 1] /\ i \in Nat
  <2>1. \A i \in CqIndex' : i + 1 \in CqIndex /\ cq'[i] = cq[i + 1] /\ i \in Nat
    BY SeenEntry
  <2>2. \A i \in CqIndex' : i >= 1
    BY DEF CqIndex
  <2> QED
    BY <2>1, <2>2
<1>3. \A i \in CqIndex \ {1} :
        /\ op'[cq[i].op].op_type = op[cq[i].op].op_type
        /\ op'[cq[i].op].is_multi = op[cq[i].op].is_multi
        /\ IsSend(cq[i].op) => op'[cq[i].op].buf_idx = op[cq[i].op].buf_idx
  BY DEF Alike
<1>4. Reported' \subseteq Reported
  BY <1>2 DEF Reported
<1>5. ASSUME NEW b \in Returning \ Returning'
      PROVE  IsSend(cqe.op) /\ b = op[cqe.op].buf_idx
  <2>1. PICK k \in CqIndex, i \in CqIndex :
          /\ IsSend(cq[k].op) /\ k < i /\ op[cq[i].op].is_multi /\ ~cq[i].more
          /\ b = op[cq[k].op].buf_idx
    BY <1>5 DEF Returning
  <2>2. CASE k = 1
    BY <1>1, <2>1, <2>2
  <2>3. CASE k # 1
    <3>1. k \in Int /\ i \in Int /\ i # 1 /\ k - 1 < i - 1
      BY <1>1, <2>1, <2>3 DEF CqIndex
    <3>2. /\ k - 1 \in CqIndex' /\ i - 1 \in CqIndex'
          /\ cq'[k - 1] = cq[k] /\ cq'[i - 1] = cq[i]
      BY <1>1, <2>3, <3>1
    <3>3. op'[cq[i].op].is_multi /\ b = op'[cq[k].op].buf_idx
      BY <1>3, <2>1, <2>3, <3>1
    <3>4. IsSend(cq[k - 1].op)'
      BY <1>3, <2>1, <2>3, <3>2 DEF IsSend
    <3>5. b \in Returning'
      BY <2>1, <3>1, <3>2, <3>3, <3>4 DEF Returning
    <3> QED
      BY <1>5, <3>5
  <2> QED
    BY <2>2, <2>3
<1>6. ASSUME NEW i \in 1 .. Len(cq') + 1
      PROVE  /\ i + 1 \in 1 .. Len(cq) + 1
             /\ Around(i)' \subseteq Around(i + 1)
             /\ IsRecv(cqe.op) => <<cqe.op, cqe.buf>> \in Around(i + 1)
  <2>1. Len(cq') = Len(cq) - 1
    BY <1>1, TailFacts DEF Completion, HandlerInv, HandlerTypeOK, UringTypeOK
  <2>2. i + 1 \in 1 .. Len(cq) + 1 /\ 1 < i + 1 /\ i \in Int
    BY <1>1, <2>1
  <2>3. ASSUME NEW w \in Around(i)' PROVE w \in Around(i + 1)
    <3>1. PICK k \in CqIndex' : /\ w = <<cq'[k].op, cq'[k].buf>>
                                /\ IF k < i THEN IsRecv(cq[k].op)' ELSE IsSend(cq[k].op)'
      BY <2>3 DEF Around
    <3>2. k + 1 \in CqIndex \ {1} /\ cq'[k] = cq[k + 1] /\ (k < i <=> k + 1 < i + 1)
      BY <1>2, <2>2
    <3>3. op'[cq'[k].op].op_type = op[cq[k + 1].op].op_type
      BY <1>3, <3>2
    <3>4. IF k + 1 < i + 1 THEN IsRecv(cq[k + 1].op) ELSE IsSend(cq[k + 1].op)
      BY <3>1, <3>2, <3>3 DEF IsRecv, IsSend
    <3> QED
      BY <3>1, <3>2, <3>4 DEF Around
  <2>4. IsRecv(cqe.op) => <<cqe.op, cqe.buf>> \in Around(i + 1)
    BY <1>1, <2>2 DEF Around
  <2> QED
    BY <2>2, <2>3, <2>4
<1> QED
  BY <1>4, <1>5, <1>6

(* A step of the kernel, which adds an entry.                              *)
LEMMA QueueGrown ==
  ASSUME HandlerInv, NEW e \in Cqe, cq' = Append(cq, e), UNCHANGED op
  PROVE  /\ Len(cq') = Len(cq) + 1 /\ Len(cq) \in Nat
         /\ ~e.more => Reported' = Reported
         /\ Returning \subseteq Returning'
         /\ \A i \in 1 .. Len(cq) + 1 :
              Around(i)' \subseteq Around(i) \cup {w \in {<<e.op, e.buf>>} : IsSend(e.op)}
         /\ IsSend(e.op) => Around(Len(cq) + 1)' \subseteq Around(Len(cq) + 1)
<1>1. cq \in Seq(Cqe) /\ Len(cq) \in Nat
  BY DEF HandlerInv, HandlerTypeOK, UringTypeOK
<1>2. /\ Len(cq') = Len(cq) + 1
      /\ CqIndex' = CqIndex \cup {Len(cq) + 1}
      /\ \A i \in CqIndex : cq'[i] = cq[i] /\ i \in Int /\ i < Len(cq) + 1
      /\ cq'[Len(cq) + 1] = e
  BY <1>1, AppendFacts DEF CqIndex
<1>3. \A o : (IsSend(o)' <=> IsSend(o)) /\ (IsRecv(o)' <=> IsRecv(o))
  BY DEF IsSend, IsRecv
<1>4. ~e.more => Reported' = Reported
  BY <1>2 DEF Reported
<1>5. Returning \subseteq Returning'
  BY <1>2, <1>3 DEF Returning
<1>6. ASSUME NEW i \in 1 .. Len(cq) + 1, NEW w \in Around(i)'
      PROVE  w \in Around(i) \/ (IsSend(e.op) /\ w = <<e.op, e.buf>>)
  <2>1. PICK k \in CqIndex' : /\ w = <<cq'[k].op, cq'[k].buf>>
                              /\ IF k < i THEN IsRecv(cq[k].op)' ELSE IsSend(cq[k].op)'
    BY <1>6 DEF Around
  <2>2. IF k < i THEN IsRecv(cq'[k].op) ELSE IsSend(cq'[k].op)
    BY <2>1 DEF IsRecv, IsSend
  <2>3. CASE k \in CqIndex
    BY <1>2, <2>1, <2>2, <2>3 DEF Around
  <2>4. CASE k = Len(cq) + 1
    BY <1>1, <1>2, <2>1, <2>2, <2>4
  <2> QED
    BY <1>2, <2>3, <2>4
<1>7. ASSUME IsSend(e.op), NEW w \in Around(Len(cq) + 1)'
      PROVE  w \in Around(Len(cq) + 1)
  <2>1. PICK k \in CqIndex' :
          /\ w = <<cq'[k].op, cq'[k].buf>>
          /\ IF k < Len(cq') + 1 THEN IsRecv(cq[k].op)' ELSE IsSend(cq[k].op)'
    BY <1>7 DEF Around
  <2>4. k < Len(cq') + 1
    BY <1>1, <1>2
  <2>2. IsRecv(cq'[k].op)
    BY <2>1, <2>4 DEF IsRecv
  <2>3. k \in CqIndex
    BY <1>2, <1>7, <2>2 DEF IsSend, IsRecv
  <2> QED
    BY <1>1, <1>2, <2>1, <2>2, <2>3 DEF Around
<1> QED
  BY <1>1, <1>2, <1>4, <1>5, <1>6, <1>7

-----------------------------------------------------------------------------
(* One packet at a time is made into a send.                               *)
LEMMA OneClaim ==
  ASSUME Roles'
  PROVE  AtMost(Claims', 1)
<1>1. \A o, p \in Sends' \cup InHand' : o = p
  BY DEF Roles, InHand
<1>2. \A v, w \in Claims' : v = w
  BY <1>1 DEF Claims, Claim
<1> DEFINE c == CHOOSE w \in Claims' : TRUE
<1>3. Claims' \subseteq {c} /\ AtMost({c}, 1)
  BY <1>2, AtMostOne
<1> QED
  BY <1>3, AtMostLess

(* Were all reported packets made into sends, there would be no more than  *)
(* this: the receive fills the queue at most once over, and is over with   *)
(* one more; and there are the reads.                                      *)
LEMMA AllPackets ==
  ASSUME HandlerInv', Roles', AtMost(Reported', cq_depth)
  PROVE  AtMost(Work(Len(cq) + 1)', cq_depth + Reads' + 2)
<1> DEFINE M == CHOOSE m \in Ops : op'[m].is_multi
           f == [b \in Reported' |-> <<M, b>>]
           g == [r \in ReadOps' |-> <<r, NO_BUF>>]
           E == {j \in CqIndex' : op'[cq'[j].op].is_multi /\ ~cq'[j].more}
           l == CHOOSE j \in E : TRUE
           A == {f[b] : b \in Reported'}
           B == {g[r] : r \in ReadOps'}
           L == {<<M, cq'[l].buf>>}
<1>1. \A i \in CqIndex' : /\ cq'[i].op \in Ops /\ cq'[i].op \notin io_op_pool'
                          /\ cq'[i].buf # NO_BUF => op'[cq'[i].op].is_multi
                          /\ i \in Int /\ i < Len(cq') + 1
  <2>1. cq' \in Seq(Cqe)
    BY DEF HandlerInv, HandlerTypeOK, UringTypeOK
  <2>2. \A i \in CqIndex' : cq'[i] \in Cqe /\ i \in Int /\ i < Len(cq') + 1
    BY <2>1 DEF CqIndex
  <2> QED
    BY <2>2 DEF HandlerInv, OpExclusive, Bookkeeping, Cqe
<1>2. \A o \in Ops : op'[o].is_multi => o = M
  <2>1. ASSUME NEW o \in Ops, op'[o].is_multi PROVE o = M
    <3>1. M \in Ops /\ op'[M].is_multi
      BY <2>1
    <3> QED
      BY <2>1, <3>1 DEF Roles
  <2> QED
    BY <2>1
<1>3. \A i, j \in E : i = j
  <2>1. ASSUME NEW i \in E, NEW j \in E PROVE i = j
    <3>1. cq'[i].op = cq'[j].op
      BY <1>1, <1>2, <2>1
    <3>2. i <= j /\ j <= i
      BY <2>1, <3>1 DEF HandlerInv, OpExclusive
    <3> QED
      BY <1>1, <2>1, <3>2
  <2> QED
    BY <2>1
<1>3a. \A i \in E : i = l
  BY <1>3
<1> HIDE DEF M, l
<1>4. ASSUME NEW w \in Around(Len(cq) + 1)' PROVE w \in A \cup B \cup L
  <2>1. PICK k \in CqIndex' :
          /\ w = <<cq'[k].op, cq'[k].buf>>
          /\ IF k < Len(cq') + 1 THEN IsRecv(cq[k].op)' ELSE IsSend(cq[k].op)'
    BY <1>4 DEF Around
  <2>2. IsRecv(cq[k].op)'
    BY <1>1, <2>1
  <2>3. CASE op'[cq'[k].op].is_multi /\ cq'[k].more
    <3>1. cq'[k].buf \in Reported' /\ w = <<M, cq'[k].buf>>
      BY <1>1, <1>2, <2>1, <2>3 DEF Reported
    <3> QED
      BY <3>1
  <2>4. CASE op'[cq'[k].op].is_multi /\ ~cq'[k].more
    <3>1. k \in E /\ cq'[k].op = M
      BY <1>1, <1>2, <2>4
    <3>2. k = l
      BY <1>3a, <3>1
    <3>3. w = <<M, cq'[l].buf>>
      BY <2>1, <3>1, <3>2
    <3> QED
      BY <3>3
  <2>5. CASE ~op'[cq'[k].op].is_multi
    <3>1. cq'[k].buf = NO_BUF
      BY <1>1, <2>5
    <3>2. op'[cq'[k].op].op_type = "TUN_READ"
      BY <1>1, <2>2, <2>5 DEF Roles, IsSend, IsRecv
    <3>3. cq'[k].op \in ReadOps'
      BY <3>2 DEF ReadOps, Queued
    <3> QED
      BY <2>1, <3>1, <3>3
  <2> QED
    BY <2>3, <2>4, <2>5
<1>5. cq_depth \in Int /\ Reads' \in Int /\ AtMost(ReadOps', Reads')
  <2>1. inflight' \cup Queued' \subseteq Ops
    BY <1>1 DEF HandlerInv, HandlerTypeOK, UringTypeOK, Queued
  <2>2. ReadOps' \in SUBSET Ops
    BY <2>1 DEF ReadOps
  <2>3. IsFiniteSet(ReadOps')
    BY <2>2, SizeAssumption, FS_Subset
  <2>4. Cardinality(ReadOps') \in Nat
    BY <2>3, FS_CardinalityType
  <2> QED
    BY <2>3, <2>4, UringAssumption DEF Reads, AtMost
<1>6. AtMost(A, cq_depth)
  BY <1>5, AtMostValues
<1>7. AtMost(B, Reads')
  BY <1>5, AtMostValues
<1>8. AtMost(L, 1)
  BY AtMostOne
<1>9. AtMost(Claims', 1)
  BY OneClaim
<1> HIDE DEF A, B, L
<1> DEFINE n == cq_depth + Reads'
           h == n + 1
<1>10. AtMost(A \cup B, n) /\ n \in Int
  BY <1>5, <1>6, <1>7, AtMostTwo
<1> HIDE DEF n
<1>11. AtMost((A \cup B) \cup L, h) /\ h \in Int
  BY <1>8, <1>10, AtMostTwo
<1> HIDE DEF h
<1>12. AtMost(((A \cup B) \cup L) \cup Claims', h + 1)
  BY <1>9, <1>11, AtMostTwo
<1>13. Work(Len(cq) + 1)' \subseteq ((A \cup B) \cup L) \cup Claims'
  BY <1>4 DEF Work
<1>14. h + 1 = cq_depth + Reads' + 2 /\ h + 1 \in Int
  BY <1>5 DEF n, h
<1> QED
  BY <1>12, <1>13, <1>14, AtMostLess

(* Where the loop needs an operation and finds none, there are few: those  *)
(* that are in use are the receive, the pending reads and part of the work.*)
LEMMA PoolLeft ==
  ASSUME IndInv, Roles, Bounded, Healthy, pc \in {"wait", "handle"}, io_op_pool = {}
  PROVE  Cardinality(Ops) < cq_depth + 2 * Reads + 4
<1>1. /\ HandlerInv /\ Kept
      /\ \E m \in Ops : op[m].is_multi
  BY DEF IndInv, LossInv, Going, Healthy, InLoop, Exit
<1>2. PICK m \in Ops : op[m].is_multi
  BY <1>1
<1> DEFINE g == [w \in Work(1) |-> w[1]]
           B == {g[w] : w \in Work(1)}
<1>3. ASSUME NEW o \in Ops PROVE o \in ({m} \cup ReadOps) \cup B
  <2>1. CASE op[o].is_multi
    BY <1>1, <1>2, <2>1 DEF Roles
  <2>2. CASE ~op[o].is_multi /\ o \in inflight
    <3>1. o \notin Sends
      BY <1>1 DEF Roles
    <3>2. op[o].op_type = "TUN_READ"
      BY <1>1, <1>3, <2>2, <3>1 DEF Roles, Sends
    <3> QED
      BY <2>2, <3>2 DEF ReadOps
  <2>3. CASE ~op[o].is_multi /\ o \in Queued
    <3>1. CASE op[o].op_type = "TUN_READ"
      BY <2>3, <3>1 DEF ReadOps
    <3>2. CASE op[o].op_type # "TUN_READ"
      <4>1. IsSend(o)
        BY <1>1, <1>3, <2>3, <3>2 DEF Roles
      <4>2. PICK i \in CqIndex : cq[i].op = o
        BY <2>3 DEF Queued
      <4>3. ~(i < 1)
        BY DEF CqIndex
      <4>4. <<o, cq[i].buf>> \in Work(1)
        BY <4>1, <4>2, <4>3 DEF Work, Around
      <4>5. g[<<o, cq[i].buf>>] = o
        BY <4>4
      <4> QED
        BY <4>4, <4>5
    <3> QED
      BY <3>1, <3>2
  <2>4. CASE ~op[o].is_multi /\ o = hand
    <3>1. o \in InHand
      BY <1>1, <2>4, Distinct DEF InHand, HandlerInv, Bookkeeping
    <3>2. Claim(o) \in Work(1) /\ Claim(o)[1] = o
      BY <3>1 DEF Work, Claims, Claim
    <3>3. g[Claim(o)] = o
      BY <3>2
    <3> QED
      BY <3>2, <3>3
  <2> QED
    BY <1>1, <1>3, <2>1, <2>2, <2>3, <2>4 DEF Kept
<1>4. Reads \in Nat /\ cq_depth \in Nat /\ Cardinality(Ops) \in Nat
  BY <1>1, ReadFacts, UringAssumption, SizeAssumption, FS_CardinalityType
<1>5. AtMost(Work(1), cq_depth + Reads + 2)
  <2>1. Len(cq) \in Nat
    BY <1>1 DEF HandlerInv, HandlerTypeOK, UringTypeOK
  <2>2. 1 \in 1 .. Len(cq) + 1
    BY <2>1
  <2> QED
    BY <1>1, <2>2 DEF Bounded
<1> DEFINE n == cq_depth + Reads + 2
<1>6. n \in Int /\ 1 + Reads \in Int /\ AtMost(Work(1), n)
  BY <1>4, <1>5
<1> HIDE DEF n
<1>7. AtMost(B, n)
  BY <1>6, AtMostValues
<1> HIDE DEF B
<1>8. AtMost(ReadOps, Reads)
  BY <1>1, <1>4, ReadFacts DEF Reads, AtMost
<1>8a. AtMost({m}, 1)
  BY AtMostOne
<1>9. AtMost({m} \cup ReadOps, 1 + Reads)
  BY <1>4, <1>8, <1>8a, AtMostTwo
<1>10. AtMost(({m} \cup ReadOps) \cup B, (1 + Reads) + n)
  BY <1>6, <1>7, <1>9, AtMostTwo
<1>11. (1 + Reads) + n \in Int /\ (1 + Reads) + n = cq_depth + 2 * Reads + 3
  BY <1>4 DEF n
<1>12. AtMost(Ops, (1 + Reads) + n)
  BY <1>3, <1>10, <1>11, AtMostLess
<1> QED
  BY <1>4, <1>11, <1>12 DEF AtMost

(* There are more buffers than operations.                                 *)
LEMMA BufLeft ==
  ASSUME IndInv, Healthy, buf_addr_pool = {}
  PROVE  io_op_pool = {}
<1>1. /\ HandlerInv /\ Kept
      /\ \E m \in Ops : op[m].is_multi
  BY DEF IndInv, LossInv, Going, Healthy, InLoop, Exit
<1>2. Cardinality(io_op_pool) < Cardinality(buf_addr_pool)
  BY <1>1, OneOver
<1>3. IsFiniteSet(io_op_pool)
  BY <1>1, SizeAssumption, FS_Subset DEF HandlerInv, HandlerTypeOK, UringTypeOK
<1>4. Cardinality(io_op_pool) \in Nat /\ Cardinality({}) = 0
  BY <1>3, FS_CardinalityType, FS_EmptySet
<1> QED
  BY <1>2, <1>4

(* While the receive is armed, none of its completions is the last.        *)
LEMMA NoneReturning ==
  ASSUME HandlerInv, Roles, NEW m \in inflight, op[m].is_multi
  PROVE  Returning = {}
<1>1. \A i \in CqIndex : op[cq[i].op].is_multi => cq[i].op = m
  BY EntryTypes DEF Roles, HandlerInv, HandlerTypeOK, UringTypeOK
<1>2. \A i \in CqIndex : op[cq[i].op].is_multi => cq[i].more
  BY <1>1 DEF HandlerInv, OpExclusive
<1> QED
  BY <1>2 DEF Returning

(* Where the receive finds the ring empty, it is small.                    *)
LEMMA RingLeft ==
  ASSUME HandlerInv, Roles, Bounded, NEW m \in inflight, op[m].is_multi, br = {}
  PROVE  br_n_bufs < cq_depth + 3
<1>2. RingBufs \ (br \cup Returning) = RingBufs
  BY NoneReturning
<1>3. AtMost(RingBufs, cq_depth + 2)
  BY <1>2 DEF Bounded
<1>4. br_n_bufs \in Nat /\ cq_depth \in Nat
  BY UringAssumption
<1>5. Cardinality(RingBufs) = IF 0 > br_n_bufs - 1 THEN 0 ELSE br_n_bufs - 1 - 0 + 1
  BY <1>4, FS_Interval DEF RingBufs
<1> QED
  BY <1>3, <1>4, <1>5 DEF AtMost

-----------------------------------------------------------------------------
(* The ring buffers of the packet that is being made into a send.          *)
Pending == {op[o].buf_idx : o \in Sends \cup InHand}

LEMMA OnePending ==
  ASSUME Roles'
  PROVE  AtMost(Pending', 1)
<1>1. \A o, p \in Sends' \cup InHand' : o = p
  BY DEF Roles, InHand
<1>2. \A v, w \in Pending' : v = w
  BY <1>1 DEF Pending
<1> DEFINE c == CHOOSE w \in Pending' : TRUE
<1>3. Pending' \subseteq {c} /\ AtMost({c}, 1)
  BY <1>2, AtMostOne
<1> QED
  BY <1>3, AtMostLess

(* A ring buffer that is not lent to the kernel is reported, or belongs to *)
(* a send that is, or to that packet.                                      *)
LEMMA RingInUse ==
  ASSUME HandlerInv', Roles', Kept', Stranded' = {}, NEW b \in RingBufs \ br'
  PROVE  \/ b \in Pending'
         \/ \E i \in CqIndex' : \/ b = cq'[i].buf
                                \/ IsSend(cq[i].op)' /\ b = op'[cq'[i].op].buf_idx
<1>1. InUse(b)'
  BY DEF Stranded
<1>2. ASSUME NEW o \in Ops, op'[o].buf_idx = b,
             ~op'[o].is_multi \/ (o = hand' /\ pc' \in {"handle", "release"})
      PROVE  \/ b \in Pending'
             \/ \E i \in CqIndex' : IsSend(cq[i].op)' /\ b = op'[cq'[i].op].buf_idx
  <2>1. CASE op'[o].is_multi
    <3>1. pc' # "release"
      BY <1>2, <2>1, Distinct DEF Roles
    <3>2. o \in InHand'
      BY <1>2, <2>1, <3>1 DEF InHand
    <3> QED
      BY <1>2, <3>2 DEF Pending
  <2>2. CASE ~op'[o].is_multi
    <3>1. IsSend(o)'
      BY <1>2, <2>2 DEF Roles
    <3>2. o \notin io_op_pool'
      BY <1>2, Fields, Distinct DEF HandlerInv, Bookkeeping
    <3>3. o # hand'
      BY <3>1 DEF Roles, IsSend, IsRecv
    <3>4. o \in inflight' \/ o \in Queued'
      BY <2>2, <3>2, <3>3 DEF Kept
    <3>5. o \in inflight' => b \in Pending'
      BY <1>2, <3>1 DEF Pending, Sends
    <3>6. ASSUME o \in Queued'
          PROVE  \E i \in CqIndex' : IsSend(cq[i].op)' /\ b = op'[cq'[i].op].buf_idx
      <4>1. PICK i \in CqIndex' : cq'[i].op = o
        BY <3>6 DEF Queued
      <4>2. IsSend(cq[i].op)'
        BY <3>1, <4>1 DEF IsSend
      <4> QED
        BY <1>2, <4>1, <4>2
    <3> QED
      BY <3>4, <3>5, <3>6
  <2> QED
    BY <2>1, <2>2
<1> QED
  BY <1>1, <1>2 DEF InUse

(* The receive goes on: all buffers in use are counted with the queue.     *)
LEMMA RingMore ==
  ASSUME HandlerInv', Roles', Kept', Stranded' = {}, Len(cq') <= cq_depth
  PROVE  AtMost((RingBufs \ (br \cup Returning))', cq_depth + 2)
<1> DEFINE h == [i \in CqIndex' |-> IF IsSend(cq[i].op)' THEN op'[cq'[i].op].buf_idx
                                                         ELSE cq'[i].buf]
           A == {h[i] : i \in CqIndex'}
<1>1. Len(cq') \in Nat /\ cq_depth \in Nat
  BY UringAssumption DEF HandlerInv, HandlerTypeOK, UringTypeOK
<1>2. AtMost(CqIndex', Len(cq'))
  BY <1>1, AtMostRange DEF CqIndex
<1> HIDE DEF h
<1>3. AtMost(A, Len(cq'))
  BY <1>1, <1>2, AtMostValues
<1> USE DEF h
<1>4. ASSUME NEW b \in RingBufs \ br' PROVE b \in A \cup Pending'
  <2>1. CASE b \in Pending'
    BY <2>1
  <2>2. ASSUME NEW i \in CqIndex', b = cq'[i].buf PROVE b \in A
    <3>1. ~IsSend(cq[i].op)'
      <4>1. cq' \in Seq(Cqe)
        BY DEF HandlerInv, HandlerTypeOK, UringTypeOK
      <4>2. cq'[i] \in Cqe
        BY <4>1 DEF CqIndex
      <4>3. cq'[i].op \in Ops /\ b # NO_BUF
        BY <4>2, Distinct DEF Cqe
      <4>4. op'[cq'[i].op].op_type = "UDP_RECV"
        BY <2>2, <4>3 DEF HandlerInv, Bookkeeping
      <4> QED
        BY <4>4 DEF IsSend
    <3>2. h[i] = b
      BY <2>2, <3>1
    <3> QED
      BY <3>2
  <2>3. ASSUME NEW i \in CqIndex', IsSend(cq[i].op)', b = op'[cq'[i].op].buf_idx PROVE b \in A
    <3>1. h[i] = b
      BY <2>3
    <3> QED
      BY <3>1
  <2> QED
    BY <2>1, <2>2, <2>3, RingInUse
<1> HIDE DEF A
<1>5. AtMost(A \cup Pending', Len(cq') + 1)
  BY <1>1, <1>3, OnePending, AtMostTwo
<1>6. (RingBufs \ (br \cup Returning))' \subseteq A \cup Pending'
  BY <1>4 DEF RingBufs
<1>7. Len(cq') + 1 \in Int /\ cq_depth + 2 \in Int /\ Len(cq') + 1 <= cq_depth + 2
  BY <1>1
<1> QED
  BY <1>5, <1>6, <1>7, AtMostLess

(* The receive is over: the sends that are reported come before that.      *)
LEMMA RingLast ==
  ASSUME HandlerInv', Roles', Kept', Stranded' = {}, AtMost(Reported', cq_depth),
         CqIndex' = CqIndex \cup {Len(cq')}, \A i \in CqIndex : i < Len(cq'),
         ~cq'[Len(cq')].more, op'[cq'[Len(cq')].op].is_multi
  PROVE  AtMost((RingBufs \ (br \cup Returning))', cq_depth + 2)
<1> DEFINE n == Len(cq')
           L == {cq'[n].buf}
<1>1. n \in Nat /\ cq_depth \in Nat /\ cq' \in Seq(Cqe)
  BY UringAssumption DEF HandlerInv, HandlerTypeOK, UringTypeOK
<1>2. \A i \in CqIndex' : cq'[i].op \in Ops
  <2>1. \A i \in CqIndex' : cq'[i] \in Cqe
    BY <1>1 DEF CqIndex
  <2> QED
    BY <2>1 DEF Cqe
<1>3. ASSUME NEW b \in RingBufs \ (br' \cup Returning')
      PROVE  b \in (Reported' \cup L) \cup Pending'
  <2>1. ASSUME NEW i \in CqIndex', b = cq'[i].buf PROVE b \in Reported' \cup L
    <3>1. CASE cq'[i].more
      BY <2>1, <3>1 DEF Reported
    <3>2. CASE ~cq'[i].more
      <4>1. b # NO_BUF
        BY Distinct
      <4>2. op'[cq'[i].op].is_multi
        BY <2>1, <4>1 DEF HandlerInv, Bookkeeping
      <4>3. cq'[i].op = cq'[n].op
        BY <1>2, <4>2 DEF Roles
      <4>4. n <= i
        BY <3>2, <4>3 DEF HandlerInv, OpExclusive
      <4>5. i = n
        BY <1>1, <4>4 DEF CqIndex
      <4> QED
        BY <2>1, <4>5
    <3> QED
      BY <3>1, <3>2
  <2>2. ASSUME NEW i \in CqIndex', IsSend(cq[i].op)', b = op'[cq'[i].op].buf_idx PROVE FALSE
    <3>1. op'[cq'[n].op].op_type = "UDP_RECV"
      BY <1>2 DEF HandlerInv, Bookkeeping
    <3>2. i # n
      BY <2>2, <3>1 DEF IsSend
    <3>3. i < n
      BY <3>2
    <3>4. b \in Returning'
      BY <2>2, <3>3 DEF Returning
    <3> QED
      BY <1>3, <3>4
  <2> QED
    BY <1>3, <2>1, <2>2, RingInUse
<1>4. AtMost(L, 1)
  BY AtMostOne
<1> HIDE DEF L
<1> DEFINE k == cq_depth + 1
<1>5. AtMost(Reported' \cup L, k) /\ k \in Int
  BY <1>1, <1>4, AtMostTwo
<1> HIDE DEF k
<1>6. AtMost((Reported' \cup L) \cup Pending', k + 1)
  BY <1>5, OnePending, AtMostTwo
<1>7. k + 1 = cq_depth + 2 /\ k + 1 \in Int
  BY <1>1 DEF k
<1>8. (RingBufs \ (br \cup Returning))' \subseteq (Reported' \cup L) \cup Pending'
  BY <1>3 DEF RingBufs
<1> QED
  BY <1>6, <1>7, <1>8, AtMostLess

-----------------------------------------------------------------------------
(* What the kernel reports: only the receive goes on and takes buffers of  *)
(* the ring, and what it did not get right has a reason.                   *)
LEMMA KernelCases ==
  ASSUME HandlerInv, Kernel
  PROVE  \E o \in inflight, e \in Cqe :
           /\ cq' = Append(cq, e) /\ e.op = o
           /\ inflight' = IF e.more THEN inflight ELSE inflight \ {o}
           /\ br' = br \ {e.buf}
           /\ UNCHANGED <<io_op_pool, op>>
           /\ e.more => op[o].is_multi /\ Len(cq) < cq_depth
           /\ e.buf # NO_BUF => op[o].is_multi
           /\ e.res = "err" => \/ "cqe" \in Faults
                               \/ op[o].is_multi /\ br = {}
                               \/ op[o].op_type = "UDP_SEND" /\ op[o].addr_len = 0
           /\ e.res = "empty" => "empty" \in Faults
           /\ op[o].is_multi /\ e.buf = NO_BUF => e.res # "ok"
<1>1. PICK o \in inflight :
        \/ KRecv(o) \/ KNoBufs(o) \/ KRecvEnd(o) \/ KRead(o)
        \/ KWrite(o) \/ KNoDest(o) \/ KError(o)
  BY DEF Kernel
<1>2. /\ o \in Ops /\ br \subseteq RingBufs /\ Pick(br) \subseteq br
      /\ op[o].is_multi => op[o].op_type = "UDP_RECV"
  BY PickFacts DEF HandlerInv, HandlerTypeOK, UringTypeOK, Bookkeeping
<1>3. br \ {NO_BUF} = br
  BY <1>2, Distinct
<1>4. ASSUME NEW res \in {"ok", "empty", "err"}, NEW i \in {NO_BUF} \cup RingBufs,
             NEW more \in BOOLEAN,
             Complete(o, res, i, more), br' = br \ {i}, UNCHANGED <<io_op_pool, op>>,
             more => op[o].is_multi /\ Len(cq) < cq_depth,
             i # NO_BUF => op[o].is_multi,
             res = "err" => \/ "cqe" \in Faults
                            \/ op[o].is_multi /\ br = {}
                            \/ op[o].op_type = "UDP_SEND" /\ op[o].addr_len = 0,
             res = "empty" => "empty" \in Faults,
             op[o].is_multi /\ i = NO_BUF => res # "ok"
      PROVE  \E p \in inflight, e \in Cqe :
               /\ cq' = Append(cq, e) /\ e.op = p
               /\ inflight' = IF e.more THEN inflight ELSE inflight \ {p}
               /\ br' = br \ {e.buf}
               /\ UNCHANGED <<io_op_pool, op>>
               /\ e.more => op[p].is_multi /\ Len(cq) < cq_depth
               /\ e.buf # NO_BUF => op[p].is_multi
               /\ e.res = "err" => \/ "cqe" \in Faults
                                   \/ op[p].is_multi /\ br = {}
                                   \/ op[p].op_type = "UDP_SEND" /\ op[p].addr_len = 0
               /\ e.res = "empty" => "empty" \in Faults
               /\ op[p].is_multi /\ e.buf = NO_BUF => e.res # "ok"
  <2> DEFINE e == [op |-> o, res |-> res, buf |-> i, more |-> more]
  <2>1. e \in Cqe /\ e.op = o /\ e.res = res /\ e.buf = i /\ e.more = more
    BY <1>2, <1>4 DEF Cqe
  <2>2. cq' = Append(cq, e) /\ inflight' = IF e.more THEN inflight ELSE inflight \ {o}
    BY <1>4, <2>1 DEF Complete
  <2> HIDE DEF e
  <2> QED
    BY <1>4, <2>1, <2>2
<1>5. CASE KRecv(o)
  <2>1. PICK i \in Pick(br), more \in BOOLEAN, res \in RecvResults :
          /\ more => Len(cq) < cq_depth
          /\ br' = br \ {i}
          /\ Complete(o, res, i, more)
    BY <1>5 DEF KRecv
  <2>2. op[o].is_multi /\ UNCHANGED <<io_op_pool, op>>
    BY <1>5 DEF KRecv
  <2>3. i \in RingBufs /\ i # NO_BUF /\ res \in {"ok", "empty"} /\ (res = "empty" => "empty" \in Faults)
    BY <1>2, <2>1, Distinct DEF RecvResults
  <2> QED
    BY <1>4, <2>1, <2>2, <2>3
<1>6. CASE KNoBufs(o)
  <2>1. Complete(o, "err", NO_BUF, FALSE) /\ op[o].is_multi /\ br = {}
        /\ UNCHANGED <<io_op_pool, op, br>>
    BY <1>6 DEF KNoBufs, poolVars
  <2> QED
    BY <1>3, <1>4, <2>1
<1>7. CASE KRecvEnd(o)
  <2>1. Complete(o, "empty", NO_BUF, FALSE) /\ "empty" \in Faults
        /\ UNCHANGED <<io_op_pool, op, br>>
    BY <1>7 DEF KRecvEnd, poolVars
  <2> QED
    BY <1>3, <1>4, <2>1
<1>8. CASE KRead(o)
  <2>1. PICK res \in RecvResults : Complete(o, res, NO_BUF, FALSE)
    BY <1>8 DEF KRead
  <2>2. ~op[o].is_multi /\ UNCHANGED <<io_op_pool, op, br>>
    BY <1>8 DEF KRead, poolVars
  <2>3. res \in {"ok", "empty"} /\ (res = "empty" => "empty" \in Faults)
    BY <2>1 DEF RecvResults
  <2> QED
    BY <1>3, <1>4, <2>1, <2>2, <2>3
<1>9. CASE KWrite(o)
  <2>1. Complete(o, "ok", NO_BUF, FALSE) /\ ~op[o].is_multi
        /\ UNCHANGED <<io_op_pool, op, br>>
    BY <1>2, <1>9 DEF KWrite, poolVars, IsSend
  <2> QED
    BY <1>3, <1>4, <2>1
<1>10. CASE KNoDest(o)
  <2>1. Complete(o, "err", NO_BUF, FALSE) /\ op[o].op_type = "UDP_SEND" /\ op[o].addr_len = 0
        /\ UNCHANGED <<io_op_pool, op, br>>
    BY <1>10 DEF KNoDest, poolVars
  <2> QED
    BY <1>3, <1>4, <2>1
<1>11. CASE KError(o)
  <2>1. Complete(o, "err", NO_BUF, FALSE) /\ "cqe" \in Faults
        /\ UNCHANGED <<io_op_pool, op, br>>
    BY <1>11 DEF KError, poolVars
  <2> QED
    BY <1>3, <1>4, <2>1
<1> QED
  BY <1>1, <1>5, <1>6, <1>7, <1>8, <1>9, <1>10, <1>11

(* A step of the kernel.                                                   *)
LEMMA KernelSized ==
  ASSUME HandlerInv, HandlerInv', Kept', Stranded' = {},
         Roles, Bounded, Kernel, UNCHANGED loopVars
  PROVE  Roles' /\ Bounded'
<1>1. PICK o \in inflight, e \in Cqe :
           /\ cq' = Append(cq, e) /\ e.op = o
           /\ inflight' = IF e.more THEN inflight ELSE inflight \ {o}
           /\ br' = br \ {e.buf}
           /\ UNCHANGED <<io_op_pool, op>>
           /\ e.more => op[o].is_multi /\ Len(cq) < cq_depth
           /\ e.buf # NO_BUF => op[o].is_multi
  BY KernelCases
<1>2. cq \in Seq(Cqe) /\ Len(cq) \in Nat /\ cq_depth \in Nat /\ o \in Ops
      /\ br \subseteq RingBufs
  BY UringAssumption DEF HandlerInv, HandlerTypeOK, UringTypeOK
<1>3. /\ Len(cq') = Len(cq) + 1
      /\ CqIndex' = CqIndex \cup {Len(cq')}
      /\ \A i \in CqIndex : cq'[i] = cq[i] /\ i \in Int /\ i < Len(cq')
      /\ cq'[Len(cq')] = e
  BY <1>1, <1>2, AppendFacts DEF CqIndex
<1>4. UNCHANGED <<pc, hand, ret>>
  BY DEF loopVars
<1>5. Sends' \subseteq Sends /\ InHand' = InHand
  BY <1>1, <1>4 DEF Sends, InHand, IsSend
<1>7. Roles'
  BY <1>1, <1>4, <1>5 DEF Roles, IsSend, IsRecv
<1>8. Reads' = Reads /\ Reads \in Nat
  BY KernelReads, ReadFacts DEF Reads
<1>9. Claims' \subseteq Claims
  BY <1>1, <1>5 DEF Claims, Claim
<1>10. /\ ~e.more => Reported' = Reported
       /\ Returning \subseteq Returning'
       /\ \A i \in 1 .. Len(cq) + 1 :
              Around(i)' \subseteq Around(i) \cup {w \in {<<e.op, e.buf>>} : IsSend(e.op)}
       /\ IsSend(e.op) => Around(Len(cq) + 1)' \subseteq Around(Len(cq) + 1)
  BY <1>1, QueueGrown
<1>11. AtMost(Reported', cq_depth)
  <2>1. CASE ~e.more
    BY <1>10, <2>1 DEF Bounded
  <2>2. CASE e.more
    <3> DEFINE f == [i \in CqIndex' |-> cq'[i].buf]
               A == {f[i] : i \in CqIndex'}
    <3>1. Len(cq') \in Nat /\ Len(cq') <= cq_depth
      BY <1>1, <1>2, <1>3, <2>2
    <3>2. AtMost(CqIndex', Len(cq'))
      BY <3>1, AtMostRange DEF CqIndex
    <3> HIDE DEF f
    <3>3. AtMost(A, Len(cq'))
      BY <3>1, <3>2, AtMostValues
    <3> USE DEF f
    <3>4. Reported' \subseteq A
      BY DEF Reported
    <3> HIDE DEF A
    <3> QED
      BY <1>2, <3>1, <3>3, <3>4, AtMostLess
  <2> QED
    BY <2>1, <2>2
<1>12. AtMost((RingBufs \ (br \cup Returning))', cq_depth + 2)
  <2>1. CASE op[o].is_multi /\ e.more
    <3>1. Len(cq') <= cq_depth
      BY <1>1, <1>2, <1>3, <2>1
    <3> QED
      BY <1>7, <3>1, RingMore
  <2>2. CASE op[o].is_multi /\ ~e.more
    <3>1. ~cq'[Len(cq')].more /\ op'[cq'[Len(cq')].op].is_multi
      BY <1>1, <1>3, <2>2
    <3> QED
      BY <1>3, <1>7, <1>11, <3>1, RingLast
  <2>3. CASE ~op[o].is_multi
    <3>1. br' = br
      BY <1>1, <1>2, <2>3, Distinct
    <3>2. (RingBufs \ (br \cup Returning))' \subseteq RingBufs \ (br \cup Returning)
      BY <1>10, <3>1 DEF RingBufs
    <3>3. cq_depth + 2 \in Int
      BY <1>2
    <3> QED
      BY <3>2, <3>3, AtMostLess DEF Bounded
  <2> QED
    BY <2>1, <2>2, <2>3
<1>13. ASSUME NEW i \in 1 .. Len(cq') + 1
       PROVE  AtMost(Work(i)', cq_depth + Reads' + 2)
  <2> DEFINE n == cq_depth + Reads + 2
  <2>1. n \in Int /\ cq_depth + Reads' + 2 = n
    BY <1>2, <1>8
  <2>2. \A j \in 1 .. Len(cq) + 1 : AtMost(Work(j), n)
    BY DEF Bounded
  <2> HIDE DEF n
  <2>3. CASE i \in 1 .. Len(cq) + 1
    <3>1. \A w \in {<<e.op, e.buf>>} : IsSend(e.op) => w \in Claims
      <4>1. ASSUME IsSend(o) PROVE <<o, NO_BUF>> \in Claims /\ e.buf = NO_BUF
        <5>1. o \in Sends /\ ~op[o].is_multi
          BY <1>2, <4>1 DEF Sends, HandlerInv, Bookkeeping, IsSend
        <5>2. Claim(o) = <<o, NO_BUF>>
          BY <5>1 DEF Claim
        <5> QED
          BY <1>1, <5>1, <5>2 DEF Claims
      <4> QED
        BY <1>1, <4>1
    <3>2. Work(i)' \subseteq Work(i)
      BY <1>9, <1>10, <2>3, <3>1 DEF Work
    <3> QED
      BY <2>1, <2>2, <2>3, <3>2, AtMostLess
  <2>4. CASE i = Len(cq') + 1
    <3>1. CASE IsSend(o)
      <4>1. Work(Len(cq) + 1)' \subseteq Work(Len(cq) + 1)
        BY <1>1, <1>9, <1>10, <3>1 DEF Work
      <4>2. Len(cq) + 1 \in 1 .. Len(cq) + 1
        BY <1>2
      <4>3. AtMost(Work(Len(cq) + 1)', n)
        BY <2>1, <2>2, <4>1, <4>2, AtMostLess
      <4> QED
        BY <2>1, <2>4, <4>3
    <3>2. CASE ~IsSend(o)
      BY <1>7, <1>11, <2>4, AllPackets
    <3> QED
      BY <3>1, <3>2
  <2> QED
    BY <1>2, <1>3, <2>3, <2>4
<1>14. Bounded'
  BY <1>11, <1>12, <1>13 DEF Bounded
<1> QED
  BY <1>7, <1>14

-----------------------------------------------------------------------------
LEMMA MoreRoom ==
  ASSUME NEW d \in Nat, NEW n \in Nat, NEW k \in Nat, n <= k
  PROVE  d + n + 2 \in Int /\ d + k + 2 \in Int /\ d + n + 2 <= d + k + 2
  OBVIOUS

(* A step that leaves the queue alone and takes nothing up.                *)
LEMMA KeptBounded ==
  ASSUME HandlerInv, Bounded, UNCHANGED cq, \A i \in CqIndex : Alike(cq[i].op),
         Reads' \in Nat, Reads <= Reads', br \subseteq br', Claims' \subseteq Claims
  PROVE  Bounded'
<1>1. /\ Reported' = Reported /\ Returning' = Returning
      /\ \A i : Around(i)' = Around(i)
  BY QueueKept
<1>2. cq_depth \in Nat /\ Reads \in Nat /\ cq_depth + 2 \in Int
  BY UringAssumption, ReadFacts
<1>3. AtMost(Reported', cq_depth)
  BY <1>1 DEF Bounded
<1>4. AtMost((RingBufs \ (br \cup Returning))', cq_depth + 2)
  <2>1. (RingBufs \ (br \cup Returning))' \subseteq RingBufs \ (br \cup Returning)
    BY <1>1 DEF RingBufs
  <2> QED
    BY <1>2, <2>1, AtMostLess DEF Bounded
<1>5. ASSUME NEW i \in 1 .. Len(cq') + 1
      PROVE  AtMost(Work(i)', cq_depth + Reads' + 2)
  <2> DEFINE n == cq_depth + Reads + 2
             k == cq_depth + Reads' + 2
  <2>1. n \in Int /\ k \in Int /\ n <= k
    BY <1>2, MoreRoom
  <2>2. AtMost(Work(i), n)
    <3>1. \A j \in 1 .. Len(cq) + 1 : AtMost(Work(j), n)
      BY DEF Bounded
    <3>2. i \in 1 .. Len(cq) + 1
      BY <1>5
    <3> QED
      BY <3>1, <3>2
  <2>3. Work(i)' \subseteq Work(i)
    BY <1>1 DEF Work
  <2> HIDE DEF n, k
  <2>4. AtMost(Work(i)', k)
    BY <2>1, <2>2, <2>3, AtMostLess
  <2> QED
    BY <2>4 DEF k
<1> QED
  BY <1>3, <1>4, <1>5 DEF Bounded

(* A step that takes the first entry of the queue, and the packet if it is *)
(* one; if it is a send, its buffer goes back to the ring.                 *)
LEMMA PoppedBounded ==
  ASSUME HandlerInv, Bounded, Completion, \A i \in CqIndex \ {1} : Alike(cq[i].op),
         Reads' = Reads, br \subseteq br',
         IsSend(cqe.op) /\ op[cqe.op].buf_idx \in RingBufs => op[cqe.op].buf_idx \in br',
         \A w \in Claims' : IsRecv(cqe.op) /\ w = <<cqe.op, cqe.buf>>
  PROVE  Bounded'
<1>1. /\ Reported' \subseteq Reported
      /\ \A b \in Returning \ Returning' : IsSend(cqe.op) /\ b = op[cqe.op].buf_idx
      /\ \A i \in 1 .. Len(cq') + 1 :
           /\ i + 1 \in 1 .. Len(cq) + 1
           /\ Around(i)' \subseteq Around(i + 1)
           /\ IsRecv(cqe.op) => <<cqe.op, cqe.buf>> \in Around(i + 1)
  BY QueuePopped
<1>2. cq_depth \in Int /\ Reads \in Nat /\ cq_depth + 2 \in Int
  BY UringAssumption, ReadFacts
<1>3. AtMost(Reported', cq_depth)
  BY <1>1, <1>2, AtMostLess DEF Bounded
<1>4. AtMost((RingBufs \ (br \cup Returning))', cq_depth + 2)
  <2>1. (RingBufs \ (br \cup Returning))' \subseteq RingBufs \ (br \cup Returning)
    BY <1>1 DEF RingBufs
  <2> QED
    BY <1>2, <2>1, AtMostLess DEF Bounded
<1>5. ASSUME NEW i \in 1 .. Len(cq') + 1
      PROVE  AtMost(Work(i)', cq_depth + Reads' + 2)
  <2> DEFINE n == cq_depth + Reads + 2
  <2>1. n \in Int /\ n = cq_depth + Reads' + 2
    BY <1>2
  <2>2. AtMost(Work(i + 1), n)
    BY <1>1, <1>5 DEF Bounded
  <2>3. Work(i)' \subseteq Work(i + 1)
    BY <1>1, <1>5 DEF Work
  <2> HIDE DEF n
  <2> QED
    BY <2>1, <2>2, <2>3, AtMostLess
<1> QED
  BY <1>3, <1>4, <1>5 DEF Bounded

(* A step of the program that changes nothing but where it is.             *)
LEMMA IdleSized ==
  ASSUME HandlerInv, Roles, Bounded, UNCHANGED <<uringVars, hand>>,
         pc' # pc => pc \notin {"handle", "release"} /\ pc' \notin {"handle", "release"}
  PROVE  Roles' /\ Bounded'
<1>1. UNCHANGED <<io_op_pool, br, op, inflight, cq>>
  BY DEF uringVars, poolVars, kernelVars
<1>2. CqIndex' = CqIndex
  BY <1>1 DEF CqIndex
<1>3. Sends' = Sends /\ InHand' \subseteq InHand
  BY <1>1 DEF Sends, IsSend, InHand
<1>5. Roles'
  BY <1>1, <1>3 DEF Roles, IsSend, IsRecv
<1>6. \A i \in CqIndex : Alike(cq[i].op)
  BY <1>1 DEF Alike
<1>7. Reads' = Reads /\ Reads \in Nat
  BY <1>1, <1>2, ReadFacts DEF Reads, ReadOps, Queued
<1>8. Claims' \subseteq Claims
  BY <1>1, <1>3 DEF Claims, Claim
<1>9. Bounded'
  BY <1>1, <1>6, <1>7, <1>8, KeptBounded
<1> QED
  BY <1>5, <1>9

(* iouring_initial_udp_recvs, before which nothing is in use.              *)
LEMMA InitialRecvSized ==
  ASSUME IndInv, Roles, Bounded, InitialRecv
  PROVE  Roles' /\ Bounded'
<1>1. HandlerInv /\ io_op_pool = Ops
  BY DEF IndInv, ReadsInv, InitialRecv
<1>2. PICK o \in Pick(io_op_pool) :
        /\ io_op_pool' = io_op_pool \ {o}
        /\ op' = [op EXCEPT ![o] = MultiOp("UDP_RECV", udp_fd)]
        /\ inflight' = inflight \cup {o}
  BY DEF InitialRecv, iouring_initial_udp_recvs
<1>3. /\ UNCHANGED <<br, cq, hand, ret>>
      /\ pc' \notin {"handle", "release"} /\ pc \notin {"handle", "release"}
  BY DEF InitialRecv, iouring_initial_udp_recvs
<1>4. /\ o \in Ops /\ op \in [Ops -> OpRecord]
      /\ \A p \in Ops : op[p] = Zeroed /\ p # hand /\ p \notin inflight
  BY <1>1, FreshOp DEF HandlerInv, OpExclusive, Bookkeeping, HandlerTypeOK, UringTypeOK
<1>5. CqIndex = {} /\ CqIndex' = {} /\ inflight = {}
  <2>1. CqIndex = {} /\ inflight = {}
    BY <1>1, EntryTypes DEF HandlerInv, OpExclusive, HandlerTypeOK, UringTypeOK
  <2> QED
    BY <1>3, <2>1 DEF CqIndex
<1> DEFINE R == MultiOp("UDP_RECV", udp_fd)
<1>6. R.op_type = "UDP_RECV" /\ R.is_multi /\ R.buf_idx = NO_BUF
  BY Fields
<1>7. op' = [op EXCEPT ![o] = R]
  BY <1>2
<1> HIDE DEF R
<1>8. op'[o] = R /\ \A p \in Ops \ {o} : op'[p] = Zeroed
  BY <1>4, <1>7
<1>9. Sends' = {} /\ InHand' = {}
  BY <1>2, <1>3, <1>5, <1>6, <1>8 DEF Sends, IsSend, InHand
<1>11. Roles'
  <2>1. \A p \in Ops \ io_op_pool' : p = o
    BY <1>1, <1>2
  <2> QED
    BY <1>3, <1>4, <1>6, <1>8, <1>9, <2>1, Fields, Distinct DEF Roles
<1>12. ReadOps' = {} /\ ReadOps = {}
  BY <1>2, <1>3, <1>5, <1>6, <1>8 DEF ReadOps, Queued
<1>13. Reads' = Reads /\ Reads \in Nat
  BY <1>1, <1>12, ReadFacts DEF Reads
<1>14. Claims' \subseteq Claims
  BY <1>9 DEF Claims
<1>15. Bounded'
  BY <1>1, <1>3, <1>5, <1>13, <1>14, KeptBounded
<1> QED
  BY <1>11, <1>15

(* A round of iouring_initial_tun_reads.                                   *)
LEMMA InitialReadSized ==
  ASSUME IndInv, Roles, Bounded, InitialRead
  PROVE  Roles' /\ Bounded'
<1>1. HandlerInv
  BY DEF IndInv
<1>2. PICK o \in Pick(io_op_pool), b \in Pick(buf_addr_pool) :
        /\ io_op_pool' = io_op_pool \ {o}
        /\ op' = [op EXCEPT ![o] = SingleOp("TUN_READ", tun_fd, b)]
        /\ inflight' = inflight \cup {o}
  BY DEF InitialRead
<1>3. /\ UNCHANGED <<br, cq, hand, ret, pc>> /\ pc = "init_reads"
  BY DEF InitialRead, loopVars
<1>4. /\ o \in Ops /\ op \in [Ops -> OpRecord] /\ o # hand /\ o \notin inflight
      /\ \A i \in CqIndex : cq[i].op \in Ops \ {o}
  BY <1>1, FreshOp, EntryTypes DEF HandlerInv, HandlerTypeOK, UringTypeOK
<1> DEFINE R == SingleOp("TUN_READ", tun_fd, b)
<1>5. R.op_type = "TUN_READ" /\ ~R.is_multi /\ R.buf_idx = NO_BUF
  BY Fields
<1>6. op' = [op EXCEPT ![o] = R]
  BY <1>2
<1> HIDE DEF R
<1>7. op'[o] = R /\ \A p \in Ops \ {o} : op'[p] = op[p]
  BY <1>4, <1>6
<1>8. CqIndex' = CqIndex /\ \A i \in CqIndex : Alike(cq[i].op)
  BY <1>3, <1>4, <1>7 DEF CqIndex, Alike
<1>9. inflight \subseteq Ops
  BY <1>1 DEF HandlerInv, HandlerTypeOK, UringTypeOK
<1>10. Sends' = {} /\ InHand' = {}
  <2>1. Sends = {}
    BY <1>3 DEF Roles
  <2> QED
    BY <1>2, <1>3, <1>4, <1>5, <1>7, <1>9, <2>1 DEF Sends, IsSend, InHand
<1>12. Roles'
  BY <1>2, <1>3, <1>4, <1>5, <1>7, <1>10, Distinct DEF Roles, IsSend, IsRecv
<1>13. ReadOps' = ReadOps \cup {o} /\ o \notin ReadOps
  BY <1>1, <1>2, <1>3, <1>4, <1>5, <1>7, <1>8, <1>9, ReadFacts DEF ReadOps, Queued
<1>14. Reads' \in Nat /\ Reads <= Reads'
  <2>1. IsFiniteSet(ReadOps) /\ Cardinality(ReadOps) \in Nat
    BY <1>1, ReadFacts DEF Reads
  <2>2. Cardinality(ReadOps') = Cardinality(ReadOps) + 1
    BY <1>13, <2>1, FS_AddElement
  <2> QED
    BY <2>1, <2>2 DEF Reads
<1>15. Claims' \subseteq Claims
  BY <1>10 DEF Claims
<1>16. Bounded'
  BY <1>1, <1>3, <1>8, <1>14, <1>15, KeptBounded
<1> QED
  BY <1>12, <1>16

-----------------------------------------------------------------------------
(* The fields of operations that only these proofs look at.                *)
LEMMA SizedFields ==
  ASSUME NEW r \in OpRecord
  PROVE  /\ \A i, n : Received(r, i, n).data_len = n
         /\ \A n : [r EXCEPT !.data_len = n].data_len = n
         /\ \A n : [r EXCEPT !.data_len = n].addr_len = r.addr_len
         /\ \A t, f, a : [OpWithBufOf(t, f, r) EXCEPT !.addr_len = a].addr_len = a
         /\ Disowned(r).addr_len = r.addr_len
  BY DEF OpRecord, Received, OpWithBufOf, Zeroed, Disowned

(* What wait_for_recv does when it does not give up.                       *)
LEMMA WaitCases ==
  ASSUME wait_for_recv, ~(pc' = "handle" /\ hand' = NULL)
  PROVE  WaitSent \/ WaitRecv \/ WaitRead
  BY DEF wait_for_recv, WaitFailed, WaitRecvFailed, WaitRecvNoBuf, WaitReadNoOp,
     WaitReadFailed, Return

(* A send is finished.                                                     *)
LEMMA WaitSentSized ==
  ASSUME HandlerInv, Roles, Bounded, WaitSent, Reads' = Reads
  PROVE  Roles' /\ Bounded'
<1> DEFINE o == cqe.op
<1>1. Completion /\ IsSend(o) /\ io_op_free(o) /\ UNCHANGED <<inflight, pc, hand, ret>>
      /\ pc = "wait"
  BY DEF WaitSent, Completion, loopVars
<1>2. /\ o \in Ops /\ o \notin io_op_pool /\ op[o] \in OpRecord /\ ~op[o].is_multi
      /\ o # hand /\ o \notin inflight /\ \A i \in CqIndex' : cq'[i].op # o
  <2>1. ~op[o].is_multi
    BY <1>1, SeenEntry DEF IsSend, HandlerInv, Bookkeeping
  <2> QED
    BY <1>1, <2>1, SeenEntry
<1>3. /\ \A i \in CqIndex' : i + 1 \in CqIndex /\ cq'[i] = cq[i + 1]
      /\ \A i \in CqIndex \ {1} : i - 1 \in CqIndex' /\ cq'[i - 1] = cq[i]
  BY <1>1, SeenEntry, QueueMovesUp
<1>4. \A i \in CqIndex : cq[i].op \in Ops
  BY EntryTypes DEF HandlerInv
<1>5. ReturnBuf(op[o]) /\ iouring_put_io_op(o) /\ op[o].buf_addr \notin buf_addr_pool
  BY <1>1, <1>2 DEF io_op_free, HandlerInv, BufExclusive
<1>6. op[o].buf_addr # NULL => op[o].buf_idx = NO_BUF
  BY <1>2 DEF HandlerInv, BufExclusive
<1> HIDE DEF o
<1>7. /\ io_op_pool' = io_op_pool \cup {o}
      /\ op'[o] = Zeroed /\ \A p \in Ops \ {o} : op'[p] = op[p]
      /\ br \subseteq br' /\ (op[o].buf_idx \in RingBufs => op[o].buf_idx \in br')
  BY <1>2, <1>5, <1>6, Distinct
  DEF ReturnBuf, iouring_put_io_op, HandlerInv, HandlerTypeOK, UringTypeOK
<1>8. Sends' = {} /\ InHand' = {}
  <2>1. Sends = {} /\ inflight \subseteq Ops
    BY <1>1 DEF Roles, HandlerInv, HandlerTypeOK, UringTypeOK
  <2> QED
    BY <1>1, <1>2, <1>7, <2>1 DEF Sends, IsSend, InHand
<1>10. Roles'
  BY <1>1, <1>2, <1>7, <1>8, Fields, Distinct DEF Roles, IsSend, IsRecv
<1>11. \A i \in CqIndex \ {1} : Alike(cq[i].op)
  BY <1>2, <1>3, <1>4, <1>7 DEF Alike
<1>12. Claims' = {}
  BY <1>8 DEF Claims
<1>13. IsSend(cqe.op) /\ op[cqe.op].buf_idx \in RingBufs => op[cqe.op].buf_idx \in br'
  BY <1>7 DEF o
<1>14. Bounded'
  BY <1>1, <1>7, <1>11, <1>12, <1>13, PoppedBounded
<1> QED
  BY <1>10, <1>14

(* A datagram is taken.                                                    *)
LEMMA WaitRecvSized ==
  ASSUME HandlerInv, Roles, Bounded, WaitRecv, Reads' = Reads
  PROVE  Roles' /\ Bounded'
<1> DEFINE o == cqe.op
           R == Received(op[o], cqe.buf, 1)
<1>1. /\ Completion /\ IsRecv(o) /\ op[o].is_multi /\ cqe.buf # NO_BUF
      /\ op' = [op EXCEPT ![o] = R]
      /\ inflight' \in {inflight, inflight \cup {o}}
      /\ pc = "wait" /\ pc' = "handle" /\ hand' = o /\ UNCHANGED <<ret, io_op_pool, br>>
  BY DEF WaitRecv, Completion, Return, DataLen
<1>2. /\ o \in Ops /\ op[o] \in OpRecord /\ op \in [Ops -> OpRecord]
      /\ op[o].op_type = "UDP_RECV" /\ cqe.buf \in RingBufs
  BY <1>1, SeenEntry DEF HandlerInv, HandlerTypeOK, UringTypeOK, Bookkeeping
<1>3. /\ \A i \in CqIndex' : i + 1 \in CqIndex /\ cq'[i] = cq[i + 1]
      /\ \A i \in CqIndex : cq[i].op \in Ops
  BY <1>1, SeenEntry, EntryTypes DEF HandlerInv
<1>4. /\ R.op_type = "UDP_RECV" /\ R.is_multi /\ R.buf_idx = cqe.buf /\ R.data_len = 1
  BY <1>1, <1>2, MovedFields, SizedFields
<1> HIDE DEF R, o
<1>5. op'[o] = R /\ \A p \in Ops \ {o} : op'[p] = op[p]
  BY <1>1, <1>2
<1>6. Sends' = {} /\ InHand' = {o}
  <2>1. Sends = {} /\ inflight \subseteq Ops
    BY <1>1 DEF Roles, HandlerInv, HandlerTypeOK, UringTypeOK
  <2>2. Sends' = {}
    BY <1>1, <1>2, <1>4, <1>5, <2>1 DEF Sends, IsSend
  <2> QED
    BY <1>1, <1>2, <2>2 DEF InHand
<1>8. Roles'
  BY <1>1, <1>2, <1>4, <1>5, <1>6 DEF Roles, IsSend, IsRecv
<1>9. \A i \in CqIndex \ {1} : Alike(cq[i].op)
  BY <1>1, <1>2, <1>3, <1>4, <1>5 DEF Alike, IsSend
<1>10. \A w \in Claims' : w = <<o, cqe.buf>>
  BY <1>4, <1>5, <1>6 DEF Claims, Claim
<1>11. \A w \in Claims' : IsRecv(cqe.op) /\ w = <<cqe.op, cqe.buf>>
  BY <1>1, <1>10 DEF o
<1>12. ~IsSend(cqe.op)
  BY <1>2 DEF IsSend, o
<1>13. Bounded'
  BY <1>1, <1>9, <1>11, <1>12, PoppedBounded
<1> QED
  BY <1>8, <1>13

(* A read is finished and replaced.                                        *)
LEMMA WaitReadSized ==
  ASSUME HandlerInv, Roles, Bounded, WaitRead, Reads' = Reads
  PROVE  Roles' /\ Bounded'
<1> DEFINE o == cqe.op
           D == [op[o] EXCEPT !.data_len = DataLen]
<1>1. Completion /\ IsRecv(o) /\ ~op[o].is_multi /\ UNCHANGED <<ret, br>>
      /\ pc = "wait" /\ pc' = "handle" /\ hand' = o
  BY DEF WaitRead, Completion, Return
<1>3. PICK n \in Pick(io_op_pool), b \in Pick(buf_addr_pool) :
        /\ io_op_pool' = io_op_pool \ {n}
        /\ op' = [op EXCEPT ![n] = SingleOp(op[o].op_type, op[o].fd, b), ![o] = D]
        /\ inflight' = inflight \cup {n}
  BY DEF WaitRead
<1> DEFINE N == SingleOp(op[o].op_type, op[o].fd, b)
<1>4. /\ o \in Ops /\ op[o] \in OpRecord /\ op \in [Ops -> OpRecord] /\ o \notin io_op_pool
      /\ o \notin inflight /\ \A i \in CqIndex' : cq'[i].op # o
  BY <1>1, SeenEntry DEF HandlerInv, HandlerTypeOK, UringTypeOK
<1>5. /\ \A i \in CqIndex' : i + 1 \in CqIndex /\ cq'[i] = cq[i + 1]
      /\ \A i \in CqIndex \ {1} : i - 1 \in CqIndex' /\ cq'[i - 1] = cq[i]
      /\ \A i \in CqIndex : cq[i].op \in Ops
  BY <1>1, SeenEntry, QueueMovesUp, EntryTypes DEF HandlerInv
<1>6. n \in Ops /\ n # o /\ n \in io_op_pool /\ \A i \in CqIndex : cq[i].op # n
  BY <1>4, FreshOp
<1>7. op[o].op_type = "TUN_READ"
  BY <1>1, <1>4 DEF Roles, IsSend, IsRecv
<1>8. cqe.buf = NO_BUF
  BY <1>1, QueueMovesUp DEF HandlerInv, Bookkeeping
<1>9. /\ N.op_type = "TUN_READ" /\ ~N.is_multi /\ N.buf_idx = NO_BUF
      /\ D.op_type = "TUN_READ" /\ ~D.is_multi /\ D.buf_idx = op[o].buf_idx
  BY <1>1, <1>4, <1>7, Fields, MovedFields
<1>10. op' = [op EXCEPT ![n] = N, ![o] = D]
  BY <1>3
<1> HIDE DEF N, D, o
<1>11. op'[n] = N /\ op'[o] = D /\ \A p \in Ops \ {n, o} : op'[p] = op[p]
  BY <1>4, <1>6, <1>10
<1>12. Sends' = {} /\ InHand' = {o}
  <2>1. Sends = {} /\ inflight \subseteq Ops
    BY <1>1 DEF Roles, HandlerInv, HandlerTypeOK, UringTypeOK
  <2>2. Sends' = {}
    BY <1>3, <1>4, <1>9, <1>11, <2>1 DEF Sends, IsSend
  <2> QED
    BY <1>1, <1>4, <2>2 DEF InHand
<1>14. Roles'
  BY <1>1, <1>3, <1>4, <1>6, <1>7, <1>9, <1>11, <1>12, Distinct DEF Roles, IsSend, IsRecv
<1>15. \A i \in CqIndex \ {1} : Alike(cq[i].op)
  BY <1>4, <1>5, <1>6, <1>11 DEF Alike
<1>16. \A w \in Claims' : w = <<o, NO_BUF>>
  BY <1>9, <1>11, <1>12 DEF Claims, Claim
<1>17. \A w \in Claims' : IsRecv(cqe.op) /\ w = <<cqe.op, cqe.buf>>
  BY <1>1, <1>8, <1>16 DEF o
<1>18. ~IsSend(cqe.op)
  BY <1>7 DEF IsSend, o
<1>19. Bounded'
  BY <1>1, <1>15, <1>17, <1>18, PoppedBounded
<1> QED
  BY <1>14, <1>19

-----------------------------------------------------------------------------
(* A packet becomes a send.                                                *)
LEMMA ForwardSized ==
  ASSUME HandlerInv, Roles, Bounded, pc = "handle", hand # NULL,
         NEW type \in {"UDP_SEND", "TUN_WRITE"}, NEW fd, NEW a,
         Forwarded(type, fd, a), pc' = "release", UNCHANGED <<hand, cq>>,
         Reads' = Reads
  PROVE  Roles' /\ Bounded'
<1> DEFINE S == SendOp(type, fd, a)
           D == Disowned(op[hand])
<1>1. PICK s \in Pick(io_op_pool) :
        /\ io_op_pool' = io_op_pool \ {s}
        /\ op' = [op EXCEPT ![s] = S, ![hand] = D]
        /\ inflight' = inflight \cup {s}
  BY DEF Forwarded
<1>2. ret' = 0 /\ UNCHANGED br
  BY DEF Forwarded
<1>3. /\ hand \in Ops /\ op[hand] \in OpRecord /\ op \in [Ops -> OpRecord]
      /\ inflight \subseteq Ops /\ hand \notin io_op_pool
  BY DEF HandlerInv, HandlerTypeOK, UringTypeOK, OpExclusive
<1>4. s \in Ops /\ s # hand /\ s \in io_op_pool /\ \A i \in CqIndex : cq[i].op # s
  BY FreshOp
<1>5. IsRecv(hand)
  BY <1>3 DEF Roles
<1>6. /\ S.op_type = type /\ ~S.is_multi /\ S.addr_len = a
      /\ D.op_type = op[hand].op_type /\ D.is_multi = op[hand].is_multi
      /\ D.buf_idx = IF op[hand].is_multi THEN DO_NOT_FREE ELSE op[hand].buf_idx
  BY <1>3, MovedFields, SizedFields DEF SendOp
<1> HIDE DEF S, D
<1>7. op'[s] = S /\ op'[hand] = D /\ \A p \in Ops \ {s, hand} : op'[p] = op[p]
  BY <1>1, <1>3, <1>4
<1>8. CqIndex' = CqIndex /\ \A i \in CqIndex : cq[i].op \in Ops
  BY EntryTypes DEF CqIndex, HandlerInv
<1>9. \A i \in CqIndex : Alike(cq[i].op)
  BY <1>4, <1>5, <1>6, <1>7, <1>8 DEF Alike, IsSend, IsRecv
<1>10. Sends' = {s} /\ InHand' = {}
  <2>1. Sends = {}
    BY DEF Roles
  <2>2. \A p \in inflight' : IsSend(p)' <=> p = s
    BY <1>1, <1>3, <1>4, <1>5, <1>6, <1>7, <2>1 DEF Sends, IsSend, IsRecv
  <2> QED
    BY <1>1, <2>2 DEF Sends, InHand
<1>12. Roles'
  <2>1. \A p \in Ops : op'[p].is_multi => op[p].is_multi /\ p # s
    BY <1>6, <1>7
  <2>2. \A p \in Ops \ io_op_pool' :
          op'[p].is_multi \/ IsSend(p)' \/ op'[p].op_type = "TUN_READ"
    BY <1>1, <1>3, <1>6, <1>7 DEF Roles, IsSend
  <2>3. \A p \in Ops : op'[p].buf_idx \in RingBufs => op'[p].is_multi \/ IsSend(p)'
    BY <1>6, <1>7 DEF Roles, IsSend
  <2>4. \A p \in Ops : p = hand' => IsRecv(p)'
    BY <1>5, <1>6, <1>7 DEF IsRecv
  <2> QED
    BY <1>6, <1>7, <1>10, <2>1, <2>2, <2>3, <2>4 DEF Roles, RingBufs
<1>13. /\ Reported' = Reported /\ Returning' = Returning
       /\ \A i : Around(i)' = Around(i)
  BY <1>9, QueueKept
<1>14. Claims' = {<<s, NO_BUF>>} /\ Claim(hand) \in Claims
  <2>1. Claim(s)' = <<s, NO_BUF>>
    BY <1>6, <1>7 DEF Claim
  <2>2. hand \in InHand
    BY <1>3 DEF InHand
  <2> QED
    BY <1>10, <2>1, <2>2 DEF Claims
<1>15. ASSUME NEW i PROVE Claim(hand) \notin Around(i)
  <2>1. SUFFICES ASSUME NEW k \in CqIndex, <<cq[k].op, cq[k].buf>> = Claim(hand) PROVE FALSE
    BY DEF Around
  <2>2. CASE op[hand].is_multi
    <3>1. cq[k].buf = op[hand].buf_idx /\ op[hand].buf_idx # NO_BUF
      BY <2>1, <2>2 DEF Claim, HandlerInv, Bookkeeping
    <3> QED
      BY <1>3, <3>1 DEF HandlerInv, BufExclusive
  <2>3. CASE ~op[hand].is_multi
    BY <2>1, <2>3 DEF Claim, HandlerInv, OpExclusive
  <2> QED
    BY <2>2, <2>3
<1>16. ASSUME NEW i \in 1 .. Len(cq') + 1
       PROVE  AtMost(Work(i)', cq_depth + Reads' + 2)
  <2> DEFINE n == cq_depth + Reads + 2
  <2>1. n \in Int /\ cq_depth + Reads' + 2 = n
    BY UringAssumption, ReadFacts, MoreRoom
  <2>2. AtMost(Work(i), n)
    <3>1. \A j \in 1 .. Len(cq) + 1 : AtMost(Work(j), n)
      BY DEF Bounded
    <3> QED
      BY <1>16, <3>1
  <2> HIDE DEF n
  <2>3. Claim(hand) \in Work(i)
    BY <1>14 DEF Work
  <2>4. AtMost((Work(i) \ {Claim(hand)}) \cup {<<s, NO_BUF>>}, n)
    BY <2>1, <2>2, <2>3, AtMostSwap
  <2>5. Work(i)' \subseteq (Work(i) \ {Claim(hand)}) \cup {<<s, NO_BUF>>}
    BY <1>13, <1>14, <1>15 DEF Work
  <2> QED
    BY <2>1, <2>4, <2>5, AtMostLess
<1>17. Bounded'
  BY <1>2, <1>13, <1>16 DEF Bounded, RingBufs
<1> QED
  BY <1>12, <1>17

(* The packet has been passed on.                                          *)
LEMMA ReleaseSized ==
  ASSUME "late" \notin Faults, ret = 0, HandlerInv, Roles, Bounded, Release, Reads' = Reads
  PROVE  Roles' /\ Bounded' /\ pc' = "check"
<1>1. /\ pc = "release" /\ io_op_free(hand) /\ hand' = PointerAfterFree(hand)
      /\ UNCHANGED <<inflight, cq, ret>> /\ Sends = {}
  BY DEF Release, kernelVars, Settled, Sends
<1>2. pc' = "check"
  BY <1>1 DEF Release
<1>3. /\ hand \in Ops /\ op \in [Ops -> OpRecord] /\ hand \notin io_op_pool
      /\ inflight \subseteq Ops
  BY <1>1 DEF HandlerInv, HandlerTypeOK, UringTypeOK, OpExclusive, Bookkeeping
<1>4. \/ /\ op[hand].is_multi /\ UNCHANGED <<io_op_pool, br, op>> /\ hand' = hand
      \/ /\ ~op[hand].is_multi /\ io_op_pool' = io_op_pool \cup {hand}
         /\ op'[hand] = Zeroed /\ (\A p \in Ops \ {hand} : op'[p] = op[p])
         /\ br \subseteq br' /\ hand' = NULL
  <2>1. CASE op[hand].is_multi
    <3>1. op[hand].buf_idx = DO_NOT_FREE
      BY <1>1, <2>1 DEF Roles
    <3> QED
      BY <1>1, <2>1, <3>1, Distinct DEF io_op_free, PointerAfterFree, poolVars
  <2>2. CASE ~op[hand].is_multi
    BY <1>1, <1>3, <2>2 DEF io_op_free, PointerAfterFree, ReturnBuf, iouring_put_io_op
  <2> QED
    BY <2>1, <2>2
<1>5. /\ CqIndex' = CqIndex
      /\ \A i \in CqIndex : cq[i].op \in Ops /\ (~op[hand].is_multi => cq[i].op # hand)
  BY <1>1, EntryTypes DEF CqIndex, HandlerInv, OpExclusive
<1>6. ~op[hand].is_multi => hand \notin inflight
  BY <1>3 DEF HandlerInv, OpExclusive
<1>7. \A i \in CqIndex : Alike(cq[i].op)
  BY <1>4, <1>5 DEF Alike
<1>8. Sends' = {} /\ InHand' = {}
  BY <1>1, <1>2, <1>3, <1>4, <1>6 DEF Sends, IsSend, InHand
<1>10. Roles'
  BY <1>2, <1>3, <1>4, <1>8, Fields, Distinct DEF Roles, IsSend, IsRecv
<1>11. Claims' \subseteq Claims /\ br \subseteq br'
  BY <1>4, <1>8 DEF Claims
<1>12. Reads' \in Nat /\ Reads <= Reads'
  BY ReadFacts
<1>13. Bounded'
  BY <1>1, <1>7, <1>11, <1>12, KeptBounded
<1> QED
  BY <1>2, <1>10, <1>13

-----------------------------------------------------------------------------
LEMMA InitSized == Init => Roles /\ Bounded /\ Explained
<1> SUFFICES ASSUME Init PROVE Roles /\ Bounded /\ Explained
  OBVIOUS
<1>1. /\ pc = "init_recv" /\ (IsClient => addr_len = 1) /\ hand = NULL /\ io_op_pool = Ops
      /\ inflight = {} /\ cq = <<>> /\ br = RingBufs
      /\ op = [o \in Ops |-> Zeroed]
  BY DEF Init, iouring_init, iouring_alloc_io_op_pool,
     iouring_alloc_multishot_buffers
<1>2. CqIndex = {} /\ Sends = {} /\ InHand = {}
  BY <1>1 DEF CqIndex, Sends, InHand
<1>3. Explained
  BY <1>1, <1>2, Fields DEF Explained
<1>4. Roles
  BY <1>1, <1>2, Fields, Distinct DEF Roles
<1>5. Reported = {} /\ RingBufs \ (br \cup Returning) = {} /\ \A i : Work(i) = {}
  BY <1>1, <1>2 DEF Reported, Work, Around, Claims
<1>6. Reads = 0 /\ cq_depth \in Nat
  <2>1. ReadOps = {}
    BY <1>1, <1>2 DEF ReadOps, Queued
  <2> QED
    BY <2>1, FS_EmptySet, UringAssumption DEF Reads
<1>7. ASSUME NEW n \in Nat PROVE AtMost({}, n)
  BY FS_EmptySet DEF AtMost
<1>8. Bounded
  <2>1. AtMost({}, cq_depth) /\ AtMost({}, cq_depth + 2) /\ AtMost({}, cq_depth + Reads + 2)
    BY <1>6, <1>7
  <2> QED
    BY <1>5, <2>1 DEF Bounded
<1> QED
  BY <1>3, <1>4, <1>8

(* What every step of a program that does not give up does, by its kind.   *)
LEMMA SteadyCases ==
  ASSUME IndInv, Steady, Steady', [Next]_vars
  PROVE  \/ InitialRecv
         \/ InitialRead
         \/ UNCHANGED <<uringVars, hand, addr_len>>
            /\ (pc' # pc => pc \notin {"handle", "release"} /\ pc' \notin {"handle", "release"})
         \/ (WaitSent \/ WaitRecv \/ WaitRead) /\ UNCHANGED addr_len
            /\ Healthy /\ Healthy'
         \/ /\ \E type \in {"UDP_SEND", "TUN_WRITE"}, fd \in Fds, a \in {0, 1} :
                 Forwarded(type, fd, a) /\ (type = "UDP_SEND" => a = addr_len)
            /\ pc = "handle" /\ hand # NULL /\ pc' = "release" /\ UNCHANGED <<hand, cq>>
            /\ (IsClient => UNCHANGED addr_len \/ addr_len = 0)
            /\ Healthy /\ Healthy'
         \/ Release /\ ret = 0 /\ pc' = "check" /\ Healthy /\ Healthy'
         \/ Kernel /\ UNCHANGED <<loopVars, addr_len>>
<1>1. /\ HandlerInv /\ pc \notin Exit /\ ~(pc = "handle" /\ hand = NULL)
      /\ pc' \notin Exit /\ ~(pc' = "handle" /\ hand' = NULL)
      /\ (pc = "release" => ret = 0) /\ (pc' = "release" => ret' = 0)
      /\ addr_len \in {0, 1}
  BY DEF IndInv, Steady, Going, TypeOK
<1>2. CASE InitialRecv \/ InitialRead
  BY <1>2
<1>3. CASE NewTun \/ InitialReadSkipped \/ InitialReadsDone \/ LoopCheck
  BY <1>3 DEF NewTun, InitialReadSkipped, InitialReadsDone, LoopCheck, loopVars
<1>4. CASE Wait
  <2>1. wait_for_recv /\ UNCHANGED addr_len /\ pc = "wait"
    BY <1>4 DEF Wait, wait_for_recv, WaitFailed, WaitSent,
     WaitRecv, WaitRecvFailed, WaitRecvNoBuf, WaitRead, WaitReadNoOp, WaitReadFailed,
     Completion
  <2>2. WaitSent \/ WaitRecv \/ WaitRead
    BY <1>1, <2>1, WaitCases
  <2>3. pc' \in {"wait", "handle"}
    BY <2>1, <2>2 DEF WaitSent, WaitRecv, WaitRead, Return, loopVars
  <2>4. Healthy /\ Healthy'
    BY <1>1, <2>1, <2>3 DEF Healthy, InLoop
  <2> QED
    BY <2>1, <2>2, <2>4
<1>5. CASE HandleTun \/ HandleUdp
  <2>1. PICK type \in {"UDP_SEND", "TUN_WRITE"}, fd \in Fds, a \in {0, 1} :
          Forward(type, fd, a) /\ (type = "UDP_SEND" => a = addr_len)
    <3>1. CASE HandleTun
      BY <1>1, <1>5, <3>1, EdgeAssumption DEF HandleTun, tun_to_udp
    <3>2. CASE HandleUdp
      BY <1>5, <3>2, EdgeAssumption DEF HandleUdp, udp_to_tun
    <3> QED
      BY <1>5, <3>1, <3>2
  <2>2. pc = "handle" /\ hand # NULL /\ (UNCHANGED addr_len \/ addr_len = 0)
    BY <1>5 DEF HandleTun, HandleUdp
  <2>3. pc' = "release" /\ UNCHANGED <<hand, cq>>
    BY <2>1 DEF Forward
  <2>4. Forwarded(type, fd, a)
    BY <1>1, <2>1, <2>3 DEF Forward, ForwardNoOp, ForwardFailed
  <2>5. Healthy /\ Healthy'
    BY <2>2, <2>3 DEF Healthy, InLoop
  <2> QED
    BY <2>1, <2>2, <2>3, <2>4, <2>5
<1>6. CASE Release
  <2>1. pc = "release" /\ ret = 0 /\ pc' = "check"
    BY <1>1, <1>6 DEF Release
  <2> QED
    BY <1>6, <2>1 DEF Healthy, InLoop
<1>7. CASE StartupFailed \/ HandleNull \/ Leave \/ iouring_free_buffers \/ QueueExit \/ Ended
  BY <1>1, <1>7 DEF StartupFailed, HandleNull, Leave, iouring_free_buffers, QueueExit, Ended, Exit
<1>8. CASE signal_handler
  <2>1. UNCHANGED <<uringVars, addr_len>> /\ ~WaitInterrupted
    BY <1>1, <1>8 DEF signal_handler, WaitInterrupted, Return
  <2>2. UNCHANGED loopVars
    BY <1>8, <2>1 DEF signal_handler
  <2> QED
    BY <2>1, <2>2 DEF loopVars
<1>9. CASE Kern
  BY <1>9 DEF Kern
<1>10. CASE UNCHANGED vars
  BY <1>10 DEF vars, loopVars
<1> QED
  BY <1>2, <1>3, <1>4, <1>5, <1>6, <1>7, <1>8, <1>9, <1>10 DEF Next, Program

(* What is in use stays within its bounds.                                 *)
LEMMA SteadySized ==
  ASSUME "late" \notin Faults, IndInv, IndInv', Roles, Bounded, Steady, Steady', [Next]_vars
  PROVE  Roles' /\ Bounded'
<1>1. HandlerInv /\ HandlerInv' /\ Kept' /\ Stranded' = {}
  BY DEF IndInv, LossInv, Steady
<1>2. ASSUME Healthy, Healthy' PROVE Reads' = Reads
  BY <1>1, <1>2, LoopReads, ReplacedCounts
<1>3. CASE InitialRecv
  BY <1>3, InitialRecvSized
<1>4. CASE InitialRead
  BY <1>4, InitialReadSized
<1>5. CASE /\ UNCHANGED <<uringVars, hand, addr_len>>
           /\ pc' # pc => pc \notin {"handle", "release"} /\ pc' \notin {"handle", "release"}
  BY <1>1, <1>5, IdleSized
<1>6. CASE (WaitSent \/ WaitRecv \/ WaitRead) /\ Healthy /\ Healthy'
  BY <1>1, <1>2, <1>6, WaitSentSized, WaitRecvSized, WaitReadSized
<1>7. CASE /\ \E type \in {"UDP_SEND", "TUN_WRITE"}, fd \in Fds, a \in {0, 1} : Forwarded(type, fd, a)
           /\ pc = "handle" /\ hand # NULL /\ pc' = "release" /\ UNCHANGED <<hand, cq>>
           /\ Healthy /\ Healthy'
  BY <1>1, <1>2, <1>7, ForwardSized
<1>8. CASE Release /\ ret = 0 /\ Healthy /\ Healthy'
  BY <1>1, <1>2, <1>8, ReleaseSized
<1>9. CASE Kernel /\ UNCHANGED loopVars
  BY <1>1, <1>9, KernelSized
<1> QED
  BY <1>3, <1>4, <1>5, <1>6, <1>7, <1>8, <1>9, SteadyCases

-----------------------------------------------------------------------------
(* What the kernel reports has a reason.                                   *)
LEMMA KernelExplained ==
  ASSUME HandlerInv, Explained, "late" \notin Faults => Roles /\ Bounded,
         Kernel, UNCHANGED <<loopVars, addr_len>>
  PROVE  Explained'
<1>1. PICK o \in inflight, e \in Cqe :
           /\ cq' = Append(cq, e) /\ e.op = o
           /\ UNCHANGED op
           /\ e.res = "err" => \/ "cqe" \in Faults
                               \/ op[o].is_multi /\ br = {}
                               \/ op[o].op_type = "UDP_SEND" /\ op[o].addr_len = 0
           /\ e.res = "empty" => "empty" \in Faults
           /\ op[o].is_multi /\ e.buf = NO_BUF => e.res # "ok"
  BY KernelCases
<1>2. cq \in Seq(Cqe) /\ o \in Ops
  BY DEF HandlerInv, HandlerTypeOK, UringTypeOK
<1>3. /\ CqIndex' = CqIndex \cup {Len(cq) + 1}
      /\ \A i \in CqIndex : cq'[i] = cq[i]
      /\ cq'[Len(cq) + 1] = e
  BY <1>1, <1>2, AppendFacts DEF CqIndex
<1>4. op[o].is_multi /\ br = {} => FewBufs
  BY RingLeft DEF FewBufs
<1>5. op[o].op_type = "UDP_SEND" /\ op[o].addr_len = 0 => ~IsClient
  BY <1>2 DEF Explained
<1>6. e.res = "err" => Refusable(o)
  BY <1>1, <1>4, <1>5 DEF Refusable
<1>7. \A p : Refusable(p)' <=> Refusable(p)
  BY <1>1 DEF Refusable, FewBufs
<1>8. UNCHANGED <<pc, hand, addr_len>>
  BY DEF loopVars
<1>9. ASSUME NEW i \in CqIndex'
      PROVE  /\ cq'[i].res = "err" => Refusable(cq'[i].op)
             /\ cq'[i].res = "empty" => "empty" \in Faults
             /\ op'[cq'[i].op].is_multi /\ cq'[i].buf = NO_BUF => cq'[i].res # "ok"
  <2>1. CASE i \in CqIndex
    BY <1>1, <1>3, <2>1 DEF Explained
  <2>2. CASE i = Len(cq) + 1
    BY <1>1, <1>3, <1>6, <2>2
  <2> QED
    BY <1>3, <2>1, <2>2
<1>10. \A i \in CqIndex' : cq'[i].res = "err" => Refusable(cq[i].op)'
  BY <1>1, <1>9 DEF Refusable, FewBufs
<1> QED
  BY <1>1, <1>8, <1>9, <1>10 DEF Explained

(* Operation o can be refused after the step if it could be before.        *)
Same(o) ==
  /\ op'[o].op_type = op[o].op_type /\ op'[o].is_multi = op[o].is_multi
  /\ op[o].op_type = "UDP_SEND" => op'[o].addr_len = op[o].addr_len

(* A step of the program, which adds nothing to the queue.                 *)
LEMMA ExplainedKept ==
  ASSUME Explained,
         \A i \in CqIndex' : \E j \in CqIndex : cq'[i] = cq[j] /\ Same(cq[j].op),
         \A o \in Ops : Same(o) \/ (IsClient /\ op'[o].op_type = "UDP_SEND" => op'[o].addr_len = 1),
         IsClient => addr_len' = 1,
         pc' = "handle" => op'[hand'].data_len = 1 \/ "empty" \in Faults
  PROVE  Explained'
<1>1. \A o \in Ops : IsClient /\ op'[o].op_type = "UDP_SEND" => op'[o].addr_len = 1
  BY DEF Explained, Same
<1>2. ASSUME NEW i \in CqIndex'
      PROVE  /\ cq'[i].res = "err" => Refusable(cq[i].op)'
             /\ cq'[i].res = "empty" => "empty" \in Faults
             /\ op'[cq'[i].op].is_multi /\ cq'[i].buf = NO_BUF => cq'[i].res # "ok"
  <2>1. PICK j \in CqIndex : cq'[i] = cq[j] /\ Same(cq[j].op)
    OBVIOUS
  <2>2. /\ cq[j].res = "err" => Refusable(cq[j].op)
        /\ cq[j].res = "empty" => "empty" \in Faults
        /\ op[cq[j].op].is_multi /\ cq[j].buf = NO_BUF => cq[j].res # "ok"
    BY DEF Explained
  <2>3. Refusable(cq[j].op) => Refusable(cq[i].op)'
    BY <2>1 DEF Refusable, FewBufs, Same
  <2> QED
    BY <2>1, <2>2, <2>3 DEF Same
<1> QED
  BY <1>1, <1>2 DEF Explained

LEMMA SteadyExplained ==
  ASSUME IndInv, Explained, "late" \notin Faults => Roles /\ Bounded, Steady, Steady', [Next]_vars
  PROVE  Explained'
<1>1. /\ HandlerInv /\ op \in [Ops -> OpRecord] /\ hand \in Ops \cup {NULL}
      /\ IsClient => addr_len = 1
  BY DEF IndInv, HandlerInv, HandlerTypeOK, UringTypeOK, Explained
<1>2. \A i \in CqIndex : cq[i].op \in Ops
  BY <1>1, EntryTypes DEF HandlerInv
<1>3. CASE InitialRecv
  <2>1. PICK o \in Pick(io_op_pool) : op' = [op EXCEPT ![o] = MultiOp("UDP_RECV", udp_fd)]
    BY <1>3 DEF InitialRecv, iouring_initial_udp_recvs
  <2>2. UNCHANGED <<cq, addr_len>> /\ pc' = "new_tun"
    BY <1>3 DEF InitialRecv, iouring_initial_udp_recvs
  <2>3. op'[o].op_type = "UDP_RECV" /\ \A p \in Ops \ {o} : op'[p] = op[p]
    BY <1>1, <2>1, FreshOp, Fields
  <2>4. \A i \in CqIndex : cq[i].op # o
    BY <1>1, FreshOp
  <2> QED
    BY <1>1, <1>2, <2>2, <2>3, <2>4, ExplainedKept DEF Same, CqIndex
<1>4. CASE InitialRead
  <2>1. PICK o \in Pick(io_op_pool), b \in Pick(buf_addr_pool) :
          op' = [op EXCEPT ![o] = SingleOp("TUN_READ", tun_fd, b)]
    BY <1>4 DEF InitialRead
  <2>2. UNCHANGED <<cq, addr_len>> /\ pc' = "init_reads"
    BY <1>4 DEF InitialRead, loopVars
  <2>3. op'[o].op_type = "TUN_READ" /\ \A p \in Ops \ {o} : op'[p] = op[p]
    BY <1>1, <2>1, FreshOp, Fields
  <2>4. \A i \in CqIndex : cq[i].op # o
    BY <1>1, FreshOp
  <2> QED
    BY <1>1, <1>2, <2>2, <2>3, <2>4, ExplainedKept DEF Same, CqIndex
<1>5. CASE /\ UNCHANGED <<uringVars, hand, addr_len>>
           /\ pc' # pc => pc \notin {"handle", "release"} /\ pc' \notin {"handle", "release"}
  <2>1. UNCHANGED <<op, cq, hand>> /\ (pc' = "handle" => pc = "handle")
    BY <1>5 DEF uringVars, poolVars, kernelVars
  <2> QED
    BY <1>1, <1>5, <2>1, ExplainedKept DEF Same, CqIndex, Explained
<1>6. CASE (WaitSent \/ WaitRecv \/ WaitRead) /\ UNCHANGED addr_len
  <2> DEFINE o == cqe.op
  <2>1. Completion /\ o \in Ops /\ pc = "wait" /\ o \notin io_op_pool
    <3>1. Completion
      BY <1>6 DEF WaitSent, WaitRecv, WaitRead
    <3> QED
      BY <1>1, <3>1, SeenEntry DEF Completion
  <2>2. /\ \A i \in CqIndex' : i + 1 \in CqIndex /\ cq'[i] = cq[i + 1]
        /\ ~op[o].is_multi => \A i \in CqIndex' : cq'[i].op # o
    BY <1>1, <2>1, SeenEntry
  <2>3. \/ op'[o] = Zeroed /\ ~op[o].is_multi
        \/ op'[o].op_type = op[o].op_type /\ op'[o].is_multi = op[o].is_multi /\ IsRecv(o)
    <3>1. CASE WaitSent
      <4>1. ~op[o].is_multi
        BY <1>1, <2>1, <3>1 DEF WaitSent, IsSend, HandlerInv, Bookkeeping
      <4>2. op' = [op EXCEPT ![o] = Zeroed]
        BY <3>1, <4>1 DEF WaitSent, io_op_free, iouring_put_io_op
      <4> QED
        BY <1>1, <2>1, <4>1, <4>2
    <3>2. CASE WaitRecv
      <4>1. op' = [op EXCEPT ![o] = Received(@, cqe.buf, DataLen)] /\ IsRecv(o)
        BY <3>2 DEF WaitRecv
      <4> QED
        BY <1>1, <2>1, <4>1, MovedFields
    <3>3. CASE WaitRead
      <4>1. PICK n \in Pick(io_op_pool), b \in Pick(buf_addr_pool) :
              op' = [op EXCEPT ![n] = SingleOp(op[o].op_type, op[o].fd, b),
                               ![o] = [@ EXCEPT !.data_len = DataLen]]
        BY <3>3 DEF WaitRead
      <4>2. n # o /\ n \in Ops
        BY <1>1, <2>1, FreshOp
      <4>3. op'[o] = [op[o] EXCEPT !.data_len = DataLen]
        BY <1>1, <2>1, <4>1, <4>2
      <4> QED
        BY <1>1, <2>1, <3>3, <4>3, MovedFields DEF WaitRead
    <3> QED
      BY <1>6, <3>1, <3>2, <3>3
  <2>4. \A p \in Ops \ {o} : op'[p] = op[p] \/ (op'[p].op_type # "UDP_SEND" /\ p \in io_op_pool)
    <3>1. CASE WaitSent
      <4>1. ~op[o].is_multi
        BY <1>1, <2>1, <3>1 DEF WaitSent, IsSend, HandlerInv, Bookkeeping
      <4>2. op' = [op EXCEPT ![o] = Zeroed]
        BY <3>1, <4>1 DEF WaitSent, io_op_free, iouring_put_io_op
      <4> QED
        BY <1>1, <4>2
    <3>2. CASE WaitRecv
      <4>1. op' = [op EXCEPT ![o] = Received(@, cqe.buf, DataLen)]
        BY <3>2 DEF WaitRecv
      <4> QED
        BY <1>1, <4>1
    <3>3. CASE WaitRead
      <4>1. PICK n \in Pick(io_op_pool), b \in Pick(buf_addr_pool) :
              op' = [op EXCEPT ![n] = SingleOp(op[o].op_type, op[o].fd, b),
                               ![o] = [@ EXCEPT !.data_len = DataLen]]
        BY <3>3 DEF WaitRead
      <4>2. n # o /\ n \in Ops /\ n \in io_op_pool
        BY <1>1, <2>1, FreshOp
      <4>3. op'[n] = SingleOp(op[o].op_type, op[o].fd, b) /\ \A p \in Ops \ {o, n} : op'[p] = op[p]
        BY <1>1, <4>1, <4>2
      <4>4. op'[n].op_type = op[o].op_type /\ IsRecv(o)
        BY <3>3, <4>3, Fields DEF WaitRead
      <4>5. op'[n].op_type # "UDP_SEND"
        BY <4>4 DEF IsRecv
      <4> QED
        BY <4>2, <4>3, <4>5
    <3> QED
      BY <1>6, <3>1, <3>2, <3>3
  <2>5. ASSUME pc' = "handle" PROVE op'[hand'].data_len = 1 \/ "empty" \in Faults
    <3>1. cqe.res # "err" /\ hand' = o /\ (WaitRecv \/ WaitRead)
      BY <1>6, <2>1, <2>5 DEF WaitSent, WaitRecv, WaitRead, Return, loopVars
    <3>2. op'[o].data_len = DataLen
      <4>1. CASE WaitRecv
        <5>1. op' = [op EXCEPT ![o] = Received(@, cqe.buf, DataLen)]
          BY <4>1 DEF WaitRecv
        <5> QED
          BY <1>1, <2>1, <5>1, SizedFields
      <4>2. CASE WaitRead
        <5>1. PICK n \in Pick(io_op_pool), b \in Pick(buf_addr_pool) :
                op' = [op EXCEPT ![n] = SingleOp(op[o].op_type, op[o].fd, b),
                                 ![o] = [@ EXCEPT !.data_len = DataLen]]
          BY <4>2 DEF WaitRead
        <5>2. n # o /\ n \in Ops
          BY <1>1, <2>1, FreshOp
        <5> QED
          BY <1>1, <2>1, <5>1, <5>2, SizedFields
      <4> QED
        BY <3>1, <4>1, <4>2
    <3>3. cqe = cq[1] /\ 1 \in CqIndex
      BY <1>1, <2>1, QueueMovesUp
    <3>4. cqe.res \in {"ok", "empty", "err"}
      <4>1. cq[1] \in Cqe
        BY <1>1, <3>3 DEF HandlerInv, HandlerTypeOK, UringTypeOK, CqIndex
      <4> QED
        BY <3>3, <4>1 DEF Cqe
    <3>5. cqe.res = "empty" => "empty" \in Faults
      BY <3>3 DEF Explained
    <3> QED
      BY <3>1, <3>2, <3>4, <3>5 DEF DataLen
  <2>6. \A p \in Ops \ {o} : p \notin io_op_pool => op'[p] = op[p]
    BY <2>4
  <2>7. \A i \in CqIndex : cq[i].op \notin io_op_pool
    BY <1>1 DEF HandlerInv, OpExclusive
  <2>8. IsRecv(o) => op[o].op_type # "UDP_SEND"
    BY DEF IsRecv
  <2> HIDE DEF o
  <2>9. \A i \in CqIndex' : \E j \in CqIndex : cq'[i] = cq[j] /\ Same(cq[j].op)
    <3>1. ASSUME NEW i \in CqIndex' PROVE Same(cq[i + 1].op)
      <4>1. i + 1 \in CqIndex /\ cq'[i] = cq[i + 1] /\ cq[i + 1].op \in Ops
        BY <1>2, <2>2
      <4>2. CASE cq[i + 1].op = o
        BY <2>2, <2>3, <2>8, <4>1, <4>2 DEF Same
      <4>3. CASE cq[i + 1].op # o
        BY <2>6, <2>7, <4>1, <4>3 DEF Same
      <4> QED
        BY <4>2, <4>3
    <3> QED
      BY <2>2, <3>1
  <2>10. \A p \in Ops : Same(p) \/ op'[p].op_type # "UDP_SEND"
    BY <2>3, <2>4, <2>8, Fields DEF Same
  <2> QED
    BY <1>1, <1>6, <2>5, <2>9, <2>10, ExplainedKept
<1>7. CASE /\ \E type \in {"UDP_SEND", "TUN_WRITE"}, fd \in Fds, a \in {0, 1} :
                Forwarded(type, fd, a) /\ (type = "UDP_SEND" => a = addr_len)
           /\ pc = "handle" /\ hand # NULL /\ pc' = "release" /\ UNCHANGED <<hand, cq>>
           /\ (IsClient => UNCHANGED addr_len \/ addr_len = 0)
  <2>1. PICK type \in {"UDP_SEND", "TUN_WRITE"}, fd \in Fds, a \in {0, 1} :
          Forwarded(type, fd, a) /\ (type = "UDP_SEND" => a = addr_len)
    BY <1>7
  <2>2. PICK s \in Pick(io_op_pool) :
          op' = [op EXCEPT ![s] = SendOp(type, fd, a), ![hand] = Disowned(op[hand])]
    BY <2>1 DEF Forwarded
  <2>3. hand \in Ops /\ s \in Ops /\ s # hand /\ \A i \in CqIndex : cq[i].op # s
    BY <1>1, <1>7, FreshOp
  <2> DEFINE S == SendOp(type, fd, a)
             D == Disowned(op[hand])
  <2>4. /\ S.op_type = type /\ S.addr_len = a
        /\ D.op_type = op[hand].op_type /\ D.is_multi = op[hand].is_multi
        /\ D.addr_len = op[hand].addr_len
    BY <1>1, <2>3, MovedFields, SizedFields DEF SendOp
  <2> HIDE DEF S, D
  <2>5. op'[s] = S /\ op'[hand] = D /\ \A p \in Ops \ {s, hand} : op'[p] = op[p]
    BY <1>1, <2>2, <2>3 DEF S, D
  <2>6. \A p \in Ops \ {s} : Same(p)
    BY <2>4, <2>5 DEF Same
  <2>7. IsClient /\ op'[s].op_type = "UDP_SEND" => op'[s].addr_len = 1
    BY <1>1, <2>1, <2>4, <2>5
  <2>8. IsClient => addr_len' = 1
    BY <1>1, <1>7
  <2> QED
    BY <1>2, <1>7, <2>3, <2>6, <2>7, <2>8, ExplainedKept DEF CqIndex
<1>8. CASE Release /\ pc' = "check"
  <2>1. hand \in Ops /\ UNCHANGED <<cq, addr_len>> /\ io_op_free(hand) /\ pc = "release"
    BY <1>1, <1>8 DEF Release, kernelVars, HandlerInv, Bookkeeping
  <2>2. /\ \A p \in Ops \ {hand} : op'[p] = op[p]
        /\ \/ op'[hand] = Zeroed /\ ~op[hand].is_multi
           \/ op'[hand] = op[hand]
           \/ op'[hand] = Recycled(op[hand]) /\ op[hand].is_multi
    <3>1. op[hand].is_multi => op[hand].buf_idx # NO_BUF
      BY <1>1, <2>1 DEF HandlerInv, Bookkeeping
    <3> QED
      BY <1>1, <2>1, <3>1
      DEF io_op_free, iouring_put_io_op, iouring_recycle_buffer, poolVars
  <2>3. /\ Recycled(op[hand]).op_type = op[hand].op_type
        /\ Recycled(op[hand]).is_multi = op[hand].is_multi
        /\ Recycled(op[hand]).addr_len = op[hand].addr_len
    BY <1>1, <2>1 DEF Recycled, OpRecord
  <2>4. ~op[hand].is_multi => \A i \in CqIndex : cq[i].op # hand
    BY <1>1 DEF HandlerInv, OpExclusive
  <2>5. \A p \in Ops : Same(p) \/ (p = hand /\ ~op[hand].is_multi /\ op'[p].op_type # "UDP_SEND")
    BY <2>2, <2>3, Fields DEF Same
  <2> QED
    BY <1>1, <1>2, <1>8, <2>1, <2>4, <2>5, ExplainedKept DEF CqIndex
<1>9. CASE Kernel /\ UNCHANGED <<loopVars, addr_len>>
  BY <1>1, <1>9, KernelExplained
<1> QED
  BY <1>3, <1>4, <1>5, <1>6, <1>7, <1>8, <1>9, SteadyCases

(* A program that has given up or ended does not go on.                    *)
LEMMA GoneForGood ==
  ASSUME IndInv, ~Steady, [Next]_vars
  PROVE  ~Steady'
<1>1. \/ pc \in Exit
      \/ pc = "handle" /\ hand = NULL
      \/ pc = "release" /\ ret < 0
  BY DEF Steady, Going, IndInv, TypeOK
<1> USE DEF Steady, Going, Exit
<1>2. CASE \/ InitialRecv \/ NewTun \/ InitialRead \/ InitialReadSkipped
           \/ InitialReadsDone \/ StartupFailed \/ LoopCheck
  BY <1>1, <1>2 DEF InitialRecv, NewTun, InitialRead, InitialReadSkipped,
     InitialReadsDone, StartupFailed, LoopCheck
<1>3. CASE Wait \/ HandleTun \/ HandleUdp
  BY <1>1, <1>3 DEF Wait, wait_for_recv, WaitFailed, WaitSent, WaitRecv, WaitRecvFailed,
     WaitRecvNoBuf, WaitRead, WaitReadNoOp, WaitReadFailed, Completion, HandleTun, HandleUdp
<1>4. CASE HandleNull \/ Release \/ Leave \/ iouring_free_buffers \/ QueueExit
  BY <1>1, <1>4 DEF HandleNull, Release, Leave, iouring_free_buffers, QueueExit
<1>5. CASE signal_handler
  <2>1. UNCHANGED <<pc, hand, ret>>
    BY <1>1, <1>5 DEF signal_handler, WaitInterrupted, loopVars
  <2> QED
    BY <1>1, <2>1
<1>6. CASE Kern \/ UNCHANGED vars
  BY <1>1, <1>6 DEF Kern, vars, loopVars
<1> QED
  BY <1>2, <1>3, <1>4, <1>5, <1>6 DEF Next, Program, Ended

(* Whatever the sizes of the pools, the role of the program and the        *)
(* failures around it: as long as the program of src/edge_zero.c goes on,  *)
(* everything that has failed has a reason, and unless sends stay in the   *)
(* kernel, the operations and ring buffers in use stay within what the     *)
(* completion queue and the number of reads allow.                         *)
THEOREM DemandInvariance == Spec => []DemandInv
<1>1. Init => DemandInv
  BY InitSized DEF DemandInv
<1>2. IndInv /\ IndInv' /\ DemandInv /\ [Next]_vars => DemandInv'
  <2> SUFFICES ASSUME IndInv, IndInv', DemandInv, [Next]_vars, Steady'
               PROVE  Explained' /\ ("late" \notin Faults => Roles' /\ Bounded')
    BY DEF DemandInv
  <2>1. Steady
    BY GoneForGood
  <2>2. Explained /\ ("late" \notin Faults => Roles /\ Bounded)
    BY <2>1 DEF DemandInv
  <2> QED
    BY <2>1, <2>2, SteadySized, SteadyExplained
<1> QED
  BY <1>1, <1>2, Invariance, PTL DEF Spec

(* The steps of wait_for_recv that give up.                                *)
LEMMA WaitGivesUp ==
  ASSUME IndInv, Explained, "late" \notin Faults => Roles /\ Bounded,
         wait_for_recv, pc = "wait", pc' = "handle", hand' = NULL
  PROVE  \/ cqe.res = "err" /\ Refusable(cqe.op)
         \/ cqe.res = "empty" /\ "empty" \in Faults
         \/ (NeedsOp => io_op_pool # {}) /\ cqe.res = "ok" /\ "submit" \in Faults
         \/ NeedsOp /\ io_op_pool = {} /\ FewOps
<1>1. Completion /\ HandlerInv /\ Healthy
  BY DEF wait_for_recv, WaitFailed, WaitSent, WaitRecv, WaitRecvFailed, WaitRecvNoBuf, WaitRead,
     WaitReadNoOp, WaitReadFailed, IndInv, Healthy, InLoop
<1>2. cqe = cq[1] /\ 1 \in CqIndex /\ cqe.op \in Ops
  BY <1>1, QueueMovesUp, SeenEntry
<1>3. cqe.res \in {"ok", "empty", "err"}
  <2>1. cq[1] \in Cqe
    BY <1>1, <1>2 DEF HandlerInv, HandlerTypeOK, UringTypeOK, CqIndex
  <2> QED
    BY <1>2, <2>1 DEF Cqe
<1>4. /\ cqe.res = "err" => Refusable(cqe.op)
      /\ cqe.res = "empty" => "empty" \in Faults
      /\ op[cqe.op].is_multi /\ cqe.buf = NO_BUF => cqe.res # "ok"
  BY <1>2 DEF Explained
<1>5. WaitFailed \/ WaitRecvFailed \/ WaitRecvNoBuf \/ WaitReadNoOp \/ WaitReadFailed
  <2>1. ~WaitSent
    BY DEF WaitSent, loopVars
  <2>2. ~WaitRecv /\ ~WaitRead
    BY <1>2, Distinct DEF WaitRecv, WaitRead, Return
  <2> QED
    BY <2>1, <2>2 DEF wait_for_recv
<1>6. CASE cqe.res # "ok"
  BY <1>3, <1>4, <1>6
<1>7. CASE cqe.res = "ok"
  <2>1. CASE WaitFailed \/ WaitRecvNoBuf
    BY <1>4, <1>7, <2>1 DEF WaitFailed, WaitRecvNoBuf
  <2>2. CASE WaitRecvFailed
    <3>1. op[cqe.op].is_multi /\ FALSE \in SubmitResults
      BY <1>7, <2>2 DEF WaitRecvFailed
    <3> QED
      BY <1>7, <3>1 DEF SubmitResults, NeedsOp
  <2>3. CASE WaitReadFailed
    <3>1. io_op_pool # {} /\ FALSE \in SubmitResults
      BY <1>1, <2>3, PickFacts DEF WaitReadFailed, HandlerInv
    <3> QED
      BY <1>7, <3>1 DEF SubmitResults
  <2>4. CASE WaitReadNoOp
    <3>1. NeedsOp /\ (io_op_pool = {} \/ buf_addr_pool = {})
      BY <2>4 DEF WaitReadNoOp, NeedsOp
    <3>2. io_op_pool = {}
      BY <1>1, <3>1, BufLeft
    <3>3. FewOps
      BY <1>1, <3>2, PoolLeft DEF FewOps
    <3> QED
      BY <3>1, <3>2, <3>3
  <2> QED
    BY <1>5, <2>1, <2>2, <2>3, <2>4
<1> QED
  BY <1>6, <1>7

(* The loop of tun_udp_run_zero is left only for a reason: wait_for_recv   *)
(* and the functions that pass a packet on run out of operations only if   *)
(* there are fewer than a full completion queue can take up, the receive   *)
(* runs out of ring buffers only if there are fewer than that, and only a  *)
(* server sends to nobody.                                                 *)
THEOREM OnlyForAReason == Spec => StopsForAReason
<1> DEFINE Excuse ==
       \/ ~running'
       \/ pc = "wait" /\ cqe.res = "err" /\ Refusable(cqe.op)
       \/ pc = "wait" /\ cqe.res = "empty" /\ "empty" \in Faults
       \/ pc = "handle" /\ op[hand].data_len = 0 /\ "empty" \in Faults
       \/ /\ NeedsOp => io_op_pool # {}
          /\ pc = "wait" => cqe.res = "ok"
          /\ "submit" \in Faults
       \/ NeedsOp /\ io_op_pool = {} /\ FewOps
<1>1. IndInv /\ DemandInv /\ [Next]_vars => [GivesUp => Excuse]_vars
  <2> SUFFICES ASSUME IndInv, DemandInv, Next, GivesUp PROVE Excuse
    BY DEF vars
  <2>1. CASE pc = "wait" /\ pc' = "handle" /\ hand' = NULL
    <3>1. Steady
      BY <2>1 DEF Steady, Going, Exit
    <3>2. Explained /\ ("late" \notin Faults => Roles /\ Bounded)
      BY <3>1 DEF DemandInv
    <3>3. wait_for_recv \/ ~running'
      BY <2>1 DEF Next, Program, InitialRecv, NewTun, InitialRead, InitialReadSkipped,
         InitialReadsDone, StartupFailed, LoopCheck, Wait, HandleNull, HandleTun, HandleUdp,
         Release, Leave, iouring_free_buffers, QueueExit, signal_handler, Kern, Ended, loopVars
    <3> QED
      BY <2>1, <3>2, <3>3, WaitGivesUp
  <2>2. CASE pc = "handle" /\ pc' = "release" /\ ret' < 0
    <3>1. HandleTun \/ HandleUdp
      BY <2>2 DEF Next, Program, InitialRecv, NewTun, InitialRead, InitialReadSkipped,
         InitialReadsDone, StartupFailed, LoopCheck, Wait, HandleNull, wait_for_recv,
         WaitFailed, WaitSent, WaitRecv, WaitRecvFailed, WaitRecvNoBuf, WaitRead,
         WaitReadNoOp, WaitReadFailed, Completion, WaitInterrupted,
         Release, Leave, iouring_free_buffers, QueueExit, signal_handler, Kern, Ended, loopVars
    <3>2. Steady /\ Healthy /\ hand # NULL
      BY <2>2, <3>1 DEF HandleTun, HandleUdp, Steady, Going, Exit, Healthy, InLoop
    <3>3. Explained /\ ("late" \notin Faults => Roles /\ Bounded)
      BY <3>2 DEF DemandInv
    <3>4. op[hand].data_len = 1 \/ "empty" \in Faults
      BY <2>2, <3>3 DEF Explained
    <3>5. PICK type, fd, a : Forward(type, fd, a)
      BY <3>1 DEF HandleTun, HandleUdp, tun_to_udp, udp_to_tun
    <3>6. ForwardNoOp \/ ForwardFailed(type, fd, a)
      BY <2>2, <3>5 DEF Forward, Forwarded
    <3>7. CASE ForwardNoOp
      <4>1. io_op_pool = {} /\ NeedsOp
        BY <2>2, <3>7 DEF ForwardNoOp, NeedsOp
      <4>2. FewOps
        BY <2>2, <3>2, <3>3, <4>1, PoolLeft DEF FewOps
      <4> QED
        BY <4>1, <4>2
    <3>8. CASE ForwardFailed(type, fd, a)
      <4>1. io_op_pool # {} /\ (op[hand].data_len = 0 \/ FALSE \in SubmitResults)
        BY <3>8 DEF ForwardFailed
      <4>2. CASE op[hand].data_len = 0
        BY <2>2, <3>4, <4>2
      <4>3. CASE FALSE \in SubmitResults
        BY <2>2, <4>1, <4>3 DEF SubmitResults
      <4> QED
        BY <4>1, <4>2, <4>3
    <3> QED
      BY <3>6, <3>7, <3>8
  <2> QED
    BY <2>1, <2>2 DEF GivesUp
<1> QED
  BY <1>1, Invariance, DemandInvariance, PTL DEF Spec, StopsForAReason
=============================================================================
