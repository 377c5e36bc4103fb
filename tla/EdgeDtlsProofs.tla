--------------------------- MODULE EdgeDtlsProofs ---------------------------
(***************************************************************************)
(* Proofs about EdgeDtls, for every size of the pools, of the buffer ring  *)
(* and of the completion queue, every number of packets, every set of      *)
(* faults and every policy of the free lists.                              *)
(***************************************************************************)
EXTENDS EdgeDtls, EdgeZeroProofs, DtlsProofs

(* The steps of EdgeZero that only move the program on, as far as they are *)
(* steps of the program with DTLS.                                         *)
DtlsPlain ==
  \/ NewTun \/ InitialReadSkipped \/ InitialReadsDone \/ StartupFailed
  \/ LoopCheck \/ HandleNull \/ Leave \/ iouring_free_buffers \/ QueueExit
  \/ signal_handler \/ UNCHANGED vars

(* The program starts in the invariant.                                    *)
LEMMA InitDtlsInv == DtlsInit => DtlsInv
<1> SUFFICES ASSUME DtlsInit PROVE DtlsInv
  OBVIOUS
<1>1. Init /\ pc = "init_recv" /\ conn_state = "HANDSHAKING" /\ inflight = {}
      /\ op = [o \in Ops |-> Zeroed] /\ io_op_pool = Ops /\ reads_left \in ReadCounts
  BY DEF DtlsInit, Init, iouring_init, iouring_alloc_io_op_pool
<1>2. TypeOK /\ HandlerInv /\ HeapKept /\ LossInv /\ Descriptors
  BY <1>1, InitIndInv DEF IndInv
<1>3. DtlsTypeOK
  BY <1>1, <1>2 DEF DtlsTypeOK, TypeOK
<1>4. CopiedOut
  BY <1>1, Fields, Distinct DEF CopiedOut
<1>5. KernelMemory
  BY <1>1 DEF KernelMemory
<1>6. Custody("converted")
  BY <1>1, InitCustody DEF Init
<1>7. ReadOps = {} /\ ReadsStarted
  BY <1>1, <1>2, ReadFacts DEF ReadOps, ReadsStarted
<1> QED
  BY <1>1, <1>2, <1>3, <1>4, <1>5, <1>6, <1>7 DEF DtlsInv

-----------------------------------------------------------------------------
(***************************************************************************)
(* Operations, buffers and packets.                                        *)
(***************************************************************************)

(* What the copying steps of the loop do.                                  *)
LEMMA CopySteps ==
  ASSUME DtlsInv, EncryptTun \/ DecryptUdp
  PROVE  /\ pc = "handle" /\ hand # NULL /\ pc' = "release" /\ hand' = hand
         /\ UNCHANGED <<running, addr_len, reads_left, heap, conn_state>>
         /\ \/ CopyFailed
            \/ \E type \in {"UDP_SEND", "TUN_WRITE"}, fd \in Fds, a \in {0, 1} :
                 /\ Copied(type, fd, a) /\ fd # op[hand].fd
                 /\ type = "UDP_SEND" => fd = udp_fd
                 /\ type = "TUN_WRITE" => fd = tun_fd
<1>1. /\ udp_fd \in Fds /\ tun_fd \in Fds /\ udp_fd # tun_fd /\ addr_len \in {0, 1}
      /\ hand \in Ops \cup {NULL} /\ Descriptors
  BY EdgeAssumption DEF DtlsInv, DtlsTypeOK
<1>2. CASE EncryptTun
  <2>1. op[hand].fd = tun_fd
    BY <1>1, <1>2 DEF EncryptTun, Descriptors
  <2> QED
    BY <1>1, <1>2, <2>1 DEF EncryptTun, dtls_encrypt_and_send_udp
<1>3. CASE DecryptUdp
  <2>1. op[hand].fd = udp_fd
    BY <1>1, <1>3 DEF DecryptUdp, Descriptors
  <2> QED
    BY <1>1, <1>3, <2>1 DEF DecryptUdp, dtls_decrypt_and_write_tun
<1> QED
  BY <1>2, <1>3

(* A copy that fails changes nothing.                                      *)
LEMMA CopyFailedStep ==
  ASSUME HandlerInv, NEW form, Custody(form), CopyFailed,
         pc = "handle", hand # NULL, pc' = "release", hand' = hand
  PROVE  /\ HandlerInv' /\ Custody(form)' /\ (Kept => Keeps)
         /\ UNCHANGED <<op, arrived, out>>
<1>1. Moves /\ Careful /\ UNCHANGED uringVars
  BY DEF CopyFailed, Moves, Careful
<1>2. UNCHANGED <<op, cq, dataVars, poolVars, kernelVars, arrived, out>>
      /\ UNCHANGED <<io_op_pool, buf_addr_pool, br, inflight>>
  BY <1>1 DEF uringVars, poolVars, kernelVars, dataVars
<1> QED
  BY <1>1, <1>2, PlainStep, PlainCustody, PlainKeeps

(* Every step keeps operations and buffers apart, and packets as they are. *)
LEMMA NextDtlsHandler ==
  ASSUME DtlsInv, [DtlsNext]_dtlsVars PROVE HandlerInv' /\ Custody("converted")'
<1>1. /\ HandlerInv /\ Custody("converted") /\ udp_fd \in Fds /\ addr_len \in {0, 1}
      /\ pc = "release" => hand # NULL
  BY EdgeAssumption DEF DtlsInv, DtlsTypeOK, HandlerInv, Bookkeeping
<1>2. CASE DtlsInitialRecv
  BY <1>1, <1>2, InitialRecvStep, InitialRecvCustody DEF DtlsInitialRecv
<1>3. CASE Shake
  BY <1>1, <1>3, ShakeStep DEF Shake
<1>4. CASE ShakeFailed
  BY <1>1, <1>4, ShakeFailedStep DEF ShakeFailed
<1>5. CASE ShakeRecv
  BY <1>1, <1>5, ShakeRecvStep DEF ShakeRecv
<1>6. CASE InitialRead
  BY <1>1, <1>6, InitialReadStep, InitialReadCustody
<1>7. CASE Wait
  BY <1>1, <1>7, WaitStep, WaitCustody DEF Wait
<1>8. CASE EncryptTun \/ DecryptUdp
  BY <1>1, <1>8, CopySteps, CopiedStep, CopyFailedStep
<1>9. CASE Release
  BY <1>1, <1>9, FreeHandStep, FreeHandCustody DEF Release
<1>10. CASE DtlsPlain
  <2>1. /\ Moves /\ UNCHANGED <<op, cq, dataVars>>
        /\ pc = "release" => UNCHANGED <<pc, hand>>
        /\ io_op_pool' \in {io_op_pool, {}} /\ buf_addr_pool' \in {buf_addr_pool, {}}
        /\ br' \in {br, {}} /\ inflight' \in {inflight, {}}
    BY <1>1, <1>10, PlainSteps DEF DtlsPlain
  <2> QED
    BY <1>1, <2>1, PlainStep, PlainCustody
<1>11. CASE Kern
  BY <1>1, <1>11, KernelStep, KernelCustody DEF Kern
<1> QED
  BY <1>2, <1>3, <1>4, <1>5, <1>6, <1>7, <1>8, <1>9, <1>10, <1>11
     DEF DtlsNext, DtlsProgram, DtlsStartup, DtlsWait, DtlsLoop, DtlsPlain, Ended, dtlsVars

-----------------------------------------------------------------------------
(***************************************************************************)
(* Types and memory.                                                       *)
(***************************************************************************)

(* ... and the rest of the state in its type, and the heap as it should be.*)
LEMMA NextDtlsTypes ==
  ASSUME DtlsInv, [DtlsNext]_dtlsVars
  PROVE  /\ DtlsTypeOK' /\ HeapKept'
         /\ pc' = "shake" => heap' = Ops \cup BufAddrs \cup {BR_BUFS}
<1>1. HandlerInv'
  BY NextDtlsHandler
<1>2. UringTypeOK' /\ hand' \in Ops \cup {NULL} /\ ret' \in {0, -1}
  BY <1>1 DEF HandlerInv, HandlerTypeOK
<1>3. /\ DtlsTypeOK /\ HeapKept /\ HandlerInv /\ Custody("converted") /\ udp_fd \in Fds
      /\ pc = "shake" => heap = Ops \cup BufAddrs \cup {BR_BUFS}
  BY EdgeAssumption DEF DtlsInv
<1>4. pc = "handle" /\ hand # NULL => op[hand].addr_len \in {0, 1}
  <2>1. op \in [Ops -> OpRecord] /\ hand \in Ops \cup {NULL}
    BY <1>3 DEF DtlsTypeOK, UringTypeOK
  <2> QED
    BY <2>1 DEF OpRecord
<1> USE DEF DtlsTypeOK, HeapKept, Startup, InLoop, Exit
<1>5. CASE DtlsInitialRecv
  BY <1>2, <1>3, <1>5 DEF DtlsInitialRecv
<1>6. CASE Shake
  <2>1. /\ UNCHANGED <<running, addr_len, reads_left, heap>> /\ pc = "shake"
        /\ pc' \in {"wait", "new_tun"} /\ conn_state' \in {conn_state, "ESTABLISHED"}
    BY <1>6 DEF Shake, HandshakeWants, HandshakeDone, SendPending
  <2> QED
    BY <1>2, <1>3, <2>1
<1>7. CASE ShakeFailed
  BY <1>2, <1>3, <1>7 DEF ShakeFailed, HandshakeFailed
<1>8. CASE ShakeRecv
  <2>1. addr_len' \in {0, 1} /\ pc = "handle" /\ pc' = "shake"
        /\ UNCHANGED <<running, reads_left, heap, conn_state>>
    BY <1>3, <1>4, <1>8 DEF ShakeRecv, HandshakeRecv, LearnedLen
  <2> QED
    BY <1>2, <1>3, <2>1
<1>9. CASE (InitialRead \/ InitialReadSkipped) /\ UNCHANGED conn_state
  <2>1. reads_left' \in Nat
    BY <1>3, <1>9 DEF InitialRead, InitialReadSkipped
  <2> QED
    BY <1>2, <1>3, <1>9, <2>1 DEF InitialRead, InitialReadSkipped, loopVars
<1>10. CASE (NewTun \/ InitialReadsDone \/ StartupFailed) /\ UNCHANGED conn_state
  BY <1>2, <1>3, <1>10 DEF NewTun, InitialReadsDone, StartupFailed
<1>11. CASE DtlsWait
  <2>1. pc = "wait" /\ pc' \in {"wait", "handle"}
        /\ UNCHANGED <<running, addr_len, reads_left, heap, conn_state>>
    BY <1>11 DEF DtlsWait, Wait, wait_for_recv, WaitFailed, WaitSent, WaitRecv, WaitRecvFailed,
       WaitRecvNoBuf, WaitRead, WaitReadNoOp, WaitReadFailed, Completion, Return, loopVars
  <2> QED
    BY <1>2, <1>3, <2>1
<1>12. CASE EncryptTun \/ DecryptUdp
  BY <1>2, <1>3, <1>12, CopySteps
<1>13. CASE (LoopCheck \/ HandleNull \/ Release \/ Leave \/ QueueExit) /\ UNCHANGED conn_state
  BY <1>2, <1>3, <1>13 DEF LoopCheck, HandleNull, Release, Leave, QueueExit
<1>14. CASE iouring_free_buffers /\ UNCHANGED conn_state
  BY <1>2, <1>3, <1>14 DEF iouring_free_buffers
<1>15. CASE signal_handler /\ UNCHANGED conn_state
  BY <1>2, <1>3, <1>15 DEF signal_handler, WaitInterrupted, Return, loopVars
<1>16. CASE (Kern \/ UNCHANGED vars) /\ UNCHANGED conn_state
  BY <1>2, <1>3, <1>16 DEF Kern, vars, loopVars
<1> QED
  BY <1>5, <1>6, <1>7, <1>8, <1>9, <1>10, <1>11, <1>12, <1>13, <1>14, <1>15, <1>16
     DEF DtlsNext, DtlsProgram, DtlsStartup, DtlsLoop, Ended, dtlsVars
-----------------------------------------------------------------------------
(***************************************************************************)
(* What operations are made for, and what they use.                        *)
(***************************************************************************)

(* How a step may change an operation.                                     *)
Remade(o) ==
  \/ op'[o].op_type = "NONE" /\ op'[o].buffer = NULL
  \/ /\ op'[o].op_type = op[o].op_type /\ op'[o].fd = op[o].fd
     /\ op'[o].is_multi <=> op[o].is_multi
     /\ op'[o].buffer = op[o].buffer /\ op'[o].buf_addr = op[o].buf_addr
  \/ /\ op[o].is_multi /\ op'[o].is_multi
     /\ op'[o].op_type = op[o].op_type /\ op'[o].fd = op[o].fd
     /\ op'[o].buffer \in {op[o].buffer} \cup RingBufs
  \/ /\ op'[o].is_multi /\ op'[o].buffer = NULL
     /\ op'[o].op_type = "UDP_RECV" /\ op'[o].fd = udp_fd
  \/ /\ op'[o].buf_addr \in BufAddrs /\ op'[o].buffer = op'[o].buf_addr
     /\ \/ op'[o].op_type \in {"TUN_READ", "TUN_WRITE"} /\ op'[o].fd = tun_fd
        \/ op'[o].op_type = "UDP_SEND" /\ op'[o].fd = udp_fd
        \/ \E r \in Ops : op'[o].op_type = op[r].op_type /\ op'[o].fd = op[r].fd

(* This keeps to the right descriptors and buffers ...                     *)
LEMMA RemadeKeeps ==
  ASSUME HandlerInv', HandlerInv, Descriptors, CopiedOut, \A o \in Ops : Remade(o)
  PROVE  Descriptors' /\ CopiedOut'
<1>1. Descriptors'
  <2>1. ASSUME NEW o \in Ops
        PROVE  \/ op'[o].op_type = "NONE"
               \/ \E r \in Ops : op'[o].op_type = op[r].op_type /\ op'[o].fd = op[r].fd
               \/ op'[o].op_type \in {"TUN_READ", "TUN_WRITE"} /\ op'[o].fd = tun_fd
               \/ op'[o].op_type \in {"UDP_RECV", "UDP_SEND"} /\ op'[o].fd = udp_fd
    BY DEF Remade
  <2> QED
    BY <2>1, DescriptorsKept
<1>2. CopiedOut'
  <2> SUFFICES ASSUME NEW o \in Ops
               PROVE  /\ op'[o].buffer \in BufAddrs => op'[o].buf_addr = op'[o].buffer
                      /\ op'[o].buffer \in RingBufs => op'[o].is_multi
    BY DEF CopiedOut
  <2>1. /\ op[o].buffer \in BufAddrs => op[o].buf_addr = op[o].buffer
        /\ op[o].buffer \in RingBufs => op[o].is_multi
        /\ op[o].is_multi => op[o].buf_addr = NULL
    BY DEF CopiedOut, HandlerInv, Bookkeeping
  <2> QED
    BY <2>1, Distinct DEF Remade
<1> QED
  BY <1>1, <1>2

(* ... and it is what every step does.                                     *)
LEMMA NextRemade ==
  ASSUME DtlsInv, [DtlsNext]_dtlsVars PROVE \A o \in Ops : Remade(o)
<1>1. /\ HandlerInv /\ Custody("converted") /\ udp_fd \in Fds /\ addr_len \in {0, 1}
      /\ op \in [Ops -> OpRecord] /\ hand \in Ops \cup {NULL}
      /\ pc = "release" => hand # NULL
  BY EdgeAssumption DEF DtlsInv, DtlsTypeOK, HandlerInv, HandlerTypeOK, UringTypeOK, Bookkeeping
<1>2. CASE DtlsInitialRecv
  <2>1. PICK s \in Pick(io_op_pool) : op' = [op EXCEPT ![s] = MultiOp("UDP_RECV", udp_fd)]
    BY <1>2 DEF DtlsInitialRecv, iouring_initial_udp_recvs
  <2> DEFINE R == MultiOp("UDP_RECV", udp_fd)
  <2>2. s \in Ops /\ R.op_type = "UDP_RECV" /\ R.fd = udp_fd /\ R.is_multi /\ R.buffer = NULL
    BY <1>1, FreshOp, Fields
  <2> HIDE DEF R
  <2>3. op'[s] = R /\ \A p \in Ops \ {s} : op'[p] = op[p]
    BY <1>1, <2>1, <2>2 DEF R
  <2> QED
    BY <2>2, <2>3 DEF Remade
<1>3. CASE Shake
  <2>1. Requested("UDP_SEND", udp_fd)
    BY <1>1, <1>3, ShakeStep DEF Shake
  <2> QED
    BY <2>1 DEF Requested, Remade
<1>4. CASE InitialRead
  <2>1. PICK s \in Pick(io_op_pool), b \in Pick(buf_addr_pool) :
          op' = [op EXCEPT ![s] = SingleOp("TUN_READ", tun_fd, b)]
    BY <1>4 DEF InitialRead
  <2> DEFINE R == SingleOp("TUN_READ", tun_fd, b)
  <2>2. s \in Ops /\ b \in BufAddrs /\ R.op_type = "TUN_READ" /\ R.fd = tun_fd
        /\ R.buf_addr = b /\ R.buffer = b
    BY <1>1, FreshOp, FreshBuf, Fields
  <2> HIDE DEF R
  <2>3. op'[s] = R /\ \A p \in Ops \ {s} : op'[p] = op[p]
    BY <1>1, <2>1, <2>2 DEF R
  <2> QED
    BY <2>2, <2>3 DEF Remade
<1>5. CASE Wait
  <2>1. WaitOps
    BY <1>1, <1>5, WaitCustody DEF Wait
  <2>2. ASSUME NEW o \in Ops PROVE Remade(o)
    <3>1. CASE GoesOn(o)
      BY <3>1 DEF GoesOn, Remade
    <3>2. CASE Freed(o)
      BY <3>2 DEF Freed, Remade
    <3>3. CASE StaysMulti(o)
      BY <3>3 DEF StaysMulti, Remade
    <3>4. CASE NewRead(o) /\ \E r \in Ops : op'[o].op_type = op[r].op_type /\ op'[o].fd = op[r].fd
      BY <3>4 DEF NewRead, Remade
    <3> QED
      BY <2>1, <3>1, <3>2, <3>3, <3>4 DEF WaitOps
  <2> QED
    BY <2>2
<1>6. CASE EncryptTun \/ DecryptUdp
  <2>1. \/ op' = op
        \/ \E type \in {"UDP_SEND", "TUN_WRITE"}, fd \in Fds :
             /\ Requested(type, fd)
             /\ type = "UDP_SEND" => fd = udp_fd
             /\ type = "TUN_WRITE" => fd = tun_fd
    BY <1>1, <1>6, CopySteps, CopiedStep, CopyFailedStep
  <2> QED
    BY <2>1 DEF Requested, Remade
<1>7. CASE ShakeRecv \/ Release
  <2>1. hand # NULL /\ hand \in Ops /\ io_op_free(hand) /\ hand \notin io_op_pool
        /\ op[hand] \in OpRecord
    BY <1>1, <1>7, ShakeRecvStep DEF ShakeRecv, Release, HandlerInv, OpExclusive
  <2>2. /\ \A p \in Ops \ {hand} : op'[p] = op[p]
        /\ op'[hand] \in {Zeroed, op[hand], Recycled(op[hand])}
    BY <1>1, <2>1, FreeFacts
  <2>3. LET r == Recycled(op[hand]) IN
          /\ r.op_type = op[hand].op_type /\ r.fd = op[hand].fd
          /\ r.is_multi = op[hand].is_multi
          /\ r.buffer = op[hand].buffer /\ r.buf_addr = op[hand].buf_addr
    BY <2>1, MovedFields
  <2> QED
    BY <2>1, <2>2, <2>3, Fields DEF Remade
<1>8. CASE ShakeFailed \/ DtlsPlain \/ Kern
  <2>1. op' = op
    BY <1>1, <1>8, ShakeFailedStep, PlainSteps, KernelFacts DEF ShakeFailed, DtlsPlain, Kern
  <2> QED
    BY <2>1 DEF Remade
<1> QED
  BY <1>2, <1>3, <1>4, <1>5, <1>6, <1>7, <1>8
     DEF DtlsNext, DtlsProgram, DtlsStartup, DtlsWait, DtlsLoop, DtlsPlain, Ended, dtlsVars

(* The kernel works in memory that was not freed.                          *)
LEMMA NextKernelMemory ==
  ASSUME DtlsInv, [DtlsNext]_dtlsVars, CopiedOut' PROVE KernelMemory'
<1>1. HandlerInv /\ HandlerInv' /\ CopiedOut /\ KernelMemory /\ DtlsTypeOK'
  BY NextDtlsHandler, NextDtlsTypes DEF DtlsInv
<1>2. \A o \in inflight' : ~(IsSend(o)' /\ op'[o].buffer \in RingBufs)
  BY <1>1 DEF HandlerInv, HandlerTypeOK, UringTypeOK, Bookkeeping, CopiedOut, IsSend
<1>3. CASE pc' \notin {"queue_exit", "done"}
  <2>1. BufAddrs \subseteq heap'
    <3>1. \/ heap' = Ops \cup BufAddrs \cup {BR_BUFS}
          \/ heap' = (Ops \cup BufAddrs \cup {BR_BUFS}) \ {hand'}
      BY <1>1, <1>3, NextDtlsTypes DEF HeapKept, DtlsTypeOK, Exit
    <3>2. hand' \notin BufAddrs
      BY <1>1, EdgeAssumption, Distinct DEF DtlsTypeOK
    <3> QED
      BY <3>1, <3>2
  <2> QED
    BY <1>2, <2>1 DEF KernelMemory
<1>4. CASE iouring_free_buffers
  <2>1. op' = op /\ inflight' = inflight /\ inflight \subseteq Ops
        /\ \A b \in heap : b \notin io_op_pool \cup buf_addr_pool \cup {BR_BUFS} => b \in heap'
    BY <1>1, <1>4 DEF iouring_free_buffers, kernelVars, HandlerInv, HandlerTypeOK, UringTypeOK
  <2>2. ASSUME NEW o \in inflight, op[o].buffer \in BufAddrs
        PROVE  op[o].buffer \notin io_op_pool \cup buf_addr_pool \cup {BR_BUFS}
    <3>1. op[o].buf_addr = op[o].buffer
      BY <1>1, <2>1, <2>2 DEF CopiedOut
    <3>2. op[o].buffer \notin buf_addr_pool
      BY <1>1, <2>1, <2>2, <3>1 DEF HandlerInv, BufExclusive
    <3>3. op[o].buffer \notin Ops /\ op[o].buffer # BR_BUFS /\ io_op_pool \subseteq Ops
      BY <1>1, <2>2, EdgeAssumption DEF HandlerInv, HandlerTypeOK, UringTypeOK, BR_BUFS
    <3> QED
      BY <3>2, <3>3
  <2> QED
    BY <1>1, <1>2, <2>1, <2>2 DEF KernelMemory
<1>5. CASE inflight' = {}
  BY <1>5 DEF KernelMemory
<1>6. CASE UNCHANGED <<op, heap>> /\ inflight' \subseteq inflight
  BY <1>1, <1>2, <1>6 DEF KernelMemory
<1>7. CASE Kern
  <2>1. op' = op /\ inflight' \subseteq inflight
    BY <1>1, <1>7, KernelFacts DEF Kern
  <2> QED
    BY <1>6, <1>7, <2>1 DEF Kern
<1>8. CASE signal_handler \/ UNCHANGED vars
  BY <1>3, <1>6, <1>8 DEF signal_handler, WaitInterrupted, Return, vars, uringVars, poolVars,
     kernelVars
<1>9. CASE ShakeFailed \/ StartupFailed \/ QueueExit
  BY <1>5, <1>9 DEF ShakeFailed, HandshakeFailed, StartupFailed, QueueExit
<1>10. CASE DtlsInitialRecv \/ Shake \/ ShakeRecv \/ NewTun \/ InitialRead \/ InitialReadSkipped
            \/ InitialReadsDone \/ EncryptTun \/ DecryptUdp \/ LoopCheck \/ HandleNull
            \/ Release \/ Leave
  BY <1>3, <1>10 DEF DtlsInitialRecv, Shake, HandshakeWants, HandshakeDone, ShakeRecv,
     HandshakeRecv, NewTun, InitialRead, InitialReadSkipped, InitialReadsDone, EncryptTun,
     DecryptUdp, LoopCheck, HandleNull, Release, Leave, loopVars
<1>11. CASE Wait
  BY <1>3, <1>11 DEF Wait, wait_for_recv, WaitFailed, WaitSent, WaitRecv, WaitRecvFailed,
     WaitRecvNoBuf, WaitRead, WaitReadNoOp, WaitReadFailed, Completion, Return, loopVars
<1> QED
  BY <1>4, <1>7, <1>8, <1>9, <1>10, <1>11
     DEF DtlsNext, DtlsProgram, DtlsStartup, DtlsWait, DtlsLoop, Ended, dtlsVars

-----------------------------------------------------------------------------
(***************************************************************************)
(* Nothing is lost.                                                        *)
(***************************************************************************)

(* A program that is still going has lost nothing.                         *)
LEMMA NextDtlsLoss == ASSUME DtlsInv, [DtlsNext]_dtlsVars PROVE LossInv'
<1> SUFFICES ASSUME Going'
             PROVE  /\ Kept' /\ Stranded' = {}
                    /\ pc' # "init_recv" => \E o \in Ops : op'[o].is_multi
  BY DEF LossInv
<1>1. /\ HandlerInv /\ Custody("converted") /\ udp_fd \in Fds /\ addr_len \in {0, 1}
      /\ pc = "release" => hand # NULL
  BY EdgeAssumption DEF DtlsInv, DtlsTypeOK, HandlerInv, Bookkeeping
<1>2. pc' \notin Exit /\ ~(pc' = "handle" /\ hand' = NULL)
  BY DEF Going
<1>3. Going => /\ Kept /\ Stranded = {}
               /\ pc # "init_recv" => \E o \in Ops : op[o].is_multi
  BY DEF DtlsInv, LossInv
<1>4. ASSUME Going, Keeps, pc' # "init_recv" => pc # "init_recv"
      PROVE  /\ Kept' /\ Stranded' = {}
             /\ pc' # "init_recv" => \E o \in Ops : op'[o].is_multi
  BY <1>3, <1>4 DEF Keeps
<1> USE DEF Exit
<1>5. CASE DtlsInitialRecv
  <2>1. Going /\ pc = "init_recv" /\ pc' = "shake"
    BY <1>5 DEF DtlsInitialRecv, Going
  <2>2. Keeps /\ \E o \in Ops : op'[o].is_multi /\ op'[o].fd = udp_fd
    BY <1>1, <1>3, <1>5, <2>1, InitialRecvKeeps DEF DtlsInitialRecv
  <2> QED
    BY <1>3, <2>1, <2>2 DEF Keeps
<1>6. CASE Shake
  <2>1. pc = "shake" /\ Going
    BY <1>6 DEF Shake, HandshakeWants, HandshakeDone, SendPending, Going
  <2>2. Keeps
    BY <1>1, <1>3, <1>6, <2>1, ShakeStep DEF Shake
  <2> QED
    BY <1>4, <2>1, <2>2
<1>7. CASE ShakeRecv
  <2>1. pc = "handle" /\ Going
    BY <1>7 DEF ShakeRecv, HandshakeRecv, Going
  <2>2. Keeps
    BY <1>1, <1>3, <1>7, <2>1, ShakeRecvStep DEF ShakeRecv
  <2> QED
    BY <1>4, <2>1, <2>2
<1>8. CASE InitialRead
  <2>1. Going /\ pc # "init_recv"
    BY <1>8 DEF InitialRead, Going
  <2> QED
    BY <1>1, <1>3, <1>4, <1>8, <2>1, InitialReadKeeps
<1>9. CASE NewTun \/ InitialReadSkipped \/ InitialReadsDone \/ LoopCheck \/ UNCHANGED vars
  <2>1. Going /\ Careful /\ UNCHANGED <<poolVars, kernelVars>>
    BY <1>2, <1>9 DEF NewTun, InitialReadSkipped, InitialReadsDone, LoopCheck, vars,
       uringVars, loopVars, Careful, Going
  <2>2. Keeps
    BY <1>1, <1>3, <2>1, PlainKeeps
  <2>3. pc' # "init_recv" => pc # "init_recv"
    BY <1>9 DEF NewTun, InitialReadSkipped, InitialReadsDone, LoopCheck, vars, loopVars
  <2> QED
    BY <1>4, <2>1, <2>2, <2>3
<1>10. CASE Wait
  <2>1. pc = "wait" /\ Going /\ wait_for_recv
    BY <1>10 DEF Wait, wait_for_recv, WaitFailed, WaitSent, WaitRecv, WaitRecvFailed,
       WaitRecvNoBuf, WaitRead, WaitReadNoOp, WaitReadFailed, Completion, Going
  <2> QED
    BY <1>1, <1>2, <1>3, <1>4, <2>1, WaitKeeps
<1>11. CASE EncryptTun \/ DecryptUdp
  <2>1. pc = "handle" /\ hand # NULL /\ Going
    BY <1>11 DEF EncryptTun, DecryptUdp, Going
  <2>2. Keeps
    BY <1>1, <1>3, <1>11, <2>1, CopySteps, CopiedStep, CopyFailedStep
  <2> QED
    BY <1>4, <2>1, <2>2
<1>12. CASE Release
  <2>1. pc = "release" /\ hand # NULL /\ Going
    BY <1>1, <1>12 DEF Release, Going
  <2> QED
    BY <1>1, <1>3, <1>4, <1>12, <2>1, FreeHandKeeps DEF Release
<1>13. CASE HandleNull \/ Leave \/ iouring_free_buffers \/ QueueExit \/ StartupFailed
            \/ ShakeFailed
  BY <1>2, <1>13 DEF HandleNull, Leave, iouring_free_buffers, QueueExit, StartupFailed,
     ShakeFailed, HandshakeFailed
<1>14. CASE signal_handler
  <2>1. UNCHANGED <<uringVars, loopVars>>
    BY <1>2, <1>14 DEF signal_handler, WaitInterrupted, Return
  <2>2. Going /\ Careful /\ UNCHANGED <<poolVars, kernelVars, pc>>
    BY <1>2, <2>1 DEF uringVars, loopVars, Careful, Going
  <2>3. Keeps
    BY <1>1, <1>3, <2>2, PlainKeeps
  <2> QED
    BY <1>4, <2>2, <2>3
<1>15. CASE Kern
  <2>1. Going /\ Kernel /\ UNCHANGED loopVars /\ pc' = pc
    BY <1>2, <1>15 DEF Kern, loopVars, Going
  <2>2. Keeps
    BY <1>1, <1>3, <2>1, KernelKeeps
  <2> QED
    BY <1>4, <2>1, <2>2
<1> QED
  BY <1>5, <1>6, <1>7, <1>8, <1>9, <1>10, <1>11, <1>12, <1>13, <1>14, <1>15
     DEF DtlsNext, DtlsProgram, DtlsStartup, DtlsWait, DtlsLoop, Ended, dtlsVars

-----------------------------------------------------------------------------
(***************************************************************************)
(* The reads.                                                              *)
(***************************************************************************)

(* Copying a packet starts a send.                                         *)
LEMMA CopiedReads ==
  ASSUME HandlerInv, NEW type \in {"UDP_SEND", "TUN_WRITE"}, NEW fd \in Fds,
         NEW a \in {0, 1}, NEW p, SubmitNew(type, fd, a, p)
  PROVE  ReadOps' = ReadOps
<1>1. PICK s \in Pick(io_op_pool), b \in Pick(buf_addr_pool) :
        /\ op' = [op EXCEPT ![s] =
             [SingleOp(type, fd, b) EXCEPT !.data_len = 1, !.addr_len = a]]
        /\ inflight' = inflight \cup {s}
  BY DEF SubmitNew
<1> DEFINE R == [SingleOp(type, fd, b) EXCEPT !.data_len = 1, !.addr_len = a]
<1>2. R.op_type = type
  BY DEF SingleOp, Zeroed
<1> HIDE DEF R
<1>3. s \in Ops /\ s \notin inflight \cup Queued
  BY FreshOp DEF Queued
<1>4. op'[s] = R /\ \A o \in Ops \ {s} : op'[o] = op[o]
  BY <1>1, <1>3 DEF R, HandlerInv, HandlerTypeOK, UringTypeOK
<1>5. Queued' = Queued
  BY DEF SubmitNew, Queued, CqIndex
<1> QED
  BY <1>1, <1>2, <1>3, <1>4, <1>5, ReadFacts DEF ReadOps

(* There are no reads before iouring_initial_tun_reads.                    *)
LEMMA NoReadsBefore ==
  ASSUME DtlsInv, [DtlsNext]_dtlsVars, Before'
  PROVE  Before /\ ReadOps' = {} /\ reads_left' \in ReadCounts
<1>1. /\ HandlerInv /\ udp_fd \in Fds /\ addr_len \in {0, 1}
      /\ Before => ReadOps = {} /\ reads_left \in ReadCounts
      /\ ~(pc' = "handle" /\ hand' = NULL) /\ pc' \notin Exit
  BY EdgeAssumption DEF DtlsInv, DtlsTypeOK, Before, Going
<1>2. ASSUME Before, ReadOps' = ReadOps \/ Replaced, reads_left' = reads_left
      PROVE  Before /\ ReadOps' = {} /\ reads_left' \in ReadCounts
  BY <1>1, <1>2 DEF Replaced
<1>3. ASSUME Before, UNCHANGED <<op, inflight, cq>>, reads_left' = reads_left
      PROVE  Before /\ ReadOps' = {} /\ reads_left' \in ReadCounts
  BY <1>2, <1>3 DEF ReadOps, Queued, CqIndex
<1>4. CASE DtlsInitialRecv
  <2>1. Before /\ reads_left' = reads_left
    BY <1>4 DEF DtlsInitialRecv, Before, Going, Exit
  <2>2. PICK o \in Pick(io_op_pool) :
          /\ op' = [op EXCEPT ![o] = MultiOp("UDP_RECV", udp_fd)]
          /\ inflight' = inflight \cup {o}
    BY <1>4 DEF DtlsInitialRecv, iouring_initial_udp_recvs
  <2> DEFINE R == MultiOp("UDP_RECV", udp_fd)
  <2>3. o \in Ops /\ R.op_type = "UDP_RECV"
    BY <1>1, FreshOp, Fields
  <2> HIDE DEF R
  <2>4. op'[o] = R /\ \A p \in Ops \ {o} : op'[p] = op[p]
    BY <1>1, <2>2, <2>3 DEF R, HandlerInv, HandlerTypeOK, UringTypeOK
  <2>5. Queued' = Queued
    BY <1>4 DEF DtlsInitialRecv, iouring_initial_udp_recvs, Queued, CqIndex
  <2>6. ReadOps' \subseteq ReadOps
    BY <1>1, <2>2, <2>3, <2>4, <2>5, ReadFacts DEF ReadOps
  <2> QED
    BY <1>1, <2>1, <2>6
<1>5. CASE Shake
  <2>1. /\ Before /\ reads_left' = reads_left
        /\ SubmitNew("UDP_SEND", udp_fd, addr_len, Flight(udp_fd)) \/ UNCHANGED uringVars
    BY <1>5 DEF Shake, HandshakeWants, HandshakeDone, SendPending, Before, Going, Exit
  <2>2. CASE UNCHANGED uringVars
    BY <1>3, <2>1, <2>2 DEF uringVars, poolVars, kernelVars
  <2>3. CASE SubmitNew("UDP_SEND", udp_fd, addr_len, Flight(udp_fd))
    BY <1>1, <1>2, <2>1, <2>3, CopiedReads
  <2> QED
    BY <2>1, <2>2, <2>3
<1>6. CASE ShakeRecv
  <2>1. /\ Before /\ reads_left' = reads_left /\ hand # NULL
        /\ io_op_free(hand) /\ UNCHANGED kernelVars
    BY <1>6 DEF ShakeRecv, HandshakeRecv, Before, Going, Exit
  <2> QED
    BY <1>1, <1>2, <2>1, FreeHandReads
<1>7. CASE NewTun \/ UNCHANGED dtlsVars
  BY <1>3, <1>7 DEF NewTun, Before, Going, dtlsVars, vars, uringVars, loopVars, poolVars,
     kernelVars, Exit, Established
<1>8. CASE DtlsWait
  <2>1. Before /\ reads_left' = reads_left /\ wait_for_recv
    <3>1. pc = "wait"
      BY <1>8 DEF DtlsWait, Wait, wait_for_recv, WaitFailed, WaitSent, WaitRecv,
         WaitRecvFailed, WaitRecvNoBuf, WaitRead, WaitReadNoOp, WaitReadFailed, Completion
    <3>2. pc' \in {"wait", "handle"}
      BY <1>8, <3>1 DEF DtlsWait, Wait, wait_for_recv, WaitFailed, WaitSent, WaitRecv,
         WaitRecvFailed, WaitRecvNoBuf, WaitRead, WaitReadNoOp, WaitReadFailed, Return, loopVars
    <3> QED
      BY <1>8, <3>1, <3>2 DEF DtlsWait, Wait, Before, Going, Exit, Established
  <2> QED
    BY <1>1, <1>2, <2>1, WaitReads
<1>9. CASE signal_handler /\ UNCHANGED conn_state
  <2>1. UNCHANGED <<uringVars, loopVars, reads_left, conn_state>>
    BY <1>1, <1>9 DEF signal_handler, WaitInterrupted, Return
  <2> QED
    BY <1>3, <2>1 DEF uringVars, loopVars, poolVars, kernelVars, Before, Going, Established
<1>10. CASE Kern /\ UNCHANGED conn_state
  <2>1. Kernel /\ UNCHANGED <<loopVars, reads_left, conn_state>>
    BY <1>10 DEF Kern
  <2>2. Before
    BY <2>1 DEF loopVars, Before, Going, Established
  <2> QED
    BY <1>1, <1>2, <2>1, <2>2, KernelReads
<1>11. ~(ShakeFailed \/ StartupFailed \/ DtlsLoop \/ EncryptTun \/ DecryptUdp \/ Ended)
  BY <1>1 DEF ShakeFailed, HandshakeFailed, StartupFailed, DtlsLoop, LoopCheck, HandleNull,
     Release, Leave, iouring_free_buffers, QueueExit, EncryptTun, DecryptUdp, Ended, Exit,
     Before, Going, Established, vars, loopVars
<1>12. ~(InitialRead \/ InitialReadSkipped \/ InitialReadsDone)
  BY DEF InitialRead, InitialReadSkipped, InitialReadsDone, loopVars, Before
<1> QED
  BY <1>4, <1>5, <1>6, <1>7, <1>8, <1>9, <1>10, <1>11, <1>12
     DEF DtlsNext, DtlsProgram, DtlsStartup, Ended

(* iouring_initial_tun_reads skips a read only if no operation is free,    *)
(* and none is freed before it returns.                                    *)
LEMMA NextReadsStarted ==
  ASSUME DtlsInv, [DtlsNext]_dtlsVars
  PROVE  ReadsStarted'
<1> SUFFICES ASSUME pc' = "init_reads"
             PROVE  \E n \in ReadCounts :
                      \/ Reads' + reads_left' = n
                      \/ Reads' + reads_left' < n /\ io_op_pool' = {}
  BY DEF ReadsStarted
<1>1. HandlerInv /\ LossInv /\ reads_left \in Nat /\ Reads \in Nat
  BY ReadFacts DEF DtlsInv, DtlsTypeOK
<1>2. ASSUME pc = "init_reads"
      PROVE  \E n \in ReadCounts :
               \/ Reads + reads_left = n
               \/ Reads + reads_left < n /\ io_op_pool = {}
  BY <1>2 DEF DtlsInv, ReadsStarted
<1>3. CASE NewTun
  <2>1. Before /\ UNCHANGED <<op, inflight, cq, reads_left>>
    BY <1>3 DEF NewTun, Before, Going, Exit, uringVars, poolVars, kernelVars
  <2>2. ReadOps' = {} /\ reads_left' \in ReadCounts
    BY <2>1 DEF DtlsInv, ReadOps, Queued, CqIndex
  <2>3. Reads' = 0
    BY <2>2, FS_EmptySet DEF Reads
  <2> QED
    BY <1>1, <2>1, <2>2, <2>3
<1>4. CASE InitialRead
  <2>1. pc = "init_reads" /\ reads_left > 0 /\ reads_left' = reads_left - 1
    BY <1>4 DEF InitialRead
  <2>2. Reads' = Reads + 1 /\ io_op_pool # {}
    BY <1>1, <1>4, OneMoreRead
  <2> QED
    BY <1>1, <1>2, <2>1, <2>2
<1>5. CASE InitialReadSkipped
  <2>1. pc = "init_reads" /\ reads_left > 0 /\ reads_left' = reads_left - 1
    BY <1>5 DEF InitialReadSkipped
  <2>2. Reads' = Reads /\ io_op_pool' = {}
    BY <1>1, <1>5, SkippedWithout
  <2>3. PICK n \in ReadCounts : Reads + reads_left <= n
    BY <1>1, <1>2, <2>1, EdgeAssumption
  <2>4. Reads' + reads_left' < n
    BY <1>1, <2>1, <2>2, <2>3, EdgeAssumption
  <2> QED
    BY <2>2, <2>4
<1>6. CASE Kern
  <2>1. Kernel /\ pc = "init_reads" /\ reads_left' = reads_left
    BY <1>6 DEF Kern, loopVars
  <2>2. ReadOps' = ReadOps
    BY <1>1, <2>1, KernelReads
  <2>3. io_op_pool' = io_op_pool
    BY <1>1, <2>1, KernelFacts
  <2> QED
    BY <1>2, <2>1, <2>2, <2>3 DEF Reads
<1>7. CASE signal_handler \/ UNCHANGED dtlsVars
  <2>1. pc = "init_reads" /\ UNCHANGED <<io_op_pool, op, inflight, cq, reads_left>>
    BY <1>7 DEF signal_handler, WaitInterrupted, Return, dtlsVars, vars, uringVars, loopVars,
       poolVars, kernelVars
  <2> QED
    BY <1>2, <2>1 DEF Reads, ReadOps, Queued, CqIndex
<1>8. ~DtlsWait
  BY DEF DtlsWait, Wait, wait_for_recv, WaitFailed, WaitSent, WaitRecv, WaitRecvFailed,
     WaitRecvNoBuf, WaitRead, WaitReadNoOp, WaitReadFailed, Completion, Return, loopVars
<1>9. ~(DtlsInitialRecv \/ Shake \/ ShakeFailed \/ ShakeRecv \/ StartupFailed
          \/ InitialReadsDone \/ EncryptTun \/ DecryptUdp \/ DtlsLoop \/ (pc = "done" /\ Ended))
  BY DEF DtlsInitialRecv, Shake, HandshakeWants, HandshakeDone, ShakeFailed, HandshakeFailed,
     ShakeRecv, HandshakeRecv, StartupFailed, InitialReadsDone, EncryptTun, DecryptUdp,
     DtlsLoop, LoopCheck, HandleNull, Release, Leave, iouring_free_buffers, QueueExit, Ended,
     vars, loopVars
<1> QED
  BY <1>3, <1>4, <1>5, <1>6, <1>7, <1>8, <1>9
     DEF DtlsNext, DtlsProgram, DtlsStartup, Ended

-----------------------------------------------------------------------------
(***************************************************************************)
(* The theorems.                                                           *)
(***************************************************************************)

(* Every step of the program, of the kernel and of a signal preserves the  *)
(* inductive invariant.                                                    *)
LEMMA NextDtlsInv == DtlsInv /\ [DtlsNext]_dtlsVars => DtlsInv'
<1> SUFFICES ASSUME DtlsInv, [DtlsNext]_dtlsVars PROVE DtlsInv'
  OBVIOUS
<1>1. /\ HandlerInv' /\ Custody("converted")' /\ DtlsTypeOK' /\ HeapKept' /\ LossInv'
      /\ pc' = "shake" => heap' = Ops \cup BufAddrs \cup {BR_BUFS}
  BY NextDtlsHandler, NextDtlsTypes, NextDtlsLoss
<1>2. Descriptors' /\ CopiedOut'
  BY <1>1, NextRemade, RemadeKeeps DEF DtlsInv
<1>3. KernelMemory'
  BY <1>2, NextKernelMemory
<1>4. Before' => ReadOps' = {} /\ reads_left' \in ReadCounts
  BY NoReadsBefore
<1>5. ReadsStarted'
  BY NextReadsStarted
<1> QED
  BY <1>1, <1>2, <1>3, <1>4, <1>5 DEF DtlsInv

(* The edge program with DTLS keeps its bookkeeping of operations, buffers *)
(* and packets consistent through handshake, loop and cleanup, whatever    *)
(* fails.  Among others no io_op_t and no buffer ever has two users.       *)
THEOREM DtlsInvariance == DtlsSpec => []DtlsInv
<1>1. DtlsInv /\ [DtlsNext]_dtlsVars => DtlsInv'
  BY NextDtlsInv
<1> QED
  BY InitDtlsInv, <1>1, PTL DEF DtlsSpec

(* Neither the handshake nor the loop loses an operation, a buf_addr_t or  *)
(* a ring buffer.                                                          *)
THEOREM DtlsLosesNothing == DtlsSpec => []NothingLost
<1>1. DtlsInv => NothingLost
  BY NoneLost DEF DtlsInv
<1> QED
  BY DtlsInvariance, <1>1, PTL

(* free(op) after the loop and iouring_free_buffers free nothing twice.    *)
THEOREM DtlsNoDoubleFree == DtlsSpec => []FreeOnce
<1>1. DtlsInv => FreeOnce
  BY FreedOnce DEF DtlsInv
<1> QED
  BY DtlsInvariance, <1>1, PTL

(* While iouring_cleanup frees memory before it closes the ring, the       *)
(* kernel still works on requests, but never in memory that was freed: a   *)
(* program that copies what it sends does not need the buffer ring for it. *)
THEOREM DtlsKernelMemory == DtlsSpec => []KernelMemory
<1>1. DtlsInv => KernelMemory
  BY DEF DtlsInv
<1> QED
  BY DtlsInvariance, <1>1, PTL

(* Nothing leaves the program but what DTLS has encrypted or decrypted:    *)
(* no packet in clear on the socket, and no contents a buffer had before.  *)
THEOREM DtlsConverts == DtlsSpec => []OnlyConverted
<1>1. DtlsInv => OnlyConverted
  <2> SUFFICES ASSUME DtlsInv, NEW f \in Fds, NEW p \in Payloads \cup {NULL}, out[f][p] > 0
               PROVE  p # NULL /\ p[3] = "converted"
    BY DEF OnlyConverted
  <2> QED
    BY Distinct DEF DtlsInv, Custody, Sending, GoesTo
<1> QED
  BY DtlsInvariance, <1>1, PTL

-----------------------------------------------------------------------------
(***************************************************************************)
(* The reads in the loop.                                                  *)
(***************************************************************************)

(* Every step of the loop keeps the reads or replaces one.                 *)
LEMMA DtlsLoopReads ==
  ASSUME DtlsInv, [DtlsNext]_dtlsVars, Healthy, Healthy', Established
  PROVE  Replaced
<1>1. /\ HandlerInv /\ pc \in InLoop /\ pc' \in InLoop
      /\ ~(pc' = "handle" /\ hand' = NULL)
  BY DEF DtlsInv, Healthy
<1>2. CASE UNCHANGED <<op, inflight, cq>>
  BY <1>2 DEF Replaced, ReadOps, Queued, CqIndex
<1>3. CASE LoopCheck \/ signal_handler \/ UNCHANGED dtlsVars
  BY <1>2, <1>3 DEF LoopCheck, signal_handler, WaitInterrupted, dtlsVars, vars, uringVars,
     poolVars, kernelVars
<1>4. CASE Wait
  BY <1>1, <1>4, WaitReads DEF Wait
<1>5. CASE EncryptTun \/ DecryptUdp
  <2>1. hand # NULL /\ pc = "handle"
    BY <1>5, CopySteps
  <2>2. CASE CopyFailed
    BY <1>2, <2>2 DEF CopyFailed, uringVars, poolVars, kernelVars
  <2>3. ASSUME NEW type \in {"UDP_SEND", "TUN_WRITE"}, NEW fd \in Fds, NEW a \in {0, 1},
               Copied(type, fd, a)
        PROVE  Replaced
    BY <1>1, <2>3, CopiedReads DEF Copied, Replaced
  <2> QED
    BY <1>5, <2>2, <2>3, CopySteps
<1>6. CASE Release
  <2>1. hand # NULL
    BY <1>1, <1>6 DEF Release, HandlerInv, Bookkeeping
  <2> QED
    BY <1>1, <1>6, <2>1, FreeHandReads DEF Release, Replaced
<1>7. CASE Kern
  BY <1>1, <1>7, KernelReads DEF Kern, Replaced
<1>8. CASE DtlsStartup
  BY <1>1, <1>8 DEF DtlsStartup, NewTun, InitialRead, InitialReadSkipped,
     InitialReadsDone, StartupFailed, InLoop
<1>9. CASE DtlsInitialRecv \/ Shake \/ ShakeFailed \/ ShakeRecv
  BY <1>1, <1>9 DEF DtlsInitialRecv, Shake, HandshakeWants, HandshakeDone, SendPending,
     ShakeFailed, ShakeRecv, InLoop
<1>10. CASE HandleNull \/ Leave \/ iouring_free_buffers \/ QueueExit \/ Ended
  BY <1>1, <1>10 DEF HandleNull, Leave, iouring_free_buffers, QueueExit, Ended, InLoop
<1> QED
  BY <1>3, <1>4, <1>5, <1>6, <1>7, <1>8, <1>9, <1>10
     DEF DtlsNext, DtlsProgram, DtlsWait, DtlsLoop

(* The DTLS edge starts the reads that were asked for, fewer only if no    *)
(* operation is free; and in its loop their number does not change:        *)
(* wait_for_recv replaces every one that finishes.                         *)
THEOREM DtlsKeepsReading == DtlsSpec => ReadsStay
<1>1. DtlsInv /\ [DtlsNext]_dtlsVars =>
        [Healthy /\ Healthy' /\ Established => Reads' = Reads]_dtlsVars
  <2> SUFFICES ASSUME DtlsInv, [DtlsNext]_dtlsVars, Healthy, Healthy', Established
               PROVE  Reads' = Reads
    OBVIOUS
  <2> QED
    BY DtlsLoopReads, ReplacedCounts DEF DtlsInv
<1>2. DtlsInv => ReadsStarted
  BY DEF DtlsInv
<1> QED
  BY DtlsInvariance, <1>1, <1>2, PTL DEF DtlsSpec, ReadsStay

-----------------------------------------------------------------------------
(* The packets of the relay are the converted ones.                        *)
LEMMA DtlsPackets == PacketSet(LeavingDtls, "converted")
<1>1. \A p \in Fds \X (1 .. MaxPkts) \X {"converted"} : p \in Payloads /\ p[2] > 0
  BY UringAssumption DEF Payloads
<1> QED
  BY <1>1, Distinct DEF LeavingDtls, PacketSet

LEMMA AllConverted ==
  ASSUME NEW f, NEW S
  PROVE  {Converted(p) : p \in {f} \X S \X {"raw"}} = {f} \X S \X {"converted"}
<1>1. ASSUME NEW p \in {f} \X S \X {"raw"} PROVE Converted(p) \in {f} \X S \X {"converted"}
  BY DEF Converted
<1>2. ASSUME NEW q \in {f} \X S \X {"converted"}
      PROVE  \E p \in {f} \X S \X {"raw"} : q = Converted(p)
  <2>1. PICK n \in S : q = <<f, n, "converted">>
    OBVIOUS
  <2>2. <<f, n, "raw">> \in {f} \X S \X {"raw"} /\ Converted(<<f, n, "raw">>) = q
    BY <2>1 DEF Converted
  <2> QED
    BY <2>2
<1> QED
  BY <1>1, <1>2

LEMMA DtlsTaken ==
  ASSUME NEW arr \in [Fds -> 0 .. MaxPkts]
  PROVE  ({tun_fd} \X {Converted(p) : p \in {udp_fd} \X (1 .. arr[udp_fd]) \X {"raw"}})
           \cup ({udp_fd} \X {Converted(p) : p \in {tun_fd} \X (1 .. arr[tun_fd]) \X {"raw"}})
         = TakenIn(arr, "converted")
<1> DEFINE U == {Converted(p) : p \in {udp_fd} \X (1 .. arr[udp_fd]) \X {"raw"}}
           V == {Converted(p) : p \in {tun_fd} \X (1 .. arr[tun_fd]) \X {"raw"}}
<1>1. Fds = {udp_fd, tun_fd} /\ udp_fd # tun_fd
  BY EdgeAssumption
<1>2. U = {udp_fd} \X (1 .. arr[udp_fd]) \X {"converted"}
  BY AllConverted
<1>3. V = {tun_fd} \X (1 .. arr[tun_fd]) \X {"converted"}
  BY AllConverted
<1>4. ASSUME NEW q PROVE q \in ({tun_fd} \X U) \cup ({udp_fd} \X V) <=> q \in TakenIn(arr, "converted")
  <2>1. q \in {tun_fd} \X U <=>
          \E n \in 1 .. arr[udp_fd] : q = <<tun_fd, <<udp_fd, n, "converted">>>>
    BY <1>2
  <2>2. q \in {udp_fd} \X V <=>
          \E n \in 1 .. arr[tun_fd] : q = <<udp_fd, <<tun_fd, n, "converted">>>>
    BY <1>3
  <2>3. q \in TakenIn(arr, "converted") <=>
          \E g \in Fds : \E n \in 1 .. arr[g] : q = <<Across(g), <<g, n, "converted">>>>
    BY TakenFacts
  <2> QED
    BY <1>1, <2>1, <2>2, <2>3 DEF Across
<1> QED
  BY <1>4

(* The relay of module EdgeDtls, in these terms.                           *)
LEMMA DtlsTunnelSteps ==
  ASSUME HandlerInv
  PROVE  /\ TakenIn(arrived, "converted") = {}
            /\ Delivery(out, LeavingDtls) = [q \in LeavingDtls |-> 0]
              => DtlsTunnel!Init
         /\ HandlerInv' /\ RelayStep(LeavingDtls, "converted")
              => [DtlsTunnel!Next]_(DtlsTunnel!vars)
<1> DEFINE T == ({tun_fd} \X {Converted(p) : p \in Came(udp_fd)})
                  \cup ({udp_fd} \X {Converted(p) : p \in Came(tun_fd)})
<1>1. T = TakenIn(arrived, "converted")
  BY DtlsTaken DEF Came, HandlerInv, HandlerTypeOK, UringTypeOK
<1>2. HandlerInv' => T' = TakenIn(arrived', "converted")
  BY DtlsTaken DEF Came, HandlerInv, HandlerTypeOK, UringTypeOK
<1>3. /\ [q \in LeavingDtls |-> out[q[1]][q[2]]] = Delivery(out, LeavingDtls)
      /\ [q \in LeavingDtls |-> out[q[1]][q[2]]]' = Delivery(out', LeavingDtls)
  BY DEF Delivery
<1>4. TakenIn(arrived, "converted") = {}
        /\ Delivery(out, LeavingDtls) = [q \in LeavingDtls |-> 0]
        => DtlsTunnel!Init
  BY <1>1, <1>3 DEF DtlsTunnel!Init
<1>5. HandlerInv' /\ RelayStep(LeavingDtls, "converted")
        => [DtlsTunnel!Next]_(DtlsTunnel!vars)
  BY <1>1, <1>2, <1>3 DEF RelayStep, DtlsTunnel!Next, DtlsTunnel!Take, DtlsTunnel!Deliver,
     DtlsTunnel!vars
<1> QED
  BY <1>4, <1>5

LEMMA NextDtlsRelay ==
  ASSUME DtlsInv, [DtlsNext]_dtlsVars PROVE [DtlsTunnel!Next]_(DtlsTunnel!vars)
<1>1. /\ HandlerInv /\ HandlerInv' /\ Custody("converted") /\ udp_fd \in Fds
      /\ addr_len \in {0, 1}
  BY NextDtlsHandler, EdgeAssumption DEF DtlsInv, DtlsTypeOK
<1>2. CASE Kern
  BY <1>1, <1>2, KernelRelays, DtlsPackets, DtlsTunnelSteps DEF Kern
<1>3. ASSUME UNCHANGED <<arrived, out>> PROVE [DtlsTunnel!Next]_(DtlsTunnel!vars)
  <2>1. RelayStep(LeavingDtls, "converted")
    BY <1>3 DEF RelayStep
  <2> QED
    BY <1>1, <2>1, DtlsTunnelSteps
<1>4. CASE EncryptTun \/ DecryptUdp
  <2>1. UNCHANGED <<arrived, out>>
    BY <1>1, <1>4, CopySteps, CopiedStep, CopyFailedStep
  <2> QED
    BY <1>3, <2>1
<1>5. CASE Shake
  <2>1. UNCHANGED <<arrived, out>>
    BY <1>1, <1>5, ShakeStep DEF Shake
  <2> QED
    BY <1>3, <2>1
<1>6. CASE DtlsPlain
  <2>1. UNCHANGED dataVars
    BY <1>1, <1>6, PlainSteps DEF DtlsPlain
  <2> QED
    BY <1>3, <2>1 DEF dataVars
<1>7. CASE DtlsInitialRecv \/ ShakeFailed \/ ShakeRecv \/ InitialRead \/ Wait \/ Release
  <2>1. UNCHANGED dataVars
    BY <1>7 DEF DtlsInitialRecv, iouring_initial_udp_recvs, ShakeFailed, HandshakeFailed,
       ShakeRecv, HandshakeRecv, InitialRead, Wait, wait_for_recv, WaitFailed, WaitSent,
       WaitRecv, WaitRecvFailed, WaitRecvNoBuf, WaitRead, WaitReadNoOp, WaitReadFailed, Release
  <2> QED
    BY <1>3, <2>1 DEF dataVars
<1> QED
  BY <1>2, <1>4, <1>5, <1>6, <1>7
     DEF DtlsNext, DtlsProgram, DtlsStartup, DtlsWait, DtlsLoop, DtlsPlain, Ended, dtlsVars

(* The edge program with DTLS implements a relay: what leaves on one side, *)
(* converted, is a packet that came in on the other, and none leaves twice;*)
(* flights of the handshake are the only other thing that leaves.          *)
THEOREM DtlsImplementsRelay == DtlsSpec => DtlsRelay
<1>1. DtlsInit => DtlsTunnel!Init
  <2> SUFFICES ASSUME DtlsInit PROVE DtlsTunnel!Init
    OBVIOUS
  <2>1. iouring_init /\ HandlerInv
    BY InitDtlsInv DEF DtlsInit, Init, DtlsInv
  <2> QED
    BY <2>1, RelayStarts, DtlsPackets, DtlsTunnelSteps
<1>2. DtlsInv /\ [DtlsNext]_dtlsVars => [DtlsTunnel!Next]_(DtlsTunnel!vars)
  BY NextDtlsRelay
<1> QED
  BY DtlsInvariance, <1>1, <1>2, PTL DEF DtlsSpec, DtlsRelay, DtlsTunnel!Spec
=============================================================================
