------------------------------ MODULE EdgeZero ------------------------------
(***************************************************************************)
(* The edge program without DTLS: main of src/edge_zero.c from             *)
(* iouring_init on, with tun_udp_run_zero of src/tun_udp_run.c, the two    *)
(* signal handlers, and the kernel of module IoUring beside it.            *)
(*                                                                         *)
(*   pc           the program is about to                                  *)
(*   init_recv    call iouring_initial_udp_recvs                           *)
(*   new_tun      call new_tun_device                                      *)
(*   init_reads   go round the loop of iouring_initial_tun_reads           *)
(*   check        test *running                                            *)
(*   wait         go round the loop of wait_for_recv                       *)
(*   handle       handle what wait_for_recv returned                       *)
(*   release      call io_op_free on the packet in hand                    *)
(*   leave        call free(op) after the loop                             *)
(*   cleanup      call iouring_free_buffers                                *)
(*   queue_exit   call io_uring_queue_exit                                 *)
(*   done         the process has ended                                    *)
(***************************************************************************)
EXTENDS PacketHandler

CONSTANTS
  udp_fd, tun_fd,
  ReadCounts,          \* values of n_initial_read_ops: reads to start on the device
  IsClient             \* role: a client knows its peer, a server does not

ASSUME EdgeAssumption ==
  /\ Fds = {udp_fd, tun_fd}
  /\ udp_fd # tun_fd
  /\ ReadCounts \subseteq Nat
  /\ IsClient \in BOOLEAN
  /\ Ops \cap BufAddrs = {}
  /\ "br_bufs" \notin Ops \cup BufAddrs \cup {NULL}

VARIABLES
  running,     \* the flag the signal handler clears
  addr_len,    \* conn->addr_len: 0 while the peer's address is unknown
  reads_left,  \* loop counter of iouring_initial_tun_reads, counting down
  heap         \* memory that was allocated and not freed yet

vars == <<uringVars, loopVars, running, addr_len, reads_left, heap>>

BR_BUFS == "br_bufs"   \* the one block that holds all ring buffers

Startup == {"init_recv", "new_tun", "init_reads"}
InLoop == {"check", "wait", "handle", "release"}
Exit == {"leave", "cleanup", "queue_exit", "done"}

Init ==
  /\ iouring_init
  /\ pc = "init_recv"
  /\ hand = NULL
  /\ ret = 0
  /\ running = TRUE
  /\ addr_len = IF IsClient THEN 1 ELSE 0
  /\ reads_left \in ReadCounts
  /\ heap = Ops \cup BufAddrs \cup {BR_BUFS}

-----------------------------------------------------------------------------
(***************************************************************************)
(* main, up to the loop.                                                   *)
(***************************************************************************)

InitialRecv ==
  /\ pc = "init_recv"
  /\ iouring_initial_udp_recvs(udp_fd)
  /\ pc' = "new_tun"
  /\ UNCHANGED <<hand, ret, running, addr_len, reads_left, heap>>

NewTun ==
  /\ pc = "new_tun"
  /\ pc' = "init_reads"
  /\ UNCHANGED <<uringVars, hand, ret, running, addr_len, reads_left, heap>>

(* One round of iouring_initial_tun_reads.                                 *)
InitialRead ==
  /\ pc = "init_reads"
  /\ reads_left > 0
  /\ \E o \in Pick(io_op_pool), b \in Pick(buf_addr_pool) :
       /\ io_op_pool' = io_op_pool \ {o}
       /\ buf_addr_pool' = buf_addr_pool \ {b}
       /\ op' = [op EXCEPT ![o] = SingleOp("TUN_READ", tun_fd, b)]
       /\ inflight' = inflight \cup {o}
  /\ reads_left' = reads_left - 1
  /\ UNCHANGED <<br, cq, dataVars, loopVars, running, addr_len, heap>>

(* A round that finds no free operation is skipped without an error.       *)
InitialReadSkipped ==
  /\ pc = "init_reads"
  /\ reads_left > 0
  /\ io_op_pool = {} \/ buf_addr_pool = {}
  /\ reads_left' = reads_left - 1
  /\ UNCHANGED <<uringVars, loopVars, running, addr_len, heap>>

InitialReadsDone ==
  /\ pc = "init_reads"
  /\ reads_left = 0
  /\ pc' = "check"
  /\ UNCHANGED <<uringVars, hand, ret, running, addr_len, reads_left, heap>>

(* A step of the start-up fails and main returns without cleaning up: the  *)
(* process is gone, and what the pools hold no longer matters.             *)
StartupFailed ==
  /\ \/ pc = "init_recv" /\ (io_op_pool = {} \/ FALSE \in SubmitResults)
     \/ pc = "new_tun"
     \/ pc = "init_reads" /\ reads_left > 0 /\ FALSE \in SubmitResults
        /\ io_op_pool # {} /\ buf_addr_pool # {}
  /\ pc' = "done"
  /\ inflight' = {}
  /\ UNCHANGED <<poolVars, cq, dataVars, hand, ret, running, addr_len,
                 reads_left, heap>>

-----------------------------------------------------------------------------
(***************************************************************************)
(* tun_udp_run_zero                                                        *)
(***************************************************************************)

(* Mutation: while (true)                                                  *)
LoopCheck_Forever ==
  /\ pc = "check"
  /\ pc' = "wait"
  /\ UNCHANGED <<uringVars, hand, ret, running, addr_len, reads_left, heap>>

(* while ( *running )                                                      *)
LoopCheck ==
  /\ pc = "check"
  /\ pc' = IF running THEN "wait" ELSE "leave"
  /\ UNCHANGED <<uringVars, hand, ret, running, addr_len, reads_left, heap>>

Wait ==
  /\ wait_for_recv
  /\ UNCHANGED <<running, addr_len, reads_left, heap>>

HandleNull ==
  /\ pc = "handle" /\ hand = NULL
  /\ ret' = -1
  /\ pc' = "leave"
  /\ UNCHANGED <<uringVars, hand, running, addr_len, reads_left, heap>>

(* case OP_TYPE_TUN_READ                                                   *)
HandleTun ==
  /\ pc = "handle" /\ hand # NULL
  /\ op[hand].op_type = "TUN_READ"
  /\ tun_to_udp(udp_fd, addr_len)
  /\ UNCHANGED <<running, addr_len, reads_left, heap>>

(* case OP_TYPE_UDP_RECV: the first datagram tells a server who its peer is*)
HandleUdp ==
  /\ pc = "handle" /\ hand # NULL
  /\ op[hand].op_type = "UDP_RECV"
  /\ addr_len' = IF addr_len = 0 THEN op[hand].addr_len ELSE addr_len
  /\ udp_to_tun(tun_fd)
  /\ UNCHANGED <<running, reads_left, heap>>

(* io_op_free(uring_ctx, &op), then the test of ret                        *)
Release ==
  /\ pc = "release" /\ Settled
  /\ io_op_free(hand)
  /\ hand' = PointerAfterFree(hand)
  /\ pc' = IF ret < 0 THEN "leave" ELSE "check"
  /\ UNCHANGED <<kernelVars, dataVars, ret, running, addr_len, reads_left, heap>>

(* free(op); // for multi op                                               *)
Leave ==
  /\ pc = "leave"
  /\ heap' = heap \ {hand}
  /\ pc' = "cleanup"
  /\ UNCHANGED <<uringVars, hand, ret, running, addr_len, reads_left>>

-----------------------------------------------------------------------------
(***************************************************************************)
(* iouring_cleanup: first all memory is freed, then the ring is closed,    *)
(* which cancels what is still in flight.                                  *)
(***************************************************************************)

(* Mutation: the buffers are freed whether they are on the free list or not*)
iouring_free_buffers_All ==
  /\ pc = "cleanup"
  /\ io_op_pool' = {}
  /\ buf_addr_pool' = {}
  /\ br' = {}
  /\ heap' = heap \ (Ops \cup BufAddrs \cup {BR_BUFS})
  /\ pc' = "queue_exit"
  /\ UNCHANGED <<op, kernelVars, dataVars, hand, ret, running, addr_len,
                 reads_left>>

iouring_free_buffers ==
  /\ pc = "cleanup"
  /\ io_op_pool' = {}
  /\ buf_addr_pool' = {}
  /\ \E ok \in SubmitResults :   \* of io_uring_free_buf_ring
       /\ br' = IF ok THEN {} ELSE br
       /\ heap' = heap \ (io_op_pool \cup buf_addr_pool
                            \cup {b \in {BR_BUFS} : ok})
  /\ pc' = "queue_exit"
  /\ UNCHANGED <<op, kernelVars, dataVars, hand, ret, running, addr_len,
                 reads_left>>

QueueExit ==
  /\ pc = "queue_exit"
  /\ inflight' = {}
  /\ pc' = "done"
  /\ UNCHANGED <<poolVars, cq, dataVars, hand, ret, running, addr_len,
                 reads_left, heap>>

-----------------------------------------------------------------------------
(***************************************************************************)
(* SIGINT and SIGTERM.  A signal that finds the program blocked in         *)
(* io_uring_wait_cqe_timeout also makes that call return.                  *)
(***************************************************************************)

signal_handler ==
  /\ pc # "done"
  /\ running' = FALSE
  /\ WaitInterrupted \/ UNCHANGED <<uringVars, loopVars>>
  /\ UNCHANGED <<addr_len, reads_left, heap>>

Kern == Kernel /\ UNCHANGED <<loopVars, running, addr_len, reads_left, heap>>

(* The process has ended.                                                  *)
Ended == pc = "done" /\ UNCHANGED vars

Program ==
  \/ InitialRecv \/ NewTun \/ InitialRead \/ InitialReadSkipped
  \/ InitialReadsDone \/ StartupFailed
  \/ LoopCheck \/ Wait \/ HandleNull \/ HandleTun \/ HandleUdp \/ Release
  \/ Leave \/ iouring_free_buffers \/ QueueExit

Next == Program \/ signal_handler \/ Kern \/ Ended

Spec == Init /\ [][Next]_vars

(* The thread that runs the program is scheduled, and the kernel finishes  *)
(* sends and writes, with or without success.  Nothing makes packets or    *)
(* signals arrive.                                                         *)
Fairness ==
  /\ WF_vars(Program)
  /\ WF_vars(Kern /\ \E o \in inflight \ inflight' : IsSend(o))

FairSpec == Spec /\ Fairness

-----------------------------------------------------------------------------
(***************************************************************************)
(* Properties                                                              *)
(***************************************************************************)

TypeOK ==
  /\ UringTypeOK
  /\ pc \in Startup \cup InLoop \cup Exit
  /\ hand \in Ops \cup {NULL}
  /\ ret \in {0, -1}
  /\ running \in BOOLEAN
  /\ addr_len \in {0, 1}
  /\ reads_left \in Nat
  /\ heap \subseteq Ops \cup BufAddrs \cup {BR_BUFS}

(* The loop is going and the last wait_for_recv did not fail.              *)
Healthy == pc \in InLoop /\ ~(pc = "handle" /\ hand = NULL)

(* The loop loses nothing: every operation, every buf_addr_t and every     *)
(* ring buffer is free or in use, after any number of packets.             *)
NothingLost ==
  Healthy =>
    /\ Ops = io_op_pool \cup inflight \cup Queued \cup ({hand} \ {NULL})
    /\ BufAddrs \subseteq buf_addr_pool \cup {op[o].buf_addr : o \in Ops}
    /\ RingBufs \subseteq br \cup {op[o].buf_idx : o \in Ops}
                           \cup {cq[i].buf : i \in CqIndex}

(* While the loop is going the multishot receive is armed, or its last     *)
(* completion, which will arm it again, is still to be handled.            *)
AlwaysListening ==
  Healthy =>
    \E o \in Ops :
      /\ op[o].is_multi
      /\ o \in inflight <=>
           ~\E i \in CqIndex : cq[i].op = o /\ ~cq[i].more

(* The TUN reads that are pending or reported.                             *)
ReadOps == {o \in inflight \cup Queued : op[o].op_type = "TUN_READ"}
Reads == Cardinality(ReadOps)

AsAsked ==
  \E n \in ReadCounts :
    Reads = IF n < Cardinality(Ops) THEN n ELSE Cardinality(Ops) - 1

(* As many TUN reads as were asked for are started, or as many as there    *)
(* are operations for, and each that has finished was replaced: as many    *)
(* stay pending or reported, and never more.                               *)
ReadsConserved ==
  /\ [](Healthy => AsAsked)
  /\ [][Healthy /\ Healthy' => Reads' = Reads]_vars

(* There are always more free buffers than free operations: whoever gets   *)
(* an operation gets a buffer for it, and the error branch of              *)
(* io_op_alloc_buf for an empty buffer pool is never taken in the loop.    *)
SpareBuffer ==
  Healthy => Cardinality(io_op_pool) < Cardinality(buf_addr_pool)

(* No memory is freed twice: neither by free(op) after the loop nor by     *)
(* iouring_free_buffers, which frees what is on the free lists.            *)
FreeOnce ==
  /\ pc = "leave" => hand \in heap \cup {NULL}
  /\ pc = "cleanup" => io_op_pool \cup buf_addr_pool \cup {BR_BUFS} \subseteq heap

(* Nothing has been freed before the loop is left, and then only the       *)
(* operation in hand.                                                      *)
HeapKept ==
  /\ pc \in Startup \cup InLoop \cup {"leave"} => heap = Ops \cup BufAddrs \cup {BR_BUFS}
  /\ pc = "cleanup" => heap = (Ops \cup BufAddrs \cup {BR_BUFS}) \ {hand}

(* The program is going, and the last wait_for_recv did not fail.          *)
Going == pc \notin Exit /\ ~(pc = "handle" /\ hand = NULL)

LossInv ==
  Going =>
    /\ Kept
    /\ Stranded = {}
    /\ pc # "init_recv" => \E o \in Ops : op[o].is_multi

(* Reads and writes are made on the device, the rest on the socket.        *)
Descriptors ==
  \A o \in Ops :
    /\ op[o].op_type \in {"TUN_READ", "TUN_WRITE"} => op[o].fd = tun_fd
    /\ op[o].op_type \in {"UDP_RECV", "UDP_SEND"} => op[o].fd = udp_fd

(* During start-up all operations are free but for the receive and the     *)
(* reads, and a read is only skipped when none is free.                    *)
ReadsInv ==
  /\ pc = "init_recv" => io_op_pool = Ops /\ reads_left \in ReadCounts
  /\ pc \in {"new_tun", "init_reads"} =>
       /\ \E m \in Ops \ ReadOps : io_op_pool = Ops \ (ReadOps \cup {m})
       /\ \E n \in ReadCounts :
            \/ Reads + reads_left = n
            \/ io_op_pool = {} /\ Reads + reads_left < n
  /\ Healthy => AsAsked

(* What makes all of these inductive.                                      *)
IndInv ==
  /\ TypeOK
  /\ HandlerInv
  /\ HeapKept
  /\ LossInv
  /\ ReadsInv
  /\ Descriptors
  /\ Custody("raw")

(* The kernel never reads or writes freed memory.                          *)
KernelMemory ==
  \A o \in inflight :
    /\ op[o].buffer \in BufAddrs => op[o].buffer \in heap
    /\ IsSend(o) /\ op[o].buffer \in RingBufs => BR_BUFS \in heap

Came(fd) == {fd} \X (1 .. arrived[fd]) \X {"raw"}

(* A packet and where it leaves.                                           *)
Leaving == Fds \X ((Fds \X (1 .. MaxPkts) \X {"raw"}) \cup {NULL})

(* The tunnel implements a relay of what leaves on the device to what came *)
(* from the socket, and the other way round: nothing that a buffer held    *)
(* before or after the packet is ever sent in its place, or twice.         *)
Tunnel == INSTANCE Relay WITH
  Packets <- Leaving,
  taken <- ({tun_fd} \X Came(udp_fd)) \cup ({udp_fd} \X Came(tun_fd)),
  delivered <- [q \in Leaving |-> out[q[1]][q[2]]]

TunnelRelay == Tunnel!Spec

(* The program leaves its loop only when it is told to stop.               *)
KeepsRunning == pc = "leave" => ~running

(* The loop is about to be left although nobody has tested running:        *)
(* wait_for_recv returns NULL, or the packet in hand was not passed on.    *)
GivesUp ==
  \/ pc = "wait" /\ pc' = "handle" /\ hand' = NULL
  \/ pc = "handle" /\ pc' = "release" /\ ret' < 0

(* The pools do not cover what a full completion queue can cause, or sends *)
(* that stay in the kernel hold more of them than that.                    *)
FewOps == "late" \in Faults \/ Cardinality(Ops) < cq_depth + 2 * Reads + 4
FewBufs == "late" \in Faults \/ br_n_bufs < cq_depth + 3

(* Why the kernel may fail the request of o.                               *)
Refusable(o) ==
  \/ "cqe" \in Faults
  \/ op[o].is_multi /\ FewBufs
  \/ op[o].op_type = "UDP_SEND" /\ op[o].addr_len = 0 /\ ~IsClient

(* The step needs a free operation: for a new read or for a send.          *)
NeedsOp == pc = "handle" \/ ~op[cqe.op].is_multi

(* The loop is given up only for a reason: a signal, a request that the    *)
(* kernel could not but fail, a packet with no payload, a submission that  *)
(* failed, or an operation that is not there because there are too few of  *)
(* them.  So a client whose environment does nothing wrong never gives up  *)
(* with cq_depth + 2 * Reads + 4 operations and cq_depth + 3 ring buffers, *)
(* and a server only when it must send before it knows its peer.           *)
StopsForAReason ==
  [][GivesUp =>
       \/ ~running'
       \/ pc = "wait" /\ cqe.res = "err" /\ Refusable(cqe.op)
       \/ pc = "wait" /\ cqe.res = "empty" /\ "empty" \in Faults
       \/ pc = "handle" /\ op[hand].data_len = 0 /\ "empty" \in Faults
       \/ /\ NeedsOp => io_op_pool # {}
          /\ pc = "wait" => cqe.res = "ok"
          /\ "submit" \in Faults
       \/ NeedsOp /\ io_op_pool = {} /\ FewOps]_vars

(* A failed request, a completion without a packet and a packet without a  *)
(* payload each have such a reason.                                        *)
Explained ==
  /\ IsClient => addr_len = 1
  /\ \A o \in Ops : IsClient /\ op[o].op_type = "UDP_SEND" => op[o].addr_len = 1
  /\ \A i \in CqIndex :
       /\ cq[i].res = "err" => Refusable(cq[i].op)
       /\ cq[i].res = "empty" => "empty" \in Faults
       /\ op[cq[i].op].is_multi /\ cq[i].buf = NO_BUF => cq[i].res # "ok"
  /\ pc = "handle" => op[hand].data_len = 1 \/ "empty" \in Faults

(* There is one receive; the rest are reads, and sends, of which at most   *)
(* one is in the kernel and none is in hand; ring buffers are in the       *)
(* receive, until it has passed them on, and in sends.                     *)
Roles ==
  /\ \A o, p \in Ops : op[o].is_multi /\ op[p].is_multi => o = p
  /\ \A o \in Ops \ io_op_pool :
       op[o].is_multi \/ IsSend(o) \/ op[o].op_type = "TUN_READ"
  /\ \A o \in Ops : op[o].buf_idx \in RingBufs => op[o].is_multi \/ IsSend(o)
  /\ \A o \in Ops : o = hand => IsRecv(o)
  /\ pc # "release" => Sends = {}
  /\ \A o, p \in Sends : o = p
  /\ pc = "release" /\ op[hand].is_multi => op[hand].buf_idx = DO_NOT_FREE

(* The receive reports a datagram and stays armed only if there is room.   *)
Reported == {cq[i].buf : i \in {j \in CqIndex : cq[j].more}}

(* Of the ring buffers in use, the sends that are reported before the last *)
(* completion of the receive give theirs back before it is armed again.    *)
Returning ==
  {op[cq[j].op].buf_idx : j \in {k \in CqIndex :
     /\ IsSend(cq[k].op)
     /\ \E i \in CqIndex : k < i /\ op[cq[i].op].is_multi /\ ~cq[i].more}}

(* The packets before entry i of the queue, each of which will have become *)
(* a send by the time i is reached, and the sends from i on ...            *)
Around(i) ==
  {<<cq[j].op, cq[j].buf>> : j \in {k \in CqIndex :
     IF k < i THEN IsRecv(cq[k].op) ELSE IsSend(cq[k].op)}}

(* ... and the packet that is being made into a send.                      *)
Claim(o) == <<o, IF op[o].is_multi THEN op[o].buf_idx ELSE NO_BUF>>
Claims == {Claim(o) : o \in Sends \cup InHand}
Work(i) == Around(i) \cup Claims

AtMost(S, n) == IsFiniteSet(S) /\ Cardinality(S) <= n

(* What keeps the pools from running empty.                                *)
Bounded ==
  /\ AtMost(Reported, cq_depth)
  /\ AtMost(RingBufs \ (br \cup Returning), cq_depth + 2)
  /\ \A i \in 1 .. Len(cq) + 1 : AtMost(Work(i), cq_depth + Reads + 2)

(* The program is going, and the packet in hand was passed on.             *)
Steady == Going /\ (pc = "release" => ret = 0)

(* What makes StopsForAReason inductive.                                   *)
DemandInv ==
  Steady =>
    /\ Explained
    /\ "late" \notin Faults => Roles /\ Bounded

(* Every packet that was taken in leaves on the other side, unless the     *)
(* program is stopped.                                                     *)
Delivered ==
  \A n \in 1 .. MaxPkts :
    /\ arrived[udp_fd] >= n ~> out[tun_fd][<<udp_fd, n, "raw">>] > 0 \/ pc \in Exit
    /\ arrived[tun_fd] >= n ~> out[udp_fd][<<tun_fd, n, "raw">>] > 0 \/ pc \in Exit

(* After a signal the program ends.                                        *)
SignalStops == ~running ~> pc = "done"

(* After a signal the program ends once another packet has come in.        *)
StopsAtNextPacket ==
  (~running /\ \E i \in CqIndex : IsRecv(cq[i].op)) ~> pc = "done"
=============================================================================
