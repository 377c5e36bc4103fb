--------------------------- MODULE PacketHandler ---------------------------
(***************************************************************************)
(* The functions every program of the tunnel runs its loop with            *)
(* (src/packet_handler.c): wait_for_recv, which handles completions until  *)
(* a packet has come in, and tun_to_udp and udp_to_tun, which pass the     *)
(* buffer of a packet on to a send.                                        *)
(*                                                                         *)
(* pc = "wait" is the loop of wait_for_recv, pc = "handle" its return.     *)
(***************************************************************************)
EXTENDS IoUring

VARIABLES
  pc,    \* where the program is
  hand,  \* local variable op of the main loop: what wait_for_recv returned
  ret    \* local variable ret of the main loop: 0 or -1

loopVars == <<pc, hand, ret>>

-----------------------------------------------------------------------------
(***************************************************************************)
(* wait_for_recv                                                           *)
(***************************************************************************)

(* The entry iouring_wait_cqe returns and iouring_cqe_seen then consumes.  *)
(* A wait that times out changes nothing.                                  *)
cqe == Head(cq)

Completion ==
  /\ pc = "wait"
  /\ cq # <<>>
  /\ cq' = Tail(cq)

DataLen == IF cqe.res = "ok" THEN 1 ELSE 0

Return(o) ==
  /\ pc' = "handle"
  /\ hand' = o
  /\ UNCHANGED ret

(* The wait is cut short by a signal.                                      *)
WaitInterrupted ==
  /\ pc = "wait"
  /\ cq = <<>>
  /\ Return(NULL)
  /\ UNCHANGED uringVars

(* The request failed: its operation is left as it is.                     *)
WaitFailed ==
  /\ Completion
  /\ cqe.res = "err"
  /\ Return(NULL)
  /\ UNCHANGED <<poolVars, inflight, dataVars>>

(* Mutation: a finished send is not freed.                                 *)
WaitSent_Leak ==
  /\ Completion
  /\ cqe.res # "err" /\ IsSend(cqe.op)
  /\ UNCHANGED <<poolVars, inflight, dataVars, loopVars>>

(* A send or a write is finished: free it and wait on.                     *)
WaitSent ==
  /\ Completion
  /\ cqe.res # "err" /\ IsSend(cqe.op)
  /\ io_op_free(cqe.op)
  /\ UNCHANGED <<inflight, dataVars, loopVars>>

(* Mutation: IORING_CQE_F_MORE is not looked at.                           *)
WaitRecv_NotArmed ==
  /\ Completion
  /\ cqe.res = "ok" /\ IsRecv(cqe.op) /\ op[cqe.op].is_multi
  /\ cqe.buf # NO_BUF
  /\ op' = [op EXCEPT ![cqe.op] = Received(@, cqe.buf, DataLen)]
  /\ Return(cqe.op)
  /\ UNCHANGED <<io_op_pool, buf_addr_pool, br, inflight, dataVars>>

(* iouring_multishot_recvmsg_out accepts the datagram, and arms the        *)
(* request again if this was its last completion.                          *)
WaitRecv ==
  /\ Completion
  /\ cqe.res = "ok" /\ IsRecv(cqe.op) /\ op[cqe.op].is_multi
  /\ cqe.buf # NO_BUF
  /\ op' = [op EXCEPT ![cqe.op] = Received(@, cqe.buf, DataLen)]
  /\ inflight' = IF cqe.more THEN inflight ELSE inflight \cup {cqe.op}
  /\ Return(cqe.op)
  /\ UNCHANGED <<io_op_pool, buf_addr_pool, br, dataVars>>

(* The datagram has no payload, or arming the request again failed: the    *)
(* operation now holds the buffer, and io_op_free recycles it.             *)
WaitRecvFailed ==
  /\ Completion
  /\ IsRecv(cqe.op) /\ op[cqe.op].is_multi /\ cqe.buf # NO_BUF
  /\ \/ cqe.res = "empty"
     \/ cqe.res = "ok" /\ ~cqe.more /\ FALSE \in SubmitResults
  /\ br' = br \cup {cqe.buf}
  /\ op' = [op EXCEPT ![cqe.op] = Recycled(Received(@, cqe.buf, DataLen))]
  /\ Return(NULL)
  /\ UNCHANGED <<io_op_pool, buf_addr_pool, inflight, dataVars>>

(* There is no buffer in the completion: io_op_free sees the operation as  *)
(* the previous packet left it.                                            *)
WaitRecvNoBuf ==
  /\ Completion
  /\ cqe.res # "err" /\ IsRecv(cqe.op) /\ op[cqe.op].is_multi
  /\ cqe.buf = NO_BUF
  /\ io_op_free(cqe.op)
  /\ Return(NULL)
  /\ UNCHANGED <<inflight, dataVars>>

(* Mutation: no new read is started.                                       *)
WaitRead_NoResubmit ==
  /\ Completion
  /\ cqe.res # "err" /\ IsRecv(cqe.op) /\ ~op[cqe.op].is_multi
  /\ op' = [op EXCEPT ![cqe.op] = [@ EXCEPT !.data_len = DataLen]]
  /\ Return(cqe.op)
  /\ UNCHANGED <<io_op_pool, buf_addr_pool, br, inflight, dataVars>>

(* A read is finished: iouring_resubmit_recv starts a new one with a new   *)
(* operation n and buffer b, so that the finished one can be forwarded.    *)
WaitRead ==
  /\ Completion
  /\ cqe.res # "err" /\ IsRecv(cqe.op) /\ ~op[cqe.op].is_multi
  /\ \E n \in Pick(io_op_pool), b \in Pick(buf_addr_pool) :
       /\ io_op_pool' = io_op_pool \ {n}
       /\ buf_addr_pool' = buf_addr_pool \ {b}
       /\ op' = [op EXCEPT
            ![n] = SingleOp(op[cqe.op].op_type, op[cqe.op].fd, b),
            ![cqe.op] = [@ EXCEPT !.data_len = DataLen]]
       /\ inflight' = inflight \cup {n}
  /\ Return(cqe.op)
  /\ UNCHANGED <<br, dataVars>>

(* No operation or no buffer is left for the new read.                     *)
WaitReadNoOp ==
  /\ Completion
  /\ cqe.res # "err" /\ IsRecv(cqe.op) /\ ~op[cqe.op].is_multi
  /\ io_op_pool = {} \/ buf_addr_pool = {}
  /\ io_op_free(cqe.op)
  /\ Return(NULL)
  /\ UNCHANGED <<inflight, dataVars>>

(* The new read cannot be submitted: its operation n keeps buffer b and is *)
(* lost, the finished one is freed.                                        *)
WaitReadFailed ==
  /\ Completion
  /\ cqe.res # "err" /\ IsRecv(cqe.op) /\ ~op[cqe.op].is_multi
  /\ FALSE \in SubmitResults
  /\ \E n \in Pick(io_op_pool), b \in Pick(buf_addr_pool) :
       /\ io_op_pool' = (io_op_pool \ {n}) \cup {cqe.op}
       /\ buf_addr_pool' = (buf_addr_pool \ {b})
                            \cup ({op[cqe.op].buf_addr} \ {NULL})
       /\ op' = [op EXCEPT
            ![n] = SingleOp(op[cqe.op].op_type, op[cqe.op].fd, b),
            ![cqe.op] = Zeroed]
  /\ Return(NULL)
  /\ UNCHANGED <<br, inflight, dataVars>>

wait_for_recv ==
  \/ WaitFailed \/ WaitSent
  \/ WaitRecv \/ WaitRecvFailed \/ WaitRecvNoBuf
  \/ WaitRead \/ WaitReadNoOp \/ WaitReadFailed

-----------------------------------------------------------------------------
(***************************************************************************)
(* tun_to_udp and udp_to_tun: send the packet in hand on fd, with its      *)
(* buffer moved to the operation that sends it.                            *)
(***************************************************************************)

SendOp(type, fd, addr_len) ==
  [OpWithBufOf(type, fd, op[hand]) EXCEPT !.addr_len = addr_len]

(* Mutation: the SQE is filled in and never submitted.                     *)
Forwarded_NotSubmitted(type, fd, addr_len) ==
  /\ op[hand].data_len > 0
  /\ \E s \in Pick(io_op_pool) :
       /\ io_op_pool' = io_op_pool \ {s}
       /\ op' = [op EXCEPT ![s] = SendOp(type, fd, addr_len),
                           ![hand] = Disowned(op[hand])]
  /\ ret' = 0
  /\ UNCHANGED <<buf_addr_pool, br, inflight>>

Forwarded(type, fd, addr_len) ==
  /\ op[hand].data_len > 0
  /\ \E s \in Pick(io_op_pool) :
       /\ io_op_pool' = io_op_pool \ {s}
       /\ op' = [op EXCEPT ![s] = SendOp(type, fd, addr_len),
                           ![hand] = Disowned(op[hand])]
       /\ inflight' = inflight \cup {s}
  /\ ret' = 0
  /\ UNCHANGED <<buf_addr_pool, br>>

(* No operation is left: the packet keeps its buffer.                      *)
ForwardNoOp ==
  /\ io_op_pool = {}
  /\ ret' = -1
  /\ UNCHANGED <<poolVars, inflight>>

(* The submission fails: io_op_free of the send gives the buffer back.     *)
ForwardFailed(type, fd, addr_len) ==
  /\ io_op_pool # {}
  /\ op[hand].data_len = 0 \/ FALSE \in SubmitResults
  /\ ReturnBuf(SendOp(type, fd, addr_len))
  /\ op' = [op EXCEPT ![hand] = Disowned(op[hand])]
  /\ ret' = -1
  /\ UNCHANGED <<io_op_pool, inflight>>

Forward(type, fd, addr_len) ==
  /\ \/ Forwarded(type, fd, addr_len)
     \/ ForwardNoOp
     \/ ForwardFailed(type, fd, addr_len)
  /\ pc' = "release"
  /\ UNCHANGED <<hand, cq, dataVars>>

tun_to_udp(udp_fd, addr_len) == Forward("UDP_SEND", udp_fd, addr_len)

udp_to_tun(tun_fd) == Forward("TUN_WRITE", tun_fd, 0)

-----------------------------------------------------------------------------
(***************************************************************************)
(* What every program must keep to.                                        *)
(***************************************************************************)

CqIndex == 1 .. Len(cq)
Queued == {cq[i].op : i \in CqIndex}

(* No operation is used by two parties at once: what the kernel works on,  *)
(* what it has reported and what the loop is handling is never on the free *)
(* list; a single-shot operation is in only one of these places; and the   *)
(* completion without F_MORE is the last one of its request.               *)
OpExclusive ==
  /\ \A o \in io_op_pool : o \notin inflight /\ o # hand
  /\ \A i \in CqIndex : cq[i].op \notin io_op_pool
  /\ \A o \in Ops : o = hand /\ ~op[o].is_multi => o \notin inflight
  /\ \A i \in CqIndex :
       /\ ~op[cq[i].op].is_multi => cq[i].op # hand /\ ~cq[i].more
       /\ ~cq[i].more => cq[i].op \notin inflight
       /\ ~cq[i].more => \A j \in CqIndex : cq[j].op = cq[i].op => j <= i

(* No buffer has two users: a buf_addr_t is on the free list or belongs to *)
(* one operation; a ring buffer is lent to the kernel, or is reported in   *)
(* one completion, or belongs to one operation (io_op_alloc_buf moves it); *)
(* and no operation has two buffers, as io_op_free asserts.                *)
BufExclusive ==
  /\ \A o \in Ops :
       /\ op[o].buf_addr \notin buf_addr_pool
       /\ op[o].buf_idx \notin br
       /\ op[o].buf_addr # NULL => op[o].buf_idx = NO_BUF
  /\ \A o, p \in Ops : o # p =>
       /\ op[o].buf_addr = op[p].buf_addr => op[o].buf_addr = NULL
       /\ op[o].buf_idx = op[p].buf_idx => op[o].buf_idx \notin RingBufs
  /\ \A i \in CqIndex :
       /\ cq[i].buf \notin br
       /\ \A o \in Ops : cq[i].buf = op[o].buf_idx => cq[i].buf = NO_BUF
       /\ \A j \in CqIndex : cq[i].buf = cq[j].buf => i = j \/ cq[i].buf = NO_BUF

HandlerTypeOK ==
  /\ UringTypeOK
  /\ hand \in Ops \cup {NULL}
  /\ ret \in {0, -1}

(* What makes the above inductive: a pooled operation is cleared, one in   *)
(* use has a descriptor, a multishot operation has no buf_addr_t, a        *)
(* completion without a buffer is the last of its request, the multishot   *)
(* operation in hand has a buffer or has passed it on, and between two     *)
(* packets only a multishot operation is in hand.                          *)
Bookkeeping ==
  /\ \A o \in io_op_pool : op[o] = Zeroed
  /\ \A o \in Ops : op[o].op_type # "NONE" => op[o].fd # NULL
  /\ \A o \in Ops : op[o].is_multi =>
       op[o].op_type = "UDP_RECV" /\ op[o].buf_addr = NULL
  /\ \A i \in CqIndex : cq[i].buf = NO_BUF => ~cq[i].more
  /\ \A i \in CqIndex : cq[i].buf # NO_BUF => op[cq[i].op].is_multi
  /\ pc \in {"handle", "release"} /\ hand # NULL /\ op[hand].is_multi
       => op[hand].buf_idx # NO_BUF
  /\ pc = "release" => hand # NULL
  /\ pc \notin {"handle", "release"} /\ hand # NULL => op[hand].is_multi

HandlerInv == HandlerTypeOK /\ OpExclusive /\ BufExclusive /\ Bookkeeping
-----------------------------------------------------------------------------
(***************************************************************************)
(* Nothing is lost.                                                        *)
(***************************************************************************)

(* A multishot operation is armed or its last completion is queued; any    *)
(* other operation is free, with the kernel, reported or in hand; and a    *)
(* buf_addr_t is free or belongs to an operation.                          *)
Kept ==
  /\ \A o \in Ops : op[o].is_multi =>
       o \in inflight \/ \E i \in CqIndex : cq[i].op = o /\ ~cq[i].more
  /\ \A o \in Ops : ~op[o].is_multi =>
       o \in io_op_pool \cup inflight \cup Queued \cup {hand}
  /\ BufAddrs \subseteq buf_addr_pool \cup {op[o].buf_addr : o \in Ops}

(* Ring buffer b is lent to the kernel or reported, or the operation that  *)
(* has it will give it back.  A multishot operation does so only while it  *)
(* is being handled: the next datagram overwrites its buf_idx.             *)
InUse(b) ==
  \/ b \in br
  \/ \E i \in CqIndex : cq[i].buf = b
  \/ \E o \in Ops :
       /\ op[o].buf_idx = b
       /\ ~op[o].is_multi \/ (o = hand /\ pc \in {"handle", "release"})

Stranded == {b \in RingBufs : ~InUse(b)}

-----------------------------------------------------------------------------
(***************************************************************************)
(* Where packets are.                                                      *)
(***************************************************************************)

(* The sends that are in the kernel, the single-shot reads that have       *)
(* brought a packet, and the operation whose packet is being handled.      *)
Sends == {o \in inflight : IsSend(o)}
ReadsDone ==
  {o \in Ops : /\ IsRecv(o) /\ ~op[o].is_multi
               /\ \E i \in CqIndex : cq[i].op = o /\ cq[i].res # "err"}
InHand == {o \in Ops : o = hand /\ pc = "handle"}

(* The buffers that hold a packet which is under way.                      *)
UnderWay ==
  {op[o].buffer : o \in Sends \cup ReadsDone \cup InHand}
    \cup ({cq[i].buf : i \in CqIndex} \ {NO_BUF})

(* The operations that must not lose their buffer.                         *)
Owners ==
  {o \in Ops : op[o].op_type # "NONE" /\ ~op[o].is_multi
                 /\ ~(o = hand /\ pc = "release")} \cup InHand

(* What an operation reads from or writes to is the buffer it owns, which  *)
(* is a buf_addr_t if it is a single-shot read.                            *)
Owning ==
  \A o \in Owners :
    IF op[o].buf_addr # NULL
    THEN op[o].buffer = op[o].buf_addr
    ELSE /\ op[o].buffer = op[o].buf_idx /\ op[o].buf_idx \in RingBufs
         /\ op[o].is_multi \/ IsSend(o)

CameFrom(fd, p) == p \in Payloads /\ p[1] = fd /\ p[2] > 0 /\ p[3] = "raw"

(* What was received is in its buffer as it came.                          *)
Receiving ==
  /\ \A i \in CqIndex : cq[i].buf # NO_BUF =>
       CameFrom(op[cq[i].op].fd, mem[cq[i].buf])
  /\ \A o \in ReadsDone \cup InHand : CameFrom(op[o].fd, mem[op[o].buffer])

(* What is being sent or was sent on fd is a packet from the other         *)
(* descriptor, raw or converted, or something of DTLS's own.               *)
GoesTo(fd, p, form) == p \in Payloads /\ p[3] = form /\ (p[2] > 0 => p[1] # fd)

Sending(form) ==
  /\ \A o \in Sends : GoesTo(op[o].fd, mem[op[o].buffer], form)
  /\ \A f \in Fds, p \in Payloads \cup {NULL} : out[f][p] > 0 => GoesTo(f, p, form)

Arrived(p) == p[2] <= arrived[p[1]]
SamePacket(p, q) == p[1] = q[1] /\ p[2] = q[2] /\ p[2] > 0

(* A packet is in one place: in one buffer, or it has left, once.          *)
Once ==
  /\ \A b \in UnderWay : Arrived(mem[b])
  /\ \A b, c \in UnderWay : SamePacket(mem[b], mem[c]) => b = c
  /\ \A f \in Fds, p \in Payloads : out[f][p] > 0 /\ p[2] > 0 =>
       /\ out[f][p] = 1 /\ Arrived(p)
       /\ \A b \in UnderWay : ~SamePacket(mem[b], p)

Custody(form) == Owning /\ Receiving /\ Sending(form) /\ Once

(* The packets that came in and are neither under way nor have left.       *)
Finished ==
  {u \in Fds \X (1 .. MaxPkts) :
     /\ Arrived(u)
     /\ \A b \in UnderWay : ~SamePacket(mem[b], u)
     /\ \A f \in Fds, p \in Payloads : out[f][p] > 0 => ~SamePacket(p, u)}
=============================================================================
