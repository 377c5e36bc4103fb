------------------------------ MODULE IoUring ------------------------------
(***************************************************************************)
(* The io-uring layer of the tunnel (src/iouring.c): the pool of io_op_t   *)
(* structures, the pool of single-shot buffers, the ring of buffers lent   *)
(* to the kernel for multishot receives, and the kernel's side of the two  *)
(* queues.                                                                 *)
(*                                                                         *)
(* The free lists and the buffer ring are sets, and Pick says which of     *)
(* their elements may be handed out next.  A payload <<fd, n, form>> is    *)
(* the n-th packet that came in on fd, as it came in ("raw") or after DTLS *)
(* has encrypted or decrypted it ("converted"); number 0 is what DTLS      *)
(* itself sends on fd.  Every request is submitted as soon as its SQE is   *)
(* filled in, so the submission queue is empty between two steps; a full   *)
(* queue and a failing io_uring_submit() are one outcome.                  *)
(***************************************************************************)
EXTENDS Integers, Sequences, FiniteSets

CONSTANTS
  Ops,        \* the io_op_t structures, config->n_io_ops of them
  BufAddrs,   \* the buf_addr_t structures, config->n_io_ops of them too
  br_n_bufs,  \* number of buffers in the buffer ring
  cq_depth,   \* number of completion queue entries
  Fds,        \* file descriptors requests are made on
  MaxPkts,    \* bound: packets that may come in on one descriptor
  Faults,     \* what the environment may do wrong, see FaultKinds
  NULL,       \* the null pointer
  Pick(_)     \* which elements of a free list an allocation may return

FaultKinds ==
  { "submit",   \* a submission may fail
    "cqe",      \* a request may complete with an error
    "empty",    \* a packet may carry no payload
    "late",     \* a send or a write may stay in the kernel for a while
    "bad" }     \* DTLS may not accept a datagram

RingBufs == 0 .. (br_n_bufs - 1)
NO_BUF == -1
DO_NOT_FREE == -2
Buffers == BufAddrs \cup RingBufs
Payloads == Fds \X (0 .. MaxPkts) \X {"raw", "converted"}
OpTypes == {"TUN_READ", "TUN_WRITE", "UDP_RECV", "UDP_SEND"}

ASSUME UringAssumption ==
  /\ br_n_bufs \in Nat
  /\ cq_depth \in Nat
  /\ MaxPkts \in Nat
  /\ Faults \subseteq FaultKinds
  /\ NULL \notin Ops \cup Fds \cup Payloads \cup Buffers
  /\ BufAddrs \cap RingBufs = {}

ASSUME SizeAssumption ==
  /\ IsFiniteSet(Ops)
  /\ IsFiniteSet(BufAddrs)
  /\ Cardinality(Ops) = Cardinality(BufAddrs)

ASSUME PickAssumption ==
  \A S \in (SUBSET Ops) \cup (SUBSET BufAddrs) \cup (SUBSET RingBufs) :
    /\ Pick(S) \subseteq S
    /\ S # {} => Pick(S) # {}

VARIABLES
  io_op_pool,     \* free list of operations
  buf_addr_pool,  \* free list of single-shot buffers
  br,             \* ring buffers the kernel may fill
  op,             \* contents of every io_op_t
  inflight,       \* requests the kernel has not finished
  cq,             \* completion queue, the kernel's overflow list included
  mem,            \* what every buffer holds
  arrived,        \* number of packets that came in on each descriptor
  out             \* how often each payload left on each descriptor

poolVars == <<io_op_pool, buf_addr_pool, br, op>>
kernelVars == <<inflight, cq>>
dataVars == <<mem, arrived, out>>
uringVars == <<poolVars, kernelVars, dataVars>>

OpRecord ==
  [op_type : OpTypes \cup {"NONE"}, fd : Fds \cup {NULL}, is_multi : BOOLEAN,
   buffer : Buffers \cup {NULL}, buf_addr : BufAddrs \cup {NULL},
   buf_idx : {DO_NOT_FREE, NO_BUF} \cup RingBufs,
   data_len : {0, 1},      \* zero or positive
   addr_len : {0, 1}]      \* destination of a send: absent or present

Cqe ==
  [op : Ops, res : {"ok", "empty", "err"},
   buf : {NO_BUF} \cup RingBufs, more : BOOLEAN]

UringTypeOK ==
  /\ io_op_pool \subseteq Ops
  /\ buf_addr_pool \subseteq BufAddrs
  /\ br \subseteq RingBufs
  /\ op \in [Ops -> OpRecord]
  /\ inflight \subseteq Ops
  /\ cq \in Seq(Cqe)
  /\ mem \in [Buffers -> Payloads \cup {NULL}]
  /\ arrived \in [Fds -> 0 .. MaxPkts]
  /\ out \in [Fds -> [Payloads \cup {NULL} -> Nat]]

-----------------------------------------------------------------------------
(***************************************************************************)
(* Operations and their buffers.                                           *)
(***************************************************************************)

(* A fresh operation as iouring_get_io_op hands it out.  The contents of a *)
(* pooled operation are never read, so the model clears it when it is put. *)
Zeroed ==
  [op_type |-> "NONE", fd |-> NULL, is_multi |-> FALSE, buffer |-> NULL,
   buf_addr |-> NULL, buf_idx |-> NO_BUF, data_len |-> 0, addr_len |-> 0]

iouring_alloc_io_op_pool ==
  /\ io_op_pool = Ops
  /\ op = [o \in Ops |-> Zeroed]

iouring_alloc_buf_addr_pool == buf_addr_pool = BufAddrs

iouring_alloc_multishot_buffers == br = RingBufs

iouring_init ==
  /\ iouring_alloc_io_op_pool
  /\ iouring_alloc_buf_addr_pool
  /\ iouring_alloc_multishot_buffers
  /\ inflight = {}
  /\ cq = <<>>
  /\ mem = [b \in Buffers |-> NULL]
  /\ arrived = [f \in Fds |-> 0]
  /\ out = [f \in Fds |-> [p \in Payloads \cup {NULL} |-> 0]]

(* io_op_alloc of a multishot operation: the buffers come from the ring.   *)
MultiOp(type, fd) ==
  [Zeroed EXCEPT !.op_type = type, !.fd = fd, !.is_multi = TRUE]

(* io_op_alloc of a single-shot operation with buf_addr b.                 *)
SingleOp(type, fd, b) ==
  [Zeroed EXCEPT !.op_type = type, !.fd = fd, !.buf_addr = b, !.buffer = b]

(* io_op_alloc_buf: the new operation takes over the owner's buffer, a     *)
(* buf_addr_t or a buffer of the ring ...                                  *)
OpWithBufOf(type, fd, owner) ==
  [Zeroed EXCEPT !.op_type = type, !.fd = fd, !.data_len = owner.data_len,
     !.buf_addr = IF owner.is_multi THEN NULL ELSE owner.buf_addr,
     !.buf_idx = IF owner.is_multi THEN owner.buf_idx ELSE NO_BUF,
     !.buffer = IF owner.is_multi THEN owner.buffer ELSE owner.buf_addr]

(* Mutation: the owner keeps its ring buffer.                              *)
Disowned_KeepRingBuf(owner) ==
  IF owner.is_multi THEN owner ELSE [owner EXCEPT !.buf_addr = NULL]

(* ... and the owner lets go of it.                                        *)
Disowned(owner) ==
  IF owner.is_multi THEN [owner EXCEPT !.buf_idx = DO_NOT_FREE]
                    ELSE [owner EXCEPT !.buf_addr = NULL]

(* Mutation: the buf_addr_t is not put back.                               *)
ReturnBuf_Leak(r) ==
  /\ br' = br \cup (IF r.buf_addr = NULL THEN {r.buf_idx} \cap RingBufs ELSE {})
  /\ UNCHANGED buf_addr_pool

(* The buffer that io_op_free gives back for the single-shot operation r.  *)
ReturnBuf(r) ==
  /\ buf_addr_pool' = buf_addr_pool \cup ({r.buf_addr} \ {NULL})
  /\ br' = br \cup (IF r.buf_addr = NULL THEN {r.buf_idx} \cap RingBufs ELSE {})

(* Mutation: op->buf_idx is not reset.                                     *)
Recycled_KeepIndex(r) == r

(* iouring_recycle_buffer: the ring buffer of o goes back to the kernel.   *)
Recycled(r) == [r EXCEPT !.buf_idx = NO_BUF]

iouring_recycle_buffer(o) ==
  /\ br' = br \cup {op[o].buf_idx}
  /\ op' = [op EXCEPT ![o] = Recycled(@)]
  /\ UNCHANGED <<io_op_pool, buf_addr_pool>>

iouring_put_io_op(o) ==
  /\ io_op_pool' = io_op_pool \cup {o}
  /\ op' = [op EXCEPT ![o] = Zeroed]

(* Mutation: without the test for DO_NOT_FREE.                             *)
io_op_free_Unmarked(o) ==
  IF op[o].is_multi
  THEN iouring_recycle_buffer(o)
  ELSE ReturnBuf(op[o]) /\ iouring_put_io_op(o)

(* Mutation: a multishot operation is freed like any other.                *)
io_op_free_Always(o) == ReturnBuf(op[o]) /\ iouring_put_io_op(o)

(* io_op_free: a multishot operation only gives back the buffer it holds,  *)
(* and is itself freed when it holds none and passed none on.              *)
io_op_free(o) ==
  \/ /\ op[o].is_multi
     /\ op[o].buf_idx \in RingBufs
     /\ iouring_recycle_buffer(o)
  \/ /\ op[o].is_multi
     /\ op[o].buf_idx = NO_BUF
     /\ iouring_put_io_op(o)
     /\ UNCHANGED <<buf_addr_pool, br>>
  \/ /\ op[o].is_multi
     /\ op[o].buf_idx = DO_NOT_FREE
     /\ UNCHANGED poolVars
  \/ /\ ~op[o].is_multi
     /\ ReturnBuf(op[o])
     /\ iouring_put_io_op(o)

(* Mutation: *op is not set to NULL.                                       *)
PointerAfterFree_Kept(o) == o

(* What io_op_free leaves in the caller's pointer to o.                    *)
PointerAfterFree(o) ==
  IF op[o].is_multi /\ op[o].buf_idx # NO_BUF THEN o ELSE NULL

(* iouring_multishot_recvmsg_out: the operation now holds ring buffer i.   *)
Received(r, i, len) ==
  [r EXCEPT !.buf_idx = i, !.buffer = i, !.data_len = len, !.addr_len = 1]

(* Whether a request reaches the kernel.                                   *)
SubmitResults == {TRUE} \cup {r \in {FALSE} : "submit" \in Faults}

(* One multishot receive on a UDP socket.                                  *)
iouring_initial_udp_recvs(fd) ==
  /\ \E o \in Pick(io_op_pool) :
       /\ io_op_pool' = io_op_pool \ {o}
       /\ op' = [op EXCEPT ![o] = MultiOp("UDP_RECV", fd)]
       /\ inflight' = inflight \cup {o}
  /\ UNCHANGED <<buf_addr_pool, br, cq, dataVars>>

-----------------------------------------------------------------------------
(***************************************************************************)
(* The kernel.                                                             *)
(***************************************************************************)

IsSend(o) == op[o].op_type \in {"UDP_SEND", "TUN_WRITE"}
IsRecv(o) == op[o].op_type \in {"UDP_RECV", "TUN_READ"}

(* Unless "late", sends and writes complete while they are being submitted.*)
Settled == "late" \in Faults \/ \A o \in inflight : ~IsSend(o)

Complete(o, res, buf, more) ==
  /\ cq' = Append(cq, [op |-> o, res |-> res, buf |-> buf, more |-> more])
  /\ inflight' = IF more THEN inflight ELSE inflight \ {o}

Payload(fd) == <<fd, arrived[fd] + 1, "raw">>

RecvResults == {"ok"} \cup {r \in {"empty"} : "empty" \in Faults}

(* A datagram comes in for a multishot receive and takes a ring buffer. A  *)
(* request whose completion finds the completion queue full is over.       *)
KRecv(o) ==
  /\ o \in inflight /\ op[o].is_multi
  /\ arrived[op[o].fd] < MaxPkts
  /\ \E i \in Pick(br), more \in BOOLEAN, res \in RecvResults :
       /\ more => Len(cq) < cq_depth
       /\ br' = br \ {i}
       /\ mem' = [mem EXCEPT ![i] = Payload(op[o].fd)]
       /\ Complete(o, res, i, more)
  /\ arrived' = [arrived EXCEPT ![op[o].fd] = @ + 1]
  /\ UNCHANGED <<io_op_pool, buf_addr_pool, op, out>>

(* A datagram comes in and the ring is empty: ENOBUFS ends the request.    *)
KNoBufs(o) ==
  /\ o \in inflight /\ op[o].is_multi
  /\ arrived[op[o].fd] < MaxPkts
  /\ br = {}
  /\ Complete(o, "err", NO_BUF, FALSE)
  /\ UNCHANGED <<poolVars, dataVars>>

(* A multishot receive that ends with neither a packet nor an error.       *)
KRecvEnd(o) ==
  /\ "empty" \in Faults
  /\ o \in inflight /\ op[o].is_multi
  /\ Complete(o, "empty", NO_BUF, FALSE)
  /\ UNCHANGED <<poolVars, dataVars>>

(* A packet comes in for a single-shot read, into the buffer of the read.  *)
KRead(o) ==
  /\ o \in inflight /\ IsRecv(o) /\ ~op[o].is_multi
  /\ arrived[op[o].fd] < MaxPkts
  /\ mem' = [mem EXCEPT ![op[o].buffer] = Payload(op[o].fd)]
  /\ arrived' = [arrived EXCEPT ![op[o].fd] = @ + 1]
  /\ \E res \in RecvResults : Complete(o, res, NO_BUF, FALSE)
  /\ UNCHANGED <<poolVars, out>>

(* A send or a write: what its buffer holds at this moment leaves.  A send *)
(* with no destination on an unconnected socket fails.                     *)
KWrite(o) ==
  /\ o \in inflight /\ IsSend(o)
  /\ op[o].op_type = "UDP_SEND" => op[o].addr_len > 0
  /\ out' = [out EXCEPT ![op[o].fd][mem[op[o].buffer]] = @ + 1]
  /\ Complete(o, "ok", NO_BUF, FALSE)
  /\ UNCHANGED <<poolVars, mem, arrived>>

KNoDest(o) ==
  /\ o \in inflight
  /\ op[o].op_type = "UDP_SEND" /\ op[o].addr_len = 0
  /\ Complete(o, "err", NO_BUF, FALSE)
  /\ UNCHANGED <<poolVars, dataVars>>

KError(o) ==
  /\ "cqe" \in Faults
  /\ o \in inflight
  /\ Complete(o, "err", NO_BUF, FALSE)
  /\ UNCHANGED <<poolVars, dataVars>>

Kernel ==
  \E o \in inflight :
    \/ KRecv(o) \/ KNoBufs(o) \/ KRecvEnd(o) \/ KRead(o)
    \/ KWrite(o) \/ KNoDest(o) \/ KError(o)
=============================================================================
