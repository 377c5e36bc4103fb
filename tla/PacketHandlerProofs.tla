----------------------- MODULE PacketHandlerProofs -----------------------
(***************************************************************************)
(* What the kernel, wait_for_recv, tun_to_udp and udp_to_tun, and the      *)
(* other steps that the programs are made of preserve, whatever program    *)
(* they are part of: for every size of the pools, of the buffer ring and   *)
(* of the completion queue, and for every policy of the free lists.        *)
(***************************************************************************)
EXTENDS PacketHandler, TLAPS

-----------------------------------------------------------------------------
(***************************************************************************)
(* The completion queue: what Append and Tail do to its entries.           *)
(***************************************************************************)

(* The kernel's Append keeps all entries and adds one at the end.          *)
LEMMA AppendFacts ==
  ASSUME NEW S, NEW s \in Seq(S), NEW e \in S
  PROVE  /\ Append(s, e) \in Seq(S)
         /\ Len(Append(s, e)) = Len(s) + 1
         /\ \A i \in 1 .. Len(s) : Append(s, e)[i] = s[i]
         /\ Append(s, e)[Len(s) + 1] = e
  OBVIOUS

(* iouring_cqe_seen removes the first entry and moves the others up.       *)
LEMMA TailFacts ==
  ASSUME NEW S, NEW s \in Seq(S), s # <<>>
  PROVE  /\ Head(s) = s[1]
         /\ Head(s) \in S
         /\ 1 \in 1 .. Len(s)
         /\ Tail(s) \in Seq(S)
         /\ Len(Tail(s)) = Len(s) - 1
         /\ \A i \in 1 .. Len(Tail(s)) : i + 1 \in 1 .. Len(s) /\ Tail(s)[i] = s[i + 1]
  OBVIOUS

(* The records that operations are made of.                                *)
LEMMA RecordTypes ==
  /\ Zeroed \in OpRecord
  /\ \A f \in Fds : MultiOp("UDP_RECV", f) \in OpRecord
  /\ \A f \in Fds, t \in OpTypes, b \in BufAddrs : SingleOp(t, f, b) \in OpRecord
  /\ \A f \in Fds, t \in OpTypes, r \in OpRecord, a \in {0, 1} :
       [OpWithBufOf(t, f, r) EXCEPT !.addr_len = a] \in OpRecord
  /\ \A r \in OpRecord :
       /\ Disowned(r) \in OpRecord
       /\ Recycled(r) \in OpRecord
       /\ \A i \in RingBufs, n \in {0, 1} : Received(r, i, n) \in OpRecord
       /\ \A n \in {0, 1} : [r EXCEPT !.data_len = n] \in OpRecord
<1>1. Zeroed \in OpRecord
  BY DEF Zeroed, OpRecord
<1>2. \A f \in Fds : MultiOp("UDP_RECV", f) \in OpRecord
  BY DEF Zeroed, OpRecord, MultiOp, OpTypes
<1>3. \A f \in Fds, t \in OpTypes, b \in BufAddrs : SingleOp(t, f, b) \in OpRecord
  BY DEF Zeroed, OpRecord, SingleOp, Buffers
<1>4. \A f \in Fds, t \in OpTypes, r \in OpRecord, a \in {0, 1} :
        [OpWithBufOf(t, f, r) EXCEPT !.addr_len = a] \in OpRecord
  <2> SUFFICES ASSUME NEW f \in Fds, NEW t \in OpTypes, NEW r \in OpRecord,
                      NEW a \in {0, 1}
               PROVE  [OpWithBufOf(t, f, r) EXCEPT !.addr_len = a] \in OpRecord
    OBVIOUS
  <2>1. /\ r.data_len \in {0, 1}
        /\ r.buf_addr \in BufAddrs \cup {NULL}
        /\ r.buf_idx \in {DO_NOT_FREE, NO_BUF} \cup RingBufs
        /\ r.buffer \in Buffers \cup {NULL}
    BY DEF OpRecord
  <2>2. CASE r.is_multi
    BY <2>1, <2>2, ZenonT(30) DEF OpWithBufOf, Zeroed, OpRecord
  <2>3. CASE ~r.is_multi
    BY <2>1, <2>3, ZenonT(30) DEF OpWithBufOf, Zeroed, OpRecord, Buffers
  <2> QED
    BY <2>2, <2>3
<1>5. ASSUME NEW r \in OpRecord
      PROVE  /\ Disowned(r) \in OpRecord
             /\ Recycled(r) \in OpRecord
             /\ \A i \in RingBufs, n \in {0, 1} : Received(r, i, n) \in OpRecord
             /\ \A n \in {0, 1} : [r EXCEPT !.data_len = n] \in OpRecord
  <2>1. Disowned(r) \in OpRecord
    BY DEF OpRecord, Disowned
  <2>2. Recycled(r) \in OpRecord
    BY DEF OpRecord, Recycled
  <2>3. \A i \in RingBufs, n \in {0, 1} : Received(r, i, n) \in OpRecord
    BY DEF OpRecord, Received, Buffers
  <2>4. \A n \in {0, 1} : [r EXCEPT !.data_len = n] \in OpRecord
    BY DEF OpRecord
  <2> QED
    BY <2>1, <2>2, <2>3, <2>4
<1> QED
  BY <1>1, <1>2, <1>3, <1>4, <1>5

(* What an operation owns after each of the changes made to it.            *)
LEMMA Fields ==
  /\ ~Zeroed.is_multi /\ Zeroed.buf_addr = NULL /\ Zeroed.buf_idx = NO_BUF
  /\ Zeroed.op_type = "NONE" /\ Zeroed.buffer = NULL
  /\ \A t, f : LET r == MultiOp(t, f) IN
       /\ r.op_type = t /\ r.fd = f /\ r.is_multi
       /\ r.buf_addr = NULL /\ r.buf_idx = NO_BUF /\ r.buffer = NULL
  /\ \A t, f, b : LET r == SingleOp(t, f, b) IN
       /\ r.op_type = t /\ r.fd = f /\ ~r.is_multi
       /\ r.buf_addr = b /\ r.buf_idx = NO_BUF /\ r.buffer = b
<1>1. /\ ~Zeroed.is_multi /\ Zeroed.buf_addr = NULL /\ Zeroed.buf_idx = NO_BUF
      /\ Zeroed.op_type = "NONE" /\ Zeroed.buffer = NULL
  BY DEF Zeroed
<1>2. \A t, f : LET r == MultiOp(t, f) IN
       /\ r.op_type = t /\ r.fd = f /\ r.is_multi
       /\ r.buf_addr = NULL /\ r.buf_idx = NO_BUF /\ r.buffer = NULL
  BY DEF Zeroed, MultiOp
<1>3. \A t, f, b : LET r == SingleOp(t, f, b) IN
       /\ r.op_type = t /\ r.fd = f /\ ~r.is_multi
       /\ r.buf_addr = b /\ r.buf_idx = NO_BUF /\ r.buffer = b
  BY DEF Zeroed, SingleOp
<1> QED
  BY <1>1, <1>2, <1>3

(* ... and after its buffer was moved to another operation.                *)
LEMMA MovedFields ==
  ASSUME NEW r \in OpRecord
  PROVE
    /\ \A t, f, a : LET s == [OpWithBufOf(t, f, r) EXCEPT !.addr_len = a] IN
         /\ s.op_type = t /\ s.fd = f /\ ~s.is_multi
         /\ s.buf_addr = IF r.is_multi THEN NULL ELSE r.buf_addr
         /\ s.buf_idx = IF r.is_multi THEN r.buf_idx ELSE NO_BUF
         /\ s.buffer = IF r.is_multi THEN r.buffer ELSE r.buf_addr
    /\ LET s == Disowned(r) IN
         /\ s.op_type = r.op_type /\ s.fd = r.fd /\ s.is_multi = r.is_multi
         /\ s.buf_addr = IF r.is_multi THEN r.buf_addr ELSE NULL
         /\ s.buf_idx = IF r.is_multi THEN DO_NOT_FREE ELSE r.buf_idx
         /\ s.buffer = r.buffer
    /\ LET s == Recycled(r) IN
         /\ s.op_type = r.op_type /\ s.fd = r.fd /\ s.is_multi = r.is_multi
         /\ s.buf_addr = r.buf_addr /\ s.buf_idx = NO_BUF /\ s.buffer = r.buffer
    /\ \A i, n : LET s == Received(r, i, n) IN
         /\ s.op_type = r.op_type /\ s.fd = r.fd /\ s.is_multi = r.is_multi
         /\ s.buf_addr = r.buf_addr /\ s.buf_idx = i /\ s.buffer = i
    /\ \A n : LET s == [r EXCEPT !.data_len = n] IN
         /\ s.op_type = r.op_type /\ s.fd = r.fd /\ s.is_multi = r.is_multi
         /\ s.buf_addr = r.buf_addr /\ s.buf_idx = r.buf_idx /\ s.buffer = r.buffer
<1> USE DEF OpRecord
<1>1. \A t, f, a : LET s == [OpWithBufOf(t, f, r) EXCEPT !.addr_len = a] IN
         /\ s.op_type = t /\ s.fd = f /\ ~s.is_multi
         /\ s.buf_addr = IF r.is_multi THEN NULL ELSE r.buf_addr
         /\ s.buf_idx = IF r.is_multi THEN r.buf_idx ELSE NO_BUF
         /\ s.buffer = IF r.is_multi THEN r.buffer ELSE r.buf_addr
  BY DEF OpWithBufOf, Zeroed
<1>2. LET s == Disowned(r) IN
         /\ s.op_type = r.op_type /\ s.fd = r.fd /\ s.is_multi = r.is_multi
         /\ s.buf_addr = IF r.is_multi THEN r.buf_addr ELSE NULL
         /\ s.buf_idx = IF r.is_multi THEN DO_NOT_FREE ELSE r.buf_idx
         /\ s.buffer = r.buffer
  BY DEF Disowned
<1>3. LET s == Recycled(r) IN
         /\ s.op_type = r.op_type /\ s.fd = r.fd /\ s.is_multi = r.is_multi
         /\ s.buf_addr = r.buf_addr /\ s.buf_idx = NO_BUF /\ s.buffer = r.buffer
  BY DEF Recycled
<1>4. \A i, n : LET s == Received(r, i, n) IN
         /\ s.op_type = r.op_type /\ s.fd = r.fd /\ s.is_multi = r.is_multi
         /\ s.buf_addr = r.buf_addr /\ s.buf_idx = i /\ s.buffer = i
  BY DEF Received
<1>5. \A n : LET s == [r EXCEPT !.data_len = n] IN
         /\ s.op_type = r.op_type /\ s.fd = r.fd /\ s.is_multi = r.is_multi
         /\ s.buf_addr = r.buf_addr /\ s.buf_idx = r.buf_idx /\ s.buffer = r.buffer
  OBVIOUS
<1> QED
  BY <1>1, <1>2, <1>3, <1>4, <1>5

(* An allocation returns an element of the free list.                      *)
LEMMA PickFacts ==
  ASSUME HandlerTypeOK
  PROVE  /\ Pick(io_op_pool) \subseteq io_op_pool
         /\ Pick(buf_addr_pool) \subseteq buf_addr_pool
         /\ Pick(br) \subseteq br
  BY PickAssumption DEF HandlerTypeOK, UringTypeOK

(* The constants that stand for "none" are not what they are told from.    *)
LEMMA Distinct ==
  /\ NULL \notin Ops /\ NULL \notin Fds /\ NULL \notin BufAddrs /\ NULL \notin RingBufs
  /\ NULL \notin Payloads
  /\ NO_BUF \notin RingBufs /\ DO_NOT_FREE \notin RingBufs /\ NO_BUF # DO_NOT_FREE
  /\ BufAddrs \cap RingBufs = {}
  BY UringAssumption DEF Buffers, NO_BUF, DO_NOT_FREE, RingBufs

(* A freshly allocated operation is in no other use, and has no buffer.    *)
LEMMA FreshOp ==
  ASSUME HandlerInv, NEW o \in Pick(io_op_pool)
  PROVE  /\ o \in io_op_pool /\ o \in Ops /\ o # hand /\ o \notin inflight
         /\ op[o] = Zeroed /\ ~op[o].is_multi /\ op[o].op_type = "NONE"
         /\ op[o].buf_addr = NULL /\ op[o].buf_idx = NO_BUF
         /\ \A i \in CqIndex : cq[i].op # o
<1>1. o \in io_op_pool /\ o \in Ops
  BY PickFacts DEF HandlerInv, HandlerTypeOK, UringTypeOK
<1>2. o # hand /\ o \notin inflight /\ \A i \in CqIndex : cq[i].op # o
  BY <1>1 DEF HandlerInv, OpExclusive
<1>3. op[o] = Zeroed
  BY <1>1 DEF HandlerInv, Bookkeeping
<1> QED
  BY <1>1, <1>2, <1>3, Fields

(* A freshly allocated buf_addr_t belongs to no operation.                 *)
LEMMA FreshBuf ==
  ASSUME HandlerInv, NEW b \in Pick(buf_addr_pool)
  PROVE  b \in buf_addr_pool /\ b \in BufAddrs /\ \A o \in Ops : op[o].buf_addr # b
<1>1. b \in buf_addr_pool /\ b \in BufAddrs
  BY PickFacts DEF HandlerInv, HandlerTypeOK, UringTypeOK
<1> QED
  BY <1>1 DEF HandlerInv, BufExclusive

(* Every entry of the completion queue names an operation.                 *)
LEMMA EntryTypes ==
  ASSUME HandlerTypeOK, NEW i \in CqIndex
  PROVE  /\ cq[i].op \in Ops /\ cq[i].buf \in {NO_BUF} \cup RingBufs
         /\ cq[i].buf # DO_NOT_FREE
<1>1. cq[i] \in Cqe
  BY DEF HandlerTypeOK, UringTypeOK, CqIndex
<1>2. cq[i].op \in Ops /\ cq[i].buf \in {NO_BUF} \cup RingBufs
  BY <1>1 DEF Cqe
<1> QED
  BY <1>2, UringAssumption DEF NO_BUF, DO_NOT_FREE, RingBufs

-----------------------------------------------------------------------------
(***************************************************************************)
(* The kernel.                                                             *)
(***************************************************************************)

(* Completing a request moves it from inflight to the queue, and a ring    *)
(* buffer, if it takes one, from br to the completion.                     *)
LEMMA CompleteStep ==
  ASSUME HandlerInv,
         NEW o \in inflight, NEW res \in {"ok", "empty", "err"},
         NEW buf \in {NO_BUF} \cup RingBufs, NEW more \in BOOLEAN,
         Complete(o, res, buf, more),
         more => op[o].is_multi,
         buf = NO_BUF => ~more /\ br' = br,
         buf # NO_BUF => op[o].is_multi /\ buf \in br /\ br' = br \ {buf},
         UNCHANGED <<io_op_pool, buf_addr_pool, op, loopVars>>
  PROVE  /\ cq' \in Seq(Cqe) /\ inflight' \subseteq Ops /\ br' \subseteq RingBufs
         /\ OpExclusive' /\ BufExclusive' /\ Bookkeeping'
<1> DEFINE e == [op |-> o, res |-> res, buf |-> buf, more |-> more]
<1>1. /\ o \in Ops /\ cq \in Seq(Cqe) /\ e \in Cqe
      /\ inflight \subseteq Ops /\ br \subseteq RingBufs
  BY DEF HandlerInv, HandlerTypeOK, UringTypeOK, Cqe
<1>2. /\ e.op = o /\ e.buf = buf /\ e.more = more
      /\ cq' = Append(cq, e)
      /\ inflight' = IF more THEN inflight ELSE inflight \ {o}
  BY DEF Complete
<1> HIDE DEF e
<1>3. /\ cq' \in Seq(Cqe)
      /\ Len(cq) \in Nat
      /\ Len(cq') = Len(cq) + 1
      /\ \A i \in CqIndex : cq'[i] = cq[i]
      /\ cq'[Len(cq) + 1] = e
      /\ CqIndex' = CqIndex \cup {Len(cq) + 1}
      /\ Len(cq) + 1 \notin CqIndex
      /\ \A i \in CqIndex : i \in Nat /\ i <= Len(cq)
  BY <1>1, <1>2, AppendFacts DEF CqIndex
<1>4. inflight' \subseteq Ops /\ br' \subseteq RingBufs
  BY <1>1, <1>2
<1>5. OpExclusive'
  <2> USE DEF HandlerInv, OpExclusive, loopVars
  <2>1. /\ \A p \in io_op_pool' : p \notin inflight' /\ p # hand'
        /\ \A p \in Ops : p = hand' /\ ~op'[p].is_multi => p \notin inflight'
    BY <1>2
  <2>2. ASSUME NEW i \in CqIndex'
        PROVE  /\ cq'[i].op \notin io_op_pool'
               /\ ~op'[cq'[i].op].is_multi => cq'[i].op # hand' /\ ~cq'[i].more
               /\ ~cq'[i].more => cq'[i].op \notin inflight'
    BY <1>1, <1>2, <1>3
  <2>3. ASSUME NEW i \in CqIndex', ~cq'[i].more, NEW j \in CqIndex',
               cq'[j].op = cq'[i].op
        PROVE  j <= i
    <3>1. CASE i \in CqIndex /\ j \in CqIndex
      BY <1>3, <2>3, <3>1
    <3>2. CASE i \in CqIndex /\ j = Len(cq) + 1
      BY <1>2, <1>3, <2>3, <3>2
    <3>3. CASE i = Len(cq) + 1
      BY <1>3, <3>3
    <3> QED
      BY <1>3, <3>1, <3>2, <3>3
  <2> QED
    BY <2>1, <2>2, <2>3
<1>6. BufExclusive'
  <2> USE DEF HandlerInv, BufExclusive, loopVars
  <2>1. /\ \A p \in Ops :
             /\ op'[p].buf_addr \notin buf_addr_pool'
             /\ op'[p].buf_idx \notin br'
             /\ op'[p].buf_addr # NULL => op'[p].buf_idx = NO_BUF
        /\ \A p, q \in Ops : p # q =>
             /\ op'[p].buf_addr = op'[q].buf_addr => op'[p].buf_addr = NULL
             /\ op'[p].buf_idx = op'[q].buf_idx => op'[p].buf_idx \notin RingBufs
    OBVIOUS
  <2>2. ASSUME NEW i \in CqIndex'
        PROVE  /\ cq'[i].buf \notin br'
               /\ \A p \in Ops : cq'[i].buf = op'[p].buf_idx => cq'[i].buf = NO_BUF
    <3>1. NO_BUF \notin br
      BY <1>1, UringAssumption DEF NO_BUF, RingBufs
    <3>2. CASE i \in CqIndex
      BY <1>3, <3>2
    <3>3. CASE i = Len(cq) + 1
      BY <1>2, <1>3, <3>1, <3>3
    <3> QED
      BY <1>3, <3>2, <3>3
  <2>3. ASSUME NEW i \in CqIndex', NEW j \in CqIndex', cq'[i].buf = cq'[j].buf,
               i # j
        PROVE  cq'[i].buf = NO_BUF
    <3>1. CASE i \in CqIndex /\ j \in CqIndex
      BY <1>3, <2>3, <3>1
    <3>2. CASE i \in CqIndex /\ j = Len(cq) + 1
      BY <1>2, <1>3, <2>3, <3>2
    <3>3. CASE i = Len(cq) + 1 /\ j \in CqIndex
      BY <1>2, <1>3, <2>3, <3>3
    <3> QED
      BY <1>3, <2>3, <3>1, <3>2, <3>3
  <2> QED
    BY <2>1, <2>2, <2>3
<1>7. Bookkeeping'
  <2>1. ASSUME NEW i \in CqIndex'
        PROVE  /\ cq'[i].buf = NO_BUF => ~cq'[i].more
               /\ cq'[i].buf # NO_BUF => op'[cq'[i].op].is_multi
    <3>1. CASE i \in CqIndex
      BY <1>3, <3>1 DEF HandlerInv, Bookkeeping
    <3>2. CASE i = Len(cq) + 1
      BY <1>2, <1>3, <3>2
    <3> QED
      BY <1>3, <3>1, <3>2
  <2>2. UNCHANGED <<io_op_pool, op, pc, hand>>
    BY DEF loopVars
  <2> QED
    BY <2>1, <2>2 DEF HandlerInv, Bookkeeping
<1> QED
  BY <1>3, <1>4, <1>5, <1>6, <1>7

(* A step of the kernel preserves the invariant.                           *)
LEMMA KernelStep == ASSUME HandlerInv, Kernel, UNCHANGED loopVars PROVE HandlerInv'
<1>1. PICK o \in inflight :
        \/ KRecv(o) \/ KNoBufs(o) \/ KRecvEnd(o) \/ KRead(o)
        \/ KWrite(o) \/ KNoDest(o) \/ KError(o)
  BY DEF Kernel
<1>2. UNCHANGED loopVars
  OBVIOUS
<1>3. /\ o \in Ops /\ op[o] \in OpRecord
      /\ op[o].op_type # "NONE" => op[o].fd \in Fds
      /\ op[o].is_multi => op[o].op_type = "UDP_RECV"
  BY DEF HandlerInv, HandlerTypeOK, UringTypeOK, Bookkeeping, OpRecord
<1>4. HandlerTypeOK
  BY DEF HandlerInv
<1>5. NO_BUF \notin RingBufs
  BY UringAssumption DEF NO_BUF, RingBufs
<1>6. CASE KRecv(o)
  <2>1. PICK i \in Pick(br), more \in BOOLEAN, res \in RecvResults :
          /\ br' = br \ {i}
          /\ mem' = [mem EXCEPT ![i] = Payload(op[o].fd)]
          /\ Complete(o, res, i, more)
    BY <1>6 DEF KRecv
  <2>2. /\ i \in br /\ i \in RingBufs /\ op[o].is_multi
        /\ res \in {"ok", "empty", "err"}
    BY <1>4, <1>6, PickFacts DEF HandlerTypeOK, UringTypeOK, KRecv, RecvResults
  <2>3. /\ cq' \in Seq(Cqe) /\ inflight' \subseteq Ops /\ br' \subseteq RingBufs
        /\ OpExclusive' /\ BufExclusive' /\ Bookkeeping'
    BY <1>2, <1>5, <1>6, <2>1, <2>2, CompleteStep DEF KRecv
  <2>4. Payload(op[o].fd) \in Payloads /\ arrived' \in [Fds -> 0 .. MaxPkts]
    BY <1>3, <1>4, <1>6, <2>2, UringAssumption
    DEF HandlerTypeOK, UringTypeOK, KRecv, Payload, Payloads
  <2>5. HandlerTypeOK'
    BY <1>2, <1>4, <1>6, <2>1, <2>3, <2>4 DEF HandlerTypeOK, UringTypeOK, KRecv, loopVars
  <2> QED
    BY <2>3, <2>5 DEF HandlerInv
<1>7. CASE KNoBufs(o) \/ KRecvEnd(o) \/ KNoDest(o) \/ KError(o)
  <2>1. PICK res \in {"ok", "empty", "err"} : Complete(o, res, NO_BUF, FALSE)
    BY <1>7 DEF KNoBufs, KRecvEnd, KNoDest, KError
  <2>2. UNCHANGED <<poolVars, dataVars>>
    BY <1>7 DEF KNoBufs, KRecvEnd, KNoDest, KError
  <2>3. /\ cq' \in Seq(Cqe) /\ inflight' \subseteq Ops /\ br' \subseteq RingBufs
        /\ OpExclusive' /\ BufExclusive' /\ Bookkeeping'
    BY <1>2, <2>1, <2>2, CompleteStep DEF poolVars
  <2>4. HandlerTypeOK'
    BY <1>2, <1>4, <2>2, <2>3 DEF HandlerTypeOK, UringTypeOK, poolVars, dataVars, loopVars
  <2> QED
    BY <2>3, <2>4 DEF HandlerInv
<1>8. CASE KRead(o)
  <2>1. PICK res \in RecvResults : Complete(o, res, NO_BUF, FALSE)
    BY <1>8 DEF KRead
  <2>2. res \in {"ok", "empty", "err"} /\ op[o].op_type # "NONE"
    BY <1>8 DEF RecvResults, KRead, IsRecv
  <2>3. /\ cq' \in Seq(Cqe) /\ inflight' \subseteq Ops /\ br' \subseteq RingBufs
        /\ OpExclusive' /\ BufExclusive' /\ Bookkeeping'
    BY <1>2, <1>8, <2>1, <2>2, CompleteStep DEF KRead, poolVars
  <2>4. Payload(op[o].fd) \in Payloads /\ arrived' \in [Fds -> 0 .. MaxPkts]
    BY <1>3, <1>4, <1>8, <2>2, UringAssumption
    DEF HandlerTypeOK, UringTypeOK, KRead, Payload, Payloads
  <2>5. HandlerTypeOK'
    BY <1>2, <1>4, <1>8, <2>3, <2>4 DEF HandlerTypeOK, UringTypeOK, KRead, loopVars, poolVars
  <2> QED
    BY <2>3, <2>5 DEF HandlerInv
<1>9. CASE KWrite(o)
  <2>1. Complete(o, "ok", NO_BUF, FALSE) /\ UNCHANGED <<poolVars, mem, arrived>>
    BY <1>9 DEF KWrite
  <2>2. /\ cq' \in Seq(Cqe) /\ inflight' \subseteq Ops /\ br' \subseteq RingBufs
        /\ OpExclusive' /\ BufExclusive' /\ Bookkeeping'
    BY <1>2, <2>1, CompleteStep DEF poolVars
  <2>3. out' \in [Fds -> [Payloads \cup {NULL} -> Nat]]
    <3> DEFINE f == op[o].fd
               x == mem[op[o].buffer]
    <3>1. /\ out \in [Fds -> [Payloads \cup {NULL} -> Nat]]
          /\ out' = [out EXCEPT ![f] = [out[f] EXCEPT ![x] = out[f][x] + 1]]
      BY <1>4, <1>9 DEF HandlerTypeOK, UringTypeOK, KWrite
    <3> HIDE DEF f, x
    <3>2. f \in Fds => [out[f] EXCEPT ![x] = out[f][x] + 1]
                          \in [Payloads \cup {NULL} -> Nat]
      <4>1. CASE x \in Payloads \cup {NULL}
        BY <3>1, <4>1
      <4>2. CASE x \notin Payloads \cup {NULL}
        BY <3>1, <4>2
      <4> QED
        BY <4>1, <4>2
    <3> QED
      BY <3>1, <3>2
  <2>4. HandlerTypeOK'
    BY <1>2, <1>4, <2>1, <2>2, <2>3 DEF HandlerTypeOK, UringTypeOK, poolVars, loopVars
  <2> QED
    BY <2>2, <2>4 DEF HandlerInv
<1> QED
  BY <1>1, <1>6, <1>7, <1>8, <1>9

-----------------------------------------------------------------------------
(***************************************************************************)
(* io_op_free.                                                             *)
(***************************************************************************)

(* io_op_free(o) changes o alone, and gives back only what o owned.        *)
LEMMA FreeFacts ==
  ASSUME HandlerInv, NEW o \in Ops, o \notin io_op_pool, io_op_free(o)
  PROVE  /\ io_op_pool' \subseteq Ops /\ buf_addr_pool' \subseteq BufAddrs
         /\ br' \subseteq RingBufs /\ op' \in [Ops -> OpRecord]
         /\ \A p \in Ops \ {o} : op'[p] = op[p]
         /\ \/ /\ io_op_pool' = io_op_pool \cup {o}
               /\ op'[o] = Zeroed
               /\ ~op[o].is_multi \/ op[o].buf_idx = NO_BUF
            \/ /\ io_op_pool' = io_op_pool
               /\ op[o].is_multi
               /\ op'[o] = op[o] \/ op'[o] = Recycled(op[o])
         /\ buf_addr_pool' \subseteq buf_addr_pool \cup {op[o].buf_addr}
         /\ br' \subseteq br \cup {op[o].buf_idx}
         /\ op'[o].buf_addr \notin buf_addr_pool'
         /\ op'[o].buf_addr \in {NULL, op[o].buf_addr}
         /\ op'[o].buf_idx \notin br'
         /\ op'[o].buf_idx \in {NO_BUF, op[o].buf_idx}
<1>1. /\ io_op_pool \subseteq Ops /\ buf_addr_pool \subseteq BufAddrs
      /\ br \subseteq RingBufs /\ op \in [Ops -> OpRecord]
      /\ op[o] \in OpRecord /\ Recycled(op[o]) \in OpRecord /\ Zeroed \in OpRecord
      /\ op[o].buf_addr \in BufAddrs \cup {NULL}
      /\ op[o].buf_addr \notin buf_addr_pool /\ op[o].buf_idx \notin br
      /\ op[o].is_multi => op[o].buf_addr = NULL
  <2>1. /\ io_op_pool \subseteq Ops /\ buf_addr_pool \subseteq BufAddrs
        /\ br \subseteq RingBufs /\ op \in [Ops -> OpRecord]
        /\ op[o] \in OpRecord
    BY DEF HandlerInv, HandlerTypeOK, UringTypeOK
  <2>2. Recycled(op[o]) \in OpRecord /\ Zeroed \in OpRecord
    BY <2>1, RecordTypes
  <2>3. op[o].buf_addr \in BufAddrs \cup {NULL}
    BY <2>1 DEF OpRecord
  <2> QED
    BY <2>1, <2>2, <2>3 DEF HandlerInv, BufExclusive, Bookkeeping
<1>2. NULL \notin BufAddrs /\ NO_BUF \notin RingBufs /\ DO_NOT_FREE \notin RingBufs
  BY UringAssumption DEF Buffers, NO_BUF, DO_NOT_FREE, RingBufs
<1>3. /\ Zeroed.buf_addr = NULL /\ Zeroed.buf_idx = NO_BUF
      /\ Recycled(op[o]).buf_addr = op[o].buf_addr
      /\ Recycled(op[o]).buf_idx = NO_BUF
  BY <1>1, Fields, MovedFields
<1>4. CASE op[o].is_multi /\ op[o].buf_idx \in RingBufs /\ iouring_recycle_buffer(o)
  BY <1>1, <1>2, <1>3, <1>4 DEF iouring_recycle_buffer
<1>5. CASE /\ op[o].is_multi /\ op[o].buf_idx = NO_BUF
           /\ iouring_put_io_op(o) /\ UNCHANGED <<buf_addr_pool, br>>
  BY <1>1, <1>2, <1>3, <1>5 DEF iouring_put_io_op
<1>6. CASE op[o].is_multi /\ op[o].buf_idx = DO_NOT_FREE /\ UNCHANGED poolVars
  BY <1>1, <1>2, <1>3, <1>6 DEF poolVars
<1>7. CASE ~op[o].is_multi /\ ReturnBuf(op[o]) /\ iouring_put_io_op(o)
  <2>1. /\ io_op_pool' = io_op_pool \cup {o}
        /\ op' = [op EXCEPT ![o] = Zeroed]
        /\ buf_addr_pool' = buf_addr_pool \cup ({op[o].buf_addr} \ {NULL})
        /\ br' \subseteq br \cup ({op[o].buf_idx} \cap RingBufs)
    BY <1>7 DEF ReturnBuf, iouring_put_io_op
  <2> QED
    BY <1>1, <1>2, <1>3, <1>7, <2>1
<1> QED
  BY <1>4, <1>5, <1>6, <1>7 DEF io_op_free

(* io_op_free(o) keeps the buffers of all operations apart, and apart from *)
(* any buffer b that none of them has.                                     *)
LEMMA FreeKeepsBuffers ==
  ASSUME HandlerInv, NEW o \in Ops, o \notin io_op_pool, io_op_free(o)
  PROVE  /\ \A p \in Ops :
              /\ op'[p].buf_addr \notin buf_addr_pool'
              /\ op'[p].buf_idx \notin br'
              /\ op'[p].buf_addr # NULL => op'[p].buf_idx = NO_BUF
         /\ \A p, q \in Ops : p # q =>
              /\ op'[p].buf_addr = op'[q].buf_addr => op'[p].buf_addr = NULL
              /\ op'[p].buf_idx = op'[q].buf_idx => op'[p].buf_idx \notin RingBufs
         /\ \A b \in {NO_BUF} \cup RingBufs :
              b \notin br /\ (\A p \in Ops : b = op[p].buf_idx => b = NO_BUF)
              => b \notin br' /\ (\A p \in Ops : b = op'[p].buf_idx => b = NO_BUF)
         /\ \A p \in io_op_pool' : op'[p] = Zeroed
         /\ \A p \in Ops : op'[p].op_type # "NONE" => op'[p].fd # NULL
         /\ \A p \in Ops : op'[p].is_multi =>
              /\ op'[p].op_type = "UDP_RECV" /\ op'[p].buf_addr = NULL
              /\ op[p].is_multi
<1>1. /\ \A p \in Ops : op[p].buf_addr \in BufAddrs \cup {NULL}
      /\ \A p \in Ops : op[p].buf_idx \in {NO_BUF, DO_NOT_FREE} \cup RingBufs
      /\ op[o] \in OpRecord
  BY DEF HandlerInv, HandlerTypeOK, UringTypeOK, OpRecord
<1>2. NULL \notin BufAddrs /\ NO_BUF \notin RingBufs /\ DO_NOT_FREE \notin RingBufs
      /\ br' \subseteq RingBufs
  BY UringAssumption, FreeFacts DEF Buffers, NO_BUF, DO_NOT_FREE, RingBufs
<1>3. \A p \in Ops :
        /\ op'[p].buf_addr \notin buf_addr_pool'
        /\ op'[p].buf_idx \notin br'
        /\ op'[p].buf_addr # NULL => op'[p].buf_idx = NO_BUF
  <2> SUFFICES ASSUME NEW p \in Ops
               PROVE  /\ op'[p].buf_addr \notin buf_addr_pool'
                      /\ op'[p].buf_idx \notin br'
                      /\ op'[p].buf_addr # NULL => op'[p].buf_idx = NO_BUF
    OBVIOUS
  <2>1. CASE p = o
    BY <1>1, <2>1, FreeFacts DEF HandlerInv, BufExclusive
  <2>2. CASE p # o
    BY <1>1, <1>2, <2>2, FreeFacts DEF HandlerInv, BufExclusive
  <2> QED
    BY <2>1, <2>2
<1>4. \A p, q \in Ops : p # q =>
        /\ op'[p].buf_addr = op'[q].buf_addr => op'[p].buf_addr = NULL
        /\ op'[p].buf_idx = op'[q].buf_idx => op'[p].buf_idx \notin RingBufs
  BY <1>2, FreeFacts DEF HandlerInv, BufExclusive
<1>5. \A b \in {NO_BUF} \cup RingBufs :
        b \notin br /\ (\A p \in Ops : b = op[p].buf_idx => b = NO_BUF)
        => b \notin br' /\ (\A p \in Ops : b = op'[p].buf_idx => b = NO_BUF)
  BY <1>2, FreeFacts
<1>6. /\ \A p \in io_op_pool' : op'[p] = Zeroed
      /\ \A p \in Ops : op'[p].op_type # "NONE" => op'[p].fd # NULL
      /\ \A p \in Ops : op'[p].is_multi =>
           /\ op'[p].op_type = "UDP_RECV" /\ op'[p].buf_addr = NULL
           /\ op[p].is_multi
  <2>1. /\ Zeroed.op_type = "NONE" /\ ~Zeroed.is_multi
        /\ Recycled(op[o]).op_type = op[o].op_type
        /\ Recycled(op[o]).fd = op[o].fd
        /\ Recycled(op[o]).buf_addr = op[o].buf_addr
    BY <1>1, Fields, MovedFields
  <2>2. /\ \A p \in Ops \ {o} : op'[p] = op[p]
        /\ \/ io_op_pool' = io_op_pool \cup {o} /\ op'[o] = Zeroed
           \/ /\ io_op_pool' = io_op_pool
              /\ op[o].is_multi
              /\ op'[o] = op[o] \/ op'[o] = Recycled(op[o])
    BY FreeFacts
  <2>3. \A p \in io_op_pool' : op'[p] = Zeroed
    BY <2>2 DEF HandlerInv, Bookkeeping, HandlerTypeOK, UringTypeOK
  <2>4. \A p \in Ops : op'[p].op_type # "NONE" => op'[p].fd # NULL
    BY <2>1, <2>2 DEF HandlerInv, Bookkeeping
  <2>5. \A p \in Ops : op'[p].is_multi =>
          /\ op'[p].op_type = "UDP_RECV" /\ op'[p].buf_addr = NULL
          /\ op[p].is_multi
    BY <2>1, <2>2 DEF HandlerInv, Bookkeeping
  <2> QED
    BY <2>3, <2>4, <2>5
<1> QED
  BY <1>3, <1>4, <1>5, <1>6

-----------------------------------------------------------------------------
(***************************************************************************)
(* wait_for_recv.                                                          *)
(***************************************************************************)

(* Consuming the first entry of the queue: what is known of that entry ... *)
LEMMA SeenEntry ==
  ASSUME HandlerInv, Completion
  PROVE  /\ cq' \in Seq(Cqe) /\ cqe \in Cqe /\ cqe.op \in Ops
         /\ cqe.buf \in {NO_BUF} \cup RingBufs /\ cqe.more \in BOOLEAN
         /\ op[cqe.op] \in OpRecord /\ cqe.op \notin io_op_pool
         /\ ~op[cqe.op].is_multi => cqe.op # hand /\ ~cqe.more
         /\ ~cqe.more => /\ cqe.op \notin inflight
                         /\ \A i \in CqIndex' : cq'[i].op # cqe.op
         /\ cqe.buf = NO_BUF => ~cqe.more
         /\ cqe.buf \notin br
         /\ \A o \in Ops : cqe.buf = op[o].buf_idx => cqe.buf = NO_BUF
         /\ \A i \in CqIndex' : cq'[i].buf = cqe.buf => cqe.buf = NO_BUF
         /\ \A i \in CqIndex' : i + 1 \in CqIndex /\ cq'[i] = cq[i + 1] /\ i \in Nat
<1>1. cq \in Seq(Cqe) /\ cq # <<>> /\ cq' = Tail(cq)
  BY DEF HandlerInv, HandlerTypeOK, UringTypeOK, Completion
<1>2. /\ cqe = cq[1] /\ cqe \in Cqe /\ 1 \in CqIndex /\ cq' \in Seq(Cqe)
      /\ \A i \in CqIndex' : i + 1 \in CqIndex /\ cq'[i] = cq[i + 1] /\ i \in Nat /\ i > 0
  BY <1>1, TailFacts DEF cqe, CqIndex
<1>3. /\ cqe.op \in Ops /\ cqe.buf \in {NO_BUF} \cup RingBufs /\ cqe.more \in BOOLEAN
      /\ op[cqe.op] \in OpRecord
  BY <1>2 DEF Cqe, HandlerInv, HandlerTypeOK, UringTypeOK
<1>4. /\ cqe.op \notin io_op_pool
      /\ ~op[cqe.op].is_multi => cqe.op # hand /\ ~cqe.more
      /\ ~cqe.more => cqe.op \notin inflight
  BY <1>2 DEF HandlerInv, OpExclusive
<1>5. ~cqe.more => \A i \in CqIndex' : cq'[i].op # cqe.op
  BY <1>2 DEF HandlerInv, OpExclusive
<1>6. /\ cqe.buf = NO_BUF => ~cqe.more
      /\ cqe.buf \notin br
      /\ \A o \in Ops : cqe.buf = op[o].buf_idx => cqe.buf = NO_BUF
  BY <1>2 DEF HandlerInv, BufExclusive, Bookkeeping
<1>7. \A i \in CqIndex' : cq'[i].buf = cqe.buf => cqe.buf = NO_BUF
  BY <1>2 DEF HandlerInv, BufExclusive
<1> QED
  BY <1>2, <1>3, <1>4, <1>5, <1>6, <1>7

(* ... and of those that stay.                                             *)
LEMMA SeenRest ==
  ASSUME HandlerInv, Completion, NEW i \in CqIndex'
  PROVE  /\ cq'[i] \in Cqe /\ cq'[i].op \in Ops /\ cq'[i].op \notin io_op_pool
         /\ cq'[i].buf \in {NO_BUF} \cup RingBufs
         /\ ~op[cq'[i].op].is_multi => cq'[i].op # hand /\ ~cq'[i].more
         /\ ~cq'[i].more => cq'[i].op \notin inflight
         /\ ~cq'[i].more => \A j \in CqIndex' : cq'[j].op = cq'[i].op => j <= i
         /\ cq'[i].buf \notin br
         /\ \A o \in Ops : cq'[i].buf = op[o].buf_idx => cq'[i].buf = NO_BUF
         /\ \A j \in CqIndex' : cq'[i].buf = cq'[j].buf => i = j \/ cq'[i].buf = NO_BUF
         /\ cq'[i].buf = NO_BUF => ~cq'[i].more
         /\ cq'[i].buf # NO_BUF => op[cq'[i].op].is_multi
<1>1. /\ i + 1 \in CqIndex /\ cq'[i] = cq[i + 1]
      /\ \A j \in CqIndex' : j + 1 \in CqIndex /\ cq'[j] = cq[j + 1] /\ j \in Nat
  BY SeenEntry
<1>2. cq[i + 1] \in Cqe
  BY <1>1 DEF HandlerInv, HandlerTypeOK, UringTypeOK, CqIndex
<1>3. cq'[i] \in Cqe /\ cq'[i].op \in Ops /\ cq'[i].buf \in {NO_BUF} \cup RingBufs
  BY <1>1, <1>2 DEF Cqe
<1>4. /\ cq'[i].op \notin io_op_pool
      /\ ~op[cq'[i].op].is_multi => cq'[i].op # hand /\ ~cq'[i].more
      /\ ~cq'[i].more => cq'[i].op \notin inflight
  BY <1>1 DEF HandlerInv, OpExclusive
<1>5. ~cq'[i].more => \A j \in CqIndex' : cq'[j].op = cq'[i].op => j <= i
  BY <1>1 DEF HandlerInv, OpExclusive
<1>6. /\ cq'[i].buf \notin br
      /\ \A o \in Ops : cq'[i].buf = op[o].buf_idx => cq'[i].buf = NO_BUF
      /\ \A j \in CqIndex' : cq'[i].buf = cq'[j].buf => i = j \/ cq'[i].buf = NO_BUF
  BY <1>1 DEF HandlerInv, BufExclusive
<1>7. /\ cq'[i].buf = NO_BUF => ~cq'[i].more
      /\ cq'[i].buf # NO_BUF => op[cq'[i].op].is_multi
  BY <1>1 DEF HandlerInv, Bookkeeping
<1> QED
  BY <1>3, <1>4, <1>5, <1>6, <1>7

(* A request failed.                                                       *)
LEMMA WaitFailedStep ==
  ASSUME HandlerInv, WaitFailed
  PROVE  HandlerInv'
<1> USE DEF WaitFailed, Return
<1>1. Completion
  OBVIOUS
<1>2. UNCHANGED <<io_op_pool, buf_addr_pool, br, op, inflight, mem, arrived, out>>
  BY DEF poolVars, dataVars
<1>3. pc = "wait" /\ pc' = "handle" /\ hand' = NULL /\ NULL \notin Ops
  BY <1>1, UringAssumption DEF Completion
<1>4. HandlerTypeOK'
  BY <1>1, <1>2, <1>3, SeenEntry DEF HandlerInv, HandlerTypeOK, UringTypeOK
<1>5. OpExclusive'
  BY <1>1, <1>2, <1>3, SeenRest DEF HandlerInv, HandlerTypeOK, UringTypeOK, OpExclusive
<1>6. BufExclusive'
  BY <1>1, <1>2, SeenRest DEF HandlerInv, BufExclusive
<1>7. Bookkeeping'
  BY <1>1, <1>2, <1>3, SeenRest DEF HandlerInv, Bookkeeping
<1> QED
  BY <1>4, <1>5, <1>6, <1>7 DEF HandlerInv

(* A send or a write is finished and freed.                                *)
LEMMA WaitSentStep ==
  ASSUME HandlerInv, WaitSent
  PROVE  HandlerInv'
<1> USE DEF WaitSent
<1> DEFINE o == cqe.op
<1>1. Completion /\ io_op_free(o)
  OBVIOUS
<1>2. UNCHANGED <<inflight, mem, arrived, out, pc, hand, ret>> /\ pc = "wait"
  BY DEF dataVars, loopVars, Completion
<1>3. /\ o \in Ops /\ o \notin io_op_pool /\ ~op[o].is_multi /\ o # hand
      /\ o \notin inflight /\ \A i \in CqIndex' : cq'[i].op # o
  BY <1>1, SeenEntry DEF IsSend, HandlerInv, Bookkeeping
<1> HIDE DEF o
<1>4. HandlerTypeOK'
  BY <1>1, <1>2, <1>3, SeenEntry, FreeFacts DEF HandlerInv, HandlerTypeOK, UringTypeOK
<1>5. OpExclusive'
  <2>1. /\ io_op_pool' = io_op_pool \cup {o}
        /\ \A p \in Ops \ {o} : op'[p] = op[p]
    BY <1>1, <1>3, FreeFacts
  <2>2. /\ \A p \in io_op_pool' : p \notin inflight' /\ p # hand'
        /\ \A p \in Ops : p = hand' /\ ~op'[p].is_multi => p \notin inflight'
    BY <1>2, <1>3, <2>1 DEF HandlerInv, OpExclusive
  <2>3. ASSUME NEW i \in CqIndex'
        PROVE  /\ cq'[i].op \notin io_op_pool'
               /\ ~op'[cq'[i].op].is_multi => cq'[i].op # hand' /\ ~cq'[i].more
               /\ ~cq'[i].more => cq'[i].op \notin inflight'
               /\ ~cq'[i].more => \A j \in CqIndex' : cq'[j].op = cq'[i].op => j <= i
    BY <1>1, <1>2, <1>3, <2>1, SeenRest
  <2> QED
    BY <2>2, <2>3 DEF OpExclusive
<1>6. BufExclusive'
  BY <1>1, <1>3, SeenRest, FreeKeepsBuffers DEF BufExclusive
<1>7. Bookkeeping'
  BY <1>1, <1>2, <1>3, SeenRest, FreeFacts, FreeKeepsBuffers
  DEF HandlerInv, Bookkeeping, HandlerTypeOK
<1> QED
  BY <1>4, <1>5, <1>6, <1>7 DEF HandlerInv

(* A datagram was received: the multishot operation takes over the buffer  *)
(* of the completion, and is armed again after its last one.               *)
LEMMA WaitRecvStep ==
  ASSUME HandlerInv, WaitRecv
  PROVE  HandlerInv'
<1> USE DEF WaitRecv, Return
<1> DEFINE o == cqe.op
           R == Received(op[o], cqe.buf, DataLen)
<1>1. Completion
  OBVIOUS
<1>2. /\ UNCHANGED <<io_op_pool, buf_addr_pool, br, mem, arrived, out, ret>>
      /\ inflight' = IF cqe.more THEN inflight ELSE inflight \cup {o}
      /\ pc = "wait" /\ pc' = "handle" /\ hand' = o
  BY DEF dataVars, Completion
<1>3. /\ o \in Ops /\ o \notin io_op_pool /\ op[o].is_multi /\ op[o] \in OpRecord
      /\ cqe.buf \in RingBufs /\ DataLen \in {0, 1} /\ op \in [Ops -> OpRecord]
  BY <1>1, SeenEntry DEF DataLen, HandlerInv, HandlerTypeOK, UringTypeOK
<1>4. /\ R \in OpRecord /\ R.is_multi /\ R.op_type = op[o].op_type /\ R.fd = op[o].fd
      /\ R.buf_addr = op[o].buf_addr /\ R.buf_idx = cqe.buf
  <2> HIDE DEF WaitRecv, o
  <2>1. R \in OpRecord
    BY <1>3, RecordTypes
  <2> QED
    BY <1>3, <2>1, MovedFields
<1>5. /\ op' \in [Ops -> OpRecord] /\ op'[o] = R
      /\ \A p \in Ops \ {o} : op'[p] = op[p]
      /\ \A p \in Ops : op'[p].is_multi = op[p].is_multi
  <2>1. op' = [op EXCEPT ![o] = R]
    BY DEF WaitRecv
  <2> HIDE DEF o, R
  <2>2. /\ op' \in [Ops -> OpRecord] /\ op'[o] = R
        /\ \A p \in Ops \ {o} : op'[p] = op[p]
    BY <1>3, <1>4, <2>1
  <2> QED
    BY <1>3, <1>4, <2>2
<1> HIDE DEF o, R, WaitRecv, Return
<1>6. HandlerTypeOK'
  BY <1>1, <1>2, <1>3, <1>5, SeenEntry DEF HandlerInv, HandlerTypeOK, UringTypeOK
<1>7. OpExclusive'
  <2>1. /\ \A p \in io_op_pool' : p \notin inflight' /\ p # hand'
        /\ \A p \in Ops : p = hand' /\ ~op'[p].is_multi => p \notin inflight'
    BY <1>2, <1>3, <1>5 DEF HandlerInv, OpExclusive
  <2>2. ASSUME NEW i \in CqIndex'
        PROVE  /\ cq'[i].op \notin io_op_pool'
               /\ ~op'[cq'[i].op].is_multi => cq'[i].op # hand' /\ ~cq'[i].more
               /\ ~cq'[i].more => cq'[i].op \notin inflight'
               /\ ~cq'[i].more => \A j \in CqIndex' : cq'[j].op = cq'[i].op => j <= i
    BY <1>1, <1>2, <1>3, <1>5, SeenEntry, SeenRest DEF o
  <2> QED
    BY <2>1, <2>2 DEF OpExclusive
<1>8. BufExclusive'
  <2>1. \A p \in Ops :
          /\ op'[p].buf_addr \notin buf_addr_pool'
          /\ op'[p].buf_idx \notin br'
          /\ op'[p].buf_addr # NULL => op'[p].buf_idx = NO_BUF
    BY <1>1, <1>2, <1>3, <1>4, <1>5, SeenEntry DEF HandlerInv, BufExclusive, Bookkeeping
  <2>2. \A p, q \in Ops : p # q =>
          /\ op'[p].buf_addr = op'[q].buf_addr => op'[p].buf_addr = NULL
          /\ op'[p].buf_idx = op'[q].buf_idx => op'[p].buf_idx \notin RingBufs
    <3>1. NO_BUF \notin RingBufs
      BY UringAssumption DEF NO_BUF, RingBufs
    <3> QED
      BY <1>1, <1>3, <1>4, <1>5, <3>1, SeenEntry DEF HandlerInv, BufExclusive
  <2>3. ASSUME NEW i \in CqIndex'
        PROVE  /\ cq'[i].buf \notin br'
               /\ \A p \in Ops : cq'[i].buf = op'[p].buf_idx => cq'[i].buf = NO_BUF
               /\ \A j \in CqIndex' :
                    cq'[i].buf = cq'[j].buf => i = j \/ cq'[i].buf = NO_BUF
    BY <1>1, <1>2, <1>4, <1>5, SeenEntry, SeenRest
  <2> QED
    BY <2>1, <2>2, <2>3 DEF BufExclusive
<1>9. Bookkeeping'
  <2>1. /\ \A p \in io_op_pool' : op'[p] = Zeroed
        /\ \A p \in Ops : op'[p].op_type # "NONE" => op'[p].fd # NULL
        /\ \A p \in Ops : op'[p].is_multi =>
             op'[p].op_type = "UDP_RECV" /\ op'[p].buf_addr = NULL
    <3>1. /\ io_op_pool' = io_op_pool /\ io_op_pool \subseteq Ops
          /\ \A p \in io_op_pool : op[p] = Zeroed
          /\ \A p \in Ops : op[p].op_type # "NONE" => op[p].fd # NULL
          /\ \A p \in Ops : op[p].is_multi =>
               op[p].op_type = "UDP_RECV" /\ op[p].buf_addr = NULL
      BY <1>2 DEF HandlerInv, HandlerTypeOK, UringTypeOK, Bookkeeping
    <3>2. \A p \in Ops : /\ op'[p].op_type = op[p].op_type /\ op'[p].fd = op[p].fd
                         /\ op'[p].buf_addr = op[p].buf_addr
      BY <1>4, <1>5
    <3> QED
      BY <1>3, <1>5, <3>1, <3>2
  <2>2. ASSUME NEW i \in CqIndex'
        PROVE  /\ cq'[i].buf = NO_BUF => ~cq'[i].more
               /\ cq'[i].buf # NO_BUF => op'[cq'[i].op].is_multi
    BY <1>1, <1>5, SeenRest
  <2>3. op'[hand'].buf_idx # NO_BUF
    BY <1>2, <1>3, <1>4, <1>5, UringAssumption DEF NO_BUF, RingBufs
  <2> QED
    BY <1>2, <2>1, <2>2, <2>3 DEF HandlerInv, Bookkeeping
<1> QED
  BY <1>6, <1>7, <1>8, <1>9 DEF HandlerInv

(* The datagram is refused: its buffer goes straight back to the ring.     *)
LEMMA WaitRecvFailedStep ==
  ASSUME HandlerInv, WaitRecvFailed
  PROVE  HandlerInv'
<1> USE DEF WaitRecvFailed, Return
<1> DEFINE o == cqe.op
           R == Recycled(Received(op[o], cqe.buf, DataLen))
<1>1. Completion
  OBVIOUS
<1>2. /\ UNCHANGED <<io_op_pool, buf_addr_pool, inflight, mem, arrived, out, ret>>
      /\ br' = br \cup {cqe.buf}
      /\ pc = "wait" /\ pc' = "handle" /\ hand' = NULL /\ NULL \notin Ops
  BY UringAssumption DEF dataVars, Completion
<1>3. /\ o \in Ops /\ o \notin io_op_pool /\ op[o].is_multi /\ op[o] \in OpRecord
      /\ cqe.buf \in RingBufs /\ DataLen \in {0, 1} /\ op \in [Ops -> OpRecord]
  BY <1>1, SeenEntry DEF DataLen, HandlerInv, HandlerTypeOK, UringTypeOK
<1>4. /\ R \in OpRecord /\ R.is_multi /\ R.op_type = op[o].op_type /\ R.fd = op[o].fd
      /\ R.buf_addr = op[o].buf_addr /\ R.buf_idx = NO_BUF
  <2> HIDE DEF WaitRecvFailed, o
  <2> DEFINE S == Received(op[o], cqe.buf, DataLen)
  <2>1. S \in OpRecord
    BY <1>3, RecordTypes
  <2>2. /\ S.is_multi /\ S.op_type = op[o].op_type /\ S.fd = op[o].fd
        /\ S.buf_addr = op[o].buf_addr
    BY <1>3, <2>1, MovedFields
  <2> HIDE DEF S
  <2>3. Recycled(S) \in OpRecord
    BY <2>1, RecordTypes
  <2>4. /\ Recycled(S).is_multi /\ Recycled(S).op_type = S.op_type
        /\ Recycled(S).fd = S.fd /\ Recycled(S).buf_addr = S.buf_addr
        /\ Recycled(S).buf_idx = NO_BUF
    BY <2>1, <2>2, MovedFields
  <2> QED
    BY <2>2, <2>3, <2>4 DEF S
<1>5. /\ op' \in [Ops -> OpRecord] /\ op'[o] = R
      /\ \A p \in Ops \ {o} : op'[p] = op[p]
      /\ \A p \in Ops : op'[p].is_multi = op[p].is_multi
  <2>1. op' = [op EXCEPT ![o] = R]
    BY DEF WaitRecvFailed
  <2> HIDE DEF o, R
  <2>2. /\ op' \in [Ops -> OpRecord] /\ op'[o] = R
        /\ \A p \in Ops \ {o} : op'[p] = op[p]
    BY <1>3, <1>4, <2>1
  <2> QED
    BY <1>3, <1>4, <2>2
<1> HIDE DEF o, R, WaitRecvFailed, Return
<1>6. HandlerTypeOK'
  BY <1>1, <1>2, <1>3, <1>5, SeenEntry DEF HandlerInv, HandlerTypeOK, UringTypeOK
<1>7. OpExclusive'
  <2>1. /\ \A p \in io_op_pool' : p \notin inflight' /\ p # hand'
        /\ \A p \in Ops : p = hand' /\ ~op'[p].is_multi => p \notin inflight'
    BY <1>2 DEF HandlerInv, OpExclusive, HandlerTypeOK, UringTypeOK
  <2>2. ASSUME NEW i \in CqIndex'
        PROVE  /\ cq'[i].op \notin io_op_pool'
               /\ ~op'[cq'[i].op].is_multi => cq'[i].op # hand' /\ ~cq'[i].more
               /\ ~cq'[i].more => cq'[i].op \notin inflight'
               /\ ~cq'[i].more => \A j \in CqIndex' : cq'[j].op = cq'[i].op => j <= i
    BY <1>1, <1>2, <1>5, SeenRest
  <2> QED
    BY <2>1, <2>2 DEF OpExclusive
<1>8. BufExclusive'
  <2>1. NO_BUF \notin RingBufs
    BY UringAssumption DEF NO_BUF, RingBufs
  <2>2. \A p \in Ops :
          /\ op'[p].buf_addr \notin buf_addr_pool'
          /\ op'[p].buf_idx \notin br'
          /\ op'[p].buf_addr # NULL => op'[p].buf_idx = NO_BUF
    <3>1. NO_BUF \notin br'
      BY <1>2, <1>3, <2>1 DEF HandlerInv, HandlerTypeOK, UringTypeOK
    <3> QED
      BY <1>1, <1>2, <1>3, <1>4, <1>5, <3>1, SeenEntry DEF HandlerInv, BufExclusive
  <2>3. \A p, q \in Ops : p # q =>
          /\ op'[p].buf_addr = op'[q].buf_addr => op'[p].buf_addr = NULL
          /\ op'[p].buf_idx = op'[q].buf_idx => op'[p].buf_idx \notin RingBufs
    BY <1>4, <1>5, <2>1 DEF HandlerInv, BufExclusive
  <2>4. ASSUME NEW i \in CqIndex'
        PROVE  /\ cq'[i].buf \notin br'
               /\ \A p \in Ops : cq'[i].buf = op'[p].buf_idx => cq'[i].buf = NO_BUF
               /\ \A j \in CqIndex' :
                    cq'[i].buf = cq'[j].buf => i = j \/ cq'[i].buf = NO_BUF
    BY <1>1, <1>2, <1>3, <1>4, <1>5, <2>1, SeenEntry, SeenRest
  <2> QED
    BY <2>2, <2>3, <2>4 DEF BufExclusive
<1>9. Bookkeeping'
  <2>1. /\ \A p \in io_op_pool' : op'[p] = Zeroed
        /\ \A p \in Ops : op'[p].op_type # "NONE" => op'[p].fd # NULL
        /\ \A p \in Ops : op'[p].is_multi =>
             op'[p].op_type = "UDP_RECV" /\ op'[p].buf_addr = NULL
    <3>1. /\ io_op_pool' = io_op_pool /\ io_op_pool \subseteq Ops
          /\ \A p \in io_op_pool : op[p] = Zeroed
          /\ \A p \in Ops : op[p].op_type # "NONE" => op[p].fd # NULL
          /\ \A p \in Ops : op[p].is_multi =>
               op[p].op_type = "UDP_RECV" /\ op[p].buf_addr = NULL
      BY <1>2 DEF HandlerInv, HandlerTypeOK, UringTypeOK, Bookkeeping
    <3>2. \A p \in Ops : /\ op'[p].op_type = op[p].op_type /\ op'[p].fd = op[p].fd
                         /\ op'[p].buf_addr = op[p].buf_addr
      BY <1>4, <1>5
    <3> QED
      BY <1>3, <1>5, <3>1, <3>2
  <2>2. ASSUME NEW i \in CqIndex'
        PROVE  /\ cq'[i].buf = NO_BUF => ~cq'[i].more
               /\ cq'[i].buf # NO_BUF => op'[cq'[i].op].is_multi
    BY <1>1, <1>5, SeenRest
  <2> QED
    BY <1>2, <2>1, <2>2 DEF HandlerInv, Bookkeeping
<1> QED
  BY <1>6, <1>7, <1>8, <1>9 DEF HandlerInv

(* wait_for_recv gives up after freeing the operation of the completion.   *)
LEMMA WaitFreedStep ==
  ASSUME HandlerInv, WaitRecvNoBuf \/ WaitReadNoOp
  PROVE  HandlerInv'
<1> USE DEF WaitRecvNoBuf, WaitReadNoOp, Return
<1> DEFINE o == cqe.op
<1>1. Completion /\ io_op_free(o)
  OBVIOUS
<1>2. /\ UNCHANGED <<inflight, mem, arrived, out, ret>>
      /\ pc = "wait" /\ pc' = "handle" /\ hand' = NULL /\ NULL \notin Ops
  BY UringAssumption DEF dataVars, Completion
<1>3. /\ o \in Ops /\ o \notin io_op_pool /\ o \notin inflight
      /\ \A i \in CqIndex' : cq'[i].op # o
  BY <1>1, SeenEntry
<1> HIDE DEF o
<1>4. HandlerTypeOK'
  BY <1>1, <1>2, <1>3, SeenEntry, FreeFacts DEF HandlerInv, HandlerTypeOK, UringTypeOK
<1>5. OpExclusive'
  <2>1. /\ io_op_pool' \subseteq io_op_pool \cup {o}
        /\ io_op_pool' \subseteq Ops
        /\ \A p \in Ops \ {o} : op'[p] = op[p]
    BY <1>1, <1>3, FreeFacts DEF HandlerInv, HandlerTypeOK, UringTypeOK
  <2>2. /\ \A p \in io_op_pool' : p \notin inflight' /\ p # hand'
        /\ \A p \in Ops : p = hand' /\ ~op'[p].is_multi => p \notin inflight'
    BY <1>2, <1>3, <2>1 DEF HandlerInv, OpExclusive
  <2>3. ASSUME NEW i \in CqIndex'
        PROVE  /\ cq'[i].op \notin io_op_pool'
               /\ ~op'[cq'[i].op].is_multi => cq'[i].op # hand' /\ ~cq'[i].more
               /\ ~cq'[i].more => cq'[i].op \notin inflight'
               /\ ~cq'[i].more => \A j \in CqIndex' : cq'[j].op = cq'[i].op => j <= i
    BY <1>1, <1>2, <1>3, <2>1, SeenRest
  <2> QED
    BY <2>2, <2>3 DEF OpExclusive
<1>6. BufExclusive'
  BY <1>1, <1>3, SeenRest, FreeKeepsBuffers DEF BufExclusive
<1>7. Bookkeeping'
  <2>1. ASSUME NEW i \in CqIndex'
        PROVE  /\ cq'[i].buf = NO_BUF => ~cq'[i].more
               /\ cq'[i].buf # NO_BUF => op'[cq'[i].op].is_multi
    BY <1>1, <1>3, SeenRest, FreeFacts
  <2> QED
    BY <1>1, <1>2, <1>3, <2>1, FreeKeepsBuffers DEF HandlerInv, Bookkeeping
<1> QED
  BY <1>4, <1>5, <1>6, <1>7 DEF HandlerInv

(* A read is finished and replaced by a new one, with a new buffer.        *)
LEMMA WaitReadStep ==
  ASSUME HandlerInv, WaitRead
  PROVE  HandlerInv'
<1> DEFINE o == cqe.op
           R == [op[o] EXCEPT !.data_len = DataLen]
<1>1. Completion /\ IsRecv(o) /\ ~op[o].is_multi
  BY DEF WaitRead
<1>2. PICK n \in Pick(io_op_pool), b \in Pick(buf_addr_pool) :
        /\ io_op_pool' = io_op_pool \ {n}
        /\ buf_addr_pool' = buf_addr_pool \ {b}
        /\ op' = [op EXCEPT ![n] = SingleOp(op[o].op_type, op[o].fd, b), ![o] = R]
        /\ inflight' = inflight \cup {n}
  BY DEF WaitRead
<1> DEFINE N == SingleOp(op[o].op_type, op[o].fd, b)
<1>3. /\ UNCHANGED <<br, mem, arrived, out, ret>>
      /\ pc = "wait" /\ pc' = "handle" /\ hand' = o
  BY DEF WaitRead, Return, dataVars, Completion
<1>4. /\ o \in Ops /\ o \notin io_op_pool /\ o \notin inflight /\ op[o] \in OpRecord
      /\ \A i \in CqIndex' : cq'[i].op # o
  BY <1>1, SeenEntry
<1>5. /\ n \in io_op_pool /\ n \in Ops /\ n # o /\ n \notin inflight
      /\ b \in buf_addr_pool /\ b \in BufAddrs /\ op \in [Ops -> OpRecord]
      /\ \A i \in CqIndex' : cq'[i].op # n
  BY <1>1, <1>4, PickFacts, SeenRest DEF HandlerInv, HandlerTypeOK, UringTypeOK, OpExclusive
<1>6. /\ op[o].op_type \in OpTypes /\ op[o].fd \in Fds
      /\ op[o].op_type # "NONE" /\ op[o].fd # NULL
  BY <1>1, <1>4 DEF HandlerInv, Bookkeeping, OpRecord, IsRecv, OpTypes
<1>7. /\ R \in OpRecord /\ ~R.is_multi /\ R.op_type = op[o].op_type /\ R.fd = op[o].fd
      /\ R.buf_addr = op[o].buf_addr /\ R.buf_idx = op[o].buf_idx
  <2> HIDE DEF o
  <2>1. DataLen \in {0, 1}
    BY DEF DataLen
  <2>2. R \in OpRecord
    BY <1>4, <2>1, RecordTypes
  <2> QED
    BY <1>1, <1>4, <2>2, MovedFields
<1>8. /\ N \in OpRecord /\ ~N.is_multi /\ N.op_type = op[o].op_type /\ N.fd = op[o].fd
      /\ N.buf_addr = b /\ N.buf_idx = NO_BUF
  <2> HIDE DEF o
  <2>1. N \in OpRecord
    BY <1>5, <1>6, RecordTypes
  <2> QED
    BY <2>1, Fields
<1>9. /\ op' \in [Ops -> OpRecord] /\ op'[o] = R /\ op'[n] = N
      /\ \A p \in Ops \ {o, n} : op'[p] = op[p]
  BY <1>2, <1>4, <1>5, <1>7, <1>8
<1> HIDE DEF o, R, N
<1>10. HandlerTypeOK'
  BY <1>1, <1>2, <1>3, <1>4, <1>5, <1>9, SeenEntry DEF HandlerInv, HandlerTypeOK, UringTypeOK
<1>11. OpExclusive'
  <2>1. /\ \A p \in io_op_pool' : p \notin inflight' /\ p # hand'
        /\ \A p \in Ops : p = hand' /\ ~op'[p].is_multi => p \notin inflight'
    BY <1>2, <1>3, <1>4, <1>5 DEF HandlerInv, OpExclusive
  <2>2. ASSUME NEW i \in CqIndex'
        PROVE  /\ cq'[i].op \notin io_op_pool'
               /\ ~op'[cq'[i].op].is_multi => cq'[i].op # hand' /\ ~cq'[i].more
               /\ ~cq'[i].more => cq'[i].op \notin inflight'
               /\ ~cq'[i].more => \A j \in CqIndex' : cq'[j].op = cq'[i].op => j <= i
    BY <1>1, <1>2, <1>3, <1>4, <1>5, <1>9, SeenRest
  <2> QED
    BY <2>1, <2>2 DEF OpExclusive
<1>12. BufExclusive'
  <2>1. NO_BUF \notin RingBufs /\ NO_BUF \notin br /\ NULL \notin BufAddrs
    BY UringAssumption DEF NO_BUF, RingBufs, Buffers, HandlerInv, HandlerTypeOK, UringTypeOK
  <2>2. \A p \in Ops :
          /\ op'[p].buf_addr \notin buf_addr_pool'
          /\ op'[p].buf_idx \notin br'
          /\ op'[p].buf_addr # NULL => op'[p].buf_idx = NO_BUF
    BY <1>2, <1>3, <1>7, <1>8, <1>9, <2>1 DEF HandlerInv, BufExclusive
  <2>3. \A p \in Ops \ {n} : op'[p].buf_addr = op[p].buf_addr /\ op'[p].buf_idx = op[p].buf_idx
    BY <1>7, <1>9
  <2>4. \A p \in Ops : op[p].buf_addr # b
    BY <1>5 DEF HandlerInv, BufExclusive
  <2>5. \A p, q \in Ops : p # q =>
          /\ op'[p].buf_addr = op'[q].buf_addr => op'[p].buf_addr = NULL
          /\ op'[p].buf_idx = op'[q].buf_idx => op'[p].buf_idx \notin RingBufs
    BY <1>8, <1>9, <2>1, <2>3, <2>4 DEF HandlerInv, BufExclusive
  <2>6. ASSUME NEW i \in CqIndex'
        PROVE  /\ cq'[i].buf \notin br'
               /\ \A p \in Ops : cq'[i].buf = op'[p].buf_idx => cq'[i].buf = NO_BUF
               /\ \A j \in CqIndex' :
                    cq'[i].buf = cq'[j].buf => i = j \/ cq'[i].buf = NO_BUF
    <3>1. /\ cq'[i].buf \notin br
          /\ \A p \in Ops : cq'[i].buf = op[p].buf_idx => cq'[i].buf = NO_BUF
          /\ \A j \in CqIndex' :
               cq'[i].buf = cq'[j].buf => i = j \/ cq'[i].buf = NO_BUF
      BY <1>1, SeenRest
    <3>2. ASSUME NEW p \in Ops, cq'[i].buf = op'[p].buf_idx
          PROVE  cq'[i].buf = NO_BUF
      <4>1. CASE p = n
        BY <1>8, <1>9, <3>2, <4>1
      <4>2. CASE p # n
        BY <2>3, <3>1, <3>2, <4>2
      <4> QED
        BY <4>1, <4>2
    <3> QED
      BY <1>3, <3>1, <3>2
  <2> QED
    BY <2>2, <2>5, <2>6 DEF BufExclusive
<1>13. Bookkeeping'
  <2>1. /\ \A p \in io_op_pool' : op'[p] = Zeroed
        /\ \A p \in Ops : op'[p].op_type # "NONE" => op'[p].fd # NULL
        /\ \A p \in Ops : op'[p].is_multi =>
             op'[p].op_type = "UDP_RECV" /\ op'[p].buf_addr = NULL
    BY <1>2, <1>4, <1>6, <1>7, <1>8, <1>9 DEF HandlerInv, HandlerTypeOK, UringTypeOK, Bookkeeping
  <2>2. ASSUME NEW i \in CqIndex'
        PROVE  /\ cq'[i].buf = NO_BUF => ~cq'[i].more
               /\ cq'[i].buf # NO_BUF => op'[cq'[i].op].is_multi
    BY <1>1, <1>4, <1>5, <1>9, SeenRest
  <2> QED
    BY <1>3, <1>7, <1>9, <2>1, <2>2 DEF HandlerInv, Bookkeeping
<1> QED
  BY <1>10, <1>11, <1>12, <1>13 DEF HandlerInv

(* The new read cannot be submitted: it is lost with its buffer, and the   *)
(* finished one is freed.                                                  *)
LEMMA WaitReadFailedStep ==
  ASSUME HandlerInv, WaitReadFailed
  PROVE  HandlerInv'
<1> DEFINE o == cqe.op
<1>1. Completion /\ IsRecv(o) /\ ~op[o].is_multi
  BY DEF WaitReadFailed
<1>2. PICK n \in Pick(io_op_pool), b \in Pick(buf_addr_pool) :
        /\ io_op_pool' = (io_op_pool \ {n}) \cup {o}
        /\ buf_addr_pool' = (buf_addr_pool \ {b}) \cup ({op[o].buf_addr} \ {NULL})
        /\ op' = [op EXCEPT ![n] = SingleOp(op[o].op_type, op[o].fd, b), ![o] = Zeroed]
  BY DEF WaitReadFailed
<1> DEFINE N == SingleOp(op[o].op_type, op[o].fd, b)
<1>3. /\ UNCHANGED <<br, inflight, mem, arrived, out, ret>>
      /\ pc = "wait" /\ pc' = "handle" /\ hand' = NULL /\ NULL \notin Ops
  BY UringAssumption DEF WaitReadFailed, Return, dataVars, Completion
<1>4. /\ o \in Ops /\ o \notin io_op_pool /\ o \notin inflight /\ op[o] \in OpRecord
      /\ \A i \in CqIndex' : cq'[i].op # o
  BY <1>1, SeenEntry
<1>5. /\ n \in io_op_pool /\ n \in Ops /\ n # o /\ n \notin inflight
      /\ b \in buf_addr_pool /\ b \in BufAddrs /\ op \in [Ops -> OpRecord]
      /\ \A i \in CqIndex' : cq'[i].op # n
  BY <1>1, <1>4, PickFacts, SeenRest DEF HandlerInv, HandlerTypeOK, UringTypeOK, OpExclusive
<1>6. /\ op[o].op_type \in OpTypes /\ op[o].fd \in Fds
      /\ op[o].op_type # "NONE" /\ op[o].fd # NULL
      /\ op[o].buf_addr \in BufAddrs \cup {NULL}
  BY <1>1, <1>4 DEF HandlerInv, Bookkeeping, OpRecord, IsRecv, OpTypes
<1>7. /\ Zeroed \in OpRecord /\ ~Zeroed.is_multi /\ Zeroed.op_type = "NONE"
      /\ Zeroed.buf_addr = NULL /\ Zeroed.buf_idx = NO_BUF
  BY RecordTypes, Fields
<1>8. /\ N \in OpRecord /\ ~N.is_multi /\ N.op_type = op[o].op_type /\ N.fd = op[o].fd
      /\ N.buf_addr = b /\ N.buf_idx = NO_BUF
  <2> HIDE DEF o
  <2>1. N \in OpRecord
    BY <1>5, <1>6, RecordTypes
  <2> QED
    BY <2>1, Fields
<1>9. /\ op' \in [Ops -> OpRecord] /\ op'[o] = Zeroed /\ op'[n] = N
      /\ \A p \in Ops \ {o, n} : op'[p] = op[p]
  BY <1>2, <1>4, <1>5, <1>7, <1>8
<1> HIDE DEF o, N
<1>10. HandlerTypeOK'
  BY <1>1, <1>2, <1>3, <1>4, <1>6, <1>9, SeenEntry DEF HandlerInv, HandlerTypeOK, UringTypeOK
<1>11. OpExclusive'
  <2>1. /\ \A p \in io_op_pool' : p \notin inflight' /\ p # hand'
        /\ \A p \in Ops : p = hand' /\ ~op'[p].is_multi => p \notin inflight'
    BY <1>2, <1>3, <1>4 DEF HandlerInv, HandlerTypeOK, UringTypeOK, OpExclusive
  <2>2. ASSUME NEW i \in CqIndex'
        PROVE  /\ cq'[i].op \notin io_op_pool'
               /\ ~op'[cq'[i].op].is_multi => cq'[i].op # hand' /\ ~cq'[i].more
               /\ ~cq'[i].more => cq'[i].op \notin inflight'
               /\ ~cq'[i].more => \A j \in CqIndex' : cq'[j].op = cq'[i].op => j <= i
    BY <1>1, <1>2, <1>3, <1>4, <1>5, <1>9, SeenRest
  <2> QED
    BY <2>1, <2>2 DEF OpExclusive
<1>12. BufExclusive'
  <2>1. NO_BUF \notin RingBufs /\ NO_BUF \notin br /\ NULL \notin BufAddrs
    BY UringAssumption DEF NO_BUF, RingBufs, Buffers, HandlerInv, HandlerTypeOK, UringTypeOK
  <2>2. /\ \A p \in Ops : op[p].buf_addr # b
        /\ NULL \notin buf_addr_pool
    BY <1>5, <2>1 DEF HandlerInv, HandlerTypeOK, UringTypeOK, BufExclusive
  <2>3. \A p \in Ops :
          /\ op'[p].buf_addr \notin buf_addr_pool'
          /\ op'[p].buf_idx \notin br'
          /\ op'[p].buf_addr # NULL => op'[p].buf_idx = NO_BUF
    BY <1>2, <1>3, <1>4, <1>7, <1>8, <1>9, <2>1, <2>2 DEF HandlerInv, BufExclusive
  <2>4. \A p, q \in Ops : p # q =>
          /\ op'[p].buf_addr = op'[q].buf_addr => op'[p].buf_addr = NULL
          /\ op'[p].buf_idx = op'[q].buf_idx => op'[p].buf_idx \notin RingBufs
    BY <1>7, <1>8, <1>9, <2>1, <2>2 DEF HandlerInv, BufExclusive
  <2>5. ASSUME NEW i \in CqIndex'
        PROVE  /\ cq'[i].buf \notin br'
               /\ \A p \in Ops : cq'[i].buf = op'[p].buf_idx => cq'[i].buf = NO_BUF
               /\ \A j \in CqIndex' :
                    cq'[i].buf = cq'[j].buf => i = j \/ cq'[i].buf = NO_BUF
    BY <1>1, <1>3, <1>7, <1>8, <1>9, SeenRest
  <2> QED
    BY <2>3, <2>4, <2>5 DEF BufExclusive
<1>13. Bookkeeping'
  <2>1. /\ \A p \in io_op_pool' : op'[p] = Zeroed
        /\ \A p \in Ops : op'[p].op_type # "NONE" => op'[p].fd # NULL
        /\ \A p \in Ops : op'[p].is_multi =>
             op'[p].op_type = "UDP_RECV" /\ op'[p].buf_addr = NULL
    <3>1. \A p \in io_op_pool' : op'[p] = Zeroed
      BY <1>2, <1>9 DEF HandlerInv, HandlerTypeOK, UringTypeOK, Bookkeeping
    <3>2. \A p \in Ops : op'[p].op_type # "NONE" => op'[p].fd # NULL
      BY <1>6, <1>7, <1>8, <1>9 DEF HandlerInv, Bookkeeping
    <3>3. \A p \in Ops : op'[p].is_multi =>
             op'[p].op_type = "UDP_RECV" /\ op'[p].buf_addr = NULL
      BY <1>7, <1>8, <1>9 DEF HandlerInv, Bookkeeping
    <3> QED
      BY <3>1, <3>2, <3>3
  <2>2. ASSUME NEW i \in CqIndex'
        PROVE  /\ cq'[i].buf = NO_BUF => ~cq'[i].more
               /\ cq'[i].buf # NO_BUF => op'[cq'[i].op].is_multi
    BY <1>1, <1>4, <1>5, <1>9, SeenRest
  <2> QED
    BY <1>3, <2>1, <2>2 DEF HandlerInv, Bookkeeping
<1> QED
  BY <1>10, <1>11, <1>12, <1>13 DEF HandlerInv

(* A round of wait_for_recv preserves the invariant.                       *)
LEMMA WaitStep == ASSUME HandlerInv, wait_for_recv PROVE HandlerInv'
<1>2. CASE WaitFailed
  BY <1>2, WaitFailedStep
<1>3. CASE WaitSent
  BY <1>3, WaitSentStep
<1>4. CASE WaitRecv
  BY <1>4, WaitRecvStep
<1>5. CASE WaitRecvFailed
  BY <1>5, WaitRecvFailedStep
<1>6. CASE WaitRecvNoBuf \/ WaitReadNoOp
  BY <1>6, WaitFreedStep
<1>7. CASE WaitRead
  BY <1>7, WaitReadStep
<1>8. CASE WaitReadFailed
  BY <1>8, WaitReadFailedStep
<1> QED
  BY <1>2, <1>3, <1>4, <1>5, <1>6, <1>7, <1>8 DEF wait_for_recv

-----------------------------------------------------------------------------
(***************************************************************************)
(* tun_to_udp and udp_to_tun.                                              *)
(***************************************************************************)

(* Passing the packet in hand on: the buffer of hand moves to the send, or *)
(* stays where it is, or is given back.                                    *)
LEMMA ForwardStep ==
  ASSUME HandlerInv, pc = "handle", hand # NULL,
         NEW type \in {"UDP_SEND", "TUN_WRITE"}, NEW fd \in Fds,
         NEW a \in {0, 1}, Forward(type, fd, a)
  PROVE  HandlerInv'
<1>1. Forward(type, fd, a)
  OBVIOUS
<1> DEFINE S == SendOp(type, fd, a)
           D == Disowned(op[hand])
<1>2. /\ UNCHANGED <<hand, cq, mem, arrived, out>> /\ pc' = "release"
      /\ CqIndex' = CqIndex
  BY <1>1 DEF Forward, dataVars, CqIndex
<1>3. /\ hand \in Ops /\ hand \notin io_op_pool /\ op[hand] \in OpRecord
      /\ op \in [Ops -> OpRecord] /\ type \in OpTypes
      /\ op[hand].is_multi => op[hand].buf_addr = NULL
      /\ op[hand].is_multi => op[hand].buf_idx # NO_BUF
      /\ op[hand].buf_addr \in BufAddrs \cup {NULL}
      /\ op[hand].buf_idx \in {DO_NOT_FREE, NO_BUF} \cup RingBufs
  BY DEF HandlerInv, HandlerTypeOK, UringTypeOK, OpExclusive, Bookkeeping, OpTypes, OpRecord
<1>4. /\ S \in OpRecord /\ ~S.is_multi /\ S.op_type = type /\ S.fd = fd
      /\ S.buf_addr = IF op[hand].is_multi THEN NULL ELSE op[hand].buf_addr
      /\ S.buf_idx = IF op[hand].is_multi THEN op[hand].buf_idx ELSE NO_BUF
  <2>1. S \in OpRecord
    BY <1>3, RecordTypes DEF SendOp
  <2> QED
    BY <1>3, <2>1, MovedFields DEF SendOp
<1>5. /\ D \in OpRecord /\ D.is_multi = op[hand].is_multi
      /\ D.op_type = op[hand].op_type /\ D.fd = op[hand].fd
      /\ D.buf_addr = NULL
      /\ D.buf_idx = IF op[hand].is_multi THEN DO_NOT_FREE ELSE op[hand].buf_idx
  <2>1. D \in OpRecord
    BY <1>3, RecordTypes
  <2> QED
    BY <1>3, <2>1, MovedFields
<1>6. /\ NULL \notin BufAddrs /\ NO_BUF \notin RingBufs /\ DO_NOT_FREE \notin RingBufs
      /\ NO_BUF # DO_NOT_FREE /\ fd # NULL /\ type # "NONE"
      /\ br \subseteq RingBufs /\ buf_addr_pool \subseteq BufAddrs
  BY UringAssumption DEF Buffers, NO_BUF, DO_NOT_FREE, RingBufs, HandlerInv, HandlerTypeOK, UringTypeOK
<1> HIDE DEF S, D
<1>7. CASE Forwarded(type, fd, a)
  <2>1. PICK s \in Pick(io_op_pool) :
          /\ io_op_pool' = io_op_pool \ {s}
          /\ op' = [op EXCEPT ![s] = S, ![hand] = D]
          /\ inflight' = inflight \cup {s}
    BY <1>7 DEF Forwarded, S, D
  <2>2. UNCHANGED <<buf_addr_pool, br>> /\ ret' = 0
    BY <1>7 DEF Forwarded
  <2>3. s \in io_op_pool /\ s \in Ops /\ s # hand /\ s \notin inflight
    BY <1>3, PickFacts DEF HandlerInv, HandlerTypeOK, UringTypeOK, OpExclusive
  <2>4. /\ op' \in [Ops -> OpRecord] /\ op'[s] = S /\ op'[hand] = D
        /\ \A p \in Ops \ {s, hand} : op'[p] = op[p]
        /\ op[s] = Zeroed /\ ~op[s].is_multi
        /\ \A p \in Ops : op'[p].is_multi = op[p].is_multi
    <3>1. op[s] = Zeroed /\ ~op[s].is_multi
      BY <2>3, Fields DEF HandlerInv, Bookkeeping
    <3>2. /\ op' \in [Ops -> OpRecord] /\ op'[s] = S /\ op'[hand] = D
          /\ \A p \in Ops \ {s, hand} : op'[p] = op[p]
      BY <1>3, <1>4, <1>5, <2>1, <2>3
    <3>3. ASSUME NEW p \in Ops PROVE op'[p].is_multi = op[p].is_multi
      <4>1. S.is_multi = FALSE /\ op[s].is_multi = FALSE
        BY <1>4, <2>3, <3>1 DEF OpRecord, HandlerInv, HandlerTypeOK, UringTypeOK
      <4> QED
        BY <1>5, <3>2, <4>1
    <3> QED
      BY <3>1, <3>2, <3>3
  <2>5. HandlerTypeOK'
    BY <1>2, <2>1, <2>2, <2>3, <2>4 DEF HandlerInv, HandlerTypeOK, UringTypeOK
  <2>6. OpExclusive'
    <3>1. /\ \A p \in io_op_pool' : p \notin inflight' /\ p # hand'
          /\ \A p \in Ops : p = hand' /\ ~op'[p].is_multi => p \notin inflight'
      BY <1>2, <1>3, <2>1, <2>3, <2>4 DEF HandlerInv, OpExclusive
    <3>2. ASSUME NEW i \in CqIndex'
          PROVE  /\ cq'[i].op \notin io_op_pool'
                 /\ ~op'[cq'[i].op].is_multi => cq'[i].op # hand' /\ ~cq'[i].more
                 /\ ~cq'[i].more => cq'[i].op \notin inflight'
                 /\ ~cq'[i].more => \A j \in CqIndex' : cq'[j].op = cq'[i].op => j <= i
      BY <1>2, <2>1, <2>3, <2>4, EntryTypes DEF HandlerInv, OpExclusive
    <3> QED
      BY <3>1, <3>2 DEF OpExclusive
  <2>7. BufExclusive'
    <3>1. \A p \in Ops :
            /\ op'[p].buf_addr \notin buf_addr_pool'
            /\ op'[p].buf_idx \notin br'
            /\ op'[p].buf_addr # NULL => op'[p].buf_idx = NO_BUF
      BY <1>3, <1>4, <1>5, <1>6, <2>2, <2>4 DEF HandlerInv, BufExclusive
    <3>2. \A p, q \in Ops : p # q =>
            /\ op'[p].buf_addr = op'[q].buf_addr => op'[p].buf_addr = NULL
            /\ op'[p].buf_idx = op'[q].buf_idx => op'[p].buf_idx \notin RingBufs
      BY <1>3, <1>4, <1>5, <1>6, <2>4 DEF HandlerInv, BufExclusive
    <3>3. \A i \in CqIndex' :
            /\ cq'[i].buf \notin br'
            /\ \A p \in Ops : cq'[i].buf = op'[p].buf_idx => cq'[i].buf = NO_BUF
            /\ \A j \in CqIndex' :
                 cq'[i].buf = cq'[j].buf => i = j \/ cq'[i].buf = NO_BUF
      <4>1. \A i \in CqIndex : cq[i].buf # DO_NOT_FREE
        BY EntryTypes DEF HandlerInv
      <4> QED
        BY <1>2, <1>3, <1>4, <1>5, <2>2, <2>4, <4>1 DEF HandlerInv, BufExclusive
    <3> QED
      BY <3>1, <3>2, <3>3 DEF BufExclusive
  <2>8. Bookkeeping'
    <3>1. /\ \A p \in io_op_pool' : op'[p] = Zeroed
          /\ \A p \in Ops : op'[p].op_type # "NONE" => op'[p].fd # NULL
          /\ \A p \in Ops : op'[p].is_multi =>
               op'[p].op_type = "UDP_RECV" /\ op'[p].buf_addr = NULL
      <4>1. \A p \in io_op_pool' : op'[p] = Zeroed
        BY <1>3, <2>1, <2>3, <2>4 DEF HandlerInv, HandlerTypeOK, UringTypeOK, OpExclusive, Bookkeeping
      <4>2. \A p \in Ops : op'[p].op_type # "NONE" => op'[p].fd # NULL
        BY <1>4, <1>5, <1>6, <2>4 DEF HandlerInv, Bookkeeping
      <4>3. \A p \in Ops : op'[p].is_multi =>
              op'[p].op_type = "UDP_RECV" /\ op'[p].buf_addr = NULL
        BY <1>3, <1>4, <1>5, <1>6, <2>4 DEF HandlerInv, Bookkeeping
      <4> QED
        BY <4>1, <4>2, <4>3
    <3>2. \A i \in CqIndex' :
            /\ cq'[i].buf = NO_BUF => ~cq'[i].more
            /\ cq'[i].buf # NO_BUF => op'[cq'[i].op].is_multi
      BY <1>2, <2>4, EntryTypes DEF HandlerInv, Bookkeeping
    <3>3. op'[hand'].is_multi => op'[hand'].buf_idx # NO_BUF
      BY <1>2, <1>5, <1>6, <2>4
    <3> QED
      BY <1>2, <3>1, <3>2, <3>3 DEF HandlerInv, Bookkeeping
  <2> QED
    BY <2>5, <2>6, <2>7, <2>8 DEF HandlerInv
<1>8. CASE ForwardNoOp
  <2>1. UNCHANGED <<io_op_pool, buf_addr_pool, br, op, inflight>> /\ ret' = -1
    BY <1>8 DEF ForwardNoOp, poolVars
  <2>2. HandlerTypeOK'
    BY <1>2, <2>1 DEF HandlerInv, HandlerTypeOK, UringTypeOK
  <2>3. OpExclusive' /\ BufExclusive'
    BY <1>2, <2>1 DEF HandlerInv, OpExclusive, BufExclusive
  <2>4. Bookkeeping'
    BY <1>2, <1>3, <2>1 DEF HandlerInv, Bookkeeping
  <2> QED
    BY <2>2, <2>3, <2>4 DEF HandlerInv
<1>9. CASE ForwardFailed(type, fd, a)
  <2>1. /\ buf_addr_pool' = buf_addr_pool \cup ({S.buf_addr} \ {NULL})
        /\ br' = br \cup (IF S.buf_addr = NULL THEN {S.buf_idx} \cap RingBufs ELSE {})
        /\ op' = [op EXCEPT ![hand] = D]
        /\ UNCHANGED <<io_op_pool, inflight>> /\ ret' = -1
    BY <1>9 DEF ForwardFailed, ReturnBuf, S, D
  <2>2. /\ op' \in [Ops -> OpRecord] /\ op'[hand] = D
        /\ \A p \in Ops \ {hand} : op'[p] = op[p]
        /\ \A p \in Ops : op'[p].is_multi = op[p].is_multi
    BY <1>3, <1>5, <2>1
  <2>3. /\ buf_addr_pool' \subseteq BufAddrs
        /\ buf_addr_pool' \subseteq buf_addr_pool \cup {op[hand].buf_addr}
        /\ br' \subseteq RingBufs
        /\ op[hand].is_multi => br' \subseteq br \cup {op[hand].buf_idx}
        /\ ~op[hand].is_multi => br' = br
    BY <1>3, <1>4, <1>6, <2>1
  <2>4. HandlerTypeOK'
    BY <1>2, <2>1, <2>2, <2>3 DEF HandlerInv, HandlerTypeOK, UringTypeOK
  <2>5. OpExclusive'
    <3>1. /\ \A p \in io_op_pool' : p \notin inflight' /\ p # hand'
          /\ \A p \in Ops : p = hand' /\ ~op'[p].is_multi => p \notin inflight'
      BY <1>2, <2>1, <2>2 DEF HandlerInv, OpExclusive
    <3>2. ASSUME NEW i \in CqIndex'
          PROVE  /\ cq'[i].op \notin io_op_pool'
                 /\ ~op'[cq'[i].op].is_multi => cq'[i].op # hand' /\ ~cq'[i].more
                 /\ ~cq'[i].more => cq'[i].op \notin inflight'
                 /\ ~cq'[i].more => \A j \in CqIndex' : cq'[j].op = cq'[i].op => j <= i
      BY <1>2, <2>1, <2>2, EntryTypes DEF HandlerInv, OpExclusive
    <3> QED
      BY <3>1, <3>2 DEF OpExclusive
  <2>6. BufExclusive'
    <3>1. \A p \in Ops :
            /\ op'[p].buf_addr \notin buf_addr_pool'
            /\ op'[p].buf_idx \notin br'
            /\ op'[p].buf_addr # NULL => op'[p].buf_idx = NO_BUF
      BY <1>3, <1>5, <1>6, <2>2, <2>3 DEF HandlerInv, BufExclusive
    <3>2. \A p, q \in Ops : p # q =>
            /\ op'[p].buf_addr = op'[q].buf_addr => op'[p].buf_addr = NULL
            /\ op'[p].buf_idx = op'[q].buf_idx => op'[p].buf_idx \notin RingBufs
      BY <1>3, <1>5, <1>6, <2>2 DEF HandlerInv, BufExclusive
    <3>3. \A i \in CqIndex' :
            /\ cq'[i].buf \notin br'
            /\ \A p \in Ops : cq'[i].buf = op'[p].buf_idx => cq'[i].buf = NO_BUF
            /\ \A j \in CqIndex' :
                 cq'[i].buf = cq'[j].buf => i = j \/ cq'[i].buf = NO_BUF
      <4>1. \A i \in CqIndex : cq[i].buf # DO_NOT_FREE
        BY EntryTypes DEF HandlerInv
      <4> QED
        BY <1>2, <1>3, <1>5, <1>6, <2>2, <2>3, <4>1 DEF HandlerInv, BufExclusive
    <3> QED
      BY <3>1, <3>2, <3>3 DEF BufExclusive
  <2>7. Bookkeeping'
    <3>1. /\ \A p \in io_op_pool' : op'[p] = Zeroed
          /\ \A p \in Ops : op'[p].op_type # "NONE" => op'[p].fd # NULL
          /\ \A p \in Ops : op'[p].is_multi =>
               op'[p].op_type = "UDP_RECV" /\ op'[p].buf_addr = NULL
      BY <1>3, <1>5, <2>1, <2>2 DEF HandlerInv, HandlerTypeOK, UringTypeOK, Bookkeeping
    <3>2. \A i \in CqIndex' :
            /\ cq'[i].buf = NO_BUF => ~cq'[i].more
            /\ cq'[i].buf # NO_BUF => op'[cq'[i].op].is_multi
      BY <1>2, <2>2, EntryTypes DEF HandlerInv, Bookkeeping
    <3>3. op'[hand'].is_multi => op'[hand'].buf_idx # NO_BUF
      BY <1>2, <1>5, <1>6, <2>2
    <3> QED
      BY <1>2, <3>1, <3>2, <3>3 DEF HandlerInv, Bookkeeping
  <2> QED
    BY <2>4, <2>5, <2>6, <2>7 DEF HandlerInv
<1> QED
  BY <1>1, <1>7, <1>8, <1>9 DEF Forward

-----------------------------------------------------------------------------
(***************************************************************************)
(* The other steps of the programs.                                        *)
(***************************************************************************)

(* After iouring_init every operation and every buffer is on its free list.*)
LEMMA InitHandlerInv ==
  ASSUME iouring_init, hand = NULL, ret = 0, pc # "release"
  PROVE  HandlerInv
<1> USE UringAssumption
  DEF iouring_init, iouring_alloc_io_op_pool, iouring_alloc_buf_addr_pool,
      iouring_alloc_multishot_buffers
<1>1. HandlerTypeOK
  BY RecordTypes DEF HandlerTypeOK, UringTypeOK
<1>2. OpExclusive
  BY DEF OpExclusive, CqIndex
<1>3. BufExclusive
  BY DEF BufExclusive, CqIndex, Zeroed, NO_BUF, RingBufs, Buffers
<1>4. Bookkeeping
  BY DEF Bookkeeping, CqIndex, Zeroed
<1> QED
  BY <1>1, <1>2, <1>3, <1>4 DEF HandlerInv

(* How a program may move on without freeing the operation in hand: it     *)
(* stays where it is, or drops the operation, or has handled a packet, or  *)
(* goes on with nothing or a multishot operation in hand.                  *)
Moves ==
  /\ \/ pc' = pc /\ hand' = hand
     \/ pc' # "release" /\ hand' = NULL
     \/ pc = "handle" /\ hand # NULL /\ pc' = "release" /\ hand' = hand
     \/ /\ pc \notin {"handle", "release"} \/ hand = NULL \/ op[hand].is_multi
        /\ pc' \notin {"handle", "release"} /\ hand' = hand
  /\ ret' \in {0, -1}

(* Moving on, stopping the kernel and emptying the pools keep the          *)
(* invariant.                                                              *)
LEMMA PlainStep ==
  ASSUME HandlerInv, Moves, UNCHANGED <<op, cq, dataVars>>,
         io_op_pool' \in {io_op_pool, {}}, buf_addr_pool' \in {buf_addr_pool, {}},
         br' \in {br, {}}, inflight' \in {inflight, {}}
  PROVE  HandlerInv'
<1>1. UNCHANGED <<op, cq, mem, arrived, out>> /\ CqIndex' = CqIndex
  BY DEF dataVars, CqIndex
<1>2. /\ hand' \in {hand, NULL} /\ hand \in Ops \cup {NULL} /\ NULL \notin Ops
      /\ io_op_pool \subseteq Ops
      /\ \A i \in CqIndex : cq[i].op \in Ops
  BY UringAssumption, EntryTypes DEF Moves, HandlerInv, HandlerTypeOK, UringTypeOK
<1>3. HandlerTypeOK'
  BY <1>1, <1>2 DEF Moves, HandlerInv, HandlerTypeOK, UringTypeOK
<1>4. OpExclusive'
  BY <1>1, <1>2 DEF HandlerInv, OpExclusive
<1>5. BufExclusive'
  BY <1>1 DEF HandlerInv, BufExclusive
<1>6. Bookkeeping'
  <2>1. /\ \A o \in io_op_pool' : op'[o] = Zeroed
        /\ \A o \in Ops : op'[o].op_type # "NONE" => op'[o].fd # NULL
        /\ \A o \in Ops : op'[o].is_multi =>
             op'[o].op_type = "UDP_RECV" /\ op'[o].buf_addr = NULL
        /\ \A i \in CqIndex' : cq'[i].buf = NO_BUF => ~cq'[i].more
        /\ \A i \in CqIndex' : cq'[i].buf # NO_BUF => op'[cq'[i].op].is_multi
    BY <1>1 DEF HandlerInv, Bookkeeping
  <2>2. /\ pc' \in {"handle", "release"} /\ hand' # NULL /\ op'[hand'].is_multi
             => op'[hand'].buf_idx # NO_BUF
        /\ pc' = "release" => hand' # NULL
        /\ pc' \notin {"handle", "release"} /\ hand' # NULL => op'[hand'].is_multi
    BY <1>1 DEF Moves, HandlerInv, Bookkeeping
  <2> QED
    BY <2>1, <2>2 DEF Bookkeeping
<1> QED
  BY <1>3, <1>4, <1>5, <1>6 DEF HandlerInv

(* iouring_initial_udp_recvs starts a request with a fresh multishot       *)
(* operation.                                                              *)
LEMMA InitialRecvStep ==
  ASSUME HandlerInv, NEW fd \in Fds, iouring_initial_udp_recvs(fd),
         pc \notin {"handle", "release"}, pc' \notin {"handle", "release"},
         UNCHANGED <<hand, ret>>
  PROVE  HandlerInv'
<1> DEFINE R == MultiOp("UDP_RECV", fd)
<1>1. PICK o \in Pick(io_op_pool) :
        /\ io_op_pool' = io_op_pool \ {o}
        /\ op' = [op EXCEPT ![o] = R]
        /\ inflight' = inflight \cup {o}
  BY DEF iouring_initial_udp_recvs
<1>2. /\ UNCHANGED <<buf_addr_pool, br, cq, mem, arrived, out>>
      /\ CqIndex' = CqIndex
  BY DEF iouring_initial_udp_recvs, dataVars, CqIndex
<1>3. /\ o \in io_op_pool /\ o \in Ops /\ op \in [Ops -> OpRecord]
      /\ o # hand /\ o \notin inflight /\ \A i \in CqIndex : cq[i].op # o
  BY PickFacts DEF HandlerInv, HandlerTypeOK, UringTypeOK, OpExclusive
<1>4. /\ R \in OpRecord /\ R.is_multi /\ R.op_type = "UDP_RECV" /\ R.fd = fd
      /\ R.buf_addr = NULL /\ R.buf_idx = NO_BUF
      /\ fd # NULL
  <2>1. fd \in Fds /\ fd # NULL
    BY UringAssumption
  <2> QED
    BY <2>1, RecordTypes, Fields
<1> HIDE DEF R
<1>5. /\ op' \in [Ops -> OpRecord] /\ op'[o] = R
      /\ \A p \in Ops \ {o} : op'[p] = op[p]
  BY <1>1, <1>3, <1>4
<1>6. NULL \notin BufAddrs /\ NO_BUF \notin RingBufs /\ br \subseteq RingBufs
      /\ buf_addr_pool \subseteq BufAddrs
  BY UringAssumption DEF Buffers, NO_BUF, RingBufs, HandlerInv, HandlerTypeOK, UringTypeOK
<1>7. HandlerTypeOK'
  BY <1>1, <1>2, <1>3, <1>5 DEF HandlerInv, HandlerTypeOK, UringTypeOK
<1>8. OpExclusive'
  <2>1. /\ \A p \in io_op_pool' : p \notin inflight' /\ p # hand'
        /\ \A p \in Ops : p = hand' /\ ~op'[p].is_multi => p \notin inflight'
    BY <1>1, <1>2, <1>3, <1>5 DEF HandlerInv, OpExclusive
  <2>2. ASSUME NEW i \in CqIndex'
        PROVE  /\ cq'[i].op \notin io_op_pool'
               /\ ~op'[cq'[i].op].is_multi => cq'[i].op # hand' /\ ~cq'[i].more
               /\ ~cq'[i].more => cq'[i].op \notin inflight'
               /\ ~cq'[i].more => \A j \in CqIndex' : cq'[j].op = cq'[i].op => j <= i
    BY <1>1, <1>2, <1>3, <1>5, EntryTypes DEF HandlerInv, OpExclusive
  <2> QED
    BY <2>1, <2>2 DEF OpExclusive
<1>9. BufExclusive'
  BY <1>2, <1>4, <1>5, <1>6 DEF HandlerInv, BufExclusive
<1>10. Bookkeeping'
  <2>1. /\ \A p \in io_op_pool' : op'[p] = Zeroed
        /\ \A p \in Ops : op'[p].op_type # "NONE" => op'[p].fd # NULL
        /\ \A p \in Ops : op'[p].is_multi =>
             op'[p].op_type = "UDP_RECV" /\ op'[p].buf_addr = NULL
    BY <1>1, <1>3, <1>4, <1>5 DEF HandlerInv, HandlerTypeOK, UringTypeOK, Bookkeeping
  <2>2. \A i \in CqIndex' :
          /\ cq'[i].buf = NO_BUF => ~cq'[i].more
          /\ cq'[i].buf # NO_BUF => op'[cq'[i].op].is_multi
    BY <1>2, <1>3, <1>5, EntryTypes DEF HandlerInv, Bookkeeping
  <2>3. hand' # NULL => op'[hand'].is_multi
    BY <1>2, <1>3, <1>5 DEF HandlerInv, Bookkeeping, HandlerTypeOK
  <2> QED
    BY <1>2, <2>1, <2>2, <2>3 DEF HandlerInv, Bookkeeping
<1> QED
  BY <1>7, <1>8, <1>9, <1>10 DEF HandlerInv

(* A request with a fresh operation that has a fresh buffer: a read of the *)
(* device, or a send that has a copy of the packet.                        *)
LEMMA NewRequestStep ==
  ASSUME HandlerInv, Moves,
         NEW o \in Pick(io_op_pool), NEW b \in Pick(buf_addr_pool),
         NEW R \in OpRecord, ~R.is_multi, R.op_type # "NONE", R.fd # NULL,
         R.buf_addr = b, R.buf_idx = NO_BUF,
         io_op_pool' = io_op_pool \ {o},
         buf_addr_pool' = buf_addr_pool \ {b},
         op' = [op EXCEPT ![o] = R],
         inflight' = inflight \cup {o},
         mem' \in [Buffers -> Payloads \cup {NULL}],
         UNCHANGED <<br, cq, arrived, out>>
  PROVE  HandlerInv'
<1>1. CqIndex' = CqIndex
  BY DEF CqIndex
<1>2. /\ hand' \in {hand, NULL} /\ hand \in Ops \cup {NULL} /\ NULL \notin Ops
      /\ ret' \in {0, -1}
  BY UringAssumption DEF Moves, HandlerInv, HandlerTypeOK
<1>3. /\ o \in io_op_pool /\ o \in Ops /\ op \in [Ops -> OpRecord]
      /\ o # hand /\ o \notin inflight /\ \A i \in CqIndex : cq[i].op # o
      /\ b \in buf_addr_pool /\ b \in BufAddrs
  BY PickFacts DEF HandlerInv, HandlerTypeOK, UringTypeOK, OpExclusive
<1>4. \A i \in CqIndex : cq[i].op \in Ops
  BY EntryTypes DEF HandlerInv
<1>5. /\ op' \in [Ops -> OpRecord] /\ op'[o] = R
      /\ \A p \in Ops \ {o} : op'[p] = op[p]
  BY <1>3
<1>6. NULL \notin BufAddrs /\ NO_BUF \notin RingBufs /\ br \subseteq RingBufs
      /\ buf_addr_pool \subseteq BufAddrs
  BY UringAssumption DEF Buffers, NO_BUF, RingBufs, HandlerInv, HandlerTypeOK, UringTypeOK
<1>7. HandlerTypeOK'
  BY <1>2, <1>3, <1>5 DEF HandlerInv, HandlerTypeOK, UringTypeOK
<1>8. OpExclusive'
  <2>1. /\ \A p \in io_op_pool' : p \notin inflight' /\ p # hand'
        /\ \A p \in Ops : p = hand' /\ ~op'[p].is_multi => p \notin inflight'
    BY <1>2, <1>3, <1>5 DEF HandlerInv, OpExclusive, HandlerTypeOK, UringTypeOK
  <2>2. ASSUME NEW i \in CqIndex'
        PROVE  /\ cq'[i].op \notin io_op_pool'
               /\ ~op'[cq'[i].op].is_multi => cq'[i].op # hand' /\ ~cq'[i].more
               /\ ~cq'[i].more => cq'[i].op \notin inflight'
               /\ ~cq'[i].more => \A j \in CqIndex' : cq'[j].op = cq'[i].op => j <= i
    BY <1>1, <1>2, <1>3, <1>4, <1>5 DEF HandlerInv, OpExclusive
  <2> QED
    BY <2>1, <2>2 DEF OpExclusive
<1>9. BufExclusive'
  <2>1. \A p \in Ops : op[p].buf_addr # b
    BY <1>3 DEF HandlerInv, BufExclusive
  <2> QED
    BY <1>1, <1>3, <1>5, <1>6, <2>1 DEF HandlerInv, BufExclusive
<1>10. Bookkeeping'
  <2>1. /\ \A p \in io_op_pool' : op'[p] = Zeroed
        /\ \A p \in Ops : op'[p].op_type # "NONE" => op'[p].fd # NULL
        /\ \A p \in Ops : op'[p].is_multi =>
             op'[p].op_type = "UDP_RECV" /\ op'[p].buf_addr = NULL
    BY <1>3, <1>5 DEF HandlerInv, HandlerTypeOK, UringTypeOK, Bookkeeping
  <2>2. \A i \in CqIndex' :
          /\ cq'[i].buf = NO_BUF => ~cq'[i].more
          /\ cq'[i].buf # NO_BUF => op'[cq'[i].op].is_multi
    BY <1>1, <1>3, <1>4, <1>5 DEF HandlerInv, Bookkeeping
  <2>3. hand # NULL => op'[hand] = op[hand]
    BY <1>2, <1>3, <1>5
  <2>4. /\ pc' \in {"handle", "release"} /\ hand' # NULL /\ op'[hand'].is_multi
             => op'[hand'].buf_idx # NO_BUF
        /\ pc' = "release" => hand' # NULL
        /\ pc' \notin {"handle", "release"} /\ hand' # NULL => op'[hand'].is_multi
    BY <2>3 DEF Moves, HandlerInv, Bookkeeping
  <2> QED
    BY <2>1, <2>2, <2>4 DEF Bookkeeping
<1> QED
  BY <1>7, <1>8, <1>9, <1>10 DEF HandlerInv

(* io_op_free of the packet in hand, when it has been handled.             *)
LEMMA FreeHandStep ==
  ASSUME HandlerInv, pc \in {"handle", "release"}, hand # NULL,
         io_op_free(hand), hand' = PointerAfterFree(hand),
         pc' \notin {"handle", "release"},
         UNCHANGED <<kernelVars, dataVars, ret>>
  PROVE  HandlerInv'
<1>1. /\ io_op_free(hand) /\ hand' = PointerAfterFree(hand)
      /\ UNCHANGED <<inflight, cq, mem, arrived, out, ret>> /\ CqIndex' = CqIndex
  BY DEF kernelVars, dataVars, CqIndex
<1>2. /\ hand \in Ops /\ hand \notin io_op_pool /\ NULL \notin Ops
      /\ op[hand].is_multi => op[hand].buf_idx # NO_BUF
  BY <1>1, UringAssumption DEF HandlerInv, HandlerTypeOK, UringTypeOK, OpExclusive, Bookkeeping
<1>3. /\ \A p \in Ops \ {hand} : op'[p] = op[p]
      /\ \/ io_op_pool' = io_op_pool \cup {hand} /\ hand' = NULL /\ ~op[hand].is_multi
         \/ /\ io_op_pool' = io_op_pool /\ hand' = hand
            /\ op[hand].is_multi /\ op'[hand].is_multi
  <2>1. op[hand] \in OpRecord
    BY <1>2 DEF HandlerInv, HandlerTypeOK, UringTypeOK
  <2>2. op[hand].is_multi => Recycled(op[hand]).is_multi
    BY <2>1, MovedFields
  <2> QED
    BY <1>1, <1>2, <2>2, FreeFacts DEF PointerAfterFree
<1>4. HandlerTypeOK'
  BY <1>1, <1>2, <1>3, FreeFacts DEF HandlerInv, HandlerTypeOK, UringTypeOK
<1>5. OpExclusive'
  <2>1. ~op[hand].is_multi => hand \notin inflight /\ \A i \in CqIndex : cq[i].op # hand
    BY <1>2 DEF HandlerInv, OpExclusive
  <2>2. /\ \A p \in io_op_pool' : p \notin inflight' /\ p # hand'
        /\ \A p \in Ops : p = hand' /\ ~op'[p].is_multi => p \notin inflight'
    BY <1>1, <1>2, <1>3, <2>1 DEF HandlerInv, OpExclusive, HandlerTypeOK, UringTypeOK
  <2>3. ASSUME NEW i \in CqIndex'
        PROVE  /\ cq'[i].op \notin io_op_pool'
               /\ ~op'[cq'[i].op].is_multi => cq'[i].op # hand' /\ ~cq'[i].more
               /\ ~cq'[i].more => cq'[i].op \notin inflight'
               /\ ~cq'[i].more => \A j \in CqIndex' : cq'[j].op = cq'[i].op => j <= i
    BY <1>1, <1>2, <1>3, <2>1, EntryTypes DEF HandlerInv, OpExclusive
  <2> QED
    BY <2>2, <2>3 DEF OpExclusive
<1>6. BufExclusive'
  <2>1. ASSUME NEW i \in CqIndex
        PROVE  cq[i].buf \notin br' /\ \A p \in Ops : cq[i].buf = op'[p].buf_idx => cq[i].buf = NO_BUF
    BY <1>1, <1>2, EntryTypes, FreeKeepsBuffers DEF HandlerInv, BufExclusive
  <2> QED
    BY <1>1, <1>2, <2>1, FreeKeepsBuffers DEF HandlerInv, BufExclusive
<1>7. Bookkeeping'
  <2>1. \A i \in CqIndex' :
          /\ cq'[i].buf = NO_BUF => ~cq'[i].more
          /\ cq'[i].buf # NO_BUF => op'[cq'[i].op].is_multi
    <3>1. ~op[hand].is_multi => \A i \in CqIndex : cq[i].op # hand
      BY <1>2 DEF HandlerInv, OpExclusive
    <3> QED
      BY <1>1, <1>3, <3>1, EntryTypes DEF HandlerInv, Bookkeeping
  <2>2. hand' # NULL => op'[hand'].is_multi
    BY <1>3
  <2> QED
    BY <1>1, <1>2, <2>1, <2>2, FreeKeepsBuffers DEF HandlerInv, Bookkeeping
<1> QED
  BY <1>4, <1>5, <1>6, <1>7 DEF HandlerInv
=============================================================================
