--------------------------- MODULE CustodyProofs ---------------------------
(***************************************************************************)
(* What the steps of module PacketHandler do to the packets: each stays in *)
(* one buffer, unharmed, until it leaves, and then it leaves once.         *)
(***************************************************************************)
EXTENDS LossProofs

(* The parts of a payload.                                                 *)
LEMMA PayloadFacts ==
  /\ \A p \in Payloads :
       /\ p[1] \in Fds /\ p[2] \in 0 .. MaxPkts /\ p[2] \in Nat
       /\ p[3] \in {"raw", "converted"} /\ p = <<p[1], p[2], p[3]>>
  /\ \A f \in Fds, n \in 0 .. MaxPkts, form \in {"raw", "converted"} :
       <<f, n, form>> \in Payloads
  BY UringAssumption DEF Payloads

-----------------------------------------------------------------------------
(***************************************************************************)
(* A packet that is under way has a buffer of its own.                     *)
(***************************************************************************)

(* Whoever works on a packet owns the buffer it is in.                     *)
LEMMA UsersOwn ==
  ASSUME HandlerInv
  PROVE  Sends \cup ReadsDone \cup InHand \subseteq Owners /\ Owners \subseteq Ops
<1>1. inflight \subseteq Ops
  BY DEF HandlerInv, HandlerTypeOK, UringTypeOK
<1>2. Sends \subseteq Owners
  BY <1>1 DEF Sends, Owners, IsSend, HandlerInv, OpExclusive, Bookkeeping
<1>3. ReadsDone \subseteq Owners
  BY DEF ReadsDone, Owners, IsRecv, HandlerInv, OpExclusive
<1> QED
  BY <1>2, <1>3 DEF Owners, InHand

(* The buffer of an owner is not free, and nobody else uses it.            *)
LEMMA Apart ==
  ASSUME HandlerInv, Owning, NEW o \in Owners
  PROVE  /\ op[o].buffer \in Buffers
         /\ op[o].buffer \notin br /\ op[o].buffer \notin buf_addr_pool
         /\ \A p \in Owners : op[p].buffer = op[o].buffer => p = o
         /\ \A i \in CqIndex : cq[i].buf # NO_BUF => cq[i].buf # op[o].buffer
<1>1. Owners \subseteq Ops
  BY UsersOwn
<1>2. /\ \A p \in Ops : op[p] \in OpRecord /\ op[p].buf_addr \in BufAddrs \cup {NULL}
      /\ br \subseteq RingBufs /\ buf_addr_pool \subseteq BufAddrs
      /\ \A i \in CqIndex : cq[i].buf \in {NO_BUF} \cup RingBufs
  BY EntryTypes DEF HandlerInv, HandlerTypeOK, UringTypeOK, OpRecord
<1>3. \A p \in Owners :
        \/ op[p].buffer \in BufAddrs /\ op[p].buffer = op[p].buf_addr
        \/ op[p].buffer \in RingBufs /\ op[p].buffer = op[p].buf_idx
  BY <1>1, <1>2 DEF Owning
<1>4. op[o].buffer \notin br /\ op[o].buffer \notin buf_addr_pool
  BY <1>1, <1>2, <1>3, Distinct DEF HandlerInv, BufExclusive
<1>5. ASSUME NEW p \in Owners, op[p].buffer = op[o].buffer PROVE p = o
  BY <1>1, <1>3, <1>5, Distinct DEF HandlerInv, BufExclusive
<1>6. ASSUME NEW i \in CqIndex, cq[i].buf # NO_BUF PROVE cq[i].buf # op[o].buffer
  BY <1>1, <1>2, <1>3, <1>6, Distinct DEF HandlerInv, BufExclusive
<1> QED
  BY <1>3, <1>4, <1>5, <1>6 DEF Buffers

(* Nor is any other buffer with a packet in it free.                       *)
LEMMA UnderWayFacts ==
  ASSUME HandlerInv, NEW form, Custody(form), NEW b \in UnderWay
  PROVE  /\ b \in Buffers /\ b \notin br /\ b \notin buf_addr_pool
         /\ mem[b] \in Payloads
<1>1. CASE \E o \in Sends \cup ReadsDone \cup InHand : b = op[o].buffer
  <2>1. PICK o \in Sends \cup ReadsDone \cup InHand : b = op[o].buffer
    BY <1>1
  <2>2. mem[b] \in Payloads
    BY <2>1 DEF Custody, Receiving, Sending, CameFrom, GoesTo
  <2> QED
    BY <2>1, <2>2, UsersOwn, Apart DEF Custody
<1>2. CASE \E i \in CqIndex : b = cq[i].buf /\ b # NO_BUF
  <2>1. PICK i \in CqIndex : b = cq[i].buf /\ b # NO_BUF
    BY <1>2
  <2>2. b \in RingBufs /\ b \notin br /\ buf_addr_pool \subseteq BufAddrs
    BY <2>1, EntryTypes DEF HandlerInv, HandlerTypeOK, UringTypeOK, BufExclusive
  <2>3. mem[b] \in Payloads
    BY <2>1 DEF Custody, Receiving, CameFrom
  <2> QED
    BY <2>2, <2>3, Distinct DEF Buffers
<1> QED
  BY <1>1, <1>2 DEF UnderWay

-----------------------------------------------------------------------------
(***************************************************************************)
(* Steps that touch no data.                                               *)
(***************************************************************************)

(* What is neither under way nor has left does not come back.              *)
Lasting == Finished \subseteq Finished'

(* A step that leaves all packets where they are, and at most lets go of   *)
(* some, takes a packet from the completion queue in hand, or passes the   *)
(* one in hand on, raw and to another descriptor.                          *)
LEMMA PassingOn ==
  ASSUME NEW form, Custody(form), UNCHANGED dataVars, Owning',
         \A o \in Sends' :
           \/ o \in Sends /\ op'[o].buffer = op[o].buffer /\ op'[o].fd = op[o].fd
           \/ /\ form = "raw"
              /\ \E h \in InHand : op'[o].buffer = op[h].buffer /\ op'[o].fd # op[h].fd,
         \A o \in ReadsDone' \cup InHand' :
           \/ /\ o \in ReadsDone \cup InHand
              /\ op'[o].buffer = op[o].buffer /\ op'[o].fd = op[o].fd
           \/ \E i \in CqIndex : /\ cq[i].buf # NO_BUF /\ op'[o].buffer = cq[i].buf
                                 /\ op'[o].fd = op[cq[i].op].fd,
         \A i \in CqIndex' : cq'[i].buf # NO_BUF =>
           \E j \in CqIndex : /\ cq[j].buf = cq'[i].buf
                              /\ op[cq[j].op].fd = op'[cq'[i].op].fd
  PROVE  Custody(form)' /\ Lasting
<1>1. UNCHANGED <<mem, arrived, out>>
  BY DEF dataVars
<1>2. UnderWay' \subseteq UnderWay
  <2> SUFFICES ASSUME NEW b \in UnderWay' PROVE b \in UnderWay
    OBVIOUS
  <2>1. CASE \E o \in Sends' \cup ReadsDone' \cup InHand' : b = op'[o].buffer
    BY <2>1 DEF UnderWay
  <2>2. CASE \E i \in CqIndex' : b = cq'[i].buf /\ b # NO_BUF
    BY <2>2 DEF UnderWay
  <2> QED
    BY <2>1, <2>2 DEF UnderWay
<1>3. Receiving'
  BY <1>1 DEF Custody, Receiving, CameFrom
<1>4. Sending(form)'
  <2>1. ASSUME NEW o \in Sends' PROVE GoesTo(op'[o].fd, mem[op'[o].buffer], form)
    <3>1. CASE o \in Sends /\ op'[o].buffer = op[o].buffer /\ op'[o].fd = op[o].fd
      BY <3>1 DEF Custody, Sending
    <3>2. CASE /\ form = "raw"
               /\ \E h \in InHand : op'[o].buffer = op[h].buffer /\ op'[o].fd # op[h].fd
      BY <3>2 DEF Custody, Receiving, CameFrom, GoesTo
    <3> QED
      BY <2>1, <3>1, <3>2
  <2> QED
    BY <1>1, <2>1 DEF Custody, Sending, GoesTo
<1>5. Once'
  BY <1>1, <1>2 DEF Custody, Once, Arrived
<1>6. Lasting
  BY <1>1, <1>2 DEF Lasting, Finished, Arrived, SamePacket
<1> QED
  BY <1>3, <1>4, <1>5, <1>6 DEF Custody

(* The packet in hand.                                                     *)
InHandNow == <<mem[op[hand].buffer][1], mem[op[hand].buffer][2]>>

LEMMA InHandFacts ==
  ASSUME HandlerInv, NEW form, Custody(form), pc = "handle", hand # NULL
  PROVE  /\ hand \in InHand /\ op[hand].buffer \in UnderWay
         /\ InHandNow \in Fds \X (1 .. MaxPkts) /\ Arrived(InHandNow)
         /\ SamePacket(mem[op[hand].buffer], InHandNow)
         /\ InHandNow \notin Finished
<1>1. hand \in InHand /\ op[hand].buffer \in UnderWay
  BY DEF HandlerInv, HandlerTypeOK, InHand, UnderWay
<1>2. CameFrom(op[hand].fd, mem[op[hand].buffer]) /\ Arrived(mem[op[hand].buffer])
  BY <1>1 DEF Custody, Receiving, Once
<1>3. InHandNow \in Fds \X (1 .. MaxPkts)
  BY <1>2, PayloadFacts DEF InHandNow, CameFrom
<1>4. SamePacket(mem[op[hand].buffer], InHandNow) /\ Arrived(InHandNow)
  BY <1>2 DEF InHandNow, CameFrom, SamePacket, Arrived
<1> QED
  BY <1>1, <1>3, <1>4 DEF Finished

(* A packet in hand that is not passed on is finished with.                *)
Drops == pc = "handle" /\ hand # NULL /\ pc' # "handle" => InHandNow \in Finished'

LEMMA Dropping ==
  ASSUME HandlerInv, NEW form, Custody(form), UNCHANGED <<cq, dataVars>>,
         Sends' \subseteq Sends, ReadsDone' \subseteq ReadsDone,
         \A o \in Sends' \cup ReadsDone' : op'[o].buffer = op[o].buffer
  PROVE  Drops
<1> SUFFICES ASSUME pc = "handle", hand # NULL, pc' # "handle"
             PROVE  InHandNow \in Finished'
  BY DEF Drops
<1>1. /\ hand \in InHand /\ op[hand].buffer \in UnderWay
      /\ InHandNow \in Fds \X (1 .. MaxPkts) /\ Arrived(InHandNow)
      /\ SamePacket(mem[op[hand].buffer], InHandNow)
  BY InHandFacts
<1>2. UNCHANGED <<mem, arrived, out>> /\ CqIndex' = CqIndex /\ InHand' = {}
  BY DEF dataVars, CqIndex, InHand
<1>3. hand \notin Sends \cup ReadsDone
  <2>1. hand \in Ops
    BY <1>1 DEF InHand
  <2>2. hand \in Sends => ~op[hand].is_multi
    BY <2>1 DEF Sends, IsSend, HandlerInv, Bookkeeping
  <2> QED
    BY <2>1, <2>2 DEF Sends, ReadsDone, HandlerInv, OpExclusive
<1>4. ASSUME NEW b \in UnderWay' PROVE b \in UnderWay /\ b # op[hand].buffer
  <2>1. CASE \E o \in Sends' \cup ReadsDone' : b = op'[o].buffer
    <3>1. PICK o \in Sends' \cup ReadsDone' : b = op'[o].buffer
      BY <2>1
    <3>2. o \in Sends \cup ReadsDone /\ b = op[o].buffer /\ o # hand
      BY <1>3, <3>1
    <3> QED
      BY <1>1, <3>2, UsersOwn, Apart DEF UnderWay, Custody
  <2>2. CASE \E i \in CqIndex : b = cq[i].buf /\ b # NO_BUF
    BY <1>1, <2>2, UsersOwn, Apart DEF UnderWay, Custody
  <2> QED
    BY <1>2, <2>1, <2>2 DEF UnderWay
<1>5. \A b \in UnderWay' : ~SamePacket(mem[b], InHandNow)
  BY <1>1, <1>4 DEF Custody, Once, SamePacket
<1>6. \A f \in Fds, p \in Payloads : out[f][p] > 0 => ~SamePacket(p, InHandNow)
  BY <1>1 DEF Custody, Once, SamePacket
<1> QED
  BY <1>1, <1>2, <1>5, <1>6 DEF Finished, Arrived, SamePacket

(* Moving on, stopping the kernel and emptying the pools.                  *)
LEMMA PlainCustody ==
  ASSUME HandlerInv, NEW form, Custody(form), Moves,
         pc = "release" => UNCHANGED <<pc, hand>>,
         UNCHANGED <<op, cq, dataVars>>, inflight' \in {inflight, {}}
  PROVE  Custody(form)' /\ Lasting /\ Drops
<1>1. UNCHANGED <<op, cq, dataVars>> /\ CqIndex' = CqIndex
  BY DEF CqIndex
<1>2. Sends' \subseteq Sends /\ ReadsDone' = ReadsDone
  BY <1>1 DEF Sends, ReadsDone, IsSend, IsRecv
<1>3. InHand' \subseteq InHand
  BY Distinct DEF InHand, Moves
<1>4. Owners' \subseteq Owners
  BY <1>1, <1>3 DEF Owners
<1>5. Owning'
  BY <1>1, <1>4 DEF Custody, Owning, IsSend
<1>6. Drops
  BY <1>1, <1>2, Dropping
<1> QED
  BY <1>1, <1>2, <1>3, <1>5, <1>6, PassingOn

(* io_op_free of the packet in hand.                                       *)
LEMMA FreeHandCustody ==
  ASSUME HandlerInv, NEW form, Custody(form), pc \in {"handle", "release"}, hand # NULL,
         io_op_free(hand), hand' = PointerAfterFree(hand),
         pc' \notin {"handle", "release"},
         UNCHANGED <<kernelVars, dataVars>>
  PROVE  Custody(form)' /\ Lasting /\ Drops
<1>1. UNCHANGED <<inflight, cq, dataVars>> /\ CqIndex' = CqIndex
  BY DEF kernelVars, CqIndex
<1>2. /\ hand \in Ops /\ hand \notin io_op_pool
      /\ op[hand].is_multi => op[hand].buf_idx # NO_BUF
      /\ ~op[hand].is_multi => hand \notin inflight
      /\ \A i \in CqIndex : ~op[cq[i].op].is_multi => cq[i].op # hand
  BY DEF HandlerInv, HandlerTypeOK, OpExclusive, Bookkeeping
<1>3. /\ \A p \in Ops \ {hand} : op'[p] = op[p]
      /\ \/ op'[hand] = Zeroed /\ ~op[hand].is_multi
         \/ op[hand].is_multi /\ (op'[hand] = op[hand] \/ op'[hand] = Recycled(op[hand]))
  BY <1>2, FreeFacts
<1>4. /\ ~Zeroed.is_multi /\ Zeroed.op_type = "NONE"
      /\ LET r == Recycled(op[hand]) IN
           r.op_type = op[hand].op_type /\ r.is_multi = op[hand].is_multi /\ r.fd = op[hand].fd
  BY <1>2, Fields, MovedFields DEF HandlerInv, HandlerTypeOK, UringTypeOK
<1>5. /\ op[hand].is_multi => op'[hand].is_multi
      /\ op[hand].is_multi => op'[hand].fd = op[hand].fd /\ op'[hand].op_type = op[hand].op_type
      /\ ~op[hand].is_multi => op'[hand].op_type = "NONE"
      /\ op[hand].is_multi => op[hand].op_type = "UDP_RECV"
  BY <1>2, <1>3, <1>4 DEF HandlerInv, Bookkeeping
<1>6. /\ InHand' = {} /\ Owners' \subseteq Owners \ {hand}
      /\ Sends' \subseteq Sends \ {hand} /\ ReadsDone' \subseteq ReadsDone \ {hand}
  <2>1. InHand' = {}
    BY DEF InHand
  <2>2. Owners' \subseteq Owners \ {hand}
    BY <1>3, <1>5, <2>1 DEF Owners
  <2>3. Sends' \subseteq Sends \ {hand}
    BY <1>1, <1>3, <1>5 DEF Sends, IsSend, HandlerInv, HandlerTypeOK, UringTypeOK
  <2>4. ReadsDone' \subseteq ReadsDone \ {hand}
    BY <1>1, <1>3, <1>5 DEF ReadsDone, IsRecv
  <2> QED
    BY <2>1, <2>2, <2>3, <2>4
<1>7. /\ \A o \in Sends' \cup ReadsDone' \cup Owners' : op'[o] = op[o]
      /\ \A i \in CqIndex : cq[i].buf # NO_BUF => op'[cq[i].op].fd = op[cq[i].op].fd
  <2>1. Sends \cup ReadsDone \cup Owners \subseteq Ops
    BY UsersOwn
  <2>2. ASSUME NEW i \in CqIndex, cq[i].buf # NO_BUF
        PROVE  op'[cq[i].op].fd = op[cq[i].op].fd
    <3>1. cq[i].op \in Ops /\ op[cq[i].op].is_multi
      BY <2>2, EntryTypes DEF HandlerInv, Bookkeeping
    <3> QED
      BY <1>3, <1>5, <3>1
  <2> QED
    BY <1>3, <1>6, <2>1, <2>2
<1>8. Owning'
  BY <1>6, <1>7 DEF Custody, Owning, IsSend
<1>9. Drops
  BY <1>1, <1>6, <1>7, Dropping
<1> QED
  BY <1>1, <1>6, <1>7, <1>8, <1>9, PassingOn

(* A multishot receive is armed: it has no packet yet.                     *)
LEMMA InitialRecvCustody ==
  ASSUME HandlerInv, NEW form, Custody(form), NEW fd \in Fds,
         iouring_initial_udp_recvs(fd),
         pc \notin {"handle", "release"}, pc' \notin {"handle", "release"},
         UNCHANGED hand
  PROVE  Custody(form)' /\ Lasting
<1> DEFINE R == MultiOp("UDP_RECV", fd)
<1>1. PICK o \in Pick(io_op_pool) :
        /\ op' = [op EXCEPT ![o] = R]
        /\ inflight' = inflight \cup {o}
  BY DEF iouring_initial_udp_recvs
<1>2. UNCHANGED <<cq, dataVars>> /\ CqIndex' = CqIndex
  BY DEF iouring_initial_udp_recvs, CqIndex
<1>3. /\ o \in Ops /\ op[o].op_type = "NONE"
      /\ \A i \in CqIndex : cq[i].op # o /\ cq[i].op \in Ops
      /\ op \in [Ops -> OpRecord] /\ R.is_multi /\ R.op_type = "UDP_RECV"
  <2>1. HandlerTypeOK /\ op \in [Ops -> OpRecord]
    BY DEF HandlerInv, HandlerTypeOK, UringTypeOK
  <2>2. o \in Ops /\ op[o].op_type = "NONE" /\ \A i \in CqIndex : cq[i].op # o
    BY FreshOp
  <2>3. \A i \in CqIndex : cq[i].op \in Ops
    BY <2>1, EntryTypes
  <2>4. R.is_multi /\ R.op_type = "UDP_RECV"
    BY Fields
  <2> QED
    BY <2>1, <2>2, <2>3, <2>4
<1> HIDE DEF R
<1>4. op'[o] = R /\ \A p \in Ops \ {o} : op'[p] = op[p]
  BY <1>1, <1>3
<1>5. Sends' \subseteq Sends \ {o} /\ ReadsDone' \subseteq ReadsDone \ {o} /\ InHand' = {}
      /\ Owners' \subseteq Owners \ {o}
  <2>1. Sends' \subseteq Sends \ {o}
    BY <1>1, <1>3, <1>4 DEF Sends, IsSend, HandlerInv, HandlerTypeOK, UringTypeOK
  <2>2. ReadsDone' \subseteq ReadsDone \ {o}
    BY <1>2, <1>3, <1>4 DEF ReadsDone, IsRecv
  <2>3. InHand' = {}
    BY DEF InHand
  <2>4. Owners' \subseteq Owners \ {o}
    BY <1>3, <1>4, <2>3 DEF Owners
  <2> QED
    BY <2>1, <2>2, <2>3, <2>4
<1>6. \A p \in Sends' \cup ReadsDone' \cup Owners' : op'[p] = op[p]
  BY <1>4, <1>5, UsersOwn
<1>7. Owning'
  BY <1>5, <1>6 DEF Custody, Owning, IsSend
<1>8. \A i \in CqIndex : op'[cq[i].op] = op[cq[i].op]
  BY <1>3, <1>4
<1> QED
  BY <1>2, <1>5, <1>6, <1>7, <1>8, PassingOn

-----------------------------------------------------------------------------
(***************************************************************************)
(* wait_for_recv, and the reads of the start-up.                           *)
(***************************************************************************)

(* What can become of operation o: it goes on as before, it is freed, it   *)
(* is a new read, or it is a multishot receive and remains one.            *)
GoesOn(o) ==
  /\ op'[o].op_type = op[o].op_type /\ op'[o].fd = op[o].fd
  /\ op'[o].is_multi <=> op[o].is_multi
  /\ op'[o].buffer = op[o].buffer
  /\ op'[o].buf_addr = op[o].buf_addr /\ op'[o].buf_idx = op[o].buf_idx
Freed(o) ==
  op'[o].op_type = "NONE" /\ op'[o].buffer = NULL /\ \A i \in CqIndex' : cq'[i].op # o
NewRead(o) ==
  /\ o \in io_op_pool /\ op'[o].op_type \in {"UDP_RECV", "TUN_READ"} /\ ~op'[o].is_multi
  /\ op'[o].buf_addr \in BufAddrs /\ op'[o].buffer = op'[o].buf_addr
StaysMulti(o) ==
  /\ op[o].is_multi /\ op'[o].is_multi
  /\ op'[o].op_type = op[o].op_type /\ op'[o].fd = op[o].fd
  /\ op'[o].buffer \in {op[o].buffer} \cup RingBufs

(* What wait_for_recv does to the operations: a new read is made like one  *)
(* that has finished.                                                      *)
WaitOps ==
  \A o \in Ops :
    \/ GoesOn(o) \/ Freed(o) \/ StaysMulti(o)
    \/ /\ NewRead(o)
       /\ \E r \in Ops :
            op'[o].op_type = op[r].op_type /\ op'[o].fd = op[r].fd /\ ~op[r].is_multi

(* A step that does no more than that to the operations and takes in hand  *)
(* only what a completion has brought.                                     *)
LEMMA TakingIn ==
  ASSUME HandlerInv, NEW form, Custody(form), UNCHANGED dataVars,
         pc # "release", pc' # "release",
         \A i \in CqIndex' : \E j \in CqIndex : cq'[i] = cq[j],
         \A o \in Ops : GoesOn(o) \/ Freed(o) \/ NewRead(o) \/ StaysMulti(o),
         \A o \in inflight' : o \in Ops /\ (o \in inflight \/ op'[o].op_type \in {"UDP_RECV", "TUN_READ"}),
         \A o \in InHand' :
           \/ o \in ReadsDone \cup InHand /\ GoesOn(o)
           \/ /\ op'[o].buf_addr = NULL /\ op'[o].buffer = op'[o].buf_idx /\ op'[o].is_multi
              /\ \E i \in CqIndex :
                   /\ cq[i].buf # NO_BUF /\ op'[o].buffer = cq[i].buf
                   /\ op'[o].fd = op[cq[i].op].fd
  PROVE  Custody(form)' /\ Lasting
<1>1. \A o \in Ops : op[o].is_multi => op[o].op_type = "UDP_RECV"
  BY DEF HandlerInv, Bookkeeping
<1>2. ASSUME NEW o \in Sends'
      PROVE  o \in Sends /\ op'[o].buffer = op[o].buffer /\ op'[o].fd = op[o].fd
  <2>1. o \in inflight' /\ o \in Ops /\ op'[o].op_type \in {"UDP_SEND", "TUN_WRITE"}
    BY <1>2 DEF Sends, IsSend
  <2>2. GoesOn(o) /\ o \in inflight
    BY <1>1, <2>1 DEF Freed, NewRead, StaysMulti
  <2> QED
    BY <2>1, <2>2 DEF GoesOn, Sends, IsSend
<1>3. ASSUME NEW o \in ReadsDone'
      PROVE  o \in ReadsDone /\ op'[o].buffer = op[o].buffer /\ op'[o].fd = op[o].fd
  <2>1. o \in Ops /\ op'[o].op_type \in {"UDP_RECV", "TUN_READ"} /\ ~op'[o].is_multi
    BY <1>3 DEF ReadsDone, IsRecv
  <2>2. PICK i \in CqIndex' : cq'[i].op = o /\ cq'[i].res # "err"
    BY <1>3 DEF ReadsDone
  <2>3. PICK j \in CqIndex : cq'[i] = cq[j]
    BY <2>2
  <2>4. o \notin io_op_pool
    BY <2>2, <2>3 DEF HandlerInv, OpExclusive
  <2>5. GoesOn(o)
    BY <2>1, <2>2, <2>4 DEF Freed, NewRead, StaysMulti
  <2> QED
    BY <2>1, <2>2, <2>3, <2>5 DEF GoesOn, ReadsDone, IsRecv
<1>4. ASSUME NEW i \in CqIndex', cq'[i].buf # NO_BUF
      PROVE  \E j \in CqIndex : /\ cq[j].buf = cq'[i].buf
                                /\ op[cq[j].op].fd = op'[cq'[i].op].fd
  <2>1. PICK j \in CqIndex : cq'[i] = cq[j]
    OBVIOUS
  <2>2. cq[j].op \in Ops /\ cq[j].op \notin io_op_pool
    BY EntryTypes DEF HandlerInv, OpExclusive
  <2>3. op'[cq[j].op].fd = op[cq[j].op].fd
    BY <1>4, <2>1, <2>2 DEF GoesOn, Freed, NewRead, StaysMulti
  <2> QED
    BY <2>1, <2>3
<1>5. Owning'
  <2> SUFFICES ASSUME NEW o \in Owners'
               PROVE  IF op'[o].buf_addr # NULL
                      THEN op'[o].buffer = op'[o].buf_addr
                      ELSE /\ op'[o].buffer = op'[o].buf_idx /\ op'[o].buf_idx \in RingBufs
                           /\ op'[o].is_multi \/ op'[o].op_type \in {"UDP_SEND", "TUN_WRITE"}
    BY DEF Owning, IsSend
  <2>1. o \in Ops
    BY DEF Owners, InHand
  <2>2. CASE o \in Owners /\ GoesOn(o)
    BY <2>2 DEF Custody, Owning, GoesOn, IsSend
  <2>3. CASE NewRead(o)
    BY <2>3, Distinct DEF NewRead
  <2>4. CASE /\ op'[o].buf_addr = NULL /\ op'[o].buffer = op'[o].buf_idx /\ op'[o].is_multi
             /\ \E i \in CqIndex : cq[i].buf # NO_BUF /\ op'[o].buffer = cq[i].buf
    BY <2>4, EntryTypes DEF HandlerInv
  <2>5. CASE o \in InHand'
    BY <2>2, <2>4, <2>5, UsersOwn
  <2>6. CASE o \notin InHand'
    <3>1. op'[o].op_type # "NONE" /\ ~op'[o].is_multi
      BY <2>6 DEF Owners
    <3>2. GoesOn(o) \/ NewRead(o)
      BY <2>1, <3>1 DEF Freed, StaysMulti
    <3>3. GoesOn(o) => o \in Owners
      BY <2>1, <3>1 DEF GoesOn, Owners
    <3> QED
      BY <2>2, <2>3, <3>2, <3>3
  <2> QED
    BY <2>5, <2>6
<1>6. \A o \in ReadsDone' \cup InHand' :
        \/ /\ o \in ReadsDone \cup InHand
           /\ op'[o].buffer = op[o].buffer /\ op'[o].fd = op[o].fd
        \/ \E i \in CqIndex : /\ cq[i].buf # NO_BUF /\ op'[o].buffer = cq[i].buf
                              /\ op'[o].fd = op[cq[i].op].fd
  BY <1>3 DEF GoesOn
<1> QED
  BY <1>2, <1>4, <1>5, <1>6, PassingOn

(* A read of the start-up.                                                 *)
LEMMA NewReadCustody ==
  ASSUME HandlerInv, NEW form, Custody(form),
         NEW o \in Pick(io_op_pool), NEW b \in Pick(buf_addr_pool), NEW R,
         ~R.is_multi, R.op_type \in {"UDP_RECV", "TUN_READ"},
         R.buf_addr = b, R.buffer = b,
         op' = [op EXCEPT ![o] = R],
         inflight' = inflight \cup {o},
         pc # "release", UNCHANGED <<cq, dataVars, pc, hand>>
  PROVE  Custody(form)' /\ Lasting
<1>1. o \in Ops /\ o \in io_op_pool /\ o # hand /\ b \in BufAddrs /\ op \in [Ops -> OpRecord]
      /\ inflight \subseteq Ops
  BY FreshOp, FreshBuf DEF HandlerInv, HandlerTypeOK, UringTypeOK
<1>2. op'[o] = R /\ \A p \in Ops \ {o} : op'[p] = op[p]
  BY <1>1
<1>3. NewRead(o) /\ \A p \in Ops \ {o} : GoesOn(p)
  BY <1>1, <1>2 DEF NewRead, GoesOn
<1>4. \A p \in InHand' : p \in InHand /\ GoesOn(p)
  BY <1>1, <1>3 DEF InHand
<1>5. \A i \in CqIndex' : \E j \in CqIndex : cq'[i] = cq[j]
  BY DEF CqIndex
<1> QED
  BY <1>1, <1>2, <1>3, <1>4, <1>5, TakingIn

(* wait_for_recv frees the operation of a completion.                      *)
LEMMA WaitFreedCustody ==
  ASSUME HandlerInv, NEW form, Custody(form), WaitSent \/ WaitRecvNoBuf \/ WaitReadNoOp
  PROVE  Custody(form)' /\ Lasting /\ WaitOps
<1> DEFINE o == cqe.op
<1>1. /\ Completion /\ io_op_free(o) /\ UNCHANGED <<inflight, dataVars>>
      /\ pc = "wait" /\ pc' \in {"wait", "handle"}
      /\ pc' = "handle" => hand' = NULL
      /\ IsSend(o) \/ ~op[o].is_multi \/ cqe.buf = NO_BUF
  BY DEF WaitSent, WaitRecvNoBuf, WaitReadNoOp, Return, loopVars, Completion
<1>2. o \in Ops /\ (IsSend(o) => ~op[o].is_multi)
  BY <1>1, SeenEntry DEF IsSend, HandlerInv, Bookkeeping
<1>3. /\ o \in Ops /\ o \notin io_op_pool /\ op[o] \in OpRecord /\ ~cqe.more
      /\ \A i \in CqIndex' : /\ i + 1 \in CqIndex /\ cq'[i] = cq[i + 1]
                             /\ cq'[i].op # o
  BY <1>1, <1>2, SeenEntry
<1> HIDE DEF o
<1>4. /\ \A p \in Ops \ {o} : op'[p] = op[p]
      /\ \/ op'[o] = Zeroed
         \/ op[o].is_multi /\ (op'[o] = op[o] \/ op'[o] = Recycled(op[o]))
  BY <1>1, <1>3, FreeFacts
<1>5. LET r == Recycled(op[o]) IN
        /\ r.op_type = op[o].op_type /\ r.is_multi = op[o].is_multi /\ r.fd = op[o].fd
        /\ r.buffer = op[o].buffer
  BY <1>3, MovedFields
<1>6. Freed(o) \/ StaysMulti(o)
  BY <1>3, <1>4, <1>5, Fields DEF Freed, StaysMulti
<1>7. \A p \in Ops \ {o} : GoesOn(p)
  BY <1>4 DEF GoesOn
<1>8. InHand' = {}
  BY <1>1, Distinct DEF InHand
<1>9. inflight' = inflight /\ inflight \subseteq Ops
  BY <1>1 DEF HandlerInv, HandlerTypeOK, UringTypeOK
<1> QED
  BY <1>1, <1>3, <1>6, <1>7, <1>8, <1>9, TakingIn DEF WaitOps

(* A request has failed, or a datagram was empty or could not be followed  *)
(* by another.                                                             *)
LEMMA WaitFailedCustody ==
  ASSUME HandlerInv, NEW form, Custody(form), WaitFailed \/ WaitRecvFailed
  PROVE  Custody(form)' /\ Lasting /\ WaitOps
<1> DEFINE o == cqe.op
           R == Recycled(Received(op[o], cqe.buf, DataLen))
<1>1. /\ Completion /\ UNCHANGED <<inflight, dataVars>>
      /\ pc = "wait" /\ pc' = "handle" /\ hand' = NULL
      /\ \/ op' = op
         \/ op' = [op EXCEPT ![o] = R] /\ op[o].is_multi /\ cqe.buf # NO_BUF
  BY DEF WaitFailed, WaitRecvFailed, Return, poolVars, Completion
<1>2. /\ o \in Ops /\ op[o] \in OpRecord /\ op \in [Ops -> OpRecord]
      /\ cqe.buf \in {NO_BUF} \cup RingBufs /\ DataLen \in {0, 1}
      /\ \A i \in CqIndex' : i + 1 \in CqIndex /\ cq'[i] = cq[i + 1]
  BY <1>1, SeenEntry DEF HandlerInv, HandlerTypeOK, UringTypeOK, DataLen
<1>3. ASSUME cqe.buf # NO_BUF
      PROVE  /\ R.op_type = op[o].op_type /\ R.is_multi = op[o].is_multi /\ R.fd = op[o].fd
             /\ R.buffer = cqe.buf
  <2> DEFINE Q == Received(op[o], cqe.buf, DataLen)
  <2> HIDE DEF o
  <2>1. Q \in OpRecord
    BY <1>2, <1>3, RecordTypes
  <2>2. /\ Q.op_type = op[o].op_type /\ Q.is_multi = op[o].is_multi /\ Q.fd = op[o].fd
        /\ Q.buffer = cqe.buf
    BY <1>2, MovedFields
  <2> HIDE DEF Q
  <2>3. LET r == Recycled(Q) IN
          /\ r.op_type = Q.op_type /\ r.is_multi = Q.is_multi /\ r.fd = Q.fd
          /\ r.buffer = Q.buffer
    BY <2>1, MovedFields
  <2> QED
    BY <2>2, <2>3 DEF Q
<1> HIDE DEF o, R
<1>4. \A p \in Ops : GoesOn(p) \/ StaysMulti(p)
  <2>1. CASE op' = op
    BY <2>1 DEF GoesOn
  <2>2. CASE op' = [op EXCEPT ![o] = R] /\ op[o].is_multi /\ cqe.buf # NO_BUF
    <3>1. op'[o] = R /\ \A p \in Ops \ {o} : op'[p] = op[p]
      BY <1>2, <2>2
    <3> QED
      BY <1>2, <1>3, <2>2, <3>1 DEF GoesOn, StaysMulti
  <2> QED
    BY <1>1, <2>1, <2>2
<1>5. InHand' = {}
  BY <1>1, Distinct DEF InHand
<1>6. inflight' = inflight /\ inflight \subseteq Ops
  BY <1>1 DEF HandlerInv, HandlerTypeOK, UringTypeOK
<1> QED
  BY <1>1, <1>2, <1>4, <1>5, <1>6, TakingIn DEF WaitOps

(* A datagram is taken in hand: it is in the buffer the completion names.  *)
LEMMA WaitRecvCustody ==
  ASSUME HandlerInv, NEW form, Custody(form), WaitRecv
  PROVE  Custody(form)' /\ Lasting /\ WaitOps
<1> DEFINE o == cqe.op
           R == Received(op[o], cqe.buf, DataLen)
<1>1. /\ Completion /\ op[o].is_multi /\ cqe.buf # NO_BUF /\ UNCHANGED dataVars
      /\ op' = [op EXCEPT ![o] = R]
      /\ inflight' = IF cqe.more THEN inflight ELSE inflight \cup {o}
      /\ pc = "wait" /\ pc' = "handle" /\ hand' = o
  BY DEF WaitRecv, Return, Completion
<1>2. /\ o \in Ops /\ op[o] \in OpRecord /\ op \in [Ops -> OpRecord] /\ inflight \subseteq Ops
      /\ op[o].buf_addr = NULL /\ op[o].op_type = "UDP_RECV" /\ cqe.buf \in RingBufs
      /\ \A i \in CqIndex' : i + 1 \in CqIndex /\ cq'[i] = cq[i + 1]
  BY <1>1, SeenEntry DEF HandlerInv, HandlerTypeOK, UringTypeOK, Bookkeeping
<1>3. 1 \in CqIndex /\ cqe = cq[1]
  BY <1>1, QueueMovesUp
<1>4. /\ R.op_type = op[o].op_type /\ R.is_multi = op[o].is_multi /\ R.fd = op[o].fd
      /\ R.buf_addr = op[o].buf_addr /\ R.buf_idx = cqe.buf /\ R.buffer = cqe.buf
  <2> HIDE DEF o
  <2> QED
    BY <1>2, MovedFields
<1>5. cq[1].op = o
  BY <1>3
<1> HIDE DEF o, R
<1>6. op'[o] = R /\ \A p \in Ops \ {o} : op'[p] = op[p]
  BY <1>1, <1>2
<1>7. StaysMulti(o) /\ \A p \in Ops \ {o} : GoesOn(p)
  BY <1>1, <1>2, <1>4, <1>6 DEF GoesOn, StaysMulti
<1>8. ASSUME NEW p \in InHand'
      PROVE  /\ op'[p].buf_addr = NULL /\ op'[p].buffer = op'[p].buf_idx /\ op'[p].is_multi
             /\ \E i \in CqIndex :
                   /\ cq[i].buf # NO_BUF /\ op'[p].buffer = cq[i].buf
                   /\ op'[p].fd = op[cq[i].op].fd
  <2>1. p = o
    BY <1>1, <1>8 DEF InHand
  <2> QED
    BY <1>1, <1>2, <1>3, <1>4, <1>5, <1>6, <2>1
<1>9. \A p \in inflight' : p \in Ops /\ (p \in inflight \/ op'[p].op_type \in {"UDP_RECV", "TUN_READ"})
  BY <1>1, <1>2, <1>4, <1>6
<1> QED
  BY <1>1, <1>2, <1>7, <1>8, <1>9, TakingIn DEF WaitOps

(* A packet of the device is taken in hand or, if no new read can be       *)
(* submitted, dropped.                                                     *)
LEMMA WaitReadCustody ==
  ASSUME HandlerInv, NEW form, Custody(form), WaitRead \/ WaitReadFailed
  PROVE  Custody(form)' /\ Lasting /\ WaitOps
<1> DEFINE o == cqe.op
           R == [op[o] EXCEPT !.data_len = DataLen]
<1>1. /\ Completion /\ IsRecv(o) /\ ~op[o].is_multi /\ cqe.res # "err" /\ UNCHANGED dataVars
      /\ pc = "wait" /\ pc' = "handle"
  BY DEF WaitRead, WaitReadFailed, Return, Completion
<1>2. PICK n \in Pick(io_op_pool), b \in Pick(buf_addr_pool), S \in {R, Zeroed} :
        /\ op' = [op EXCEPT ![n] = SingleOp(op[o].op_type, op[o].fd, b), ![o] = S]
        /\ inflight' \in {inflight, inflight \cup {n}}
        /\ hand' = IF S = R THEN o ELSE NULL
  <2>1. CASE WaitRead
    BY <2>1 DEF WaitRead, Return
  <2>2. CASE WaitReadFailed
    <3>1. Zeroed # R
      <4>1. op[o] \in OpRecord /\ op[o].op_type # "NONE"
        BY <1>1, SeenEntry DEF IsRecv
      <4> HIDE DEF o
      <4>2. R.op_type = op[o].op_type
        BY <4>1, MovedFields
      <4> QED
        BY <4>1, <4>2, Fields
    <3> QED
      BY <2>2, <3>1 DEF WaitReadFailed, Return
  <2> QED
    BY <2>1, <2>2
<1> DEFINE N == SingleOp(op[o].op_type, op[o].fd, b)
<1>3. /\ o \in Ops /\ o \notin io_op_pool /\ op[o] \in OpRecord /\ op \in [Ops -> OpRecord]
      /\ inflight \subseteq Ops /\ ~cqe.more
      /\ \A i \in CqIndex' : i + 1 \in CqIndex /\ cq'[i] = cq[i + 1] /\ cq'[i].op # o
  BY <1>1, SeenEntry DEF HandlerInv, HandlerTypeOK, UringTypeOK
<1>4. 1 \in CqIndex /\ cqe = cq[1] /\ cq[1].op = o
  BY <1>1, QueueMovesUp
<1>5. o \in ReadsDone
  BY <1>1, <1>3, <1>4 DEF ReadsDone
<1>6. /\ R.op_type = op[o].op_type /\ R.is_multi = op[o].is_multi /\ R.fd = op[o].fd
      /\ R.buf_addr = op[o].buf_addr /\ R.buf_idx = op[o].buf_idx /\ R.buffer = op[o].buffer
      /\ N.op_type = op[o].op_type /\ N.fd = op[o].fd /\ ~N.is_multi
      /\ N.buf_addr = b /\ N.buffer = b
  <2> HIDE DEF o
  <2> QED
    BY <1>3, MovedFields, Fields
<1>7. n \in Ops /\ n \in io_op_pool /\ n # o /\ b \in BufAddrs
  BY <1>3, FreshOp, FreshBuf
<1>8. op[o].op_type \in {"UDP_RECV", "TUN_READ"}
  BY <1>1 DEF IsRecv
<1> HIDE DEF o, R, N
<1>9. op'[o] = S /\ op'[n] = N /\ \A p \in Ops \ {o, n} : op'[p] = op[p]
  BY <1>2, <1>3, <1>7 DEF N
<1>10. NewRead(n) /\ \A p \in Ops \ {o, n} : GoesOn(p)
  BY <1>6, <1>7, <1>8, <1>9 DEF NewRead, GoesOn
<1>11. (S = R => GoesOn(o)) /\ (S # R => Freed(o))
  BY <1>1, <1>2, <1>3, <1>6, <1>9, Fields DEF GoesOn, Freed
<1>12. \A p \in InHand' : p \in ReadsDone /\ GoesOn(p)
  BY <1>2, <1>5, <1>11, Distinct DEF InHand
<1>13. \A p \in inflight' : p \in Ops /\ (p \in inflight \/ op'[p].op_type \in {"UDP_RECV", "TUN_READ"})
  BY <1>2, <1>3, <1>6, <1>7, <1>8, <1>9
<1>14. \A p \in Ops : GoesOn(p) \/ Freed(p) \/ NewRead(p) \/ StaysMulti(p)
  BY <1>10, <1>11
<1>15. WaitOps
  BY <1>1, <1>3, <1>6, <1>9, <1>10, <1>11 DEF WaitOps
<1> QED
  BY <1>1, <1>3, <1>12, <1>13, <1>14, <1>15, TakingIn

(* Every step of wait_for_recv keeps the packets.                          *)
LEMMA WaitCustody ==
  ASSUME HandlerInv, NEW form, Custody(form), wait_for_recv
  PROVE  Custody(form)' /\ Lasting /\ WaitOps
  BY WaitFreedCustody, WaitFailedCustody, WaitRecvCustody, WaitReadCustody DEF wait_for_recv

-----------------------------------------------------------------------------
(***************************************************************************)
(* tun_to_udp and udp_to_tun                                               *)
(***************************************************************************)

(* The buffer moves, with the packet in it, to the operation that sends    *)
(* it on the other descriptor.                                             *)
LEMMA ForwardCustody ==
  ASSUME HandlerInv, Custody("raw"), pc = "handle", hand # NULL, IsRecv(hand),
         NEW type \in {"UDP_SEND", "TUN_WRITE"}, NEW fd \in Fds, fd # op[hand].fd,
         NEW a \in {0, 1}, Forward(type, fd, a)
  PROVE  Custody("raw")'
<1> DEFINE S == SendOp(type, fd, a)
           D == Disowned(op[hand])
<1>1. /\ UNCHANGED <<hand, cq, dataVars>> /\ pc' = "release" /\ CqIndex' = CqIndex
  BY DEF Forward, CqIndex
<1>2. /\ hand \in Ops /\ op[hand] \in OpRecord /\ op \in [Ops -> OpRecord]
      /\ inflight \subseteq Ops
      /\ \A i \in CqIndex : cq[i].op \in Ops /\ (~op[cq[i].op].is_multi => cq[i].op # hand)
      /\ ~op[hand].is_multi => hand \notin inflight
  BY EntryTypes DEF HandlerInv, HandlerTypeOK, UringTypeOK, OpExclusive
<1>3. /\ S.op_type = type /\ S.fd = fd /\ ~S.is_multi
      /\ S.buf_addr = IF op[hand].is_multi THEN NULL ELSE op[hand].buf_addr
      /\ S.buf_idx = IF op[hand].is_multi THEN op[hand].buf_idx ELSE NO_BUF
      /\ S.buffer = IF op[hand].is_multi THEN op[hand].buffer ELSE op[hand].buf_addr
      /\ D.op_type = op[hand].op_type /\ D.fd = op[hand].fd
      /\ D.is_multi = op[hand].is_multi
  BY <1>2, MovedFields DEF SendOp
<1>4. \/ /\ \E s \in Pick(io_op_pool) : /\ op' = [op EXCEPT ![s] = S, ![hand] = D]
                                        /\ inflight' = inflight \cup {s}
      \/ op' \in {op, [op EXCEPT ![hand] = D]} /\ inflight' = inflight
  BY DEF Forward, Forwarded, ForwardNoOp, ForwardFailed, poolVars
<1> HIDE DEF S, D
<1> DEFINE T == inflight' \ inflight
<1>5. /\ \A s \in T : /\ s \in Ops /\ s # hand /\ op'[s] = S /\ op[s].op_type = "NONE"
                      /\ \A i \in CqIndex : cq[i].op # s
      /\ op'[hand] \in {op[hand], D}
      /\ \A p \in Ops \ (T \cup {hand}) : op'[p] = op[p]
      /\ inflight' = inflight \cup T
  <2>1. CASE \E s \in Pick(io_op_pool) : /\ op' = [op EXCEPT ![s] = S, ![hand] = D]
                                         /\ inflight' = inflight \cup {s}
    <3>1. PICK s \in Pick(io_op_pool) : /\ op' = [op EXCEPT ![s] = S, ![hand] = D]
                                        /\ inflight' = inflight \cup {s}
      BY <2>1
    <3>2. /\ s \in Ops /\ s # hand /\ s \notin inflight /\ \A i \in CqIndex : cq[i].op # s
          /\ op[s].op_type = "NONE"
      BY FreshOp
    <3>3. op'[s] = S /\ op'[hand] = D /\ \A p \in Ops \ {s, hand} : op'[p] = op[p]
      BY <1>2, <3>1, <3>2
    <3>4. T = {s}
      BY <3>1, <3>2
    <3> QED
      BY <3>1, <3>2, <3>3, <3>4
  <2>2. CASE op' \in {op, [op EXCEPT ![hand] = D]} /\ inflight' = inflight
    BY <1>2, <2>2
  <2> QED
    BY <1>4, <2>1, <2>2
<1> HIDE DEF T
<1>6. /\ op'[hand].op_type = op[hand].op_type /\ op'[hand].fd = op[hand].fd
      /\ op'[hand].is_multi = op[hand].is_multi /\ hand \notin T
  BY <1>3, <1>5
<1>7. hand \in InHand /\ InHand' = {}
  BY <1>1, <1>2 DEF InHand
<1>8. ASSUME NEW s \in Sends'
      PROVE  \/ s \in Sends /\ op'[s].buffer = op[s].buffer /\ op'[s].fd = op[s].fd
             \/ op'[s].buffer = op[hand].buffer /\ op'[s].fd # op[hand].fd
  <2>1. s \in inflight \cup T /\ s \in Ops /\ op'[s].op_type \in {"UDP_SEND", "TUN_WRITE"}
    BY <1>2, <1>5, <1>8 DEF Sends, IsSend
  <2>2. s # hand
    BY <1>6, <2>1 DEF IsRecv
  <2>3. CASE s \in T
    <3>1. op'[s].buffer = op[hand].buffer
      <4>1. ~op[hand].is_multi => op[hand].buffer = op[hand].buf_addr
        BY <1>7, UsersOwn DEF Custody, Owning, IsSend, IsRecv
      <4> QED
        BY <1>3, <1>5, <2>3, <4>1
    <3> QED
      BY <1>3, <1>5, <2>3, <3>1
  <2>4. CASE s \notin T
    BY <1>5, <2>1, <2>2, <2>4 DEF Sends, IsSend
  <2> QED
    BY <2>3, <2>4
<1>9. ASSUME NEW o \in ReadsDone'
      PROVE  o \in ReadsDone /\ op'[o] = op[o]
  <2>1. o \in Ops /\ ~op'[o].is_multi /\ op'[o].op_type \in {"UDP_RECV", "TUN_READ"}
        /\ \E i \in CqIndex : cq[i].op = o /\ cq[i].res # "err"
    BY <1>1, <1>9 DEF ReadsDone, IsRecv
  <2>2. o # hand /\ o \notin T
    BY <1>2, <1>5, <1>6, <2>1
  <2> QED
    BY <1>5, <2>1, <2>2 DEF ReadsDone, IsRecv
<1>10. \A i \in CqIndex : op'[cq[i].op].fd = op[cq[i].op].fd
  BY <1>2, <1>5, <1>6
<1>11. Owning'
  <2> SUFFICES ASSUME NEW o \in Owners'
               PROVE  IF op'[o].buf_addr # NULL
                      THEN op'[o].buffer = op'[o].buf_addr
                      ELSE /\ op'[o].buffer = op'[o].buf_idx /\ op'[o].buf_idx \in RingBufs
                           /\ op'[o].is_multi \/ op'[o].op_type \in {"UDP_SEND", "TUN_WRITE"}
    BY DEF Owning, IsSend
  <2>1. o \in Ops /\ op'[o].op_type # "NONE" /\ ~op'[o].is_multi /\ o # hand
    BY <1>1, <1>7 DEF Owners
  <2>2. CASE o \in T
    <3>1. op[hand].is_multi => op[hand].buf_addr = NULL
      BY <1>2 DEF HandlerInv, Bookkeeping
    <3>2. /\ op[hand].is_multi => op[hand].buffer = op[hand].buf_idx /\ op[hand].buf_idx \in RingBufs
          /\ ~op[hand].is_multi => op[hand].buf_addr # NULL
      BY <1>7, <3>1, UsersOwn DEF Custody, Owning, IsSend, IsRecv
    <3> QED
      BY <1>3, <1>5, <2>2, <3>1, <3>2
  <2>3. CASE o \notin T
    <3>1. op'[o] = op[o] /\ o \in Owners
      BY <1>5, <2>1, <2>3 DEF Owners
    <3> QED
      BY <3>1 DEF Custody, Owning, IsSend
  <2> QED
    BY <2>2, <2>3
<1> QED
  BY <1>1, <1>7, <1>8, <1>9, <1>10, <1>11, PassingOn

-----------------------------------------------------------------------------
(***************************************************************************)
(* The kernel.                                                             *)
(***************************************************************************)

(* A packet comes in on fd and is written to buffer b, which holds none.   *)
LEMMA ArrivalCustody ==
  ASSUME HandlerInv, NEW form, Custody(form), NEW fd \in Fds, NEW b \in Buffers \ UnderWay,
         arrived[fd] < MaxPkts,
         mem' = [mem EXCEPT ![b] = Payload(fd)],
         arrived' = [arrived EXCEPT ![fd] = @ + 1],
         UNCHANGED <<op, out>>,
         Owners' = Owners, Sends' \subseteq Sends,
         \A o \in ReadsDone' \cup InHand' :
           o \in ReadsDone \cup InHand \/ (op[o].buffer = b /\ op[o].fd = fd),
         \A i \in CqIndex' : cq'[i].buf # NO_BUF =>
           \/ \E j \in CqIndex : cq'[i] = cq[j]
           \/ cq'[i].buf = b /\ op[cq'[i].op].fd = fd
  PROVE  Custody(form)' /\ Lasting
<1> DEFINE q == Payload(fd)
<1>1. /\ mem \in [Buffers -> Payloads \cup {NULL}] /\ arrived \in [Fds -> 0 .. MaxPkts]
      /\ out \in [Fds -> [Payloads \cup {NULL} -> Nat]]
  BY DEF HandlerInv, HandlerTypeOK, UringTypeOK
<1>2. q \in Payloads /\ q[1] = fd /\ q[2] = arrived[fd] + 1 /\ q[3] = "raw" /\ q[2] > 0
  <2>1. arrived[fd] \in Nat /\ arrived[fd] + 1 \in 0 .. MaxPkts /\ arrived[fd] + 1 > 0
    BY <1>1, UringAssumption
  <2>2. <<fd, arrived[fd] + 1, "raw">> \in Payloads
    BY <2>1, PayloadFacts
  <2> QED
    BY <2>1, <2>2 DEF Payload
<1> HIDE DEF q
<1>3. /\ mem'[b] = q /\ \A c \in UnderWay : mem'[c] = mem[c] /\ c # b
      /\ \A f \in Fds : arrived[f] \in Nat /\ arrived'[f] >= arrived[f]
      /\ arrived'[fd] = arrived[fd] + 1
  BY <1>1, UnderWayFacts DEF q
<1>4. UnderWay' \subseteq UnderWay \cup {b}
  <2> SUFFICES ASSUME NEW c \in UnderWay' PROVE c \in UnderWay \cup {b}
    OBVIOUS
  <2>1. CASE \E o \in Sends' \cup ReadsDone' \cup InHand' : c = op'[o].buffer
    BY <2>1 DEF UnderWay
  <2>2. CASE \E i \in CqIndex' : c = cq'[i].buf /\ c # NO_BUF
    BY <2>2 DEF UnderWay
  <2> QED
    BY <2>1, <2>2 DEF UnderWay
<1>5. Owning'
  BY DEF Custody, Owning, IsSend
<1>6. /\ \A o \in Sends \cup ReadsDone \cup InHand : op[o].buffer \in UnderWay
      /\ \A i \in CqIndex : cq[i].buf # NO_BUF => cq[i].buf \in UnderWay
  BY DEF UnderWay
<1>7. Receiving'
  <2>1. ASSUME NEW i \in CqIndex', cq'[i].buf # NO_BUF
        PROVE  CameFrom(op[cq'[i].op].fd, mem'[cq'[i].buf])
    <3>1. CASE \E j \in CqIndex : cq'[i] = cq[j]
      BY <1>3, <1>6, <2>1, <3>1 DEF Custody, Receiving
    <3>2. CASE cq'[i].buf = b /\ op[cq'[i].op].fd = fd
      BY <1>2, <1>3, <3>2 DEF CameFrom
    <3> QED
      BY <2>1, <3>1, <3>2
  <2>2. ASSUME NEW o \in ReadsDone' \cup InHand'
        PROVE  CameFrom(op[o].fd, mem'[op[o].buffer])
    <3>1. CASE o \in ReadsDone \cup InHand
      BY <1>3, <1>6, <3>1 DEF Custody, Receiving
    <3>2. CASE op[o].buffer = b /\ op[o].fd = fd
      BY <1>2, <1>3, <3>2 DEF CameFrom
    <3> QED
      BY <2>2, <3>1, <3>2
  <2> QED
    BY <2>1, <2>2 DEF Receiving, CameFrom
<1>8. Sending(form)'
  BY <1>3, <1>6 DEF Custody, Sending, GoesTo
<1>9. \A p \in Payloads : Arrived(p) => Arrived(p)' /\ ~SamePacket(p, q) /\ ~SamePacket(q, p)
  BY <1>2, <1>3, PayloadFacts DEF Arrived, SamePacket
<1>10. Once'
  <2>1. ASSUME NEW c \in UnderWay' PROVE Arrived(mem[c])'
    <3>1. CASE c = b
      BY <1>2, <1>3, <3>1 DEF Arrived
    <3>2. CASE c \in UnderWay
      BY <1>3, <1>9, <3>2, UnderWayFacts DEF Custody, Once, Arrived
    <3> QED
      BY <1>4, <3>1, <3>2
  <2>2. ASSUME NEW c \in UnderWay', NEW d \in UnderWay', SamePacket(mem'[c], mem'[d])
        PROVE  c = d
    <3>1. CASE c \in UnderWay /\ d \in UnderWay
      BY <1>3, <2>2, <3>1 DEF Custody, Once
    <3>2. CASE c = b /\ d \in UnderWay
      BY <1>3, <1>9, <2>2, <3>2, UnderWayFacts DEF Custody, Once
    <3>3. CASE d = b /\ c \in UnderWay
      BY <1>3, <1>9, <2>2, <3>3, UnderWayFacts DEF Custody, Once
    <3> QED
      BY <1>4, <3>1, <3>2, <3>3
  <2>3. ASSUME NEW f \in Fds, NEW p \in Payloads, out[f][p] > 0, p[2] > 0
        PROVE  /\ out[f][p] = 1 /\ Arrived(p)'
               /\ \A c \in UnderWay' : ~SamePacket(mem'[c], p)
    <3>1. out[f][p] = 1 /\ Arrived(p) /\ \A c \in UnderWay : ~SamePacket(mem[c], p)
      BY <2>3 DEF Custody, Once
    <3>2. Arrived(p)' /\ ~SamePacket(q, p)
      BY <1>9, <3>1
    <3> QED
      BY <1>3, <1>4, <3>1, <3>2
  <2> QED
    BY <2>1, <2>2, <2>3 DEF Once, SamePacket
<1>11. Lasting
  <2> SUFFICES ASSUME NEW u \in Finished PROVE u \in Finished'
    BY DEF Lasting
  <2>1. u \in Fds \X (1 .. MaxPkts) /\ Arrived(u)
    BY DEF Finished
  <2>2. Arrived(u)' /\ ~SamePacket(q, u)
    BY <1>2, <1>3, <2>1 DEF Arrived, SamePacket
  <2>3. \A c \in UnderWay' : ~SamePacket(mem'[c], u)
    BY <1>3, <1>4, <2>2 DEF Finished
  <2> QED
    BY <2>1, <2>2, <2>3 DEF Finished, SamePacket
<1> QED
  BY <1>5, <1>7, <1>8, <1>10, <1>11 DEF Custody

(* What the buffer of a send holds leaves, and the send is finished.       *)
LEMMA DepartureCustody ==
  ASSUME HandlerInv, NEW form, Custody(form), NEW s \in Sends,
         out' = [out EXCEPT ![op[s].fd][mem[op[s].buffer]] = @ + 1],
         UNCHANGED <<op, mem, arrived>>,
         Owners' = Owners, Sends' \subseteq Sends \ {s},
         ReadsDone' \subseteq ReadsDone, InHand' \subseteq InHand,
         \A i \in CqIndex' : cq'[i].buf # NO_BUF => \E j \in CqIndex : cq'[i] = cq[j]
  PROVE  /\ Custody(form)' /\ Lasting
         /\ op[s].fd \in Fds
         /\ LET p == mem[op[s].buffer] IN
              /\ GoesTo(op[s].fd, p, form)
              /\ p[2] > 0 => out[op[s].fd][p] = 0 /\ Arrived(p)
<1> DEFINE q == mem[op[s].buffer]
           fd == op[s].fd
<1>1. out \in [Fds -> [Payloads \cup {NULL} -> Nat]]
  BY DEF HandlerInv, HandlerTypeOK, UringTypeOK
<1>2. q \in Payloads /\ GoesTo(fd, q, form) /\ op[s].buffer \in UnderWay
  BY DEF Custody, Sending, GoesTo, UnderWay
<1>3. fd \in Fds
  <2>1. s \in Ops /\ op[s].op_type # "NONE" /\ op[s] \in OpRecord
    BY DEF Sends, IsSend, HandlerInv, HandlerTypeOK, UringTypeOK
  <2> QED
    BY <2>1 DEF HandlerInv, Bookkeeping, OpRecord
<1>4. /\ out'[fd][q] = out[fd][q] + 1
      /\ \A f \in Fds, p \in Payloads \cup {NULL} : f # fd \/ p # q => out'[f][p] = out[f][p]
  BY <1>1, <1>2, <1>3
<1>5. q[2] > 0 => out[fd][q] = 0 /\ Arrived(q)
  <2> SUFFICES ASSUME q[2] > 0 PROVE out[fd][q] = 0 /\ Arrived(q)
    OBVIOUS
  <2>1. SamePacket(q, q) /\ Arrived(q)
    BY <1>2 DEF SamePacket, Custody, Once
  <2>2. ~(out[fd][q] > 0)
    BY <1>2, <1>3, <2>1 DEF Custody, Once
  <2>3. out[fd][q] \in Nat
    BY <1>1, <1>2, <1>3
  <2> QED
    BY <2>1, <2>2, <2>3
<1>6. UnderWay' \subseteq UnderWay \ {op[s].buffer}
  <2>1. \A o \in (Sends \ {s}) \cup ReadsDone \cup InHand :
          op[o].buffer \in UnderWay /\ op[o].buffer # op[s].buffer
    <3>1. s \notin ReadsDone \cup InHand
      <4>1. s \in inflight /\ IsSend(s) /\ ~op[s].is_multi
        BY DEF Sends, IsSend, HandlerInv, HandlerTypeOK, UringTypeOK, Bookkeeping
      <4> QED
        BY <4>1 DEF ReadsDone, InHand, IsSend, IsRecv, HandlerInv, OpExclusive
    <3> QED
      BY <3>1, UsersOwn, Apart DEF UnderWay, Custody
  <2>2. \A i \in CqIndex : cq[i].buf # NO_BUF =>
          cq[i].buf \in UnderWay /\ cq[i].buf # op[s].buffer
    BY UsersOwn, Apart DEF UnderWay, Custody
  <2> SUFFICES ASSUME NEW c \in UnderWay' PROVE c \in UnderWay \ {op[s].buffer}
    OBVIOUS
  <2>3. CASE \E o \in Sends' \cup ReadsDone' \cup InHand' : c = op'[o].buffer
    BY <2>1, <2>3
  <2>4. CASE \E i \in CqIndex' : c = cq'[i].buf /\ c # NO_BUF
    BY <2>2, <2>4
  <2> QED
    BY <2>3, <2>4 DEF UnderWay
<1>7. Owning' /\ Receiving'
  BY DEF Custody, Owning, IsSend, Receiving, CameFrom
<1> HIDE DEF q, fd
<1>8. Sending(form)'
  <2>1. ASSUME NEW f \in Fds, NEW p \in Payloads \cup {NULL}, out'[f][p] > 0
        PROVE  GoesTo(f, p, form)
    BY <1>2, <1>4, <2>1 DEF Custody, Sending
  <2>2. \A o \in Sends' : GoesTo(op[o].fd, mem[op[o].buffer], form)
    BY DEF Custody, Sending
  <2> QED
    BY <2>1, <2>2 DEF Sending, GoesTo
<1>9. Once'
  <2>1. \A c \in UnderWay' : Arrived(mem[c])
    BY <1>6 DEF Custody, Once
  <2>2. \A c, d \in UnderWay' : SamePacket(mem[c], mem[d]) => c = d
    BY <1>6 DEF Custody, Once
  <2>3. ASSUME NEW f \in Fds, NEW p \in Payloads, out'[f][p] > 0, p[2] > 0
        PROVE  /\ out'[f][p] = 1 /\ Arrived(p)
               /\ \A c \in UnderWay' : ~SamePacket(mem[c], p)
    <3>1. CASE f = fd /\ p = q
      <4>1. out'[f][p] = 1 /\ Arrived(p)
        <5>1. q[2] > 0
          BY <2>3, <3>1
        <5>2. out[fd][q] = 0 /\ Arrived(q)
          BY <1>5, <5>1
        <5> QED
          BY <1>4, <3>1, <5>2
      <4>2. \A c \in UnderWay' : ~SamePacket(mem[c], q)
        BY <1>2, <1>6 DEF Custody, Once, q
      <4> QED
        BY <3>1, <4>1, <4>2
    <3>2. CASE f # fd \/ p # q
      <4>1. out'[f][p] = out[f][p] /\ out[f][p] > 0
        BY <1>4, <2>3, <3>2
      <4>2. /\ out[f][p] = 1 /\ Arrived(p)
            /\ \A c \in UnderWay : ~SamePacket(mem[c], p)
        BY <2>3, <4>1 DEF Custody, Once
      <4> QED
        BY <1>6, <4>1, <4>2
    <3> QED
      BY <3>1, <3>2
  <2> QED
    BY <2>1, <2>2, <2>3 DEF Once, Arrived, SamePacket
<1>10. Lasting
  <2> SUFFICES ASSUME NEW u \in Finished PROVE u \in Finished'
    BY DEF Lasting
  <2>1. ~SamePacket(q, u)
    BY <1>2 DEF Finished, q
  <2>2. \A f \in Fds, p \in Payloads : out'[f][p] > 0 => ~SamePacket(p, u)
    BY <1>4, <2>1 DEF Finished
  <2>3. \A c \in UnderWay' : ~SamePacket(mem[c], u)
    BY <1>6 DEF Finished
  <2> QED
    BY <2>2, <2>3 DEF Finished, Arrived, SamePacket
<1> QED
  BY <1>2, <1>3, <1>5, <1>7, <1>8, <1>9, <1>10 DEF Custody, q, fd

(* What a completion adds to the queue and takes from the kernel.          *)
LEMMA CompleteFacts ==
  ASSUME HandlerInv, NEW o \in inflight, NEW res \in {"ok", "empty", "err"},
         NEW buf \in {NO_BUF} \cup RingBufs, NEW more \in BOOLEAN,
         Complete(o, res, buf, more), UNCHANGED <<op, pc, hand>>
  PROVE  /\ Owners' = Owners /\ InHand' = InHand
         /\ Sends' \subseteq Sends /\ (~more => o \notin Sends')
         /\ \A p \in ReadsDone' :
              \/ p \in ReadsDone
              \/ p = o /\ res # "err" /\ IsRecv(o) /\ ~op[o].is_multi
         /\ \A i \in CqIndex' : \/ \E j \in CqIndex : cq'[i] = cq[j]
                                \/ cq'[i].op = o /\ cq'[i].buf = buf
<1> DEFINE e == [op |-> o, res |-> res, buf |-> buf, more |-> more]
<1>1. e \in Cqe /\ cq \in Seq(Cqe)
  BY DEF HandlerInv, HandlerTypeOK, UringTypeOK, Cqe
<1>2. e.op = o /\ e.res = res /\ e.buf = buf
  OBVIOUS
<1>3. cq' = Append(cq, e) /\ inflight' = IF more THEN inflight ELSE inflight \ {o}
  BY DEF Complete
<1> HIDE DEF e
<1>4. /\ CqIndex' = CqIndex \cup {Len(cq) + 1}
      /\ \A i \in CqIndex : cq'[i] = cq[i]
      /\ cq'[Len(cq) + 1] = e
  BY <1>1, <1>3, AppendFacts DEF CqIndex
<1>5. Owners' = Owners /\ InHand' = InHand
  BY DEF Owners, InHand
<1>6. Sends' \subseteq Sends /\ (~more => o \notin Sends')
  BY <1>3 DEF Sends, IsSend
<1>7. ASSUME NEW p \in ReadsDone', p \notin ReadsDone
      PROVE  p = o /\ res # "err" /\ IsRecv(o) /\ ~op[o].is_multi
  <2>1. /\ p \in Ops /\ IsRecv(p) /\ ~op[p].is_multi
        /\ \E i \in CqIndex' : cq'[i].op = p /\ cq'[i].res # "err"
    BY <1>7 DEF ReadsDone, IsRecv
  <2>2. PICK i \in CqIndex' : cq'[i].op = p /\ cq'[i].res # "err"
    BY <2>1
  <2>3. i \notin CqIndex
    BY <1>4, <1>7, <2>1, <2>2 DEF ReadsDone
  <2> QED
    BY <1>2, <1>4, <2>1, <2>2, <2>3
<1>8. \A i \in CqIndex' : \/ \E j \in CqIndex : cq'[i] = cq[j]
                          \/ cq'[i].op = o /\ cq'[i].buf = buf
  <2> SUFFICES ASSUME NEW i \in CqIndex'
               PROVE  \/ \E j \in CqIndex : cq'[i] = cq[j]
                      \/ cq'[i].op = o /\ cq'[i].buf = buf
    OBVIOUS
  <2>1. CASE i \in CqIndex
    BY <1>4, <2>1
  <2>2. CASE i = Len(cq) + 1
    BY <1>2, <1>4, <2>2
  <2> QED
    BY <1>4, <2>1, <2>2
<1> QED
  BY <1>5, <1>6, <1>7, <1>8

(* What the outside sees of a step of the kernel: a packet comes in on fd, *)
(* or payload p leaves on fd.                                              *)
Comes(fd) ==
  /\ arrived[fd] < MaxPkts
  /\ arrived' = [arrived EXCEPT ![fd] = @ + 1]
  /\ UNCHANGED out
Leaves(fd, p) ==
  /\ out' = [out EXCEPT ![fd][p] = @ + 1]
  /\ UNCHANGED arrived

(* No step of the kernel harms a packet, and what leaves is a packet from  *)
(* the other descriptor that had not left before.                          *)
LEMMA KernelCustody ==
  ASSUME HandlerInv, NEW form, Custody(form), Kernel, UNCHANGED loopVars
  PROVE  /\ Custody(form)' /\ Lasting
         /\ \/ UNCHANGED <<arrived, out>>
            \/ \E fd \in Fds : Comes(fd)
            \/ \E fd \in Fds, p \in Payloads :
                 /\ Leaves(fd, p) /\ GoesTo(fd, p, form)
                 /\ p[2] > 0 => out[fd][p] = 0 /\ Arrived(p)
<1>1. PICK o \in inflight :
        \/ KRecv(o) \/ KNoBufs(o) \/ KRecvEnd(o) \/ KRead(o)
        \/ KWrite(o) \/ KNoDest(o) \/ KError(o)
  BY DEF Kernel
<1>2. UNCHANGED <<pc, hand>>
  BY DEF loopVars
<1>3. /\ o \in Ops /\ op[o] \in OpRecord /\ inflight \subseteq Ops
      /\ op[o].is_multi => op[o].op_type = "UDP_RECV"
      /\ op[o].op_type # "NONE" => op[o].fd \in Fds
  BY DEF HandlerInv, HandlerTypeOK, UringTypeOK, Bookkeeping, OpRecord
<1>4. CASE KRecv(o)
  <2>1. PICK b \in Pick(br), more \in BOOLEAN, res \in RecvResults :
          mem' = [mem EXCEPT ![b] = Payload(op[o].fd)] /\ Complete(o, res, b, more)
    BY <1>4 DEF KRecv
  <2>2. /\ b \in br /\ b \in RingBufs /\ res \in {"ok", "empty", "err"}
        /\ b \in Buffers \ UnderWay
    BY PickFacts, UnderWayFacts DEF HandlerInv, HandlerTypeOK, UringTypeOK, RecvResults, Buffers
  <2>3. /\ op[o].fd \in Fds /\ op[o].is_multi /\ Comes(op[o].fd) /\ op' = op
    BY <1>3, <1>4 DEF KRecv, Comes
  <2>4. /\ Owners' = Owners /\ InHand' = InHand
        /\ Sends' \subseteq Sends
        /\ \A p \in ReadsDone' :
             \/ p \in ReadsDone
             \/ p = o /\ res # "err" /\ IsRecv(o) /\ ~op[o].is_multi
        /\ \A i \in CqIndex' :
             \/ \E j \in CqIndex : cq'[i] = cq[j]
             \/ cq'[i].op = o /\ cq'[i].buf = b
    BY <1>2, <2>1, <2>2, <2>3, CompleteFacts
  <2>5. Custody(form)' /\ Lasting
    BY <2>1, <2>2, <2>3, <2>4, ArrivalCustody DEF Comes
  <2> QED
    BY <2>3, <2>5
<1>5. CASE KRead(o)
  <2>1. PICK res \in RecvResults, more \in BOOLEAN : Complete(o, res, NO_BUF, more)
    BY <1>5 DEF KRead
  <2>2. /\ op[o].fd \in Fds /\ ~op[o].is_multi /\ Comes(op[o].fd) /\ op' = op
        /\ mem' = [mem EXCEPT ![op[o].buffer] = Payload(op[o].fd)]
        /\ IsRecv(o) /\ res \in {"ok", "empty", "err"} /\ UNCHANGED <<op, pc, hand>>
    BY <1>2, <1>3, <1>5 DEF KRead, Comes, IsRecv, poolVars, RecvResults
  <2>3. op[o].buffer \in Buffers \ UnderWay
    <3>1. o \in Owners /\ o \notin Sends \cup ReadsDone \cup InHand
      BY <1>3, <2>2 DEF Owners, Sends, ReadsDone, InHand, IsRecv, IsSend, HandlerInv, OpExclusive
    <3> QED
      BY <3>1, UsersOwn, Apart DEF UnderWay, Custody
  <2>4. /\ Owners' = Owners /\ InHand' = InHand
        /\ Sends' \subseteq Sends
        /\ \A p \in ReadsDone' :
             \/ p \in ReadsDone
             \/ p = o /\ res # "err" /\ IsRecv(o) /\ ~op[o].is_multi
        /\ \A i \in CqIndex' :
             \/ \E j \in CqIndex : cq'[i] = cq[j]
             \/ cq'[i].op = o /\ cq'[i].buf = NO_BUF
    BY <2>1, <2>2, CompleteFacts
  <2>5. Custody(form)' /\ Lasting
    BY <2>1, <2>2, <2>3, <2>4, ArrivalCustody DEF Comes
  <2> QED
    BY <2>2, <2>5
<1>6. CASE KWrite(o)
  <2>1. /\ out' = [out EXCEPT ![op[o].fd][mem[op[o].buffer]] = @ + 1]
        /\ Complete(o, "ok", NO_BUF, FALSE) /\ UNCHANGED <<op, mem, arrived>> /\ IsSend(o)
    BY <1>6 DEF KWrite, poolVars
  <2>2. o \in Sends
    BY <2>1 DEF Sends
  <2>3. /\ Owners' = Owners /\ InHand' = InHand
        /\ Sends' \subseteq Sends /\ o \notin Sends'
        /\ \A p \in ReadsDone' :
             \/ p \in ReadsDone
             \/ p = o /\ "ok" # "err" /\ IsRecv(o) /\ ~op[o].is_multi
        /\ \A i \in CqIndex' :
             \/ \E j \in CqIndex : cq'[i] = cq[j]
             \/ cq'[i].op = o /\ cq'[i].buf = NO_BUF
    <3>1. /\ "ok" \in {"ok", "empty", "err"} /\ NO_BUF \in {NO_BUF} \cup RingBufs
          /\ FALSE \in BOOLEAN /\ UNCHANGED <<op, pc, hand>>
      BY <1>2, <2>1
    <3> QED
      BY <2>1, <3>1, CompleteFacts
  <2>4. /\ Custody(form)' /\ Lasting /\ op[o].fd \in Fds
        /\ LET p == mem[op[o].buffer] IN
             /\ GoesTo(op[o].fd, p, form)
             /\ p[2] > 0 => out[op[o].fd][p] = 0 /\ Arrived(p)
    <3>1. /\ Sends' \subseteq Sends \ {o} /\ ReadsDone' \subseteq ReadsDone
          /\ \A i \in CqIndex' : cq'[i].buf # NO_BUF => \E j \in CqIndex : cq'[i] = cq[j]
      BY <2>1, <2>3 DEF IsSend, IsRecv
    <3> QED
      BY <2>1, <2>2, <2>3, <3>1, DepartureCustody
  <2> QED
    BY <2>1, <2>4 DEF Leaves, GoesTo
<1>7. CASE KNoBufs(o) \/ KRecvEnd(o) \/ KNoDest(o) \/ KError(o)
  <2>1. PICK res \in {"empty", "err"}, more \in BOOLEAN :
          /\ Complete(o, res, NO_BUF, more) /\ (res = "err" \/ op[o].is_multi)
          /\ UNCHANGED <<op, pc, hand>> /\ UNCHANGED dataVars
    BY <1>2, <1>7 DEF KNoBufs, KRecvEnd, KNoDest, KError, poolVars
  <2>2. /\ Owners' = Owners /\ InHand' = InHand
        /\ Sends' \subseteq Sends
        /\ \A p \in ReadsDone' :
             \/ p \in ReadsDone
             \/ p = o /\ res # "err" /\ IsRecv(o) /\ ~op[o].is_multi
        /\ \A i \in CqIndex' :
             \/ \E j \in CqIndex : cq'[i] = cq[j]
             \/ cq'[i].op = o /\ cq'[i].buf = NO_BUF
    BY <2>1, CompleteFacts
  <2>3. Owning'
    BY <2>1, <2>2 DEF Custody, Owning, IsSend
  <2>4. ReadsDone' \subseteq ReadsDone
    BY <2>1, <2>2
  <2>5. Custody(form)' /\ Lasting
    BY <2>1, <2>2, <2>3, <2>4, PassingOn
  <2> QED
    BY <2>1, <2>5 DEF dataVars
<1> QED
  BY <1>1, <1>4, <1>5, <1>6, <1>7

-----------------------------------------------------------------------------
(***************************************************************************)
(* A send with a buffer of its own, as the programs with DTLS make them.   *)
(***************************************************************************)

(* Payload p, which is of DTLS's own making or a copy of the packet that   *)
(* was in hand, is written to a free buffer b and sent from there.         *)
LEMMA SubmitCustody ==
  ASSUME HandlerInv, NEW form, Custody(form),
         NEW s \in Pick(io_op_pool), NEW b \in Pick(buf_addr_pool), NEW R, NEW p \in Payloads,
         ~R.is_multi, R.op_type \in {"UDP_SEND", "TUN_WRITE"}, R.buf_addr = b, R.buffer = b,
         GoesTo(R.fd, p, form),
         op' = [op EXCEPT ![s] = R], mem' = [mem EXCEPT ![b] = p],
         inflight' = inflight \cup {s},
         UNCHANGED <<cq, arrived, out>>, pc # "release", InHand' \subseteq InHand,
         p[2] > 0 => InHand' = {} /\ \E h \in InHand : SamePacket(p, mem[op[h].buffer])
  PROVE  Custody(form)' /\ Lasting
<1>1. /\ mem \in [Buffers -> Payloads \cup {NULL}] /\ arrived \in [Fds -> 0 .. MaxPkts]
      /\ op \in [Ops -> OpRecord] /\ CqIndex' = CqIndex
  BY DEF HandlerInv, HandlerTypeOK, UringTypeOK, CqIndex
<1>2. /\ s \in Ops /\ s # hand /\ b \in BufAddrs /\ b \in buf_addr_pool
      /\ op[s].op_type = "NONE"
      /\ \A i \in CqIndex : cq[i].op \in Ops \ {s}
  BY FreshOp, FreshBuf, PickFacts, EntryTypes DEF HandlerInv
<1>3. op'[s] = R /\ \A o \in Ops \ {s} : op'[o] = op[o]
  BY <1>1, <1>2
<1>4. b \notin UnderWay /\ mem'[b] = p /\ \A c \in UnderWay : mem'[c] = mem[c]
  BY <1>1, <1>2, UnderWayFacts DEF Buffers
<1>5. /\ \A o \in Sends' : o = s \/ (o \in Sends /\ op'[o] = op[o])
      /\ \A o \in ReadsDone' : o \in ReadsDone /\ op'[o] = op[o]
      /\ \A o \in InHand' : o \in InHand /\ op'[o] = op[o]
      /\ \A i \in CqIndex : op'[cq[i].op] = op[cq[i].op]
  <2>1. ASSUME NEW o \in Sends' PROVE o = s \/ (o \in Sends /\ op'[o] = op[o])
    BY <1>3 DEF Sends, IsSend, HandlerInv, HandlerTypeOK, UringTypeOK
  <2>2. ASSUME NEW o \in ReadsDone' PROVE o \in ReadsDone /\ op'[o] = op[o]
    BY <1>1, <1>2, <1>3 DEF ReadsDone, IsRecv
  <2>3. ASSUME NEW o \in InHand' PROVE o \in InHand /\ op'[o] = op[o]
    BY <1>2, <1>3 DEF InHand
  <2> QED
    BY <1>2, <1>3, <2>1, <2>2, <2>3
<1>6. /\ \A o \in Sends \cup ReadsDone \cup InHand : op[o].buffer \in UnderWay
      /\ \A i \in CqIndex : cq[i].buf # NO_BUF => cq[i].buf \in UnderWay
  BY DEF UnderWay
<1>7. ASSUME NEW c \in UnderWay'
      PROVE  /\ c = b \/ c \in UnderWay
             /\ InHand' = {} => \A h \in InHand : c = b \/ c # op[h].buffer
  <2>1. CASE \E o \in Sends' \cup ReadsDone' \cup InHand' : c = op'[o].buffer
    <3>1. PICK o \in Sends' \cup ReadsDone' \cup InHand' : c = op'[o].buffer
      BY <2>1
    <3>2. CASE o = s
      BY <1>3, <3>1, <3>2
    <3>3. CASE o # s
      <4>1. /\ o \in Sends \cup ReadsDone \cup InHand /\ c = op[o].buffer
            /\ InHand' = {} => o \in Sends \cup ReadsDone
        BY <1>5, <3>1, <3>3
      <4>2. \A h \in InHand : h \notin Sends \cup ReadsDone
        <5>1. \A h \in Sends : h \in Ops /\ ~op[h].is_multi
          BY DEF Sends, IsSend, HandlerInv, HandlerTypeOK, UringTypeOK, Bookkeeping
        <5> QED
          BY <5>1 DEF InHand, Sends, ReadsDone, HandlerInv, OpExclusive
      <4>3. \A h \in InHand : InHand' = {} => c # op[h].buffer
        BY <4>1, <4>2, UsersOwn, Apart DEF Custody
      <4> QED
        BY <1>6, <4>1, <4>3
    <3> QED
      BY <3>2, <3>3
  <2>2. CASE \E i \in CqIndex : c = cq[i].buf /\ c # NO_BUF
    BY <1>6, <2>2, UsersOwn, Apart DEF Custody
  <2> QED
    BY <1>1, <1>7, <2>1, <2>2 DEF UnderWay
<1>8. Owning'
  <2> SUFFICES ASSUME NEW o \in Owners'
               PROVE  IF op'[o].buf_addr # NULL
                      THEN op'[o].buffer = op'[o].buf_addr
                      ELSE /\ op'[o].buffer = op'[o].buf_idx /\ op'[o].buf_idx \in RingBufs
                           /\ op'[o].is_multi \/ op'[o].op_type \in {"UDP_SEND", "TUN_WRITE"}
    BY DEF Owning, IsSend
  <2>1. CASE o = s
    BY <1>2, <1>3, <2>1, Distinct
  <2>2. CASE o # s
    <3>1. o \in Owners /\ op'[o] = op[o]
      BY <1>3, <1>5, <2>2 DEF Owners, InHand
    <3> QED
      BY <3>1 DEF Custody, Owning, IsSend
  <2> QED
    BY <2>1, <2>2
<1>9. Receiving'
  <2>1. \A i \in CqIndex : cq[i].buf # NO_BUF => CameFrom(op'[cq[i].op].fd, mem'[cq[i].buf])
    BY <1>4, <1>5, <1>6 DEF Custody, Receiving
  <2>2. \A o \in ReadsDone' \cup InHand' : CameFrom(op'[o].fd, mem'[op'[o].buffer])
    BY <1>4, <1>5, <1>6 DEF Custody, Receiving
  <2> QED
    BY <1>1, <2>1, <2>2 DEF Receiving, CameFrom
<1>10. Sending(form)'
  <2>1. ASSUME NEW o \in Sends' PROVE GoesTo(op'[o].fd, mem'[op'[o].buffer], form)
    BY <1>3, <1>4, <1>5, <1>6 DEF Custody, Sending
  <2> QED
    BY <2>1 DEF Custody, Sending, GoesTo
<1>11. p[2] > 0 => /\ Arrived(p)
                   /\ \A c \in UnderWay' \ {b} : ~SamePacket(p, mem[c]) /\ ~SamePacket(mem[c], p)
                   /\ \A f \in Fds, q \in Payloads : out[f][q] > 0 => ~SamePacket(p, q)
  <2> SUFFICES ASSUME p[2] > 0
               PROVE  /\ Arrived(p)
                      /\ \A c \in UnderWay' \ {b} : ~SamePacket(p, mem[c]) /\ ~SamePacket(mem[c], p)
                      /\ \A f \in Fds, q \in Payloads : out[f][q] > 0 => ~SamePacket(p, q)
    OBVIOUS
  <2>1. PICK h \in InHand : InHand' = {} /\ SamePacket(p, mem[op[h].buffer])
    OBVIOUS
  <2>2. op[h].buffer \in UnderWay
    BY <1>6
  <2>3. Arrived(p)
    BY <2>1, <2>2 DEF SamePacket, Arrived, Custody, Once
  <2>4. ASSUME NEW c \in UnderWay' \ {b} PROVE ~SamePacket(p, mem[c]) /\ ~SamePacket(mem[c], p)
    <3>1. c \in UnderWay /\ c # op[h].buffer
      BY <1>7, <2>1
    <3>2. ~SamePacket(mem[op[h].buffer], mem[c])
      BY <2>2, <3>1 DEF Custody, Once
    <3> QED
      BY <2>1, <3>2 DEF SamePacket
  <2>5. ASSUME NEW f \in Fds, NEW q \in Payloads, out[f][q] > 0, SamePacket(p, q) PROVE FALSE
    <3>1. SamePacket(mem[op[h].buffer], q) /\ q[2] > 0
      BY <2>1, <2>5 DEF SamePacket
    <3> QED
      BY <2>2, <2>5, <3>1 DEF Custody, Once
  <2> QED
    BY <2>3, <2>4, <2>5
<1>12. Once'
  <2>1. ASSUME NEW c \in UnderWay' PROVE Arrived(mem'[c])
    <3>1. CASE c = b
      <4>1. p[1] \in Fds /\ p[2] \in Nat
        BY PayloadFacts
      <4>2. p[2] = 0 => Arrived(p)
        BY <1>1, <4>1 DEF Arrived
      <4> QED
        BY <1>4, <1>11, <3>1, <4>1, <4>2
    <3>2. CASE c \in UnderWay
      BY <1>4, <3>2 DEF Custody, Once
    <3> QED
      BY <1>7, <3>1, <3>2
  <2>2. ASSUME NEW c \in UnderWay', NEW d \in UnderWay', SamePacket(mem'[c], mem'[d]), c # d
        PROVE  FALSE
    <3>1. CASE c \in UnderWay /\ d \in UnderWay
      BY <1>4, <2>2, <3>1 DEF Custody, Once
    <3>2. CASE c = b /\ d \in UnderWay
      <4>1. p[2] > 0 /\ SamePacket(p, mem[d])
        BY <1>4, <2>2, <3>2 DEF SamePacket
      <4> QED
        BY <1>11, <2>2, <3>2, <4>1
    <3>3. CASE d = b /\ c \in UnderWay
      <4>1. p[2] > 0 /\ SamePacket(mem[c], p)
        BY <1>4, <2>2, <3>3 DEF SamePacket
      <4> QED
        BY <1>11, <2>2, <3>3, <4>1
    <3> QED
      BY <1>7, <2>2, <3>1, <3>2, <3>3
  <2>3. ASSUME NEW f \in Fds, NEW q \in Payloads, out[f][q] > 0, q[2] > 0
        PROVE  /\ out[f][q] = 1 /\ Arrived(q)
               /\ \A c \in UnderWay' : ~SamePacket(mem'[c], q)
    <3>1. out[f][q] = 1 /\ Arrived(q) /\ \A c \in UnderWay : ~SamePacket(mem[c], q)
      BY <2>3 DEF Custody, Once
    <3>2. ~SamePacket(p, q)
      BY <1>11, <2>3 DEF SamePacket
    <3> QED
      BY <1>4, <1>7, <3>1, <3>2
  <2> QED
    BY <2>1, <2>2, <2>3 DEF Once, Arrived, SamePacket
<1>13. Lasting
  <2> SUFFICES ASSUME NEW u \in Finished PROVE u \in Finished'
    BY DEF Lasting
  <2>1. ~SamePacket(p, u)
    <3> SUFFICES ASSUME SamePacket(p, u) PROVE FALSE
      OBVIOUS
    <3>1. PICK h \in InHand : SamePacket(p, mem[op[h].buffer])
      BY DEF SamePacket
    <3>2. SamePacket(mem[op[h].buffer], u) /\ op[h].buffer \in UnderWay
      BY <1>6, <3>1 DEF SamePacket
    <3> QED
      BY <3>2 DEF Finished
  <2>2. \A c \in UnderWay' : ~SamePacket(mem'[c], u)
    BY <1>4, <1>7, <2>1 DEF Finished
  <2> QED
    BY <2>2 DEF Finished, Arrived, SamePacket
<1> QED
  BY <1>8, <1>9, <1>10, <1>12, <1>13 DEF Custody

-----------------------------------------------------------------------------
(* After iouring_init there are no packets.                                *)
LEMMA InitCustody ==
  ASSUME iouring_init, hand = NULL, pc # "release", NEW form
  PROVE  Custody(form)
<1>1. /\ \A o \in Ops : op[o].op_type = "NONE"
      /\ inflight = {} /\ CqIndex = {} /\ hand \notin Ops
      /\ \A f \in Fds, p \in Payloads \cup {NULL} : out[f][p] = 0
  BY Fields, Distinct DEF iouring_init, iouring_alloc_io_op_pool, CqIndex
<1>2. Sends = {} /\ ReadsDone = {} /\ InHand = {} /\ Owners = {} /\ UnderWay = {}
  BY <1>1 DEF Sends, ReadsDone, InHand, Owners, UnderWay
<1> QED
  BY <1>1, <1>2 DEF Custody, Owning, Receiving, Sending, Once
=============================================================================
