----------------------------- MODULE DtlsProofs -----------------------------
(***************************************************************************)
(* Lemmas about Dtls, for both programs that use it: the handshake and the *)
(* copying of packets keep operations and buffers apart (HandlerInv), lose *)
(* nothing (Keeps) and keep packets what they are (Custody).               *)
(***************************************************************************)
EXTENDS Dtls, CustodyProofs

(* The operations are as they were, but for a new one of this type on fd.  *)
Requested(type, fd) ==
  \A o \in Ops :
    \/ op'[o] = op[o]
    \/ /\ op'[o].op_type = type /\ op'[o].fd = fd /\ ~op'[o].is_multi
       /\ op'[o].buf_addr \in BufAddrs /\ op'[o].buffer = op'[o].buf_addr

(* What SubmitNew does, with the contents of the new operation as R.       *)
LEMMA SubmitFacts ==
  ASSUME HandlerInv, NEW type \in {"UDP_SEND", "TUN_WRITE"}, NEW fd \in Fds,
         NEW a \in {0, 1}, NEW p \in Payloads, SubmitNew(type, fd, a, p)
  PROVE  \E s \in Pick(io_op_pool), b \in Pick(buf_addr_pool), R \in OpRecord :
           /\ ~R.is_multi /\ R.op_type = type /\ R.fd = fd
           /\ R.buf_addr = b /\ R.buffer = b /\ R.buf_idx = NO_BUF
           /\ io_op_pool' = io_op_pool \ {s}
           /\ buf_addr_pool' = buf_addr_pool \ {b}
           /\ op' = [op EXCEPT ![s] = R]
           /\ mem' = [mem EXCEPT ![b] = p]
           /\ mem' \in [Buffers -> Payloads \cup {NULL}]
           /\ inflight' = inflight \cup {s}
           /\ UNCHANGED <<br, cq, arrived, out>>
<1>1. PICK s \in Pick(io_op_pool), b \in Pick(buf_addr_pool) :
        /\ io_op_pool' = io_op_pool \ {s}
        /\ buf_addr_pool' = buf_addr_pool \ {b}
        /\ op' = [op EXCEPT ![s] =
             [SingleOp(type, fd, b) EXCEPT !.data_len = 1, !.addr_len = a]]
        /\ mem' = [mem EXCEPT ![b] = p]
        /\ inflight' = inflight \cup {s}
  BY DEF SubmitNew
<1> DEFINE R == [SingleOp(type, fd, b) EXCEPT !.data_len = 1, !.addr_len = a]
<1>2. UNCHANGED <<br, cq, arrived, out>>
  BY DEF SubmitNew
<1>3. b \in BufAddrs /\ type \in OpTypes
  BY FreshBuf DEF OpTypes
<1>4. /\ R \in OpRecord /\ ~R.is_multi /\ R.op_type = type /\ R.fd = fd
      /\ R.buf_addr = b /\ R.buffer = b /\ R.buf_idx = NO_BUF
  <2> DEFINE Q == SingleOp(type, fd, b)
  <2>1. Q \in OpRecord
    BY <1>3, RecordTypes
  <2>2. /\ ~Q.is_multi /\ Q.op_type = type /\ Q.fd = fd
        /\ Q.buf_addr = b /\ Q.buffer = b /\ Q.buf_idx = NO_BUF
    BY Fields
  <2> HIDE DEF Q
  <2>3. R = [Q EXCEPT !.data_len = 1, !.addr_len = a]
    BY DEF Q
  <2> HIDE DEF R
  <2> QED
    BY <2>1, <2>2, <2>3 DEF OpRecord
<1>5. mem' \in [Buffers -> Payloads \cup {NULL}]
  BY <1>1 DEF HandlerInv, HandlerTypeOK, UringTypeOK
<1> HIDE DEF R
<1>6. op' = [op EXCEPT ![s] = R]
  BY <1>1 DEF R
<1> QED
  BY <1>1, <1>2, <1>4, <1>5, <1>6

(* A new request keeps operations and buffers apart and loses nothing.     *)
LEMMA SubmitStep ==
  ASSUME HandlerInv, Moves, NEW type \in {"UDP_SEND", "TUN_WRITE"}, NEW fd \in Fds,
         NEW a \in {0, 1}, NEW p \in Payloads, SubmitNew(type, fd, a, p)
  PROVE  HandlerInv' /\ Requested(type, fd) /\ (Kept /\ Careful => Keeps)
<1>1. PICK s \in Pick(io_op_pool), b \in Pick(buf_addr_pool), R \in OpRecord :
           /\ ~R.is_multi /\ R.op_type = type /\ R.fd = fd
           /\ R.buf_addr = b /\ R.buffer = b /\ R.buf_idx = NO_BUF
           /\ io_op_pool' = io_op_pool \ {s}
           /\ buf_addr_pool' = buf_addr_pool \ {b}
           /\ op' = [op EXCEPT ![s] = R]
           /\ mem' \in [Buffers -> Payloads \cup {NULL}]
           /\ inflight' = inflight \cup {s}
           /\ UNCHANGED <<br, cq, arrived, out>>
  BY SubmitFacts
<1>2. R.op_type # "NONE" /\ R.fd # NULL
  BY <1>1, Distinct
<1>3. HandlerInv'
  BY <1>1, <1>2, NewRequestStep
<1>4. Kept /\ Careful => Keeps
  BY <1>1, NewRequestKeeps
<1>5. Requested(type, fd)
  <2>1. op \in [Ops -> OpRecord] /\ s \in Ops /\ b \in BufAddrs
    BY FreshOp, FreshBuf DEF HandlerInv, HandlerTypeOK, UringTypeOK
  <2>2. op'[s] = R /\ \A o \in Ops \ {s} : op'[o] = op[o]
    BY <1>1, <2>1
  <2> QED
    BY <1>1, <2>1, <2>2 DEF Requested
<1> QED
  BY <1>3, <1>4, <1>5

-----------------------------------------------------------------------------
(***************************************************************************)
(* do_dtls_handshake                                                       *)
(***************************************************************************)

(* The flight of a handshake is a payload of DTLS's own.                   *)
LEMMA FlightFacts ==
  ASSUME NEW fd \in Fds
  PROVE  /\ Flight(fd) \in Payloads /\ Flight(fd)[2] = 0
         /\ GoesTo(fd, Flight(fd), "converted")
<1>1. 0 \in 0 .. MaxPkts
  BY UringAssumption
<1>2. Flight(fd) \in Payloads /\ Flight(fd)[2] = 0 /\ Flight(fd)[3] = "converted"
  BY <1>1, PayloadFacts DEF Flight
<1> QED
  BY <1>2 DEF GoesTo

(* One round of the handshake, with or without a flight to send.           *)
LEMMA ShakeStep ==
  ASSUME HandlerInv, Custody("converted"), NEW fd \in Fds, NEW a \in {0, 1},
         \/ HandshakeWants(fd, a)
         \/ \E next \in {"shake", "wait", "new_tun"} : HandshakeDone(fd, a, next)
  PROVE  /\ HandlerInv' /\ Custody("converted")' /\ Lasting /\ Requested("UDP_SEND", fd)
         /\ Kept => Keeps
         /\ pc = "shake" /\ pc' \in {"shake", "wait", "new_tun"} /\ UNCHANGED <<arrived, out>>
         /\ \A o \in Sends' :
              \/ o \in Sends /\ op'[o] = op[o] /\ mem'[op[o].buffer] = mem[op[o].buffer]
              \/ mem'[op'[o].buffer][2] = 0
<1>1. /\ pc = "shake" /\ pc' \in {"shake", "wait", "new_tun"} /\ UNCHANGED ret
      /\ hand' \in {hand, NULL} /\ SendPending(fd, a)
  BY DEF HandshakeWants, HandshakeDone, SendPending
<1>2. Moves /\ Careful /\ InHand' = {}
  BY <1>1 DEF Moves, Careful, InHand, HandlerInv, HandlerTypeOK
<1>3. CASE SubmitNew("UDP_SEND", fd, a, Flight(fd))
  <2>1. PICK s \in Pick(io_op_pool), b \in Pick(buf_addr_pool), R \in OpRecord :
           /\ ~R.is_multi /\ R.op_type = "UDP_SEND" /\ R.fd = fd
           /\ R.buf_addr = b /\ R.buffer = b
           /\ op' = [op EXCEPT ![s] = R]
           /\ mem' = [mem EXCEPT ![b] = Flight(fd)]
           /\ inflight' = inflight \cup {s}
           /\ UNCHANGED <<cq, arrived, out>>
    BY <1>3, FlightFacts, SubmitFacts
  <2>2. Custody("converted")' /\ Lasting
    <3> DEFINE p == Flight(fd)
    <3>1. p \in Payloads /\ ~(p[2] > 0) /\ GoesTo(R.fd, p, "converted")
      BY <2>1, FlightFacts
    <3> HIDE DEF p
    <3>2. mem' = [mem EXCEPT ![b] = p]
      BY <2>1 DEF p
    <3>3. pc # "release" /\ InHand' \subseteq InHand
      BY <1>1, <1>2
    <3> QED
      BY <2>1, <3>1, <3>2, <3>3, SubmitCustody
  <2>3. ASSUME NEW o \in Sends'
        PROVE  \/ o \in Sends /\ op'[o] = op[o] /\ mem'[op[o].buffer] = mem[op[o].buffer]
               \/ mem'[op'[o].buffer][2] = 0
    <3>1. /\ op \in [Ops -> OpRecord] /\ s \in Ops /\ b \in BufAddrs /\ b \in Buffers
          /\ b \in buf_addr_pool
          /\ mem \in [Buffers -> Payloads \cup {NULL}] /\ inflight \subseteq Ops
      BY FreshOp, FreshBuf DEF HandlerInv, HandlerTypeOK, UringTypeOK, Buffers
    <3>2. CASE o = s
      BY <2>1, <3>1, <3>2, FlightFacts
    <3>3. CASE o # s
      <4>1. o \in inflight /\ o \in Ops /\ op'[o] = op[o] /\ o \in Sends
        BY <2>1, <2>3, <3>1, <3>3 DEF Sends, IsSend
      <4>2. op[o].buffer \in Buffers /\ op[o].buffer # b
        BY <3>1, <4>1, UsersOwn, Apart DEF Custody
      <4> QED
        BY <2>1, <3>1, <4>1, <4>2
    <3> QED
      BY <3>2, <3>3
  <2> QED
    BY <1>1, <1>2, <1>3, <2>1, <2>2, <2>3, FlightFacts, SubmitStep
<1>4. CASE UNCHANGED uringVars
  <2>1. /\ UNCHANGED <<op, cq, dataVars, poolVars, kernelVars>>
        /\ UNCHANGED <<io_op_pool, buf_addr_pool, br, inflight, mem, arrived, out>>
    BY <1>4 DEF uringVars, poolVars, kernelVars, dataVars
  <2>2. HandlerInv' /\ Custody("converted")' /\ Lasting
    BY <1>1, <1>2, <2>1, PlainStep, PlainCustody
  <2>3. Kept => Keeps
    BY <1>2, <2>1, PlainKeeps
  <2>4. Sends' = Sends
    BY <2>1 DEF Sends, IsSend
  <2> QED
    BY <1>1, <2>1, <2>2, <2>3, <2>4 DEF Requested
<1> QED
  BY <1>1, <1>3, <1>4 DEF SendPending

(* A handshake that fails ends the process.                                *)
LEMMA ShakeFailedStep ==
  ASSUME HandlerInv, NEW form, Custody(form), NEW a \in {0, 1}, HandshakeFailed(a)
  PROVE  /\ HandlerInv' /\ Custody(form)' /\ Lasting /\ pc' = "done" /\ inflight' = {}
         /\ UNCHANGED <<op, arrived, out>>
<1>1. /\ Moves /\ UNCHANGED <<op, cq, dataVars, io_op_pool, buf_addr_pool, br>>
      /\ inflight' = {} /\ pc # "release" /\ pc' = "done"
  BY DEF HandshakeFailed, Moves, poolVars, HandlerInv, HandlerTypeOK
<1> QED
  BY <1>1, PlainStep, PlainCustody DEF dataVars

(* A datagram of the handshake is used up.                                 *)
LEMMA ShakeRecvStep ==
  ASSUME HandlerInv, NEW form, Custody(form), NEW fd \in Fds, HandshakeRecv(fd)
  PROVE  /\ HandlerInv' /\ Custody(form)' /\ Lasting /\ Drops /\ (Kept => Keeps)
         /\ pc = "handle" /\ hand # NULL /\ pc' = "shake" /\ io_op_free(hand)
         /\ UNCHANGED <<kernelVars, dataVars>>
<1>1. /\ pc = "handle" /\ hand # NULL /\ io_op_free(hand) /\ pc' = "shake"
      /\ hand' = PointerAfterFree(hand) /\ UNCHANGED <<kernelVars, dataVars, ret>>
  BY DEF HandshakeRecv
<1> QED
  BY <1>1, FreeHandStep, FreeHandCustody, FreeHandKeeps

-----------------------------------------------------------------------------
(***************************************************************************)
(* dtls_encrypt_and_send_udp and dtls_decrypt_and_write_tun                *)
(***************************************************************************)

(* A packet from another descriptor is copied to a send on fd.             *)
LEMMA CopiedStep ==
  ASSUME HandlerInv, Custody("converted"), pc = "handle", hand # NULL,
         NEW type \in {"UDP_SEND", "TUN_WRITE"}, NEW fd \in Fds, fd # op[hand].fd,
         NEW a \in {0, 1}, Copied(type, fd, a), pc' = "release", hand' = hand
  PROVE  /\ HandlerInv' /\ Custody("converted")' /\ Lasting /\ Requested(type, fd)
         /\ (Kept => Keeps) /\ UNCHANGED <<arrived, out>>
<1> DEFINE m == mem[op[hand].buffer]
           p == Converted(m)
<1>1. SubmitNew(type, fd, a, p) /\ ret' = 0
  BY DEF Copied
<1>2. Moves /\ Careful
  BY <1>1 DEF Moves, Careful
<1>3. hand \in InHand /\ InHand' = {}
  BY DEF InHand, HandlerInv, HandlerTypeOK
<1>4. CameFrom(op[hand].fd, m)
  BY <1>3 DEF Custody, Receiving
<1>5. /\ p \in Payloads /\ p[1] = m[1] /\ p[2] = m[2] /\ p[3] = "converted"
      /\ m[1] = op[hand].fd /\ m[2] > 0
  BY <1>4, PayloadFacts DEF CameFrom, Converted
<1>6. GoesTo(fd, p, "converted") /\ SamePacket(p, m)
  BY <1>5 DEF GoesTo, SamePacket
<1> HIDE DEF p
<1>7. PICK s \in Pick(io_op_pool), b \in Pick(buf_addr_pool), R \in OpRecord :
           /\ ~R.is_multi /\ R.op_type = type /\ R.fd = fd
           /\ R.buf_addr = b /\ R.buffer = b
           /\ op' = [op EXCEPT ![s] = R]
           /\ mem' = [mem EXCEPT ![b] = p]
           /\ inflight' = inflight \cup {s}
           /\ UNCHANGED <<cq, arrived, out>>
  BY <1>1, <1>5, SubmitFacts
<1>8. Custody("converted")' /\ Lasting
  BY <1>3, <1>5, <1>6, <1>7, SubmitCustody
<1> QED
  BY <1>1, <1>2, <1>5, <1>7, <1>8, SubmitStep
=============================================================================
