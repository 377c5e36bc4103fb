-------------------------------- MODULE Dtls --------------------------------
(***************************************************************************)
(* How the programs with DTLS use the ring: the handshake of               *)
(* src/connection.c and the two functions of src/packet_handler.c that     *)
(* encrypt and decrypt packets.  Unlike tun_to_udp and udp_to_tun these    *)
(* copy: what is sent has a buffer of its own.                             *)
(*                                                                         *)
(* OpenSSL is external.  Here it accepts a packet or does not; what it     *)
(* does with the flights and records themselves is the subject of Session. *)
(* pc = "shake" is the call of SSL_do_handshake.                           *)
(***************************************************************************)
EXTENDS PacketHandler

(* Whether SSL_write, SSL_read and SSL_do_handshake succeed.               *)
DtlsResults == {TRUE} \cup {r \in {FALSE} : "bad" \in Faults}

Converted(p) == <<p[1], p[2], "converted">>
Flight(fd) == <<fd, 0, "converted">>

(* Mutation: the buffer is used without being taken off the free list.     *)
SubmitNew_Shared(type, fd, addr_len, p) ==
  /\ \E s \in Pick(io_op_pool), b \in Pick(buf_addr_pool) :
       /\ io_op_pool' = io_op_pool \ {s}
       /\ op' = [op EXCEPT ![s] =
            [SingleOp(type, fd, b) EXCEPT !.data_len = 1, !.addr_len = addr_len]]
       /\ mem' = [mem EXCEPT ![b] = p]
       /\ inflight' = inflight \cup {s}
  /\ UNCHANGED <<buf_addr_pool, br, cq, arrived, out>>

(* Mutation: the request is prepared and not submitted.                    *)
SubmitNew_NotSubmitted(type, fd, addr_len, p) ==
  /\ \E s \in Pick(io_op_pool), b \in Pick(buf_addr_pool) :
       /\ io_op_pool' = io_op_pool \ {s}
       /\ buf_addr_pool' = buf_addr_pool \ {b}
       /\ op' = [op EXCEPT ![s] =
            [SingleOp(type, fd, b) EXCEPT !.data_len = 1, !.addr_len = addr_len]]
       /\ mem' = [mem EXCEPT ![b] = p]
  /\ UNCHANGED <<br, cq, inflight, arrived, out>>

(* io_op_alloc of a send or write, its buffer filled with p, and the       *)
(* submission.                                                             *)
SubmitNew(type, fd, addr_len, p) ==
  /\ \E s \in Pick(io_op_pool), b \in Pick(buf_addr_pool) :
       /\ io_op_pool' = io_op_pool \ {s}
       /\ buf_addr_pool' = buf_addr_pool \ {b}
       /\ op' = [op EXCEPT ![s] =
            [SingleOp(type, fd, b) EXCEPT !.data_len = 1, !.addr_len = addr_len]]
       /\ mem' = [mem EXCEPT ![b] = p]
       /\ inflight' = inflight \cup {s}
  /\ UNCHANGED <<br, cq, arrived, out>>

NoneFree == io_op_pool = {} \/ buf_addr_pool = {}

-----------------------------------------------------------------------------
(***************************************************************************)
(* dtls_encrypt_and_send_udp and dtls_decrypt_and_write_tun                *)
(***************************************************************************)

(* Mutation: the packet is sent from the buffer it came in.                *)
Copied_InPlace(type, fd, addr_len) ==
  /\ Forwarded(type, fd, addr_len)
  /\ UNCHANGED <<cq, dataVars>>

Copied(type, fd, addr_len) ==
  /\ op[hand].data_len > 0
  /\ SubmitNew(type, fd, addr_len, Converted(mem[op[hand].buffer]))
  /\ ret' = 0

(* Mutation: an error path forgets io_op_free.                             *)
CopyFailed_Leak ==
  /\ \E s \in Pick(io_op_pool) : io_op_pool' = io_op_pool \ {s}
  /\ FALSE \in DtlsResults
  /\ ret' = -1
  /\ UNCHANGED <<buf_addr_pool, br, op, kernelVars, dataVars>>

(* Nothing is free, or DTLS or the submission fails: whatever was          *)
(* allocated is back where it was.                                         *)
CopyFailed ==
  /\ \/ NoneFree
     \/ op[hand].data_len = 0
     \/ FALSE \in DtlsResults \cup SubmitResults
  /\ ret' = -1
  /\ UNCHANGED uringVars

dtls_encrypt_and_send_udp(fd, addr_len) ==
  Copied("UDP_SEND", fd, addr_len) \/ CopyFailed

dtls_decrypt_and_write_tun(tun_fd) == Copied("TUN_WRITE", tun_fd, 0) \/ CopyFailed

-----------------------------------------------------------------------------
(***************************************************************************)
(* do_dtls_handshake on the socket fd                                      *)
(***************************************************************************)

(* SSL_do_handshake leaves a flight to be sent, or nothing.  A client      *)
(* begins with a flight; a server has none before it knows its client.     *)
SendPending(fd, addr_len) ==
  /\ pc = "shake"
  /\ \/ addr_len > 0 /\ SubmitNew("UDP_SEND", fd, addr_len, Flight(fd))
     \/ (addr_len = 0 \/ hand # NULL) /\ UNCHANGED uringVars

(* SSL_ERROR_WANT_READ                                                     *)
HandshakeWants(fd, addr_len) ==
  /\ SendPending(fd, addr_len)
  /\ pc' = "wait"
  /\ UNCHANGED <<hand, ret>>

(* SSL_do_handshake returns 1, which takes a datagram of this connection.  *)
HandshakeDone(fd, addr_len, next) ==
  /\ SendPending(fd, addr_len)
  /\ hand # NULL /\ op[hand].fd = fd
  /\ pc' = next
  /\ hand' = NULL
  /\ UNCHANGED ret

(* SSL fails, the flight cannot be sent, or wait_for_recv has returned     *)
(* NULL: main returns at once, and the process is gone.                    *)
HandshakeFailed(addr_len) ==
  /\ \/ pc = "shake" /\ hand # NULL /\ FALSE \in DtlsResults
     \/ pc = "shake" /\ addr_len > 0 /\ (NoneFree \/ FALSE \in SubmitResults)
     \/ pc = "handle" /\ hand = NULL
  /\ pc' = "done"
  /\ inflight' = {}
  /\ UNCHANGED <<poolVars, cq, dataVars, hand, ret>>

(* Mutation: the packet is not freed.                                      *)
HandshakeRecv_Leak(fd) ==
  /\ pc = "handle" /\ hand # NULL
  /\ op[hand].fd = fd
  /\ pc' = "shake"
  /\ UNCHANGED <<uringVars, hand, ret>>

(* A datagram of this connection: BIO_write, then io_op_free.              *)
HandshakeRecv(fd) ==
  /\ pc = "handle" /\ hand # NULL
  /\ op[hand].fd = fd
  /\ io_op_free(hand)
  /\ hand' = PointerAfterFree(hand)
  /\ pc' = "shake"
  /\ UNCHANGED <<kernelVars, dataVars, ret>>

(* A datagram of another connection is dropped, without io_op_free.        *)
HandshakeOther(fd) ==
  /\ pc = "handle" /\ hand # NULL
  /\ op[hand].fd # fd
  /\ pc' = "shake"
  /\ UNCHANGED <<uringVars, hand, ret>>

(* The first datagram tells a server who its peer is.                      *)
LearnedLen(addr_len) == IF addr_len = 0 THEN op[hand].addr_len ELSE addr_len
=============================================================================
