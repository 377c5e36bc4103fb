------------------------------ MODULE EdgeDtls ------------------------------
(***************************************************************************)
(* The edge program with DTLS: main of src/edge.c from                     *)
(* iouring_initial_udp_recvs on, with do_dtls_handshake and tun_udp_run.   *)
(* It starts from a connection that init_dtls_connection has set up; that  *)
(* main tests the result of that call the wrong way round, and so never    *)
(* comes here with one, is shown by Startup.                               *)
(*                                                                         *)
(* What it shares with edge_zero (device, reads, loop, release, cleanup,   *)
(* signals, kernel) is taken from EdgeZero.  pc = "shake" comes between    *)
(* "init_recv" and "new_tun"; "wait" and "handle" occur in the handshake   *)
(* and in the loop, and conn_state tells which.                            *)
(***************************************************************************)
EXTENDS EdgeZero, Dtls

VARIABLE conn_state   \* conn->state

dtlsVars == <<vars, conn_state>>

Established == conn_state = "ESTABLISHED"

DtlsInit == Init /\ conn_state = "HANDSHAKING"

-----------------------------------------------------------------------------

DtlsInitialRecv ==
  /\ pc = "init_recv"
  /\ iouring_initial_udp_recvs(udp_fd)
  /\ pc' = "shake"
  /\ UNCHANGED <<hand, ret, running, addr_len, reads_left, heap, conn_state>>

Shake ==
  /\ \/ HandshakeWants(udp_fd, addr_len) /\ UNCHANGED conn_state
     \/ HandshakeDone(udp_fd, addr_len, "new_tun") /\ conn_state' = "ESTABLISHED"
  /\ UNCHANGED <<running, addr_len, reads_left, heap>>

ShakeFailed ==
  /\ ~Established
  /\ HandshakeFailed(addr_len)
  /\ UNCHANGED <<running, addr_len, reads_left, heap, conn_state>>

ShakeRecv ==
  /\ ~Established
  /\ HandshakeRecv(udp_fd)
  /\ addr_len' = LearnedLen(addr_len)
  /\ UNCHANGED <<running, reads_left, heap, conn_state>>

DtlsStartup ==
  /\ \/ NewTun \/ InitialRead \/ InitialReadSkipped \/ InitialReadsDone
     \/ StartupFailed
  /\ UNCHANGED conn_state

-----------------------------------------------------------------------------
(***************************************************************************)
(* tun_udp_run                                                             *)
(***************************************************************************)

(* wait_for_recv, for the handshake and for the loop.                      *)
DtlsWait == Wait /\ UNCHANGED conn_state

(* case OP_TYPE_TUN_READ                                                   *)
EncryptTun ==
  /\ pc = "handle" /\ Established /\ hand # NULL
  /\ op[hand].op_type = "TUN_READ"
  /\ dtls_encrypt_and_send_udp(udp_fd, addr_len)
  /\ pc' = "release"
  /\ UNCHANGED <<hand, running, addr_len, reads_left, heap, conn_state>>

(* Mutation: the datagram is encrypted and sent back.                      *)
DecryptUdp_Echo ==
  /\ pc = "handle" /\ Established /\ hand # NULL
  /\ op[hand].op_type = "UDP_RECV"
  /\ dtls_encrypt_and_send_udp(udp_fd, addr_len)
  /\ pc' = "release"
  /\ UNCHANGED <<hand, running, addr_len, reads_left, heap, conn_state>>

(* case OP_TYPE_UDP_RECV                                                   *)
DecryptUdp ==
  /\ pc = "handle" /\ Established /\ hand # NULL
  /\ op[hand].op_type = "UDP_RECV"
  /\ dtls_decrypt_and_write_tun(tun_fd)
  /\ pc' = "release"
  /\ UNCHANGED <<hand, running, addr_len, reads_left, heap, conn_state>>

(* The rest of the loop and what follows it.                               *)
DtlsLoop ==
  /\ Established
  /\ \/ LoopCheck \/ HandleNull \/ Release
     \/ Leave \/ iouring_free_buffers \/ QueueExit
  /\ UNCHANGED conn_state

DtlsProgram ==
  \/ DtlsInitialRecv \/ Shake \/ ShakeFailed \/ ShakeRecv \/ DtlsStartup
  \/ DtlsWait \/ EncryptTun \/ DecryptUdp \/ DtlsLoop

DtlsNext ==
  \/ DtlsProgram
  \/ (signal_handler \/ Kern \/ Ended) /\ UNCHANGED conn_state

DtlsSpec == DtlsInit /\ [][DtlsNext]_dtlsVars

(* As for edge_zero: the program is scheduled, and the kernel finishes     *)
(* sends and writes.                                                       *)
DtlsFairSpec ==
  /\ DtlsSpec
  /\ WF_dtlsVars(DtlsProgram)
  /\ WF_dtlsVars(Kern /\ (\E f \in Fds : out'[f] # out[f]) /\ UNCHANGED conn_state)

-----------------------------------------------------------------------------
(***************************************************************************)
(* Properties                                                              *)
(***************************************************************************)

DtlsTypeOK ==
  /\ UringTypeOK
  /\ pc \in Startup \cup {"shake"} \cup InLoop \cup Exit
  /\ hand \in Ops \cup {NULL}
  /\ ret \in {0, -1}
  /\ running \in BOOLEAN
  /\ addr_len \in {0, 1}
  /\ reads_left \in Nat
  /\ heap \subseteq Ops \cup BufAddrs \cup {BR_BUFS}
  /\ conn_state \in {"HANDSHAKING", "ESTABLISHED"}

(* What is sent is copied: only a multishot operation uses a buffer of the *)
(* ring, and an operation that uses a buf_addr_t owns it.                  *)
CopiedOut ==
  \A o \in Ops :
    /\ op[o].buffer \in BufAddrs => op[o].buf_addr = op[o].buffer
    /\ op[o].buffer \in RingBufs => op[o].is_multi

(* The handshake and the creation of the device, while they succeed.       *)
Before ==
  /\ Going
  /\ \/ pc \in {"init_recv", "shake", "new_tun"}
     \/ pc \in {"wait", "handle"} /\ ~Established

(* Of the reads to be started one is missing only if no operation is free. *)
ReadsStarted ==
  pc = "init_reads" =>
    \E n \in ReadCounts :
      \/ Reads + reads_left = n
      \/ Reads + reads_left < n /\ io_op_pool = {}

(* What makes the properties below inductive.                              *)
DtlsInv ==
  /\ DtlsTypeOK
  /\ HandlerInv
  /\ HeapKept
  /\ pc = "shake" => heap = Ops \cup BufAddrs \cup {BR_BUFS}
  /\ LossInv
  /\ Descriptors
  /\ CopiedOut
  /\ KernelMemory
  /\ Custody("converted")
  /\ Before => ReadOps = {} /\ reads_left \in ReadCounts
  /\ ReadsStarted

(* iouring_initial_tun_reads starts as many reads as were asked for, fewer *)
(* only if the flights of the handshake that are still on their way leave  *)
(* it without a single free operation.  Every read that finishes later is  *)
(* replaced: the loop never has fewer or more reads than when it began.    *)
ReadsStay ==
  /\ []ReadsStarted
  /\ [][Healthy /\ Healthy' /\ Established => Reads' = Reads]_dtlsVars

(* Only what DTLS has encrypted leaves on the socket, only what it has     *)
(* decrypted leaves on the device, and never what a buffer held before.    *)
OnlyConverted ==
  \A f \in Fds, p \in Payloads \cup {NULL} :
    out[f][p] > 0 => p # NULL /\ p[3] = "converted"

(* The tunnel implements a relay, with DTLS in between; the flights of the *)
(* handshake, number 0, are not part of it.                                *)
LeavingDtls == Fds \X (Fds \X (1 .. MaxPkts) \X {"converted"})

DtlsTunnel == INSTANCE Relay WITH
  Packets <- LeavingDtls,
  taken <- ({tun_fd} \X {Converted(p) : p \in Came(udp_fd)})
             \cup ({udp_fd} \X {Converted(p) : p \in Came(tun_fd)}),
  delivered <- [q \in LeavingDtls |-> out[q[1]][q[2]]]

DtlsRelay == DtlsTunnel!Spec

(* Every packet the loop finds leaves on the other side, unless the        *)
(* program is stopped: those of the socket that the handshake has left in  *)
(* the completion queue, and all of the device.                            *)
Tunnelled ==
  \A n \in 1 .. MaxPkts :
    /\ (Established /\ \E i \in CqIndex :
          cq[i].buf # NO_BUF /\ mem[cq[i].buf] = <<udp_fd, n, "raw">>)
         ~> out[tun_fd][<<udp_fd, n, "converted">>] > 0 \/ pc \in Exit
    /\ arrived[tun_fd] >= n
         ~> out[udp_fd][<<tun_fd, n, "converted">>] > 0 \/ pc \in Exit
=============================================================================
