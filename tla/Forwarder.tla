----------------------------- MODULE Forwarder -----------------------------
(***************************************************************************)
(* The forwarder: main of src/forwarder.c from the first                   *)
(* iouring_initial_udp_recvs on, with forwarder_run and                    *)
(* forward_udp_packet.  Two connections share one ring and one loop: an    *)
(* inbound one, in which the forwarder is the server, and an outbound one, *)
(* in which it is the client.  Like EdgeDtls it starts from connections    *)
(* that are set up.                                                        *)
(*                                                                         *)
(*   pc                  the program is about to                           *)
(*   init_in, init_out   call iouring_initial_udp_recvs                    *)
(*   shake               call SSL_do_handshake                             *)
(*   wait                go round the loop of wait_for_recv                *)
(*   handle              handle what wait_for_recv returned                *)
(*   release             call io_op_free on the packet in hand             *)
(*   destroy             call forwarder_destroy                            *)
(*   done                the process has ended                             *)
(***************************************************************************)
EXTENDS Dtls

CONSTANTS in_fd, out_fd   \* the sockets of the two connections

ASSUME ForwarderAssumption ==
  /\ Fds = {in_fd, out_fd}
  /\ in_fd # out_fd

VARIABLES
  conn_state,  \* state of each connection
  addr_len,    \* addr_len of each connection
  running,     \* the flag the signal handler clears
  shaken,      \* history: packets used up by a handshake
  dropped      \* history: packets dropped in the other one's handshake

connVars == <<conn_state, addr_len>>
history == <<shaken, dropped>>
vars == <<uringVars, loopVars, connVars, running, history>>

Init ==
  /\ iouring_init
  /\ pc = "init_in"
  /\ hand = NULL
  /\ ret = 0
  /\ conn_state = [f \in Fds |-> "HANDSHAKING"]
  /\ addr_len = [f \in Fds |-> IF f = in_fd THEN 0 ELSE 1]
  /\ running = TRUE
  /\ shaken = {} /\ dropped = {}

Other(f) == IF f = in_fd THEN out_fd ELSE in_fd

(* Both handshakes are over and forwarder_run has been called.             *)
InRun == \A f \in Fds : conn_state[f] = "ESTABLISHED"

(* The connection whose handshake is going on: inbound comes first.        *)
conn == IF conn_state[in_fd] = "HANDSHAKING" THEN in_fd ELSE out_fd

Held == <<mem[op[hand].buffer][1], mem[op[hand].buffer][2]>>

-----------------------------------------------------------------------------
InitialRecvs ==
  /\ \/ pc = "init_in" /\ iouring_initial_udp_recvs(in_fd) /\ pc' = "init_out"
     \/ pc = "init_out" /\ iouring_initial_udp_recvs(out_fd) /\ pc' = "shake"
  /\ UNCHANGED <<hand, ret, connVars, running, history>>

InitialRecvsFailed ==
  /\ pc \in {"init_in", "init_out"}
  /\ io_op_pool = {} \/ FALSE \in SubmitResults
  /\ pc' = "done"
  /\ inflight' = {}
  /\ UNCHANGED <<poolVars, cq, dataVars, hand, ret, connVars, running, history>>

(* do_dtls_handshake, for inbound and then for outbound                    *)
Shake ==
  /\ \/ /\ HandshakeWants(conn, addr_len[conn])
        /\ UNCHANGED conn_state
     \/ /\ HandshakeDone(conn, addr_len[conn], IF conn = in_fd THEN "shake" ELSE "wait")
        /\ conn_state' = [conn_state EXCEPT ![conn] = "ESTABLISHED"]
  /\ UNCHANGED <<addr_len, running, history>>

ShakeFailed ==
  /\ ~InRun
  /\ HandshakeFailed(addr_len[conn])
  /\ UNCHANGED <<connVars, running, history>>

ShakeRecv ==
  /\ ~InRun
  /\ HandshakeRecv(conn)
  /\ addr_len' = [addr_len EXCEPT ![conn] = LearnedLen(@)]
  /\ shaken' = shaken \cup {Held}
  /\ UNCHANGED <<conn_state, running, dropped>>

ShakeOther ==
  /\ ~InRun
  /\ HandshakeOther(conn)
  /\ dropped' = dropped \cup {Held}
  /\ UNCHANGED <<connVars, running, shaken>>

-----------------------------------------------------------------------------
(***************************************************************************)
(* forwarder_run                                                           *)
(***************************************************************************)

Wait == wait_for_recv /\ UNCHANGED <<connVars, running, history>>

(* while (true): only a failure ends the loop.                             *)
RunFailed ==
  /\ pc = "handle" /\ InRun /\ hand = NULL
  /\ ret' = -1
  /\ pc' = "destroy"
  /\ UNCHANGED <<uringVars, hand, connVars, running, history>>

(* Mutation: the packet goes back where it came from.                      *)
forward_udp_packet_Back ==
  /\ pc = "handle" /\ InRun /\ hand # NULL
  /\ dtls_encrypt_and_send_udp(op[hand].fd, addr_len[op[hand].fd])
  /\ pc' = IF ret' < 0 THEN "destroy" ELSE "release"
  /\ UNCHANGED <<hand, connVars, running, history>>

(* Decrypt with the connection the packet came from, encrypt with the      *)
(* other one.  If that fails forwarder_run returns, without io_op_free.    *)
forward_udp_packet ==
  /\ pc = "handle" /\ InRun /\ hand # NULL
  /\ LET fd == Other(op[hand].fd) IN dtls_encrypt_and_send_udp(fd, addr_len[fd])
  /\ pc' = IF ret' < 0 THEN "destroy" ELSE "release"
  /\ UNCHANGED <<hand, connVars, running, history>>

(* Mutation: without io_op_free.                                           *)
Release_Skipped ==
  /\ pc = "release" /\ Settled
  /\ pc' = "wait"
  /\ UNCHANGED <<uringVars, hand, ret, connVars, running, history>>

Release ==
  /\ pc = "release" /\ Settled
  /\ io_op_free(hand)
  /\ hand' = PointerAfterFree(hand)
  /\ pc' = "wait"
  /\ UNCHANGED <<kernelVars, dataVars, ret, connVars, running, history>>

(* iouring_cleanup: the pools are freed and what is in flight is cancelled.*)
(* EdgeDtls has these in two steps, with the kernel in between.            *)
forwarder_destroy ==
  /\ pc = "destroy"
  /\ io_op_pool' = {} /\ buf_addr_pool' = {} /\ br' = {}
  /\ inflight' = {}
  /\ pc' = "done"
  /\ UNCHANGED <<op, cq, dataVars, hand, ret, connVars, running, history>>

(* Nobody looks at running; a signal only counts if it finds the program   *)
(* blocked, whose wait it makes fail.                                      *)
signal_handler ==
  /\ pc # "done"
  /\ running' = FALSE
  /\ WaitInterrupted \/ UNCHANGED <<uringVars, loopVars>>
  /\ UNCHANGED <<connVars, history>>

Kern == Kernel /\ UNCHANGED <<loopVars, connVars, running, history>>

Ended == pc = "done" /\ UNCHANGED vars

Program ==
  \/ InitialRecvs \/ InitialRecvsFailed
  \/ Shake \/ ShakeFailed \/ ShakeRecv \/ ShakeOther
  \/ Wait \/ RunFailed \/ forward_udp_packet \/ Release \/ forwarder_destroy

Next == Program \/ signal_handler \/ Kern \/ Ended

Spec == Init /\ [][Next]_vars

(* The thread is scheduled, and the kernel finishes sends.                 *)
FairSpec ==
  /\ Spec
  /\ WF_vars(Program)
  /\ WF_vars(Kern /\ \E f \in Fds : out'[f] # out[f])

-----------------------------------------------------------------------------
(***************************************************************************)
(* Properties                                                              *)
(***************************************************************************)

TypeOK ==
  /\ UringTypeOK
  /\ pc \in {"init_in", "init_out", "shake", "wait", "handle", "release",
             "destroy", "done"}
  /\ hand \in Ops \cup {NULL}
  /\ conn_state \in [Fds -> {"HANDSHAKING", "ESTABLISHED"}]
  /\ addr_len \in [Fds -> {0, 1}]
  /\ shaken \cup dropped \subseteq Fds \X (1 .. MaxPkts)

Healthy ==
  /\ pc \in {"shake", "wait", "handle", "release"}
  /\ ~(pc = "handle" /\ hand = NULL)

(* A ring buffer is only lost when a packet is dropped in the handshake of *)
(* the other connection, one per packet.  Operations and single-shot       *)
(* buffers are never lost.                                                 *)
LossBounded ==
  Healthy =>
    /\ Ops = io_op_pool \cup inflight \cup Queued \cup ({hand} \ {NULL})
    /\ BufAddrs \subseteq buf_addr_pool \cup {op[o].buf_addr : o \in Ops}
    /\ Cardinality(RingBufs \ (br \cup {op[o].buf_idx : o \in Ops}
                                  \cup {cq[i].buf : i \in CqIndex}))
         <= Cardinality(dropped)

(* Neither connection makes the other deaf: the receive of each socket is  *)
(* armed, or its last completion is still to be handled.                   *)
BothListening ==
  Healthy =>
    \A f \in Fds : \E o \in Ops :
      /\ op[o].is_multi /\ op[o].fd = f
      /\ o \in inflight <=>
           ~\E i \in CqIndex : cq[i].op = o /\ ~cq[i].more

(* What leaves came from the other side, is encrypted again, and was not   *)
(* also used up or dropped by a handshake; besides, only flights leave.    *)
NeverBoth ==
  \A f \in Fds, p \in Payloads \cup {NULL} :
    out[f][p] > 0 =>
      /\ p # NULL /\ p[3] = "converted"
      /\ p[2] > 0 => p[1] = Other(f) /\ <<p[1], p[2]>> \notin shaken \cup dropped

(* The forwarder only receives with multishot operations, and only those   *)
(* are ever in hand.                                                       *)
OnlyMultishot ==
  /\ \A o \in Ops : IsRecv(o) => op[o].is_multi
  /\ hand # NULL => op[hand].is_multi

(* Until something fails nothing is lost but for the buffers of dropped    *)
(* packets, and the sockets that were armed stay so.                       *)
Serving ==
  /\ pc \notin {"destroy", "done"}
  /\ ~(pc = "handle" /\ hand = NULL)

Armed(f) == \E o \in Ops : op[o].is_multi /\ op[o].fd = f

ServingInv ==
  Serving =>
    /\ Kept
    /\ Cardinality(Stranded) <= Cardinality(dropped)
    /\ pc # "init_in" => Armed(in_fd)
    /\ pc \notin {"init_in", "init_out"} => Armed(out_fd)

(* What makes the properties above inductive.  What a handshake has used   *)
(* up or dropped is nowhere any more.                                      *)
ForwarderInv ==
  /\ TypeOK
  /\ HandlerInv
  /\ Custody("converted")
  /\ OnlyMultishot
  /\ ServingInv
  /\ shaken \cup dropped \subseteq Finished

(* The forwarder implements a relay of the packets of both sides.          *)
Forwarding == INSTANCE Relay WITH
  Packets <- Fds \X (1 .. MaxPkts),
  taken <- {p \in Fds \X (1 .. MaxPkts) : p[2] <= arrived[p[1]]},
  delivered <- [p \in Fds \X (1 .. MaxPkts) |-> out[Other(p[1])][Converted(p)]]

ForwardingRelay == Forwarding!Spec

(* When no more come in, every datagram has been forwarded, or used up or  *)
(* dropped by a handshake, unless the forwarder has ended.                 *)
Accounted ==
  []<>( \/ \A f \in Fds, n \in 1 .. MaxPkts :
             arrived[f] >= n => \/ out[Other(f)][<<f, n, "converted">>] > 0
                                \/ <<f, n>> \in shaken \cup dropped
        \/ pc \in {"destroy", "done"})

(* A datagram that cannot be decrypted is dropped and the forwarder goes   *)
(* on: with enough operations and no failing submission, forwarder_run     *)
(* never returns while it is handling a packet.                            *)
SurvivesBadPacket == pc = "destroy" => hand = NULL
=============================================================================
