------------------------------ MODULE Startup ------------------------------
(***************************************************************************)
(* What the three programs (src/edge_zero.c, src/edge.c, src/forwarder.c)  *)
(* acquire before their main loop and release after it: memory and         *)
(* descriptors, with every step that can fail and what the code does then. *)
(*                                                                         *)
(* A program is a sequence of calls, and a call is a sequence of steps.    *)
(* A step that succeeds gets some resources and puts others back; a step   *)
(* that fails releases those of "undo" and makes the call fail.  The       *)
(* caller then goes on or returns, as its test of the result says.         *)
(***************************************************************************)
EXTENDS Naturals, Sequences

CONSTANT Programs   \* the programs to start

ProgramNames == {"edge_zero", "edge", "forwarder"}

ASSUME ProgramsAssumption == Programs \subseteq ProgramNames

(* The command line: the role of an edge, whether there is a CA file and   *)
(* which local ports are given (an edge has at most one, as a server).     *)
(* Any other command line makes usage() end the program before it holds    *)
(* anything.                                                               *)
Setups ==
  {s \in [program : Programs, is_client : BOOLEAN, ca_file : BOOLEAN,
          inbound_port : BOOLEAN, outbound_port : BOOLEAN] :
     /\ s.is_client => ~s.inbound_port /\ s.program # "forwarder"
     /\ s.program # "forwarder" => ~s.ca_file /\ ~s.outbound_port}

-----------------------------------------------------------------------------
(***************************************************************************)
(* The functions that acquire resources.                                   *)
(***************************************************************************)

Step(gets, undo) ==
  [gets |-> gets, puts |-> {}, undo |-> undo, keeps |-> {}, may_fail |-> TRUE]

(* Mutation: the last step forgets the release.                            *)
AndClose_Forgotten(st, puts) == st

(* A step that only releases, and one that ends with a release.            *)
Release(puts) ==
  [gets |-> {}, puts |-> puts, undo |-> {}, keeps |-> {}, may_fail |-> FALSE]
AndClose(st, puts) == [st EXCEPT !.puts = puts]

(* A step whose failure releases something to which a pointer remains.     *)
Keeping(st, keeps) == [st EXCEPT !.keeps = keeps]

(* The resources of an owner: a connection, the ring or the TUN device.    *)
Of(owner, resources) == {owner} \X resources

When(b, steps) == IF b THEN steps ELSE <<>>

(* Mutation: the socket is closed even if it could not be created.         *)
create_connection_CloseAlways(c, is_client, local_port) ==
  <<Step(Of(c, {"conn"}), {}), Step(Of(c, {"udp_fd"}), Of(c, {"udp_fd", "conn"}))>>

create_connection(c, is_client, local_port) ==
  When(is_client, <<Step({}, {})>>)                       \* host and port given
  \o <<Step(Of(c, {"conn"}), {})>>
  \o When(is_client, <<Step({}, Of(c, {"conn"}))>>)       \* resolve_hostname
  \o <<Step(Of(c, {"udp_fd"}), Of(c, {"conn"}))>>         \* udp_socket_create
  \o When(local_port, <<Step({}, Of(c, {"udp_fd", "conn"}))>>)

(* What both context functions begin with, and undo in all later steps.    *)
NewContext(c) ==
  <<Step(Of(c, {"dtls_ctx"}), {}), Step(Of(c, {"ssl_ctx"}), Of(c, {"dtls_ctx"}))>>

(* Mutation: the error path frees dtls_ctx alone.                          *)
ContextStep_Leak(c) == Step({}, Of(c, {"dtls_ctx"}))

ContextStep(c) == Step({}, Of(c, {"ssl_ctx", "dtls_ctx"}))

(* certificate, private key, do they match, ciphers                        *)
dtls_server_context_init(c) ==
  NewContext(c) \o [i \in 1 .. 4 |-> ContextStep(c)]

(* CA certificate, ciphers                                                 *)
dtls_client_context_init(c, ca_file) ==
  NewContext(c) \o When(ca_file, <<ContextStep(c)>>) \o <<ContextStep(c)>>

dtls_create_ssl(c) == <<Step(Of(c, {"ssl"}), {})>>

(* A BIO that could be created is freed if the other could not.  Then      *)
(* init_dtls_connection frees conn->ssl but keeps the pointer, and it      *)
(* leaves conn->dtls_ctx.                                                  *)
dtls_setup_bio_pair(c) ==
  << Keeping(Step(Of(c, {"rbio"}), Of(c, {"ssl"})), Of(c, {"ssl"})),
     Keeping(Step(Of(c, {"wbio"}), Of(c, {"ssl", "rbio"})), Of(c, {"ssl"})) >>

(* The BIOs belong to the SSL object: SSL_free frees them too.             *)
Ssl == {"ssl", "rbio", "wbio"}

init_dtls_connection(c, is_client, ca_file) ==
  (IF is_client THEN dtls_client_context_init(c, ca_file)
                ELSE dtls_server_context_init(c))
  \o dtls_create_ssl(c) \o dtls_setup_bio_pair(c)

Uring == Of("uring", {"ctx", "ring", "io_op_pool", "buf_addr_pool", "br_bufs", "br"})

(* The first element of a pool is allocated, then the others.              *)
Pool(name) == <<Step(Of("uring", {name}), {}), Step({}, {})>>

(* posix_memalign, io_uring_setup_buf_ring                                 *)
iouring_alloc_multishot_buffers ==
  <<Step(Of("uring", {"br_bufs"}), {}), Step(Of("uring", {"br"}), {})>>

(* io_uring_queue_init_params is undone, iouring_alloc_buffers is not.     *)
iouring_init ==
  <<Step(Of("uring", {"ctx"}), {}), Step(Of("uring", {"ring"}), Of("uring", {"ctx"}))>>
  \o Pool("io_op_pool") \o Pool("buf_addr_pool") \o iouring_alloc_multishot_buffers

(* The pools as a whole; EdgeZero follows the single operations.  The      *)
(* buffer ring is registered, so io_uring_free_buf_ring finds it.          *)
iouring_cleanup == <<Release(Uring)>>

Tun == Of("tun", {"tun", "fd"})

tun_device_create ==
  <<Step(Of("tun", {"tun"}), {}), Step(Of("tun", {"fd"}), Of("tun", {"tun"})), Step({}, Tun)>>

(* Mutation: the device is closed with the socket.                         *)
TunIoctls_CloseDevice(n) ==
  LET sockfd == Of("tun", {"sockfd"})
      request == Step({}, sockfd \cup Tun)
  IN  <<Step(sockfd, Tun)>>
      \o [i \in 1 .. n - 1 |-> request] \o <<AndClose(request, sockfd \cup Tun)>>

(* A socket for ioctl, and n requests on it.  The caller destroys the      *)
(* device if one of them fails.                                            *)
TunIoctls(n) ==
  LET sockfd == Of("tun", {"sockfd"})
      request == Step({}, sockfd \cup Tun)
  IN  <<Step(sockfd, Tun)>>
      \o [i \in 1 .. n - 1 |-> request] \o <<AndClose(request, sockfd)>>

tun_device_configure == TunIoctls(5)   \* address, netmask (each parsed first), MTU
tun_device_up == TunIoctls(2)          \* read and write the flags

new_tun_device == tun_device_create \o tun_device_configure \o tun_device_up

(* What fails in tun_device_down is ignored.                               *)
tun_device_destroy == <<Release(Tun)>>

-----------------------------------------------------------------------------
(***************************************************************************)
(* The programs.  A call uses the resources "needs"; "test" says after     *)
(* which result its caller goes on; "frees" is what a caller that does not *)
(* go on releases before it returns.                                       *)
(***************************************************************************)

Call(fn, steps, needs) ==
  [fn |-> fn, steps |-> steps, needs |-> needs, test |-> {"ok"}, frees |-> {}]

Unchecked(cl) == [cl EXCEPT !.test = {"ok", "fail"}]

(* if (!ret != 0) return: go on if the call failed.                        *)
Inverted(cl) == [cl EXCEPT !.test = {"fail"}]

Freeing(cl, frees) == [cl EXCEPT !.frees = frees]

CreateConnection(c, is_client, local_port) ==
  Call("create_connection", create_connection(c, is_client, local_port), {})

InitDtls(c, is_client, ca_file) ==
  Call("init_dtls_connection", init_dtls_connection(c, is_client, ca_file),
       Of(c, {"conn"}))

IouringInit == Call("iouring_init", iouring_init, {})
InitialRecvs(c) == Call("iouring_initial_udp_recvs", <<Step({}, {})>>, Uring \cup Of(c, {"conn"}))
Handshake(c) == Call("do_dtls_handshake", <<Step({}, {})>>, Uring \cup Of(c, {"conn", "ssl"}))
NewTunDevice == Call("new_tun_device", new_tun_device, {})
InitialReads == Call("iouring_initial_tun_reads", <<Step({}, {})>>, Uring \cup Of("tun", {"tun"}))
MainLoop(needs) == Unchecked(Call("main_loop", <<Step({}, {})>>, Uring \cup needs))
Cleanup(steps, needs) == Call("cleanup", steps, needs)

EdgeZeroMain(s) ==
  << Unchecked(CreateConnection("peer", s.is_client, s.inbound_port)),
     Freeing(IouringInit, Of("peer", {"udp_fd"})),
     InitialRecvs("peer"), NewTunDevice, InitialReads,
     MainLoop(Of("peer", {"conn"}) \cup Of("tun", {"fd"})),
     Cleanup(iouring_cleanup \o <<Release(Of("peer", {"udp_fd"}))>> \o tun_device_destroy,
             Of("peer", {"conn"})) >>

EdgeMain(s) ==
  << CreateConnection("peer", s.is_client, s.inbound_port),
     Inverted(InitDtls("peer", s.is_client, FALSE)),
     Freeing(IouringInit, Of("peer", {"udp_fd"})),
     InitialRecvs("peer"), Handshake("peer"), NewTunDevice, InitialReads,
     MainLoop(Of("peer", {"conn", "ssl"}) \cup Of("tun", {"fd"})),
     Cleanup(<<Release(Of("peer", Ssl)),
               Release(Of("peer", {"ssl_ctx", "dtls_ctx"}))>>
             \o iouring_cleanup \o <<Release(Of("peer", {"udp_fd"}))>> \o tun_device_destroy,
             Of("peer", {"conn"})) >>

Forwarder == Of("forwarder", {"ctx"})

forwarder_create(s) ==
  << Call("calloc", <<Step(Forwarder, {})>>, {}),
     Freeing(IouringInit, Forwarder),
     Freeing(CreateConnection("inbound", FALSE, s.inbound_port), Forwarder),
     Freeing(Inverted(InitDtls("inbound", FALSE, FALSE)), Forwarder),
     CreateConnection("outbound", TRUE, s.outbound_port),
     Freeing(Inverted(InitDtls("outbound", TRUE, s.ca_file)), Forwarder) >>

Sockets == {"inbound", "outbound"} \X {"conn", "udp_fd"}

forwarder_destroy ==
  [i \in 1 .. 2 |->
     Release(Of(<<"outbound", "inbound">>[i], Ssl \cup {"ssl_ctx", "dtls_ctx"}))]
  \o iouring_cleanup \o <<Release(Sockets), Release(Forwarder)>>

ForwarderMain(s) ==
  forwarder_create(s)
  \o << InitialRecvs("inbound"), InitialRecvs("outbound"),
        Handshake("inbound"), Handshake("outbound"),
        MainLoop(Sockets \cup {"inbound", "outbound"} \X {"ssl"}),
        Cleanup(forwarder_destroy, Forwarder) >>

Main(s) ==
  CASE s.program = "edge_zero" -> EdgeZeroMain(s)
    [] s.program = "edge"      -> EdgeMain(s)
    [] s.program = "forwarder" -> ForwarderMain(s)

-----------------------------------------------------------------------------
VARIABLES
  setup,   \* which program runs, with which arguments
  k, j,    \* step j of call k is next
  res,     \* what call k returned: "none" (still running), "ok" or "fail"
  live,    \* the resources that are held
  stale,   \* the resources that were released while a pointer to them remains
  entry,   \* live when call k was made
  failed,  \* whether any step has failed
  ended    \* "no", "exit", or what ended the program: "null" or "dangling"

vars == <<setup, k, j, res, live, stale, entry, failed, ended>>

call == Main(setup)[k]
step == call.steps[j]
InCall == ended = "no" /\ res = "none"

Init ==
  /\ setup \in Setups
  /\ k = 1 /\ j = 1 /\ res = "none"
  /\ live = {} /\ stale = {} /\ entry = {}
  /\ failed = FALSE
  /\ ended = "no"

(* A pointer is followed to something that is not there.                   *)
Undefined ==
  /\ InCall /\ j = 1
  /\ ~(call.needs \subseteq live)
  /\ ended' = IF call.needs \cap stale = {} THEN "null" ELSE "dangling"
  /\ UNCHANGED <<setup, k, j, res, live, stale, entry, failed>>

Defined == j > 1 \/ call.needs \subseteq live

Succeed ==
  /\ InCall /\ Defined /\ j <= Len(call.steps)
  /\ live' = (live \cup step.gets) \ step.puts
  /\ j' = j + 1
  /\ res' = IF j = Len(call.steps) THEN "ok" ELSE "none"
  /\ UNCHANGED <<setup, k, stale, entry, failed, ended>>

Fail ==
  /\ InCall /\ Defined /\ j <= Len(call.steps)
  /\ step.may_fail
  /\ live' = live \ step.undo
  /\ stale' = stale \cup step.keeps
  /\ res' = "fail"
  /\ failed' = TRUE
  /\ UNCHANGED <<setup, k, j, entry, ended>>

(* The caller goes on to its next call ...                                 *)
GoOn ==
  /\ ended = "no" /\ res \in call.test
  /\ k < Len(Main(setup))
  /\ k' = k + 1 /\ j' = 1 /\ res' = "none"
  /\ entry' = live
  /\ UNCHANGED <<setup, live, stale, failed, ended>>

(* ... or returns.  What it then frees it must hold.                       *)
Exit ==
  /\ ended = "no" /\ res # "none"
  /\ res \notin call.test \/ k = Len(Main(setup))
  /\ LET frees == IF res \in call.test THEN {} ELSE call.frees IN
       /\ live' = live \ frees
       /\ ended' = IF frees \subseteq live THEN "exit" ELSE "null"
  /\ UNCHANGED <<setup, k, j, res, stale, entry, failed>>

Ended == ended # "no" /\ UNCHANGED vars

Next == Undefined \/ Succeed \/ Fail \/ GoOn \/ Exit \/ Ended

Spec == Init /\ [][Next]_vars

-----------------------------------------------------------------------------
(***************************************************************************)
(* Properties                                                              *)
(***************************************************************************)

Connections == {"peer", "inbound", "outbound"}

(* What is made and released as a whole.                                   *)
Objects ==
  {Uring, Tun}
    \cup {Of(c, {"conn", "udp_fd"}) : c \in Connections}
    \cup {Of(c, {"dtls_ctx", "ssl_ctx"}) : c \in Connections}
    \cup {Of(c, Ssl) : c \in Connections}

(* create_connection and new_tun_device give back all they have acquired   *)
(* when they fail.  Whatever another call leaves behind when it fails, no  *)
(* call is made while half of an object is there: init_dtls_connection     *)
(* leaves whole objects, and after what iouring_init has leaked the        *)
(* program ends without acquiring anything else.                           *)
CleanFailure ==
  /\ res = "fail" /\ ended = "no" /\ call.fn \in {"create_connection", "new_tun_device"}
       => live = entry
  /\ InCall => \A obj \in Objects : obj \cap entry = {} \/ obj \subseteq entry

(* No step releases what is not held when it does so, an error path not    *)
(* even what the failing step itself was to acquire: no descriptor is      *)
(* closed and no block freed twice or before it is there.                  *)
ReleasesWhatItHolds ==
  InCall /\ Defined =>
    /\ step.undo \subseteq live
    /\ step.puts \subseteq live \cup step.gets

(* edge_zero stops before its main loop only if something failed, and once *)
(* it has been in the loop it gives back its ring, device and sockets.      *)
EdgeZeroRuns ==
  setup.program = "edge_zero" /\ ended = "exit" =>
    /\ call.fn # "cleanup" => failed
    /\ call.fn = "cleanup" =>
         live \cap (Uring \cup Tun \cup Of("tun", {"sockfd"}) \cup Of("peer", {"udp_fd"})) = {}

(* A program only uses what it does not have after one of the calls whose  *)
(* failure it does not notice, and then only what that call was to get:    *)
(* edge_zero the connection, the others the SSL object of a connection.    *)
(* Every other failure, the half-done ones too, stops it in time.  The     *)
(* pointer is dangling only if the BIOs could not be made.                 *)
OnlyAfterIgnoredFailure ==
  ended \in {"null", "dangling"} =>
    LET missing == (call.needs \cup call.frees) \ live IN
      /\ IF setup.program = "edge_zero"
         THEN missing = Of("peer", {"conn"}) \/ missing = Of("peer", {"udp_fd"})
         ELSE missing \subseteq Connections \X {"ssl"}
      /\ ended = "dangling" => \E c \in Connections : Of(c, {"ssl_ctx"}) \subseteq live

(* A program notices every failure, and takes nothing else for one: it     *)
(* follows no null and no dangling pointer, and it returns before its main *)
(* loop, as when forwarder_create returns NULL, only if something failed.  *)
ResultsTested ==
  /\ ended \notin {"null", "dangling"}
  /\ ended = "exit" /\ call.fn # "cleanup" => failed
=============================================================================
