------------------------------ MODULE Session ------------------------------
(***************************************************************************)
(* A DTLS connection between two programs: do_dtls_handshake,              *)
(* dtls_encrypt_packet and dtls_decrypt_packet of src/connection.c on both *)
(* sides, and a network in between that may lose, duplicate and reorder.   *)
(* The ring below them is left out; that is the subject of EdgeDtls and    *)
(* Forwarder.                                                              *)
(*                                                                         *)
(* OpenSSL is external.  SSL writes records to the memory BIO wbio, which  *)
(* is a stream of bytes, and connection.c cuts datagrams from it, so bytes *)
(* are what the model sends.  A record is <<f, c>>: flight f of the        *)
(* handshake, c copies after the first, or packet c if f = 0.  A byte is   *)
(* <<f, c, i>>, the i-th of its record.                                    *)
(*                                                                         *)
(*   pc[s]     side s is                                                   *)
(*   start     about to call SSL_do_handshake for the first time           *)
(*   wait      in wait_for_recv of do_dtls_handshake                       *)
(*   data      in the loop of tun_udp_run or forwarder_run                 *)
(*   ended     out of it: a packet could not be decrypted                  *)
(***************************************************************************)
EXTENDS Naturals, SequencesExt

CONSTANTS
  BUF_SIZE,   \* bytes in a buffer
  Header,     \* bytes that recvmsg puts before a datagram in a ring buffer
  Lengths,    \* the lengths the records may have: functions of the flight
  MaxData,    \* bound: packets that each side encrypts
  MaxResend,  \* bound: times that the timer of a side runs out
  MaxFaults,  \* bound: faults of the network
  Faults      \* which faults it has: "lose", "duplicate", "overtake"

Sides == {"client", "server"}
App == 0
Flights == 1 .. 4
Kinds == {App} \cup Flights
AllRecords == Kinds \X Nat
AllBytes == Kinds \X Nat \X Nat
FaultKinds == {"lose", "duplicate", "overtake"}

Room == BUF_SIZE - Header   \* what a ring buffer has for a datagram

ASSUME SessionAssumption ==
  /\ BUF_SIZE \in Nat /\ Header \in 1 .. BUF_SIZE - 1
  /\ MaxData \in Nat /\ MaxResend \in Nat /\ MaxFaults \in Nat
  /\ \A l \in Lengths : l \in [Kinds -> Nat \ {0}] /\ l[App] <= Room
  /\ Faults \subseteq FaultKinds

VARIABLES
  len,        \* length of the records, the same in all of a behaviour
  pc,
  flight,     \* the last flight that each side has sent; 0 if none
  copies,     \* how many flights each side has sent once more
  wbio,       \* what SSL has written and connection.c has not read
  held,       \* records that SSL has received and not looked at
  known,      \* records that SSL has seen, which it will not accept again
  net,        \* datagrams on their way to each side
  sent,       \* packets that each side has encrypted
  delivered,  \* how often each packet of the peer was decrypted
  hit,        \* history: which faults have happened
  nfaults     \* history: how many

sslVars == <<flight, copies, wbio, held, known>>
packetVars == <<sent, delivered>>
faultVars == <<hit, nfaults>>
vars == <<len, pc, sslVars, net, packetVars, faultVars>>

Peer(s) == IF s = "client" THEN "server" ELSE "client"

Bytes(r) == [i \in 1 .. len[r[1]] |-> <<r[1], r[2], i>>]

(* dtls_setup_bio_pair and init_dtls_connection                            *)
Init ==
  /\ len \in Lengths
  /\ pc = [s \in Sides |-> "start"]
  /\ flight = [s \in Sides |-> 0]
  /\ copies = [s \in Sides |-> 0]
  /\ wbio = [s \in Sides |-> <<>>]
  /\ held = [s \in Sides |-> <<>>]
  /\ known = [s \in Sides |-> {}]
  /\ net = [s \in Sides |-> <<>>]
  /\ sent = [s \in Sides |-> 0]
  /\ delivered = [s \in Sides |-> [n \in 1 .. MaxData |-> 0]]
  /\ hit = {} /\ nfaults = 0

-----------------------------------------------------------------------------
(***************************************************************************)
(* BIO_read and BIO_write                                                  *)
(***************************************************************************)

(* Mutations: a smaller buffer, and one byte more than there is.           *)
ReadSize_Half == BUF_SIZE \div 2
ReadSize_Over == BUF_SIZE + 1

(* sizeof(buffer), result_size                                             *)
ReadSize == BUF_SIZE

(* One BIO_read of wbio, which holds stream, and a datagram of what it     *)
(* gives.  Of what was on its way to s, rest remains.                      *)
Flush(s, rest, stream) ==
  /\ wbio' = [wbio EXCEPT ![s] = SubSeq(stream, ReadSize + 1, Len(stream))]
  /\ net' = [net EXCEPT ![s] = rest,
       ![Peer(s)] = IF stream = <<>> THEN @
                    ELSE Append(@, SubSeq(stream, 1, Min({ReadSize, Len(stream)})))]

(* What SSL finds in a datagram that came through a ring buffer: the       *)
(* complete records, if it begins with the beginning of one.               *)
Records(d) ==
  LET ends == {i \in 1 .. Min({Room, Len(d)}) : d[i][3] = len[d[i][1]]}
      end(k) == CHOOSE i \in ends : Cardinality({j \in ends : j <= i}) = k
  IN [k \in 1 .. IF d[1][3] = 1 THEN Cardinality(ends) ELSE 0 |->
        <<d[end(k)][1], d[end(k)][2]>>]

-----------------------------------------------------------------------------
(***************************************************************************)
(* do_dtls_handshake                                                       *)
(***************************************************************************)

(* The first SSL_do_handshake: a client has a flight to send, a server     *)
(* waits for one.                                                          *)
Start(s) ==
  /\ pc[s] = "start"
  /\ pc' = [pc EXCEPT ![s] = "wait"]
  /\ \/ /\ s = "client"
        /\ flight' = [flight EXCEPT ![s] = 1]
        /\ Flush(s, net[s], Bytes(<<1, 0>>))
     \/ s = "server" /\ UNCHANGED <<flight, wbio, net>>
  /\ UNCHANGED <<len, copies, held, known, packetVars, faultVars>>

(* Where the flight that s waits for is in the records q; 0 if nowhere.    *)
Awaited(s, q) ==
  SelectInSeq(q, LAMBDA r : r[1] = flight[s] + 1 /\ r \notin known[s])

(* Mutation: what is pending is only sent if the handshake goes on.        *)
Answer_NotLast(f) == IF f >= 3 THEN <<>> ELSE Bytes(<<f + 1, 0>>)

(* What SSL has to send once it has been given flight f.                   *)
Answer(f) == IF f = 4 THEN <<>> ELSE Bytes(<<f + 1, 0>>)

(* Mutation: every result but an error counts as success.                  *)
Completes_Early(f) == f >= 2

(* Flight 3 completes the handshake of the server, flight 4 the client's.  *)
Completes(f) == f >= 3

(* SSL_do_handshake is given the flight it waits for and answers it, with  *)
(* flight 2, 3 or 4.  What follows in the datagram is kept if that         *)
(* completes the handshake, and dropped if not.                            *)
Advance(s, q) ==
  LET i == Awaited(s, q)
      complete == Completes(q[i][1])
  IN /\ i # 0
     /\ pc' = [pc EXCEPT ![s] = IF complete THEN "data" ELSE @]
     /\ flight' = [flight EXCEPT ![s] = IF q[i][1] = 4 THEN @ ELSE q[i][1] + 1]
     /\ held' = [held EXCEPT ![s] = IF complete THEN SubSeq(q, i + 1, Len(q)) ELSE <<>>]
     /\ known' = [known EXCEPT ![s] = @ \cup {q[i]}]
     /\ Flush(s, Tail(net[s]), wbio[s] \o Answer(q[i][1]))
     /\ UNCHANGED copies

(* SSL_do_handshake wants to read more.  It looks at its timer, and sends  *)
(* its last flight again if that has run out.                              *)
NoAdvance(s, q) ==
  /\ Awaited(s, q) = 0
  /\ known' = [known EXCEPT ![s] = @ \cup {r \in ToSet(q) : r[1] # App}]
  /\ \/ Flush(s, Tail(net[s]), wbio[s]) /\ UNCHANGED copies
     \/ /\ flight[s] > 0 /\ copies[s] < MaxResend
        /\ copies' = [copies EXCEPT ![s] = @ + 1]
        /\ Flush(s, Tail(net[s]), wbio[s] \o Bytes(<<flight[s], copies[s] + 1>>))
  /\ UNCHANGED <<pc, flight, held>>

(* A datagram for the handshake, and the next SSL_do_handshake.  Records   *)
(* are genuine here, so it does not fail; Dtls has HandshakeFailed.        *)
ShakeRecv(s) ==
  /\ pc[s] = "wait"
  /\ net[s] # <<>>
  /\ LET q == Records(Head(net[s])) IN Advance(s, q) \/ NoAdvance(s, q)
  /\ UNCHANGED <<len, packetVars, faultVars>>

-----------------------------------------------------------------------------
(***************************************************************************)
(* dtls_encrypt_packet and dtls_decrypt_packet                             *)
(***************************************************************************)

(* Mutation: BIO_read comes before SSL_write.                              *)
Encrypt_ReadFirst(s) ==
  /\ pc[s] = "data"
  /\ sent[s] < MaxData
  /\ sent' = [sent EXCEPT ![s] = @ + 1]
  /\ wbio' = [wbio EXCEPT ![s] = Bytes(<<App, sent[s] + 1>>)]
  /\ net' = [net EXCEPT ![Peer(s)] = IF wbio[s] = <<>> THEN @ ELSE Append(@, wbio[s])]
  /\ UNCHANGED <<len, pc, flight, copies, held, known, delivered, faultVars>>

(* SSL_write, then one BIO_read.                                           *)
Encrypt(s) ==
  /\ pc[s] = "data"
  /\ sent[s] < MaxData
  /\ sent' = [sent EXCEPT ![s] = @ + 1]
  /\ Flush(s, net[s], wbio[s] \o Bytes(<<App, sent[s] + 1>>))
  /\ UNCHANGED <<len, pc, flight, copies, held, known, delivered, faultVars>>

(* The last flight of the peer, once more: SSL answers with its own.       *)
Repeated(s, q) ==
  \E r \in ToSet(q) \ known[s] : r[1] = IF s = "client" THEN 4 ELSE 3

(* Where the first packet is that was not seen before; 0 if nowhere.       *)
FirstPacket(s, q) == SelectInSeq(q, LAMBDA r : r[1] = App /\ r \notin known[s])

(* Mutation: a failed SSL_read passes for a packet.                        *)
Decrypt_Unchecked(s) ==
  /\ pc[s] = "data"
  /\ net[s] # <<>>
  /\ net' = [net EXCEPT ![s] = Tail(@)]
  /\ delivered' = [delivered EXCEPT ![s] =
       [n \in DOMAIN @ |-> @[n] + IF n = Head(net[s])[1][2] THEN 1 ELSE 0]]
  /\ UNCHANGED <<len, pc, sslVars, sent, faultVars>>

(* SSL_read goes on until it has found a packet, and keeps the rest.  If   *)
(* there is none it wants to read more, now and each of the four times it  *)
(* is called again; that is an error, and the program leaves its loop.     *)
Decrypt(s) ==
  /\ pc[s] = "data"
  /\ net[s] # <<>>
  /\ net' = [net EXCEPT ![s] = Tail(@)]
  /\ LET q == held[s] \o Records(Head(net[s]))
         i == FirstPacket(s, q)
         done == IF i = 0 THEN q ELSE SubSeq(q, 1, i)
     IN /\ known' = [known EXCEPT ![s] = @ \cup ToSet(done)]
        /\ held' = [held EXCEPT ![s] = SubSeq(q, Len(done) + 1, Len(q))]
        /\ IF Repeated(s, done)
           THEN /\ copies' = [copies EXCEPT ![s] = @ + 1]
                /\ wbio' = [wbio EXCEPT ![s] = @ \o Bytes(<<flight[s], copies[s] + 1>>)]
           ELSE UNCHANGED <<copies, wbio>>
        /\ \/ /\ i # 0
              /\ delivered' = [delivered EXCEPT ![s][q[i][2]] = @ + 1]
              /\ UNCHANGED pc
           \/ /\ i = 0
              /\ pc' = [pc EXCEPT ![s] = "ended"]
              /\ UNCHANGED delivered
  /\ UNCHANGED <<len, flight, sent, faultVars>>

-----------------------------------------------------------------------------
(***************************************************************************)
(* The network                                                             *)
(***************************************************************************)

Fault(f, s, datagrams) ==
  /\ f \in Faults
  /\ nfaults < MaxFaults
  /\ net' = [net EXCEPT ![s] = datagrams]
  /\ hit' = hit \cup {f}
  /\ nfaults' = nfaults + 1
  /\ UNCHANGED <<len, pc, sslVars, packetVars>>

Lose(s) == \E i \in DOMAIN net[s] : Fault("lose", s, RemoveAt(net[s], i))

Duplicate(s) ==
  \E i \in DOMAIN net[s] : Fault("duplicate", s, Append(net[s], net[s][i]))

Overtake(s) ==
  \E i \in 2 .. Len(net[s]) :
    Fault("overtake", s, <<net[s][i]>> \o RemoveAt(net[s], i))

Receive(s) == ShakeRecv(s) \/ Decrypt(s)

Next ==
  \E s \in Sides :
    \/ Start(s) \/ Receive(s) \/ Encrypt(s)
    \/ Lose(s) \/ Duplicate(s) \/ Overtake(s)

Spec == Init /\ [][Next]_vars

(* Both programs are scheduled and what is not lost arrives.  Nothing says *)
(* that there are packets to send.                                         *)
FairSpec == Spec /\ \A s \in Sides : WF_vars(Start(s)) /\ WF_vars(Receive(s))

-----------------------------------------------------------------------------
(***************************************************************************)
(* Properties                                                              *)
(***************************************************************************)

(* Side s is in its handshake.                                             *)
Shaking(s) == pc[s] \in {"start", "wait"}

SessionTypeOK ==
  /\ len \in Lengths
  /\ pc \in [Sides -> {"start", "wait", "data", "ended"}]
  /\ flight \in [Sides -> 0 .. 4] /\ copies \in [Sides -> Nat]
  /\ wbio \in [Sides -> Seq(AllBytes)] /\ net \in [Sides -> Seq(Seq(AllBytes))]
  /\ held \in [Sides -> Seq(AllRecords)] /\ known \in [Sides -> SUBSET AllRecords]
  /\ sent \in [Sides -> 0 .. MaxData] /\ delivered \in [Sides -> [1 .. MaxData -> Nat]]
  /\ \A s \in Sides :
       /\ \A i \in DOMAIN net[s] : Len(net[s][i]) \in 1 .. BUF_SIZE
       /\ Shaking(s) => held[s] = <<>>
  /\ hit \subseteq Faults /\ nfaults \in 0 .. MaxFaults

(* Every flight goes into one datagram, and the datagram into one buffer.  *)
Fits == \A f \in Flights : len[f] <= Room

(* A timer has run out.                                                    *)
Resent == \E s \in Sides : copies[s] > 0

(* As long as flights fit, one BIO_read takes all that SSL has written and *)
(* one SSL_read all that has come, whatever the network does and however   *)
(* often flights are sent again: connection.c does not ask whether there   *)
(* is more.  The flight that SSL answers a repeated one with stays behind, *)
(* but then the program has ended.                                         *)
Emptied ==
  Fits => \A s \in Sides :
            /\ held[s] = <<>>
            /\ pc[s] # "ended" => wbio[s] = <<>>

(* Loss and reordering never end a program: dtls_decrypt_packet only fails *)
(* after a datagram came twice or a flight was sent again.                 *)
EndsOnlyIf ==
  (\E s \in Sides : pc[s] = "ended") => "duplicate" \in hit \/ Resent

(* The programs only wait for one another with nothing on its way if a     *)
(* flight was lost or did not fit.                                         *)
StuckOnlyByLoss ==
  (\A s \in Sides : pc[s] = "wait" /\ net[s] = <<>>) => "lose" \in hit \/ ~Fits

(***************************************************************************)
(* What makes them inductive                                               *)
(***************************************************************************)

(* The records that s has written, and their bytes.                        *)
Turn(s) == IF s = "client" THEN {1, 3} ELSE {2, 4}
Written(s) ==
  {r \in AllRecords :
     IF r[1] = App THEN r[2] \in 1 .. sent[s]
     ELSE r[1] \in Turn(s) /\ r[1] <= flight[s] /\ r[2] <= copies[s]}
WrittenBytes(s) ==
  {b \in AllBytes : <<b[1], b[2]>> \in Written(s) /\ b[3] \in 1 .. len[b[1]]}

(* Nothing is on its way that was not written.                             *)
Genuine ==
  \A s \in Sides :
    /\ wbio[s] \in Seq(WrittenBytes(s))
    /\ net[Peer(s)] \in Seq(Seq(WrittenBytes(s)))
    /\ held[Peer(s)] \in Seq(Written(s))
    /\ known[Peer(s)] \subseteq Written(s)

(* The sides take turns, and a side that waits has not seen what it waits  *)
(* for.                                                                    *)
TakeTurns ==
  /\ <<flight["client"], flight["server"]>> \in
       {<<0, 0>>, <<1, 0>>, <<1, 2>>, <<3, 2>>, <<3, 4>>}
  /\ pc["client"] = "start" <=> flight["client"] = 0
  /\ ~Shaking("client") => flight["server"] = 4
  /\ pc["server"] = "start" => flight["server"] = 0
  /\ ~Shaking("server") <=> flight["server"] = 4
  /\ \A s \in Sides : Shaking(s) => \A r \in known[s] : r[1] # flight[s] + 1

(* What was decrypted is not accepted again.                               *)
Replay ==
  \A s \in Sides : \A n \in 1 .. MaxData :
    delivered[s][n] = 0 \/ (delivered[s][n] = 1 /\ <<App, n>> \in known[s])

(* The record at the beginning of a datagram.                              *)
First(d) == <<d[1][1], d[1][2]>>

(* As long as flights fit, a datagram is a record.                         *)
Whole == Fits => \A s \in Sides : \A d \in ToSet(net[s]) : d = Bytes(First(d))

(* As long as nothing is lost either, the flight that a side waits for is  *)
(* on its way once the peer has sent it.                                   *)
OnItsWay ==
  Fits /\ "lose" \notin hit => \A s \in Sides :
    Shaking(s) /\ flight[Peer(s)] = flight[s] + 1 =>
      Bytes(<<flight[s] + 1, 0>>) \in ToSet(net[s])

Quiet == "duplicate" \notin hit /\ ~Resent

(* As long as nothing comes twice, everything that comes is new.           *)
New ==
  Fits /\ Quiet => \A s \in Sides :
    /\ pc[s] # "ended"
    /\ \A i, j \in DOMAIN net[s] : net[s][i] = net[s][j] => i = j
    /\ \A d \in ToSet(net[s]) :
         /\ First(d) \notin known[s]
         /\ First(d)[1] # App => Shaking(s) /\ First(d)[1] = flight[s] + 1

(* If a flight does not fit, the handshake gets no further than this       *)
(* flight, and the side that has sent it receives nothing any more.        *)
Unfinished(f, stream) ==
  \A k \in DOMAIN stream : stream[k][1] = f =>
    \A j \in 1 .. k : stream[j][1] = f /\ stream[j][3] > 1

Halted ==
  ~Fits /\ Quiet =>
    /\ flight["client"] = 0 => \A s \in Sides : net[s] = <<>> /\ wbio[s] = <<>>
    /\ \A s \in Sides : flight[s] > flight[Peer(s)] =>
         /\ Shaking(Peer(s)) /\ pc[s] # "ended"
         /\ net[s] = <<>> /\ wbio[Peer(s)] = <<>>
         /\ \A f \in 1 .. flight[Peer(s)] : len[f] <= Room
         /\ IF len[flight[s]] <= Room
            THEN /\ wbio[s] = <<>> /\ Len(net[Peer(s)]) <= 1
                 /\ \A d \in ToSet(net[Peer(s)]) : d = Bytes(<<flight[s], 0>>)
            ELSE /\ Unfinished(flight[s], wbio[s])
                 /\ \A d \in ToSet(net[Peer(s)]) : \A r \in ToSet(Records(d)) :
                      r[1] # flight[s]

SessionInv ==
  /\ SessionTypeOK /\ Genuine /\ TakeTurns /\ Replay
  /\ Emptied /\ Whole /\ OnItsWay /\ New /\ Halted

(* Both directions implement a relay: no packet is decrypted twice, and    *)
(* none that was not encrypted.                                            *)
Tunnel == INSTANCE Relay WITH
  Packets <- Sides \X (1 .. MaxData),
  taken <- {p \in Sides \X (1 .. MaxData) : p[2] <= sent[p[1]]},
  delivered <- [p \in Sides \X (1 .. MaxData) |-> delivered[Peer(p[1])][p[2]]]

SessionRelay == Tunnel!Spec

(* The handshake completes on both sides unless a flight is lost or does   *)
(* not fit, or a program has ended.                                        *)
Connects ==
  <>( \/ \A s \in Sides : pc[s] \in {"data", "ended"}
      \/ "lose" \in hit \/ ~Fits)

(* Sides that have no more to send find that all they have encrypted is    *)
(* decrypted, as long as nothing goes wrong.                               *)
Carried ==
  []<>( \/ \A s \in Sides, n \in 1 .. MaxData :
             sent[s] >= n => delivered[Peer(s)][n] > 0
        \/ hit # {} \/ ~Fits)

(* The handshake completes although datagrams are lost.                    *)
CompletesDespiteLoss == <>(\A s \in Sides : pc[s] = "data")
=============================================================================
