------------------------------- MODULE Relay -------------------------------
(***************************************************************************)
(* What a tunnel promises: a packet that was taken in leaves at most once, *)
(* and nothing leaves that was not taken in.  Packets may be lost and may  *)
(* overtake one another.                                                   *)
(***************************************************************************)
EXTENDS Naturals

CONSTANT Packets

VARIABLES
  taken,      \* the packets that came in
  delivered   \* how often each packet has left

vars == <<taken, delivered>>

Init ==
  /\ taken = {}
  /\ delivered = [p \in Packets |-> 0]

Take(p) ==
  /\ p \notin taken
  /\ taken' = taken \cup {p}
  /\ UNCHANGED delivered

Deliver(p) ==
  /\ p \in taken
  /\ delivered[p] = 0
  /\ delivered' = [delivered EXCEPT ![p] = 1]
  /\ UNCHANGED taken

Next == \E p \in Packets : Take(p) \/ Deliver(p)

Spec == Init /\ [][Next]_vars
=============================================================================
