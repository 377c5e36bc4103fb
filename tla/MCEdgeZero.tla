----------------------------- MODULE MCEdgeZero -----------------------------
(***************************************************************************)
(* EdgeZero for TLC.                                                       *)
(***************************************************************************)
EXTENDS EdgeZero

(* A free list hands out one element: which one does not matter, because   *)
(* it is reset on its way out.                                             *)
AnyOne(S) == IF S = {} THEN {} ELSE {CHOOSE x \in S : TRUE}
=============================================================================
