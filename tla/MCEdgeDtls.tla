----------------------------- MODULE MCEdgeDtls -----------------------------
(***************************************************************************)
(* EdgeDtls for TLC.                                                       *)
(***************************************************************************)
EXTENDS EdgeDtls

(* Which element of a free list comes next does not matter.                *)
AnyOne(S) == IF S = {} THEN {} ELSE {CHOOSE x \in S : TRUE}
=============================================================================
