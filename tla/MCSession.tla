----------------------------- MODULE MCSession -----------------------------
(* Session with buffers of four bytes, one of which recvmsg uses: flights  *)
(* that fit, and flights that are too long for the buffer they come in or  *)
(* for the one they are sent from.                                         *)
EXTENDS Session

Fitting == {[f \in 0 .. 4 |-> IF f = 0 THEN 1 ELSE l[f]] : l \in {<<1, 3, 2, 1>>}}
AllLengths ==
  {[f \in 0 .. 4 |-> IF f = 0 THEN a ELSE l[f]] :
     a \in {1, 2}, l \in {<<1, 3, 2, 1>>, <<1, 4, 2, 1>>, <<1, 3, 2, 5>>}}
=============================================================================
