------------------------------ MODULE MCSession ------------------------------
(* Instances of Session for TLC. *)
EXTENDS Session, TLC

CONSTANTS p1, p2, p3

Empty == <<>>
Pair == <<p1, p2>>
Trio == <<p1, p2, p3>>
=============================================================================
