----------------------------- MODULE GamePlayers -----------------------------
(***************************************************************************)
(* The players of a game (const.h).                                         *)
(***************************************************************************)
EXTENDS Integers

CONSTANT PlayerNmb   \* players are numbered from 1; 4 in the code

ASSUME PlayersAssumption == PlayerNmb \in Nat \ {0}

Players == 1..PlayerNmb
Nobody == -1
=============================================================================
