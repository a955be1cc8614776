------------------------------ MODULE MCRollback ------------------------------
(***************************************************************************)
(* Instances of the rollback protocol for TLC.                             *)
(***************************************************************************)
EXTENDS RollbackSafety

\* At most one peer inside a tick.  In one tick every mailbox read precedes
\* every send and everything else is local, so a tick commutes with the steps
\* of the other peers and the constraint loses no behaviour of the packets.
BetweenTicks(n) == pc[n] \in {"play", "over", "done", "gap"}
OneTickAtATime == \A n, k \in Connected : n = k \/ BetweenTicks(n) \/ BetweenTicks(k)

\* Showing the scores only ends the peer's own loop (play -> over), which a peer
\* that takes no further step does as well.
NoEndScreen == \A n \in Connected : ~endScreen[n]

\* One peer other than the master presses something, once, and nobody is far
\* ahead: the behaviours in which one lost packet makes three peers differ.
Restless == CHOOSE p \in Connected : p # Master
OneRestless ==
  /\ \A p \in Connected \ {Restless} :
       \A i \in DOMAIN pressed[p] : pressed[p][i] = Neutral
  /\ \A i \in DOMAIN pressed[Restless] : i > 1 => pressed[Restless][i] = Neutral
  /\ currentFrame[Master] <= 2 /\ currentFrame[Restless] <= 2
=============================================================================
