------------------------------- MODULE MCMatch -------------------------------
(***************************************************************************)
(* The machines of a match, side by side: the falls of the characters, the  *)
(* stomp, the jetpack and the water gun of one of them, the pool of bullets *)
(* and what is shown of a character.  Each treats what the others do as a   *)
(* free choice, so they share no state.  A behaviour is one of them, the    *)
(* others stay as they begin.                                               *)
(***************************************************************************)
EXTENDS PlayerFalls, Stomp, Jetpack, WaterGun, BulletPool, PlayerView

VARIABLE part

vars == <<part, fallsVars, stompVars, jetVars, gunVars, poolVars, viewVars>>

Init == /\ part \in {"falls", "stomp", "jet", "gun", "pool", "view"}
        /\ FallsInit /\ StompInit /\ JetInit /\ GunInit /\ PoolInit /\ ViewInit

OfFalls(A) == part = "falls" /\ A /\ UNCHANGED <<part, stompVars, jetVars, gunVars, poolVars, viewVars>>
OfStomp(A) == part = "stomp" /\ A /\ UNCHANGED <<part, fallsVars, jetVars, gunVars, poolVars, viewVars>>
OfJet(A) == part = "jet" /\ A /\ UNCHANGED <<part, fallsVars, stompVars, gunVars, poolVars, viewVars>>
OfGun(A) == part = "gun" /\ A /\ UNCHANGED <<part, fallsVars, stompVars, jetVars, poolVars, viewVars>>
OfPool(A) == part = "pool" /\ A /\ UNCHANGED <<part, fallsVars, stompVars, jetVars, gunVars, viewVars>>
OfView(A) == part = "view" /\ A /\ UNCHANGED <<part, fallsVars, stompVars, jetVars, gunVars, poolVars>>

Next == \/ OfFalls(FallsNext) \/ OfStomp(StompNext) \/ OfJet(JetNext)
        \/ OfGun(GunNext) \/ OfPool(PoolNext) \/ OfView(ViewNext)

Spec == Init /\ [][Next]_vars

\* The main loop ticks for ever, and draws again and again.
FallsFair == WF_vars(OfFalls(FallsTick)) /\ WF_vars(OfFalls(FallsEndPhysics))
PoolFair == /\ WF_vars(OfPool(BeginTick)) /\ WF_vars(OfPool(PoolEndPhysics))
            /\ WF_vars(OfPool(PoolTick)) /\ SF_vars(OfPool(Render))
            /\ \A p \in Players : WF_vars(OfPool(Turn(p)))

FairSpec == Spec /\ FallsFair /\ PoolFair

\* The machines keep their types: no timer runs below zero or beyond its period.
MatchTypeOK == FallsTypeOK /\ StompTypeOK /\ JetTypeOK /\ GunTypeOK /\ PoolTypeOK /\ ViewTypeOK

\* What a character does again and again it does at its rate: bursts of the jet pack
\* (player_character.cpp:261) and shots of the gun (player_character.cpp:440).
RatesKept == BurstsApart /\ ShotsApart
=============================================================================
