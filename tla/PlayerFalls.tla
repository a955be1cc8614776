----------------------------- MODULE PlayerFalls -----------------------------
(***************************************************************************)
(* What happens to a character that is struck or falls out of the game, and *)
(* who is credited (player_character.cpp): the hits of bullets, collisions  *)
(* and stomps, and the chain of timers through which a character comes      *)
(* back.  The other timers of a character are the subject of Stomp,         *)
(* Jetpack and WaterGun.                                                    *)
(*                                                                          *)
(* A tick is a physics step, which reports contacts, then PlayerManager::   *)
(* Tick.  Time is counted in ticks; where characters are is left out: any   *)
(* two that are in the game may touch.                                      *)
(***************************************************************************)
EXTENDS GamePlayers, Timers, FiniteSets

CONSTANTS PauseTime,       \* ticks of respawnPauseTimer (500 ms)
          MoveTime,        \* ticks of respawnMoveTimer (1 s)
          StaticTime,      \* ticks of respawnStaticTime (2 s)
          InvincibleTime,  \* ticks of invincibleTimer (2 s)
          HitTime,         \* ticks of hitTimer (1.5 s)
          CollidedTime,    \* ticks of collidedTimer (250 ms)
          DashedTime,      \* ticks of dashedTimer (500 ms)
          MaxFalls         \* bound: falls of a player

FallsTimes == {PauseTime, MoveTime, StaticTime, InvincibleTime, HitTime, CollidedTime, DashedTime}

\* A collision and a stomp are over before a character is back on its place.
ASSUME FallsAssumption ==
    /\ MaxFalls \in Nat
    /\ FallsTimes \subseteq Nat \ {0}
    /\ CollidedTime <= PauseTime + MoveTime /\ DashedTime <= PauseTime + MoveTime

MaxResistancePhase == 3

VARIABLES char,     \* char[p]: the timers and counters of a PlayerCharacter
          active,   \* active[p]: the body of p takes part in the physics
          fallsStage,  \* "physics" or "tick"
          moving    \* the bodies that were active when the physics step began

fallsVars == <<char, active, fallsStage, moving>>

NewCharacter == [pause |-> 0, move |-> 0, static |-> StaticTime, invincible |-> 0,
                 hit |-> 0, hitPlayer |-> Nobody, resistance |-> 1,
                 collided |-> 0, dashed |-> 0, collidedPlayer |-> Nobody,
                 falls |-> 0, kills |-> 0]

FallsInit == /\ char = [p \in Players |-> NewCharacter]
             /\ active = [p \in Players |-> FALSE]
             /\ fallsStage = "physics"
             /\ moving = {}

-----------------------------------------------------------------------------
(* The contacts of a physics step, found before the first is reported. *)

Contact(p) == fallsStage = "physics" /\ p \in moving

\* Those who are credited when p falls; one may be credited several times.
Credits(p, q) ==
    Cardinality({cause \in {"collided", "hit", "dashed"} :
        /\ char[p][cause] > 0
        /\ q = IF cause = "hit" THEN char[p].hitPlayer ELSE char[p].collidedPlayer})

\* Mutant: a body that falls stays in the physics.
Respawn_StaysActive(p, c) == /\ char' = [c EXCEPT ![p].pause = IF c[p].pause = 0 /\ c[p].move = 0 THEN PauseTime ELSE @]
                             /\ UNCHANGED active

Respawn(p, c) ==
    IF c[p].pause > 0 \/ c[p].move > 0 THEN char' = c /\ UNCHANGED active
    ELSE /\ char' = [c EXCEPT ![p].pause = PauseTime]
         /\ active' = [active EXCEPT ![p] = FALSE]

\* A sensor of p enters a game limit.
Fall(p) ==
    /\ Contact(p) /\ char[p].falls < MaxFalls
    /\ Respawn(p, [q \in Players |->
           [char[q] EXCEPT !.kills = @ + Credits(p, q), !.falls = IF q = p THEN @ + 1 ELSE @]])
    /\ UNCHANGED <<fallsStage, moving>>

\* Mutant: a bullet also counts against the player who shot it.
HitByBullet_Own(p, q) ==
    /\ Contact(p) /\ char[p].invincible = 0
    /\ char' = [char EXCEPT ![p].hit = HitTime, ![p].hitPlayer = q]
    /\ UNCHANGED <<active, fallsStage, moving>>

\* Mutant: the resistance is not capped.
HitByBullet_NoCap(p, q) ==
    /\ Contact(p) /\ p # q /\ char[p].invincible = 0
    /\ char' = [char EXCEPT ![p].hit = HitTime, ![p].hitPlayer = q,
                            ![p].resistance = IF char[p].hit > 0 THEN @ + 1 ELSE @]
    /\ UNCHANGED <<active, fallsStage, moving>>

\* A bullet that q shot enters p.
HitByBullet(p, q) ==
    /\ Contact(p) /\ p # q /\ char[p].invincible = 0
    /\ char' = [char EXCEPT ![p].hit = HitTime, ![p].hitPlayer = q,
                            ![p].resistance = IF char[p].hit > 0 THEN Least(@ + 1, MaxResistancePhase) ELSE @]
    /\ UNCHANGED <<active, fallsStage, moving>>

\* The foot of q, who is dashing, enters the head of p.
Stomped(p, q) ==
    /\ Contact(p) /\ Contact(q) /\ p # q /\ char[p].invincible = 0
    /\ char' = [char EXCEPT ![p].dashed = DashedTime, ![p].collidedPlayer = q]
    /\ UNCHANGED <<active, fallsStage, moving>>

\* The sides of p and q meet.  Both are told; the second one returns early.
Collide(p, q) ==
    /\ Contact(p) /\ Contact(q) /\ p # q
    /\ ~(char[q].collided > 0 /\ char[q].collidedPlayer = p)
    /\ char' = [char EXCEPT ![p].collided = CollidedTime, ![p].collidedPlayer = q,
                            ![q].collided = CollidedTime, ![q].collidedPlayer = p]
    /\ UNCHANGED <<active, fallsStage, moving>>

FallsEndPhysics == /\ fallsStage = "physics"
                   /\ fallsStage' = "tick" /\ moving' = {}
                   /\ UNCHANGED <<char, active>>

-----------------------------------------------------------------------------
(* PlayerManager::Tick of one player. *)

\* Mutant: the timers of collisions and stomps wait, too, while a character is out.
RunsAlways_NotWhenOut(c) ==
    IF c.pause > 0 \/ c.move > 0 THEN c
    ELSE [c EXCEPT !.collided = Less(@), !.dashed = Less(@)]

\* Timers that run in any case.
RunsAlways(c) == [c EXCEPT !.collided = Less(@), !.dashed = Less(@)]

\* Mutant: invincible while it waits on its place, not after it.
Waits_NoShield(c, wakes) ==
    IF c.static = 1 \/ wakes THEN [c EXCEPT !.static = 0] ELSE [c EXCEPT !.static = @ - 1]

\* On its place: until the time is over or the player moves.
Waits(c, wakes) ==
    IF c.static = 1 \/ wakes THEN [c EXCEPT !.static = 0, !.invincible = InvincibleTime]
    ELSE [c EXCEPT !.static = @ - 1]

\* Mutant: the pause starts the place, the way back starts the place.
Returns_NoMove(c) ==
    IF c.move > 0 THEN [c EXCEPT !.move = @ - 1, !.static = IF c.move = 1 THEN StaticTime ELSE @]
    ELSE [c EXCEPT !.pause = @ - 1, !.static = IF c.pause = 1 THEN StaticTime ELSE @]

\* Mutant: nothing follows the way back.
Returns_NoPlace(c) ==
    IF c.move > 0 THEN [c EXCEPT !.move = @ - 1]
    ELSE [c EXCEPT !.pause = @ - 1, !.move = IF c.pause = 1 THEN MoveTime ELSE @]

\* On its way back, or in the pause before: the rest of the tick is left out.
Returns(c) ==
    IF c.move > 0 THEN [c EXCEPT !.move = @ - 1, !.static = IF c.move = 1 THEN StaticTime ELSE @]
    ELSE [c EXCEPT !.pause = @ - 1, !.move = IF c.pause = 1 THEN MoveTime ELSE @]

\* The effect of bullets wears off.
DriesOff(c) ==
    [c EXCEPT !.hit = Less(@),
              !.resistance = IF c.hit = 0 THEN 1 ELSE @,
              !.hitPlayer = IF c.hit = 0 THEN Nobody ELSE @]

\* In the game.
Plays(c, grounded) ==
    DriesOff([c EXCEPT !.invincible = Less(@), !.dashed = IF grounded THEN 0 ELSE @])

Ticked(c, wakes, grounded) ==
    LET always == RunsAlways(c)
        placed == IF always.static > 0 THEN Waits(always, wakes) ELSE always
    IN IF placed.static > 0 THEN placed
       ELSE IF placed.pause > 0 \/ placed.move > 0 THEN Returns(placed)
       ELSE Plays(placed, grounded)

\* Any players move, any are on the ground.
FallsTick ==
    /\ fallsStage = "tick"
    /\ \E wakes, grounded \in SUBSET Players :
          char' = [p \in Players |-> Ticked(char[p], p \in wakes, p \in grounded)]
    /\ active' = [p \in Players |-> active[p] \/ (char[p].static > 0 /\ char'[p].static = 0)]
    /\ fallsStage' = "physics"
    /\ moving' = {p \in Players : active'[p]}

FallsNext == \/ FallsTick \/ FallsEndPhysics
             \/ \E p \in Players : Fall(p)
             \/ \E p, q \in Players : HitByBullet(p, q) \/ Stomped(p, q) \/ Collide(p, q)

FallsSpec == FallsInit /\ [][FallsNext]_fallsVars

-----------------------------------------------------------------------------
Character == [pause : 0..PauseTime, move : 0..MoveTime, static : 0..StaticTime,
              invincible : 0..InvincibleTime, hit : 0..HitTime, collided : 0..CollidedTime,
              dashed : 0..DashedTime, hitPlayer : Players \cup {Nobody},
              collidedPlayer : Players \cup {Nobody}, resistance : 1..MaxResistancePhase,
              falls : 0..MaxFalls, kills : Nat]

FallsTypeOK == /\ char \in [Players -> Character]
               /\ active \in [Players -> BOOLEAN]
               /\ fallsStage \in {"physics", "tick"}
               /\ moving \subseteq Players

\* While a cause to credit somebody runs, that somebody is another player:
\* playerCharacters_ is not indexed with -1 (player_character.cpp:587).
CreditsSomebody == \A p \in Players :
    /\ char[p].hit > 0 => char[p].hitPlayer \in Players \ {p}
    /\ char[p].collided > 0 \/ char[p].dashed > 0 => char[p].collidedPlayer \in Players \ {p}

\* A character is in the physics, or in just one phase of its way back
\* (player_character.cpp:133-168, 715).
OnePhase == \A p \in Players :
    Cardinality({phase \in {"pause", "move", "static"} : char[p][phase] > 0}) = (IF active[p] THEN 0 ELSE 1)

\* On its place nobody is credited for a collision or a stomp of the life before.
\* A hit is not forgotten: hitTimer waits while the character is out.
LifeForgotten == \A p \in Players : char[p].static > 0 => char[p].collided = 0 /\ char[p].dashed = 0

\* No life starts with what another life left behind, and only players are credited.
FallsSound == OnePhase /\ CreditsSomebody /\ LifeForgotten

Life(p) == CASE char[p].pause > 0 -> "out"
             [] char[p].move > 0 -> "returning"
             [] char[p].static > 0 -> "waiting"
             [] OTHER -> "playing"

After(life) == CASE life = "playing" -> "out" [] life = "out" -> "returning"
                 [] life = "returning" -> "waiting" [] life = "waiting" -> "playing"

\* The phases follow each other, whatever strikes a character meanwhile, and the last one
\* leaves it invincible (player_character.cpp:144).
LifeCycle ==
    [][\A p \in Players :
         /\ Life(p)' \in {Life(p), After(Life(p))}
         /\ Life(p) = "waiting" /\ Life(p)' = "playing" => char'[p].invincible = InvincibleTime - 1]_fallsVars

\* A character that has fallen comes back.
ComesBack == \A p \in Players : char[p].falls > 0 /\ ~active[p] ~> active[p]
=============================================================================
