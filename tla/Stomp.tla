-------------------------------- MODULE Stomp --------------------------------
(***************************************************************************)
(* The stomp of one character (player_character.cpp): preparing it in the   *)
(* air, dashing down, and the slowing down or bouncing that ends it.  Other *)
(* characters stomp or collide with it at any time; forces and positions    *)
(* are left out.  Time is counted in ticks.                                 *)
(***************************************************************************)
EXTENDS Timers

CONSTANTS PrepTime,      \* ticks of dashPrepTimer (500 ms)
          DownTime,      \* ticks of dashDownTimer (150 ms)
          StopTime,      \* ticks of stopDashTimer (150 ms)
          SlowTime,      \* ticks of slowDashTimer (300 ms)
          BounceTime,    \* ticks of bounceDashTimer (150 ms)
          RecoverTime,   \* ticks of wasDownRecoverTimer (1 s)
          StunTime,      \* ticks of dashedTimer (500 ms)
          BumpTime,      \* ticks of collidedTimer (250 ms)
          MaxFoot        \* bound: platforms under the foot at once

StompTimes == {PrepTime, DownTime, StopTime, SlowTime, BounceTime, RecoverTime, StunTime, BumpTime}

\* The tick that ends a dash is the first one of slowing down, and not its last.
ASSUME StompAssumption ==
    StompTimes \subseteq Nat \ {0} /\ SlowTime > 1 /\ MaxFoot \in Nat \ {0}

TrailLength == 22   \* dashPositions holds that many

VARIABLES stomper,  \* the part of PlayerCharacter a stomp is about
          out,      \* the character is on its way back into the game
          pressed,  \* the stomp button of the previous tick
          stompStage \* "physics" or "tick"

stompVars == <<stomper, out, pressed, stompStage>>

StompInit == /\ stomper = [prep |-> 0, down |-> 0, stop |-> 0, slow |-> 0, bounce |-> 0,
                     recover |-> 0, dashed |-> 0, collided |-> 0, foot |-> 0, trail |-> 0]
             /\ out = TRUE
             /\ pressed = FALSE
             /\ stompStage = "physics"

Grounded == stomper.foot > 0

-----------------------------------------------------------------------------
(* The contacts of a physics step. *)

\* Slowing down turns into a bounce.
Landed(k) == IF k.slow > 0 THEN [k EXCEPT !.slow = 0, !.bounce = BounceTime] ELSE k

FootEnter == /\ stompStage = "physics" /\ stomper.foot < MaxFoot
             /\ stomper' = Landed([stomper EXCEPT !.foot = @ + 1])
             /\ UNCHANGED <<out, pressed, stompStage>>

FootExit == /\ stompStage = "physics" /\ stomper.foot > 0
            /\ stomper' = [stomper EXCEPT !.foot = @ - 1]
            /\ UNCHANGED <<out, pressed, stompStage>>

\* Mutant: the dash goes on after the bounce has begun.
StopDash_DashesOn(k, finish) ==
    IF finish = "BOUNCE" THEN [k EXCEPT !.slow = 0, !.bounce = BounceTime, !.stop = StopTime]
    ELSE [k EXCEPT !.down = 0, !.slow = SlowTime, !.stop = StopTime]

StopDash(k, finish) ==
    IF finish = "BOUNCE" THEN [k EXCEPT !.down = 0, !.slow = 0, !.bounce = BounceTime, !.stop = StopTime]
    ELSE [k EXCEPT !.down = 0, !.slow = SlowTime, !.stop = StopTime]

\* The foot enters the head of another character, who may be on the ground.
EnterHead(onGround) ==
    /\ stompStage = "physics" /\ ~out /\ stomper.down > 0
    /\ stomper' = IF onGround THEN StopDash(Landed(stomper), "BOUNCE") ELSE Landed(stomper)
    /\ UNCHANGED <<out, pressed, stompStage>>

GetsStomped == /\ stompStage = "physics" /\ ~out
               /\ stomper' = [stomper EXCEPT !.dashed = StunTime]
               /\ UNCHANGED <<out, pressed, stompStage>>

GetsCollided == /\ stompStage = "physics" /\ ~out
                /\ stomper' = [stomper EXCEPT !.collided = BumpTime]
                /\ UNCHANGED <<out, pressed, stompStage>>

Falls == /\ stompStage = "physics" /\ ~out
         /\ out' = TRUE
         /\ UNCHANGED <<stomper, pressed, stompStage>>

StompEndPhysics == /\ stompStage = "physics"
                   /\ stompStage' = "tick"
                   /\ UNCHANGED <<stomper, out, pressed>>

-----------------------------------------------------------------------------
(* PlayerManager::Tick.  reactor is -1, 0 or 1: moveDirY below, at or above *)
(* StompThreshold; both thresholds of the code for falling are the same.    *)

StompRunsAlways(k) == [k EXCEPT !.collided = Less(@), !.stop = Less(@), !.recover = Less(@), !.dashed = Less(@)]

Walks(k, reactor) ==
    IF k.foot = 0 THEN k
    ELSE [k EXCEPT !.dashed = 0, !.stop = IF reactor > 0 THEN 0 ELSE @]

\* Preparing for too long costs a pause before the next stomp.
Prepares(k) == [k EXCEPT !.prep = Less(@), !.recover = IF k.prep = 1 THEN RecoverTime ELSE @]

\* Mutant: the dash ends without slowing down.
Dashes_NoSlow(k) == [k EXCEPT !.down = Less(@)]

Dashes(k) == IF k.down = 1 THEN StopDash(k, "SLOW") ELSE [k EXCEPT !.down = Less(@)]

\* Mutant: the timers of the end run below zero.
SlowsDown_NoFloor(k) == [k EXCEPT !.slow = IF k.foot > 0 THEN 0 ELSE @ - 1,
                                  !.bounce = IF k.foot > 0 THEN 0 ELSE @ - 1]

SlowsDown(k) == [k EXCEPT !.slow = IF k.foot > 0 THEN 0 ELSE Less(@),
                          !.bounce = IF k.foot > 0 THEN 0 ELSE Less(@)]

CanPrepare(k, slowEnough) ==
    k.down = 0 /\ k.prep = 0 /\ k.dashed = 0 /\ k.collided = 0 /\ k.recover = 0 /\ slowEnough

CanDash(k) == k.prep > 0 /\ k.down = 0 /\ k.dashed = 0 /\ k.collided = 0 /\ k.stop = 0

\* Mutant: the trail of the last dash is kept.
StartDash_KeepsTrail(k) == [k EXCEPT !.down = DownTime, !.prep = 0]

StartDash(k) == [k EXCEPT !.down = DownTime, !.prep = 0, !.trail = 0]

LeavesTrail(k) == [k EXCEPT !.trail = IF @ = TrailLength THEN @ ELSE @ + 1]

InAir(k, press, reactor, slowEnough) ==
    IF press /\ CanPrepare(k, slowEnough) THEN [k EXCEPT !.prep = PrepTime]
    ELSE IF k.down > 0 /\ k.stop = 0 THEN LeavesTrail(k)
    ELSE IF CanDash(k) THEN (IF reactor < 0 THEN StartDash(k) ELSE k)
    ELSE IF reactor >= 0 THEN [k EXCEPT !.down = 0] ELSE k

Played(k, press, reactor, slowEnough) ==
    LET moved == SlowsDown(Dashes(Prepares(Walks(k, reactor))))
    IN IF moved.foot > 0 THEN [moved EXCEPT !.down = 0]
       ELSE InAir(moved, press, reactor, slowEnough)

\* While the character is out only some timers run; it may be back in this tick.
StompTick == /\ stompStage = "tick"
             /\ \E button, back, slowEnough \in BOOLEAN, reactor \in {-1, 0, 1} :
                   /\ out' = (out /\ ~back)
                   /\ stomper' = IF out' THEN StompRunsAlways(stomper)
                           ELSE Played(StompRunsAlways(stomper), button /\ ~pressed, reactor, slowEnough)
                   /\ pressed' = button
             /\ stompStage' = "physics"

StompNext == \/ FootEnter \/ FootExit \/ GetsStomped \/ GetsCollided \/ Falls
             \/ StompEndPhysics \/ StompTick
             \/ \E onGround \in BOOLEAN : EnterHead(onGround)

StompSpec == StompInit /\ [][StompNext]_stompVars

-----------------------------------------------------------------------------
StompTypeOK == /\ stomper \in [prep : 0..PrepTime, down : 0..DownTime, stop : 0..StopTime, slow : 0..SlowTime,
                         bounce : 0..BounceTime, recover : 0..RecoverTime, dashed : 0..StunTime,
                         collided : 0..BumpTime, foot : 0..MaxFoot, trail : 0..TrailLength]
               /\ out \in BOOLEAN /\ pressed \in BOOLEAN /\ stompStage \in {"physics", "tick"}

\* A character does not dash while it prepares or has been stopped
\* (player_character.cpp:303-403, 811).  Slowing down and bouncing may overlap.
OneMove == stomper.down > 0 => stomper.prep = 0 /\ stomper.stop = 0

\* A dash leaves fewer positions than it has ticks, so the ten points of the view
\* suffice (player_view.cpp:454).
TrailShort == stomper.trail < DownTime

\* What a character does is one move at a time, and the view has room for it.
StompSound == OneMove /\ TrailShort

\* A dash ends on the ground or in a slowing down or bouncing, never just so.
DashIsFinished == [][stomper.down > 0 /\ stomper'.down = 0 => Grounded \/ stomper'.slow > 0 \/ stomper'.bounce > 0]_stompVars

=============================================================================
