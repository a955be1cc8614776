------------------------------ MODULE WaterGun ------------------------------
(***************************************************************************)
(* The water gun of one character (player_character.cpp:410-472): the tank, *)
(* the pause in which an emptied tank is refilled, three quick straight     *)
(* shots from a full tank and slower ones after them.  A shot goes to       *)
(* BulletManager::SpawnWata.  Time is counted in ticks, the water in the    *)
(* units of the fixed point numbers.                                        *)
(***************************************************************************)
EXTENDS Timers

CONSTANTS Tank,         \* reserveWaterTimer's period (262144)
          Refill,       \* what comes back in a tick without shooting (4228)
          Spent,        \* what a tick of shooting takes (1092)
          SpentFirst,   \* ... while there are quick shots left (5 * 1092)
          FirstShots,   \* quick shots of a full tank (3)
          WaterTime,    \* ticks of waterTimer between two shots (200 ms)
          QuickTime,    \* ticks between two quick shots (a quarter of it)
          FirstWater,   \* ticks of waterTimer at first (0.3 s)
          ReloadTime    \* ticks of reloadTimer (62)

ASSUME GunAssumption ==
    /\ {Tank, Refill, Spent, SpentFirst, FirstShots, WaterTime, QuickTime, FirstWater, ReloadTime}
           \subseteq Nat \ {0}
    /\ QuickTime < WaterTime /\ WaterTime < FirstWater
    /\ Spent <= SpentFirst

VARIABLES reserve,     \* remaining time of reserveWaterTimer
          reload,      \* reloadTimer
          water,       \* waterTimer
          firstShots,  \* quick shots left
          aims,        \* what the player does in this tick: nothing, aims, aims and stomps
          shot,        \* history: the shot of the last tick
          sinceShot,   \* history: ticks since the last shot, as far as it matters
          eager        \* history: ticks it has aimed on end without a shot, as far as it matters

gunVars == <<reserve, reload, water, firstShots, aims, shot, sinceShot, eager>>

\* Nobody who aims waits longer for a shot.
Patience == ReloadTime + FirstWater

Shots == {"none", "straight", "curved", "dry"}

GunInit == /\ reserve = Tank /\ reload = 0 /\ water = FirstWater /\ firstShots = FirstShots
           /\ aims = "no" /\ shot = "none" /\ sinceShot = WaterTime
           /\ eager = 0

-----------------------------------------------------------------------------
\* An emptied tank starts the pause, which then takes its first tick.
Paused == IF reserve <= 0 THEN ReloadTime ELSE reload

\* The pause drops the aim.
Shooting(aim) == aim # "no" /\ Paused = 0

\* What a tick of shooting takes now.
Takes == IF firstShots > 0 THEN SpentFirst ELSE Spent

\* Mutant: no water comes back in the pause.
Level_DryPause(aim) ==
    LET now == IF reserve <= 0 THEN 0 ELSE reserve
    IN IF Paused > 0 THEN now
       ELSE IF aim # "no" THEN now - Takes
       ELSE now + Refill

\* What is in the tank after the tick, before it is found full.
Level(aim) ==
    LET now == IF reserve <= 0 THEN 0 ELSE reserve
    IN IF Shooting(aim) THEN now - Takes ELSE now + Refill

\* Mutant: the shots of a full tank may be taken one after the other at once.
Waiting_NotQuick(quick) == quick = 0 /\ water > 0

\* waterTimer lets no shot pass: all of it, or a quarter for the quick ones.
Waiting(quick) == \/ quick = 0 /\ water > 0
                  \/ quick > 0 /\ water > WaterTime - QuickTime

\* A tick of a character in the game that aims, or not, while it stomps, or not.
GunTick(aim) ==
    LET level == Level(aim)
        full == level > Tank
        quick == IF full THEN FirstShots ELSE firstShots
        fires == ~Waiting(quick) /\ Shooting(aim) /\ aim = "aims"
    IN /\ aims' = aim
       /\ reserve' = IF full THEN Tank ELSE level
       /\ reload' = IF full THEN 0 ELSE Less(Paused)
       /\ water' = IF Waiting(quick) THEN water - 1 ELSE IF fires THEN WaterTime ELSE water
       /\ firstShots' = IF fires /\ quick > 0 THEN quick - 1 ELSE quick
       /\ shot' = CASE ~fires -> "none"
                    [] fires /\ quick > 0 -> "straight"
                    [] fires /\ quick = 0 /\ reserve' > 0 -> "curved"
                    [] OTHER -> "dry"
       /\ sinceShot' = IF fires THEN 0 ELSE Least(sinceShot + 1, WaterTime)
       /\ eager' = IF fires \/ aim # "aims" THEN 0 ELSE Least(eager + 1, Patience)

GunNext == \E aim \in {"no", "aims", "stomps"} : GunTick(aim)

GunSpec == GunInit /\ [][GunNext]_gunVars

-----------------------------------------------------------------------------
GunTypeOK == /\ reserve \in (1 - SpentFirst)..Tank /\ reload \in 0..ReloadTime
             /\ water \in 0..FirstWater /\ firstShots \in 0..FirstShots
             /\ aims \in {"no", "aims", "stomps"} /\ shot \in Shots /\ sinceShot \in 0..WaterTime
             /\ eager \in 0..Patience

\* Shots are apart as the timers say, whenever the tank is refilled in between: QuickTime
\* ticks between any two, WaterTime before one that is not quick (player_character.cpp:446).
ShotsApart == [][sinceShot' = 0 => sinceShot >= IF shot' = "straight" THEN QuickTime ELSE WaterTime]_gunVars

\* An emptied tank does not stop the gun for good: who aims, without stomping, shoots
\* after the pause and one turn of waterTimer at the latest, whatever was done before.
ShootsSoon == eager < Patience

\* "we emptied the gun tank", "reloading start" (player_character.cpp:411, 413): no shot
\* is fired without water.  The code does not keep it: the pause starts one tick after the
\* one that empties the tank.
NoDryShot == shot # "dry"
=============================================================================
