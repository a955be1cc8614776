----------------------------- MODULE BulletPool -----------------------------
(***************************************************************************)
(* The pool of bullets (bullet.cpp) and what is drawn of it                 *)
(* (bullet_view.cpp).  A tick of the game is a physics step, in which       *)
(* bullets enter the colliders of players, platforms and game limits, then  *)
(* the turn of every player, who may shoot, then the timers of the bullets. *)
(* Between ticks a frame may be drawn.                                      *)
(*                                                                          *)
(* Time is counted in ticks.  Positions and velocities are left out: a      *)
(* bullet that flies as a physics step begins may enter any colliders in    *)
(* it, one after the other.  How often a player may shoot is the constant   *)
(* Reload.                                                                  *)
(***************************************************************************)
EXTENDS GamePlayers

CONSTANTS MaxBulletNmb, \* bullets of the pool (50)
          LifeTime,     \* ticks of timeToLiveTimer (3 s)
          SplashTime,   \* ticks of destroyedTimer (200 ms)
          Reload        \* least ticks from one shot of a player to its next one

ASSUME PoolAssumption ==
    /\ MaxBulletNmb \in Nat \ {0}
    /\ LifeTime \in Nat \ {0} /\ SplashTime \in Nat \ {0, 1} /\ Reload \in Nat \ {0}

Bullets == 1..MaxBulletNmb

VARIABLES bullet,   \* bullet[b]: a Bullet and whether its body is active
          gun,      \* gun[p]: ticks until p may shoot again
          poolStage, \* where the program is: in a part of a tick, or drawing
          flying,   \* the bullets that fly as the physics step begins
          turn,     \* the player whose turn it is in stage "players"
          view      \* view[b]: BulletRenderState of b

poolVars == <<bullet, gun, poolStage, flying, turn, view>>

Bullet == [owner : Players \cup {Nobody}, shooter : Players \cup {Nobody}, active : BOOLEAN,
           timeToLive : 0..LifeTime, destroyed : 0..SplashTime]

Stages == {"frame", "drawn", "physics", "players", "bullets", "terminated"}

\* timeToLiveTimer runs from the start, also for a bullet nobody has shot.
PoolInit == /\ bullet = [b \in Bullets |->
                           [owner |-> Nobody, shooter |-> Nobody, active |-> FALSE,
                            timeToLive |-> LifeTime, destroyed |-> 0]]
            /\ gun = [p \in Players |-> 0]
            /\ poolStage = "frame" /\ flying = {} /\ turn = 1
            /\ view = [b \in Bullets |-> "NONE"]

-----------------------------------------------------------------------------
BeginTick == /\ poolStage \in {"frame", "drawn"}
             /\ poolStage' = "physics"
             /\ flying' = {b \in Bullets : bullet[b].active}
             /\ UNCHANGED <<bullet, gun, turn, view>>

\* Mutant: the bullet stops but its splash is never started.
Struck_NoSplash(bl, type) ==
    IF type = "GAME_LIMIT" THEN [bl EXCEPT !.active = FALSE, !.owner = Nobody]
    ELSE [bl EXCEPT !.active = FALSE]

Struck(bl, type) ==
    IF type = "GAME_LIMIT" THEN [bl EXCEPT !.active = FALSE, !.owner = Nobody]
    ELSE [bl EXCEPT !.active = FALSE, !.destroyed = SplashTime]

\* Platforms and game limits carry the number -1, like a bullet that nobody owns.
Spared(b, number) == number = bullet[b].owner

\* A bullet that was stopped or given back in this step may still enter something else.
Enter(b, type, number) ==
    /\ poolStage = "physics" /\ b \in flying
    /\ bullet' = [bullet EXCEPT ![b] = IF Spared(b, number) THEN @ ELSE Struck(@, type)]
    /\ UNCHANGED <<gun, poolStage, flying, turn, view>>

OnTriggerEnter(b) ==
    \/ \E p \in Players : Enter(b, "PLAYER", p)
    \/ \E type \in {"PLATFORM", "GAME_LIMIT"} : Enter(b, type, Nobody)

PoolEndPhysics == /\ poolStage = "physics"
                  /\ poolStage' = "players" /\ turn' = 1 /\ flying' = {}
                  /\ UNCHANGED <<bullet, gun, view>>

-----------------------------------------------------------------------------
First(S) == CHOOSE b \in S : \A c \in S : b <= c

\* Mutant: whether a bullet is owned is not asked.
Free_Any == Bullets

Free == {b \in Bullets : bullet[b].owner = Nobody}
Resting == {b \in Bullets : ~bullet[b].active}

\* Mutant: a bullet in flight may be taken.
Reusable_Any == {b \in Bullets : \A c \in Bullets : bullet[b].destroyed <= bullet[c].destroyed}

\* Mutant: no bullet is reused before it is free.
Reusable_None == {}

\* Without a free bullet, the one whose splash is most advanced.
Reusable == {b \in Resting : \A c \in Resting : bullet[b].destroyed <= bullet[c].destroyed}

\* The turn of the next player, or of the bullets.
EndTurn == IF turn = PlayerNmb THEN poolStage' = "bullets" /\ UNCHANGED turn
           ELSE turn' = turn + 1 /\ UNCHANGED poolStage

\* destroyedTimer is not stopped.
Shot(bl, p) ==
    [bl EXCEPT !.owner = p, !.shooter = p, !.active = TRUE, !.timeToLive = LifeTime]

SpawnWata(p) ==
    /\ poolStage = "players" /\ turn = p /\ gun[p] = 0
    /\ IF Free \cup Reusable = {}
       THEN poolStage' = "terminated" /\ UNCHANGED <<bullet, gun, turn>>
       ELSE LET b == First(IF Free # {} THEN Free ELSE Reusable)
            IN /\ bullet' = [bullet EXCEPT ![b] = Shot(@, p)]
               /\ gun' = [gun EXCEPT ![p] = Reload - 1]
               /\ EndTurn
    /\ UNCHANGED <<flying, view>>

\* Mutant: the timer of the gun runs below zero.
HoldFire_NoFloor(p) ==
    /\ poolStage = "players" /\ turn = p
    /\ gun' = [gun EXCEPT ![p] = @ - 1]
    /\ EndTurn
    /\ UNCHANGED <<bullet, flying, view>>

HoldFire(p) ==
    /\ poolStage = "players" /\ turn = p
    /\ gun' = [gun EXCEPT ![p] = IF @ = 0 THEN 0 ELSE @ - 1]
    /\ EndTurn
    /\ UNCHANGED <<bullet, flying, view>>

-----------------------------------------------------------------------------
\* Mutant: a bullet that outlives its time is not stopped.
Aged_FliesOn(bl) ==
    IF bl.timeToLive = 0 THEN bl
    ELSE [bl EXCEPT !.timeToLive = @ - 1, !.destroyed = IF bl.timeToLive = 1 THEN SplashTime ELSE @]

Aged(bl) ==
    CASE bl.timeToLive = 0 -> bl
      [] bl.timeToLive = 1 -> [bl EXCEPT !.timeToLive = 0, !.active = FALSE, !.destroyed = SplashTime]
      [] OTHER -> [bl EXCEPT !.timeToLive = @ - 1]

Splashed(bl) ==
    CASE bl.destroyed = 0 -> bl
      [] bl.destroyed = 1 -> [bl EXCEPT !.destroyed = 0, !.owner = Nobody]
      [] OTHER -> [bl EXCEPT !.destroyed = @ - 1]

PoolTick == /\ poolStage = "bullets"
            /\ bullet' = [b \in Bullets |-> Splashed(Aged(bullet[b]))]
            /\ poolStage' = "frame"
            /\ UNCHANGED <<gun, flying, turn, view>>

-----------------------------------------------------------------------------
\* Mutant: a bullet given back is still drawn in flight.
Shown_KeepsWata(bl, state) ==
    CASE state = "NONE" /\ bl.owner # Nobody /\ bl.active -> "WATA"
      [] state = "NONE" /\ bl.owner # Nobody /\ ~bl.active /\ bl.destroyed > 0 -> "DESTROYED"
      [] state = "WATA" /\ bl.destroyed > 0 -> "DESTROYED"
      [] state = "DESTROYED" /\ bl.destroyed = 0 -> "NONE"
      [] OTHER -> state

\* BulletView::Update: the state that is drawn next.
Shown(bl, state) ==
    CASE state = "NONE" /\ bl.owner # Nobody /\ bl.active -> "WATA"
      [] state = "NONE" /\ bl.owner # Nobody /\ ~bl.active /\ bl.destroyed > 0 -> "DESTROYED"
      [] state = "WATA" /\ bl.owner = Nobody -> "NONE"
      [] state = "WATA" /\ bl.owner # Nobody /\ bl.destroyed > 0 -> "DESTROYED"
      [] state = "DESTROYED" /\ bl.destroyed = 0 -> "NONE"
      [] OTHER -> state

Render == /\ poolStage = "frame"
          /\ view' = [b \in Bullets |-> Shown(bullet[b], view[b])]
          /\ poolStage' = "drawn"
          /\ UNCHANGED <<bullet, gun, flying, turn>>

Turn(p) == SpawnWata(p) \/ HoldFire(p)

PoolNext == \/ BeginTick \/ PoolEndPhysics \/ PoolTick \/ Render
            \/ \E b \in Bullets : OnTriggerEnter(b)
            \/ \E p \in Players : Turn(p)

PoolSpec == PoolInit /\ [][PoolNext]_poolVars

-----------------------------------------------------------------------------
PoolTypeOK == /\ bullet \in [Bullets -> Bullet]
              /\ gun \in [Players -> 0..(Reload - 1)]
              /\ poolStage \in Stages /\ flying \subseteq Bullets /\ turn \in Players
              /\ view \in [Bullets -> {"NONE", "WATA", "DESTROYED"}]

\* A bullet in flight has time left to live, and so stops by itself (bullet.cpp:45).
FlightEnds == \A b \in Bullets : bullet[b].active => bullet[b].timeToLive > 0

\* A bullet that rests is free or splashes, and so is given back: the pool does not
\* shrink (bullet.cpp:65).
NoLeak == \A b \in Bullets : bullet[b].active \/ bullet[b].owner = Nobody \/ bullet[b].destroyed > 0

\* A bullet in flight is never taken for another shot while somebody owns it.
NoSteal == [][\A b \in Bullets : bullet[b].active /\ bullet[b].owner # Nobody =>
                bullet'[b].timeToLive <= bullet[b].timeToLive]_poolVars

\* Bullets a player can have in flight at once: one for every Reload ticks of LifeTime.
Salvo == (LifeTime + Reload - 1) \div Reload

\* A pool that holds the salvos of all players is never exhausted (bullet.cpp:139).
PoolSuffices == PlayerNmb * Salvo <= MaxBulletNmb => poolStage # "terminated"

\* A bullet is drawn in flight in the colour of a player: playerColors is never
\* indexed with -1 (bullet_view.cpp:148).
DrawnInColour == poolStage = "drawn" =>
    \A b \in Bullets : view[b] = "WATA" => bullet[b].owner \in Players

\* Every bullet comes back to the pool, which is large enough, and is drawn until then.
PoolSound == FlightEnds /\ NoLeak /\ PoolSuffices /\ DrawnInColour

\* Every flight ends, however often the bullet is shot again.
FlightsLand == \A b \in Bullets : []<>(~bullet[b].active)

\* The number of a collider is "Used by player or bullet" (const.h:68) and -1 is that of
\* platforms and limits, so a bullet in flight has the number of a player.  The code does
\* not keep it: a bullet that is shot while its splash timer runs loses its owner in flight.
FlownByPlayer == \A b \in Bullets : bullet[b].active => bullet[b].owner \in Players
=============================================================================
