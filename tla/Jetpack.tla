------------------------------ MODULE Jetpack ------------------------------
(***************************************************************************)
(* The jump and the jet burst of one character (player_character.cpp,       *)
(* 230-301).  The stick is at one of four levels, cut at ReactorThreshold   *)
(* (0.2), GroundReactorThreshold (0.5) and JetBurstThreshold (0.75); the    *)
(* vertical velocity is a sign.  Whether another timer or the speed forbids *)
(* a jump, and whether a dash ends (StopDash, 828), are choices.  Time is   *)
(* counted in ticks.                                                        *)
(***************************************************************************)
EXTENDS Timers

CONSTANTS JumpTime,      \* ticks of jumpTimer (1 s)
          CancelTime,    \* ticks of JumpCancelTime (0.8)
          PreTime,       \* ticks of preJetBurstTimer (500 ms)
          CoolTime,      \* ticks of jetBurstCoolDownTimer (100 ms)
          FirstCool      \* ticks of jetBurstCoolDownTimer at first (1 s)

ASSUME JetAssumption ==
    /\ {JumpTime, PreTime, CoolTime, FirstCool} \subseteq Nat \ {0}
    /\ CancelTime \in 0..JumpTime

VARIABLES jump, preJet, cool,   \* the timers
          sinceBurst            \* history: ticks since the last burst in the air, as far as it matters

jetVars == <<jump, preJet, cool, sinceBurst>>

JetInit == /\ jump = 0 /\ preJet = 0 /\ cool = FirstCool
           /\ sinceBurst = PreTime

-----------------------------------------------------------------------------
(* What a tick reads. *)

Low(level) == level = 0
Up(level) == level >= 1
UpOnGround(level) == level >= 2
Full(level) == level = 3

\* Mutant: the cool down is not floored.
Cooled_NoFloor(bursting, level, velY) ==
    IF ~bursting /\ (Low(level) \/ velY > 0) THEN cool - 1 ELSE cool

\* Both updates of jetBurstCoolDownTimer.
Cooled(bursting, level, velY) ==
    IF ~bursting
    THEN LET once == IF Low(level) \/ velY > 0 THEN Less(cool) ELSE cool
         IN IF Low(level) \/ velY < 0 THEN Less(once) ELSE once
    ELSE cool

JetOn(grounded, level, jumping, cooled) ==
    \/ grounded /\ (UpOnGround(level) \/ jumping)
    \/ ~grounded /\ Up(level)
    \/ ~grounded /\ jumping /\ cooled

Arms(bursting, level, cooled, collided) == cooled /\ ~bursting /\ Full(level) /\ ~collided

\* Mutant: a burst need not be prepared.
Jumps_AtOnce(grounded, bursting, prepared, jumping, may) ==
    (grounded \/ bursting) /\ ~jumping /\ may

Jumps(grounded, bursting, prepared, jumping, may) ==
    (grounded \/ (bursting /\ prepared)) /\ ~jumping /\ may

Cancels(level, velY, time) == (Low(level) \/ velY < 0) /\ time < CancelTime

\* A dash that ends in this tick stops jetBurstCoolDownTimer once more, after the jet pack.
Jet(grounded, level, velY, collided, may, slows) ==
    LET jumpLeft == Less(jump)
        bursting == preJet > 0
        cooled == Cooled(bursting, level, velY)
        preLeft == Less(preJet)
        on == JetOn(grounded, level, jumpLeft > 0, cooled = 0)
        arms == on /\ Arms(bursting, level, cooled = 0, collided)
        pre == IF arms THEN PreTime ELSE preLeft
        jumps == on /\ Jumps(grounded, bursting \/ arms, pre = 0, jumpLeft > 0, may /\ ~collided)
        jumpNow == IF jumps THEN JumpTime ELSE jumpLeft
        off == ~on /\ (grounded \/ Low(level))
    IN /\ jump' = IF Cancels(level, velY, jumpNow) THEN 0 ELSE jumpNow
       /\ preJet' = IF off THEN 0 ELSE pre
       /\ cool' = IF off \/ slows THEN 0 ELSE IF arms \/ (on /\ velY > 0) THEN CoolTime ELSE cooled
       /\ sinceBurst' = IF jumps /\ ~grounded THEN 0 ELSE Least(sinceBurst + 1, PreTime)

\* PlayerManager::Tick of a character in the game.
JetTick == \E grounded, collided, may, slows \in BOOLEAN, level \in 0..3, velY \in {-1, 0, 1} :
               Jet(grounded, level, velY, collided, may, slows)

\* A character that is out: only jumpTimer runs.
JetTickOut == /\ jump' = Less(jump)
              /\ sinceBurst' = Least(sinceBurst + 1, PreTime)
              /\ UNCHANGED <<preJet, cool>>

JetNext == JetTick \/ JetTickOut

JetSpec == JetInit /\ [][JetNext]_jetVars

-----------------------------------------------------------------------------
JetTypeOK == /\ jump \in 0..JumpTime /\ preJet \in 0..PreTime
             /\ cool \in 0..(IF CoolTime < FirstCool THEN FirstCool ELSE CoolTime)
             /\ sinceBurst \in 0..PreTime

\* Bursts in the air are further apart than it takes to prepare one, also when the end of a
\* dash has cut the cool down: the jetpack is no ladder (player_character.cpp:247-272).
BurstsApart == [][sinceBurst' = 0 => sinceBurst >= PreTime]_jetVars
=============================================================================
