------------------------------ MODULE IntroSync ------------------------------
(***************************************************************************)
(* The countdown before a game.  Every peer counts down on its own          *)
(* (GameManager::Update) from the moment its game begins.  A follower pings *)
(* the master; the answer may set its countdown (client.cpp), on the        *)
(* network thread, while the main thread counts.                            *)
(*                                                                          *)
(* Time is counted in frames of the main loop.  A ping and its answer form  *)
(* a chain: every answer sends the next ping.  Pings may be lost, never     *)
(* later than Latency frames.                                               *)
(***************************************************************************)
EXTENDS Integers

CONSTANTS Intro,      \* frames of the countdown (introDelay, 7 s)
          Second,     \* frames of a second: period of the ping timer, and the answer 1.0
          Period,     \* frames of a game (two minutes)
          Latency,    \* bound: frames a message is on its way, and of the measured ping
          MaxChains   \* bound: chains of pings under way

ASSUME IntroAssumption ==
    /\ Intro \in Nat \ {0} /\ Second \in Nat \ {0} /\ Period \in Nat \ {0}
    /\ Latency \in Nat \ {0} /\ MaxChains \in Nat

Peers == {"master", "follower"}
Chains == 1..MaxChains

VARIABLES peerGame,   \* peerGame[p]: the countdown and the game of a peer
          chain,      \* chain[c]: where a chain of pings is
          pingTimer   \* SplashManager::pingTimer_ of the follower

introVars == <<peerGame, chain, pingTimer>>

\* total is history: frames played, counted up to one more than a game has.
NewGame == [begun |-> FALSE, intro |-> Intro, timer |-> 0, frame |-> 0, total |-> 0]
NoPing == [at |-> "nowhere", answer |-> 0, age |-> 0]
Ping == [at |-> "to_master", answer |-> 0, age |-> 0]

IntroInit == /\ peerGame = [p \in Peers |-> NewGame]
             /\ chain = [c \in Chains |-> NoPing]
             /\ pingTimer = Second

Over(time) == time <= 0
Counting(p) == peerGame[p].begun /\ ~Over(peerGame[p].intro)
Minimum(a, b) == IF a < b THEN a ELSE b

\* The game begins when the main thread, once a frame, has seen what the network thread made
\* of the start event: any peer may be first (splash.cpp:79).
Begin(p) ==
    /\ ~peerGame[p].begun
    /\ peerGame' = [peerGame EXCEPT ![p].begun = TRUE]
    /\ UNCHANGED <<chain, pingTimer>>

-----------------------------------------------------------------------------
(* The main thread. *)

\* Mutant: the countdown stops one frame early and is never over.
CountDown_StopsAtOne(g) == IF g.intro > 1 THEN [g EXCEPT !.intro = @ - 1] ELSE g

CountDown(g) ==
    LET left == g.intro - 1
    IN IF Over(left) THEN [g EXCEPT !.intro = left, !.frame = 0, !.timer = Period]
                     ELSE [g EXCEPT !.intro = left]

Play(g) == [g EXCEPT !.timer = @ - 1, !.frame = @ + 1, !.total = Minimum(@ + 1, Period + 1)]

\* GameManager::Update: the countdown, then a tick if it is over.
Update(g) ==
    LET counted == IF Over(g.intro) THEN g ELSE CountDown(g)
    IN IF ~g.begun THEN g
       ELSE IF Over(counted.intro) /\ ~Over(counted.timer) THEN Play(counted) ELSE counted

\* SplashManager::Update: the follower pings in the lobby and during its countdown.
PingTimerRuns == ~peerGame["follower"].begun \/ Counting("follower")
PingsNow == PingTimerRuns /\ pingTimer = 1

Older(c) == IF chain[c].at = "nowhere" THEN chain[c] ELSE [chain[c] EXCEPT !.age = @ + 1]
Free == {c \in Chains : chain[c].at = "nowhere"}

\* One frame of both programs; nothing is on its way for too long.
IntroFrame ==
    /\ \A c \in Chains : chain[c].age < Latency
    /\ peerGame' = [p \in Peers |-> Update(peerGame[p])]
    /\ pingTimer' = IF PingsNow THEN Second
                    ELSE IF PingTimerRuns THEN pingTimer - 1 ELSE pingTimer
    /\ IF PingsNow /\ Free # {}
       THEN LET new == CHOOSE c \in Free : \A d \in Free : c <= d
            IN chain' = [c \in Chains |-> IF c = new THEN Ping ELSE Older(c)]
       ELSE chain' = [c \in Chains |-> Older(c)]

-----------------------------------------------------------------------------
(* The network threads. *)

\* Mutant: the remaining time itself.
GetIntroRemainingTime_Plain ==
    IF peerGame["master"].begun THEN peerGame["master"].intro ELSE 0

\* Not the time but whether there is none left: 1 after the countdown, 0 during it.
GetIntroRemainingTime ==
    IF peerGame["master"].begun /\ Over(peerGame["master"].intro) THEN 1 ELSE 0

\* Mutant: the master sets its countdown as a follower does.
MasterAnswers_SetsItself(c) ==
    /\ chain[c].at = "to_master"
    /\ chain' = [chain EXCEPT ![c] = [at |-> "to_follower", answer |-> GetIntroRemainingTime, age |-> 0]]
    /\ peerGame' = [peerGame EXCEPT !["master"].intro = IF GetIntroRemainingTime = 1 THEN Second ELSE @]
    /\ UNCHANGED pingTimer

MasterAnswers(c) ==
    /\ chain[c].at = "to_master"
    /\ chain' = [chain EXCEPT ![c] = [at |-> "to_follower", answer |-> GetIntroRemainingTime, age |-> 0]]
    /\ UNCHANGED <<peerGame, pingTimer>>

\* Is the countdown over?  If not it is set, one step later.
FollowerHears(c) ==
    /\ chain[c].at = "to_follower"
    /\ \A d \in Chains : chain[d].at # "setting"
    /\ chain' = [chain EXCEPT ![c] = IF chain[c].answer = 1 /\ Counting("follower")
                                     THEN [@ EXCEPT !.at = "setting", !.age = 0] ELSE Ping]
    /\ UNCHANGED <<peerGame, pingTimer>>

\* A second less half of the measured ping; then the next ping.
FollowerSets(c) ==
    /\ chain[c].at = "setting"
    /\ \E half \in 0..Latency :
          peerGame' = [peerGame EXCEPT !["follower"].intro = Second - half]
    /\ chain' = [chain EXCEPT ![c] = Ping]
    /\ UNCHANGED pingTimer

Lose(c) ==
    /\ chain[c].at \in {"to_master", "to_follower"}
    /\ chain' = [chain EXCEPT ![c] = NoPing]
    /\ UNCHANGED <<peerGame, pingTimer>>

Deliver(c) == MasterAnswers(c) \/ FollowerHears(c) \/ FollowerSets(c)

IntroNext == \/ IntroFrame
             \/ \E p \in Peers : Begin(p)
             \/ \E c \in Chains : Deliver(c) \/ Lose(c)

IntroSpec == IntroInit /\ [][IntroNext]_introVars

-----------------------------------------------------------------------------
IntroTypeOK ==
    /\ \A p \in Peers : /\ peerGame[p].intro \in Minimum(0, Second - Latency)..(Intro + Second)
                        /\ peerGame[p].timer \in 0..Period /\ peerGame[p].frame \in 0..Period
    /\ \A c \in Chains : chain[c].age \in 0..Latency /\ chain[c].answer \in {0, 1}
    /\ pingTimer \in 1..Second

\* An answer that sets a countdown was given after the master had started: pings never
\* let a follower start ahead of it (game_manager.cpp:433).
AnswersAfterStart == \A c \in Chains : chain[c].answer = 1 => Over(peerGame["master"].intro)

\* The master plays the two minutes once, whatever the followers ask it.
MasterPlaysOnce == peerGame["master"].total <= Period /\ peerGame["master"].frame = peerGame["master"].total

\* What a master answers starts nobody early and does not touch its own game.
IntroSound == IntroTypeOK /\ AnswersAfterStart /\ MasterPlaysOnce

\* A ping of two seconds sets the countdown to nothing: the branch of Update that
\* starts the clock at the end of the countdown is never taken.
Skipped == peerGame["follower"].begun /\ Over(peerGame["follower"].intro) /\ peerGame["follower"].total = 0

\* A follower whose game has begun plays, but for two cases: answers that keep setting its countdown for ever,
\* and one that skips the end of it (UpdateIntroTime, game_manager.cpp:453).
FollowerStarts == \/ peerGame["follower"].begun ~> (peerGame["follower"].total > 0 \/ Skipped)
                  \/ []<>(\E c \in Chains : chain[c].at = "setting")

\* "two minutes default game" (game_manager.h:19): no peer plays longer.  The code does not
\* keep it: an answer may set the countdown again after the first tick.
TwoMinutes == \A p \in Peers : peerGame[p].total <= Period
=============================================================================
