--------------------------- MODULE RollbackProtocol ---------------------------
(***************************************************************************)
(* The peers of one online game: the GameManager of every connected        *)
(* player, its RollbackManager, and the packets between them.              *)
(*                                                                         *)
(* Every peer ticks its own game at 60 Hz without waiting for the others.  *)
(* A tick stores the local input, runs RollbackUpdate (import the input    *)
(* packets, import the confirm packets, let the master confirm frames,     *)
(* roll back when a prediction was wrong), ticks the displayed game and    *)
(* sends the unconfirmed local inputs.                                     *)
(*                                                                         *)
(* Input packets travel unreliably: inputNet holds every packet ever sent  *)
(* and a peer may import any of them at any time, any number of times, in  *)
(* any order, or never.  Confirm packets travel reliably and in order, one *)
(* queue per receiver, the receiver's mailbox included.                    *)
(***************************************************************************)
EXTENDS RollbackManager

CONSTANTS
  Master,      \* the master client of the room
  Diverging,   \* the peers whose machine may compute a tick differently
  GameFrames,  \* ticks until gameTimer_ is over
  CatchUp      \* bound: ticks the while loop of Update may still run after

ASSUME MasterAssumption == Master \in Connected
ASSUME DivergingAssumption == Diverging \subseteq Connected
ASSUME LengthAssumption == GameFrames \in Nat \ {0} /\ CatchUp \in Nat

VARIABLES
  pc,            \* where the main thread of each peer stands
  inTick,        \* RollbackUpdate was called by Tick (else by Update)
  currentFrame,  \* currentFrame_
  isGameOver,    \* isGameOver_
  hasDesync,     \* hasDesync_
  endScreen,     \* gameRenderer_.IsGameOver(): the scores are shown
  rollback,      \* rollbackManager_
  gameSim,       \* gameSystems_: the game on display
  inputNet,      \* the input packets sent so far
  confirmNet,    \* per receiver: confirm packets not imported yet
  pressed,       \* history: the inputs each player really pressed
  truncated      \* history: a packet has left out an unconfirmed input

gameVars == <<pc, inTick, currentFrame, isGameOver, hasDesync, endScreen>>
netVars  == <<inputNet, confirmNet>>
vars     == <<gameVars, rollback, gameSim, netVars, pressed, truncated>>

\* Control points of the main thread.  "play": in front of the tick loop of
\* Update; "import", "confirm", "validate": in RollbackUpdate; "abort": it
\* returned early; "over": Update only runs its game over branch; "done":
\* Update returns at once; "gap": SetInput met a gap, nothing is known after.
PC == {"play", "import", "confirm", "validate", "abort", "over", "done", "gap"}

ConfirmPacket ==
  [frame : FrameOrNone, checksum : Seq(GameTick), input : Row]

\* What a receiver makes of a DesyncPacket sent under the event code of a
\* confirm packet: a default constructed ConfirmFramePacket.
DefaultConfirm ==
  [frame |-> -1, checksum |-> << >>, input |-> NeutralRow]

Init ==
  /\ pc = [n \in Connected |-> "play"]
  /\ inTick = [n \in Connected |-> FALSE]
  /\ currentFrame = [n \in Connected |-> 0]
  /\ isGameOver = [n \in Connected |-> FALSE]
  /\ hasDesync = [n \in Connected |-> FALSE]
  /\ endScreen = [n \in Connected |-> FALSE]
  /\ rollback = [n \in Connected |-> InitManager]
  /\ gameSim = [n \in Connected |-> << >>]
  /\ inputNet = {}
  /\ confirmNet = [n \in Connected |-> << >>]
  /\ pressed = [n \in Connected |-> << >>]
  /\ truncated = FALSE

\* Sending to every other peer (the default receivers of opRaiseEvent), and
\* to all of them, the sender included.
SentToOthers(n, pkt) ==
  [d \in Connected |->
     IF d = n THEN confirmNet[d] ELSE Append(confirmNet[d], pkt)]
SentToAll(pkt) == [d \in Connected |-> Append(confirmNet[d], pkt)]

ExitGame(n) ==
  /\ isGameOver' = [isGameOver EXCEPT ![n] = TRUE]
  /\ hasDesync'  = [hasDesync EXCEPT ![n] = TRUE]

\* How a tick of the confirmed game may come out on the machine of peer n.
Exactness(n) == IF n \in Diverging THEN BOOLEAN ELSE {TRUE}

-----------------------------------------------------------------------------
(* Tick up to RollbackUpdate: advance the game timer, store the local input *)

BeginTick(n, input) ==
  /\ pc[n] = "play"
  /\ currentFrame[n] < GameFrames + CatchUp
  /\ isGameOver' =
       [isGameOver EXCEPT ![n] = @ \/ currentFrame[n] + 1 >= GameFrames]
  /\ pressed' = [pressed EXCEPT ![n] = Append(@, input)]
  /\ rollback' = [rollback EXCEPT ![n] = SetInput(@, n, input, currentFrame[n])]
  /\ pc' = [pc EXCEPT ![n] = "import"]
  /\ inTick' = [inTick EXCEPT ![n] = TRUE]
  /\ UNCHANGED <<currentFrame, hasDesync, endScreen, gameSim, netVars, truncated>>

-----------------------------------------------------------------------------
(* RollbackUpdate *)

\* One iteration of the loop over GetInputPackets().
ImportInput(n, pkt) ==
  /\ pc[n] = "import"
  /\ pkt.player # n
  /\ IF IsGapPacket(rollback[n], pkt)
     THEN pc' = [pc EXCEPT ![n] = "gap"] /\ UNCHANGED rollback
     ELSE rollback' = [rollback EXCEPT ![n] = SetInputs(@, pkt)] /\ UNCHANGED pc
  /\ UNCHANGED <<inTick, currentFrame, isGameOver, hasDesync, endScreen,
                 gameSim, netVars, pressed, truncated>>

NextConfirm(n) == Head(confirmNet[n])
HasConfirm(n)  == pc[n] \in {"import", "confirm"} /\ confirmNet[n] # << >>
InOrder_FromZero(n) ==     \* Mutant: no confirmed frame counts as frame 0.
  NextConfirm(n).frame = FirstOpen(rollback[n]) + 1
InOrder(n)     == NextConfirm(n).frame = rollback[n].lastConfirm + 1

\* Mutant: the checksum is not compared.
ImportConfirm_NoChecksum(n, exact) ==
  /\ HasConfirm(n) /\ InOrder(n)
  /\ LET pkt == NextConfirm(n)
     IN  rollback' = [rollback EXCEPT ![n] = ConfirmLastFrame(
           SetConfirmed(@, pkt.input, pkt.frame), exact)]
  /\ confirmNet' = [confirmNet EXCEPT ![n] = Tail(@)]
  /\ pc' = [pc EXCEPT ![n] = "confirm"]
  /\ UNCHANGED <<inTick, currentFrame, isGameOver, hasDesync, endScreen, gameSim,
                 inputNet, pressed, truncated>>

\* One iteration of the loop over GetConfirmPackets(): the frame is the next.
\* (It never meets a gap: see ConfirmedWasPlayed and RowsExist.)
ImportConfirm(n, exact) ==
  /\ HasConfirm(n) /\ InOrder(n)
  /\ LET pkt == NextConfirm(n)
         confirmed == ConfirmLastFrame(
           SetConfirmed(rollback[n], pkt.input, pkt.frame), exact)
     IN  /\ rollback' = [rollback EXCEPT ![n] = confirmed]
         /\ IF confirmed.sim = pkt.checksum
            THEN /\ confirmNet' = [confirmNet EXCEPT ![n] = Tail(@)]
                 /\ UNCHANGED <<isGameOver, hasDesync>>
            ELSE /\ confirmNet' =
                      [SentToAll(DefaultConfirm) EXCEPT ![n] = Tail(@)]
                 /\ ExitGame(n)
  /\ pc' = [pc EXCEPT ![n] = "confirm"]
  /\ UNCHANGED <<inTick, currentFrame, endScreen, gameSim, inputNet, pressed,
                 truncated>>

\* The same with the wrong frame: leave the game, tell everybody, return.
\* The packets taken from the mailbox behind it are dropped.
RefuseConfirm(n) ==
  /\ HasConfirm(n) /\ ~InOrder(n)
  /\ ExitGame(n)
  /\ \E dropped \in 1 .. Len(confirmNet[n]) :
       confirmNet' = [SentToAll(DefaultConfirm) EXCEPT
                        ![n] = SubSeq(@, dropped + 1, Len(@))]
  /\ pc' = [pc EXCEPT ![n] = "abort"]
  /\ UNCHANGED <<inTick, currentFrame, endScreen, rollback, gameSim, inputNet,
                 pressed, truncated>>

\* The master's loop condition: a frame after the last confirmed one has been
\* received from everybody.
CanValidate(n) ==
  n = Master /\ AllReceivedAfter(rollback[n], FirstOpen(rollback[n]))

\* One iteration of the master's loop: confirm a frame and publish it.
ValidateFrame(n, exact) ==
  /\ pc[n] \in {"import", "confirm", "validate"}
  /\ CanValidate(n)
  /\ LET confirmed == ConfirmLastFrame(rollback[n], exact)
         pkt == [frame    |-> confirmed.lastConfirm,
                 checksum |-> confirmed.sim,
                 input    |-> RowAt(confirmed, confirmed.lastConfirm)]
     IN  /\ rollback' = [rollback EXCEPT ![n] = confirmed]
         /\ confirmNet' = SentToOthers(n, pkt)
  /\ pc' = [pc EXCEPT ![n] = "validate"]
  /\ UNCHANGED <<inTick, currentFrame, isGameOver, hasDesync, endScreen,
                 gameSim, inputNet, pressed, truncated>>

\* RollbackUpdate is at its end: it returned early or has nothing to confirm.
AtRollback(n) ==
  \/ pc[n] = "abort"
  \/ pc[n] \in {"import", "confirm", "validate"} /\ ~CanValidate(n)

\* A rollback is due, unless RollbackUpdate returned before it.
RollsBack(n) == pc[n] # "abort" /\ rollback[n].isDirty
Rolled(n) ==
  IF RollsBack(n) THEN Replay(rollback[n], currentFrame[n]) ELSE gameSim[n]
Cleaned(n) ==
  IF RollsBack(n) THEN [rollback[n] EXCEPT !.isDirty = FALSE] ELSE rollback[n]

-----------------------------------------------------------------------------
(* Tick after RollbackUpdate: tick the displayed game, send the inputs      *)

\* The "WTF!" comparison: the last input to send is the one just pressed.
SendsLocalInput(n) ==
  LET sent == SentInputs(rollback[n], n, currentFrame[n])
  IN  sent[Len(sent)] = pressed[n][Len(pressed[n])]

EndTick(n) ==
  /\ AtRollback(n) /\ inTick[n]
  /\ gameSim' = [gameSim EXCEPT
       ![n] = Append(Rolled(n), TickOf(rollback[n], currentFrame[n], TRUE))]
  /\ rollback' = [rollback EXCEPT ![n] = Cleaned(n)]
  /\ IF SendsLocalInput(n) THEN UNCHANGED <<isGameOver, hasDesync>>
                           ELSE ExitGame(n)
  /\ inputNet' = inputNet \cup
       {[player |-> n, frame |-> currentFrame[n],
         inputs |-> SentInputs(rollback[n], n, currentFrame[n])]}
  /\ truncated' = (truncated \/ IsTruncated(rollback[n], currentFrame[n]))
  /\ currentFrame' = [currentFrame EXCEPT ![n] = @ + 1]
  /\ pc' = [pc EXCEPT ![n] = "play"]
  /\ inTick' = [inTick EXCEPT ![n] = FALSE]
  /\ UNCHANGED <<endScreen, confirmNet, pressed>>

-----------------------------------------------------------------------------
(* The game over branch of Update *)

\* After it Update never does anything again once the peer has desynced.
AfterGameOver(n) == IF hasDesync[n] THEN "done" ELSE "over"

\* The branch that keeps confirming frames.
GameOverRollback(n) ==
  /\ pc[n] \in {"play", "over"} /\ isGameOver[n]
  /\ rollback[n].lastConfirm = currentFrame[n] - 1
  /\ pc' = [pc EXCEPT ![n] = "import"]
  /\ UNCHANGED <<inTick, currentFrame, isGameOver, hasDesync, endScreen,
                 rollback, gameSim, netVars, pressed, truncated>>

EndGameOverRollback(n) ==
  /\ AtRollback(n) /\ ~inTick[n]
  /\ gameSim' = [gameSim EXCEPT ![n] = Rolled(n)]
  /\ rollback' = [rollback EXCEPT ![n] = Cleaned(n)]
  /\ pc' = [pc EXCEPT ![n] = AfterGameOver(n)]
  /\ UNCHANGED <<inTick, currentFrame, isGameOver, hasDesync, endScreen,
                 netVars, pressed, truncated>>

\* The branch that shows the end screen, with the scores of the game on
\* display.
ShowEndScreen(n) ==
  /\ pc[n] \in {"play", "over"} /\ isGameOver[n]
  /\ rollback[n].lastConfirm # currentFrame[n] - 1
  /\ endScreen' = [endScreen EXCEPT ![n] = TRUE]
  /\ pc' = [pc EXCEPT ![n] = AfterGameOver(n)]
  /\ UNCHANGED <<inTick, currentFrame, isGameOver, hasDesync, rollback,
                 gameSim, netVars, pressed, truncated>>

-----------------------------------------------------------------------------
Step(n) ==
  \/ \E input \in Input : BeginTick(n, input)
  \/ \E pkt \in inputNet : ImportInput(n, pkt)
  \/ \E exact \in Exactness(n) : ImportConfirm(n, exact)
  \/ RefuseConfirm(n)
  \/ \E exact \in Exactness(n) : ValidateFrame(n, exact)
  \/ EndTick(n)
  \/ GameOverRollback(n)
  \/ EndGameOverRollback(n)
  \/ ShowEndScreen(n)

Next == \E n \in Connected : Step(n)

Spec == Init /\ [][Next]_vars

-----------------------------------------------------------------------------
\* Every variable keeps its type: frames are numbers or -1, rows have an
\* input of every slot, packets hold at least one input (packet.h,
\* rollback_manager.h, game_manager.h).
TypeOK ==
  /\ pc \in [Connected -> PC]
  /\ inTick \in [Connected -> BOOLEAN]
  /\ currentFrame \in [Connected -> Nat]
  /\ isGameOver \in [Connected -> BOOLEAN]
  /\ hasDesync \in [Connected -> BOOLEAN]
  /\ endScreen \in [Connected -> BOOLEAN]
  /\ rollback \in [Connected -> Manager]
  /\ gameSim \in [Connected -> Seq(GameTick)]
  /\ inputNet \subseteq InputPacket
  /\ confirmNet \in [Connected -> Seq(ConfirmPacket)]
  /\ pressed \in [Connected -> Seq(Input)]
  /\ truncated \in BOOLEAN
=============================================================================
