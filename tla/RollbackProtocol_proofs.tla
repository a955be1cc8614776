----------------------- MODULE RollbackProtocol_proofs -----------------------
(***************************************************************************)
(* Safety of the rollback protocol for any number of peers, any length of  *)
(* the game, any size of a packet and any machine that diverges.           *)
(***************************************************************************)
EXTENDS RollbackSafety, RollbackManager_proofs

\* The inductive invariant behind TypeOK and RowsExist.  Neither is inductive
\* alone: an index must be in range for the row read there to be a row, and
\* the rows must be rows for the manager that is written back to be one.
IndexInv == TypeOK /\ RowsExist

-----------------------------------------------------------------------------
(* What IndexInv says of one peer, and how to re-establish it for one peer. *)

LEMMA PeerFacts ==
  ASSUME IndexInv, NEW n \in Connected
  PROVE  /\ SoundManager(rollback[n])
         /\ rollback[n] \in Manager
         /\ Len(rollback[n].inputs) \in Nat
         /\ currentFrame[n] \in Nat
         /\ currentFrame[n] <= Len(rollback[n].inputs)
         /\ inTick[n] => currentFrame[n] < Len(rollback[n].inputs)
<1>1. rollback[n] \in Manager /\ currentFrame[n] \in Nat
  BY DEF IndexInv, TypeOK
<1>2. Len(rollback[n].inputs) \in Nat
  BY <1>1 DEF Manager
<1> QED
  BY <1>1, <1>2 DEF IndexInv, RowsExist, SoundManager, RowsReach

LEMMA ReplaceManager ==
  ASSUME IndexInv, NEW n \in Connected, NEW u, SoundManager(u),
         rollback' = [rollback EXCEPT ![n] = u],
         \A k \in Connected \ {n} :
           currentFrame'[k] = currentFrame[k] /\ inTick'[k] = inTick[k],
         currentFrame'[n] <= Len(u.inputs),
         inTick'[n] => currentFrame'[n] < Len(u.inputs)
  PROVE  rollback' \in [Connected -> Manager] /\ RowsExist'
<1>1. rollback \in [Connected -> Manager] /\ u \in Manager
  BY DEF IndexInv, TypeOK, SoundManager
<1>2. rollback' \in [Connected -> Manager]
  BY <1>1
<1>3. rollback'[n] = u /\ \A k \in Connected \ {n} : rollback'[k] = rollback[k]
  BY <1>1
<1>4. ASSUME NEW k \in Connected
      PROVE  /\ RowsReach(rollback'[k])
             /\ currentFrame'[k] <= Len(rollback'[k].inputs)
             /\ inTick'[k] => currentFrame'[k] < Len(rollback'[k].inputs)
  BY <1>3, PeerFacts DEF SoundManager
<1> QED
  BY <1>2, <1>4 DEF RowsExist, RowsReach

\* Sending keeps the queues well typed.
LEMMA SentType ==
  ASSUME TypeOK, NEW n \in Connected, NEW pkt \in ConfirmPacket
  PROVE  /\ SentToOthers(n, pkt) \in [Connected -> Seq(ConfirmPacket)]
         /\ SentToAll(pkt) \in [Connected -> Seq(ConfirmPacket)]
<1>1. \A d \in Connected : Append(confirmNet[d], pkt) \in Seq(ConfirmPacket)
  BY AppendProperties DEF TypeOK
<1> QED
  BY <1>1 DEF SentToOthers, SentToAll, TypeOK

LEMMA DefaultConfirmType == DefaultConfirm \in ConfirmPacket
BY NeutralRowType, EmptySeq DEF DefaultConfirm, ConfirmPacket, FrameOrNone

-----------------------------------------------------------------------------
(* One lemma per action. *)

LEMMA BeginTickIndex ==
  ASSUME IndexInv, NEW n \in Connected, NEW input \in Input, BeginTick(n, input)
  PROVE  IndexInv'
<1> DEFINE u == SetInput(rollback[n], n, input, currentFrame[n])
<1>1. SoundManager(u) /\ currentFrame[n] < Len(u.inputs)
  BY PeerFacts, SetInputSound DEF Larger
<1> HIDE DEF u
<1>2. rollback' = [rollback EXCEPT ![n] = u] /\ currentFrame' = currentFrame
  BY DEF BeginTick, u
<1>3. \A k \in Connected \ {n} :
        currentFrame'[k] = currentFrame[k] /\ inTick'[k] = inTick[k]
  BY DEF BeginTick, IndexInv, TypeOK
<1>4. rollback' \in [Connected -> Manager] /\ RowsExist'
  <2>1. Len(u.inputs) \in Nat /\ currentFrame[n] \in Nat
    BY <1>1, PeerFacts DEF SoundManager, Manager
  <2>2. currentFrame'[n] <= Len(u.inputs) /\ currentFrame'[n] < Len(u.inputs)
    BY <1>1, <1>2, <2>1
  <2> QED
    BY <1>1, <1>2, <1>3, <2>2, ReplaceManager
<1>5. pressed' \in [Connected -> Seq(Input)]
  BY AppendProperties DEF BeginTick, IndexInv, TypeOK
<1>6. isGameOver' \in [Connected -> BOOLEAN]
  BY DEF BeginTick, IndexInv, TypeOK
<1> QED
  BY <1>4, <1>5, <1>6 DEF BeginTick, IndexInv, TypeOK, PC, netVars

LEMMA ImportInputIndex ==
  ASSUME IndexInv, NEW n \in Connected, NEW pkt \in inputNet, ImportInput(n, pkt)
  PROVE  IndexInv'
<1>1. pkt \in InputPacket
  BY DEF IndexInv, TypeOK
<1>2. CASE IsGapPacket(rollback[n], pkt)
  <2>1. /\ pc' = [pc EXCEPT ![n] = "gap"]
        /\ UNCHANGED <<inTick, currentFrame, isGameOver, hasDesync, endScreen,
                       rollback, gameSim, netVars, pressed, truncated>>
    BY <1>2 DEF ImportInput
  <2> QED
    BY <2>1 DEF IndexInv, TypeOK, RowsExist, PC, netVars
<1>3. CASE ~IsGapPacket(rollback[n], pkt)
  <2> DEFINE u == SetInputs(rollback[n], pkt)
  <2>1. SoundManager(u) /\ Len(u.inputs) >= Len(rollback[n].inputs)
    BY <1>1, PeerFacts, SetInputsSound
  <2>2. Len(u.inputs) \in Nat
    BY <2>1 DEF SoundManager, Manager
  <2>3. /\ rollback' = [rollback EXCEPT ![n] = u]
        /\ UNCHANGED <<pc, inTick, currentFrame, isGameOver, hasDesync,
                       endScreen, gameSim, netVars, pressed, truncated>>
    BY <1>3 DEF ImportInput
  <2> HIDE DEF u
  <2>4. rollback' \in [Connected -> Manager] /\ RowsExist'
    <3>1. /\ currentFrame'[n] <= Len(u.inputs)
          /\ inTick'[n] => currentFrame'[n] < Len(u.inputs)
      BY <2>1, <2>2, <2>3, PeerFacts
    <3>2. \A k \in Connected \ {n} :
            currentFrame'[k] = currentFrame[k] /\ inTick'[k] = inTick[k]
      BY <2>3
    <3> QED
      BY <2>1, <2>3, <3>1, <3>2, ReplaceManager
  <2> QED
    BY <2>3, <2>4 DEF IndexInv, TypeOK, netVars
<1> QED
  BY <1>2, <1>3

LEMMA ImportConfirmIndex ==
  ASSUME IndexInv, NEW n \in Connected, NEW exact \in Exactness(n),
         ImportConfirm(n, exact)
  PROVE  IndexInv'
<1> DEFINE m    == rollback[n]
           pkt  == NextConfirm(n)
           u    == SetConfirmed(m, pkt.input, pkt.frame)
           v    == ConfirmLastFrame(u, exact)
<1>1. exact \in BOOLEAN
  BY DEF Exactness
<1>2. /\ confirmNet[n] \in Seq(ConfirmPacket) /\ confirmNet[n] # << >>
      /\ pkt.frame = m.lastConfirm + 1
  BY DEF ImportConfirm, HasConfirm, InOrder, IndexInv, TypeOK
<1>3. pkt \in ConfirmPacket
  BY <1>2, HeadTailProperties DEF NextConfirm
<1>4. m.lastConfirm \in FrameOrNone /\ Len(m.inputs) \in Nat /\ SoundManager(m)
  BY PeerFacts DEF Manager
<1>5. pkt.frame \in Nat /\ pkt.input \in Row
  BY <1>2, <1>3, <1>4 DEF ConfirmPacket, FrameOrNone
<1>6. /\ SoundManager(u) /\ u.lastConfirm = m.lastConfirm
      /\ Len(u.inputs) = Larger(Len(m.inputs), pkt.frame + 1)
  BY <1>4, <1>5, SetConfirmedSound
<1>7. /\ FirstOpen(u) < Len(u.inputs) /\ u.lastConfirm + 1 < Len(u.inputs)
      /\ Len(u.inputs) \in Nat /\ Len(u.inputs) >= Len(m.inputs)
  BY <1>2, <1>4, <1>5, <1>6 DEF FirstOpen, Larger, FrameOrNone
<1>8. SoundManager(v) /\ v.inputs = u.inputs
  BY <1>1, <1>6, <1>7, ConfirmSound
<1>9. /\ rollback' = [rollback EXCEPT ![n] = v]
      /\ UNCHANGED <<inTick, currentFrame, endScreen, gameSim, inputNet,
                     pressed, truncated>>
      /\ pc' = [pc EXCEPT ![n] = "confirm"]
  BY DEF ImportConfirm
<1>10. /\ isGameOver' \in [Connected -> BOOLEAN]
       /\ hasDesync' \in [Connected -> BOOLEAN]
  BY DEF ImportConfirm, ExitGame, IndexInv, TypeOK
<1>11. confirmNet' \in [Connected -> Seq(ConfirmPacket)]
  <2>1. Tail(confirmNet[n]) \in Seq(ConfirmPacket)
    BY <1>2, HeadTailProperties
  <2>2. SentToAll(DefaultConfirm) \in [Connected -> Seq(ConfirmPacket)]
    BY SentType, DefaultConfirmType DEF IndexInv
  <2>3. Tail(SentToAll(DefaultConfirm)[n]) \in Seq(ConfirmPacket)
    <3>1. SentToAll(DefaultConfirm)[n] = Append(confirmNet[n], DefaultConfirm)
      BY DEF SentToAll
    <3>2. SentToAll(DefaultConfirm)[n] # << >>
      BY <1>2, <3>1, DefaultConfirmType, AppendProperties
    <3> QED
      BY <2>2, <3>2, HeadTailProperties
  <2>4. confirmNet \in [Connected -> Seq(ConfirmPacket)]
    BY DEF IndexInv, TypeOK
  <2> QED
    BY <2>1, <2>2, <2>3, <2>4 DEF ImportConfirm
<1> HIDE DEF m, pkt, u, v
<1>12. rollback' \in [Connected -> Manager] /\ RowsExist'
  <2>1. Len(rollback[n].inputs) <= Len(v.inputs)
    BY <1>7, <1>8 DEF m
  <2>2. Len(v.inputs) \in Nat
    BY <1>7, <1>8
  <2>3. /\ currentFrame'[n] <= Len(v.inputs)
        /\ inTick'[n] => currentFrame'[n] < Len(v.inputs)
    BY <1>9, <2>1, <2>2, PeerFacts
  <2>4. \A k \in Connected \ {n} :
          currentFrame'[k] = currentFrame[k] /\ inTick'[k] = inTick[k]
    BY <1>9
  <2> QED
    BY <1>8, <1>9, <2>3, <2>4, ReplaceManager
<1> QED
  BY <1>9, <1>10, <1>11, <1>12 DEF IndexInv, TypeOK, PC

LEMMA RefuseConfirmIndex ==
  ASSUME IndexInv, NEW n \in Connected, RefuseConfirm(n)
  PROVE  IndexInv'
<1>1. SentToAll(DefaultConfirm) \in [Connected -> Seq(ConfirmPacket)]
  BY SentType, DefaultConfirmType DEF IndexInv
<1>2. confirmNet' \in [Connected -> Seq(ConfirmPacket)]
  <2>1. PICK dropped \in 1 .. Len(confirmNet[n]) :
          confirmNet' = [SentToAll(DefaultConfirm) EXCEPT
                           ![n] = SubSeq(@, dropped + 1, Len(@))]
    BY DEF RefuseConfirm
  <2>2. confirmNet[n] \in Seq(ConfirmPacket)
    BY DEF IndexInv, TypeOK
  <2> DEFINE q == SentToAll(DefaultConfirm)[n]
  <2>3. q \in Seq(ConfirmPacket)
    BY <1>1
  <2> HIDE DEF q
  <2>4. SubSeq(q, dropped + 1, Len(q)) \in Seq(ConfirmPacket)
    BY <2>2, <2>3, SubSeqProperties
  <2> QED
    BY <1>1, <2>1, <2>4 DEF q
<1>3. /\ isGameOver' \in [Connected -> BOOLEAN]
      /\ hasDesync' \in [Connected -> BOOLEAN]
  BY DEF RefuseConfirm, ExitGame, IndexInv, TypeOK
<1> QED
  BY <1>2, <1>3 DEF RefuseConfirm, IndexInv, TypeOK, RowsExist, PC

LEMMA ValidateFrameIndex ==
  ASSUME IndexInv, NEW n \in Connected, NEW exact \in Exactness(n),
         ValidateFrame(n, exact)
  PROVE  IndexInv'
<1> DEFINE m   == rollback[n]
           v   == ConfirmLastFrame(m, exact)
           pkt == [frame    |-> v.lastConfirm,
                   checksum |-> v.sim,
                   input    |-> RowAt(v, v.lastConfirm)]
<1>1. exact \in BOOLEAN
  BY DEF Exactness
<1>2. SoundManager(m) /\ m \in Manager /\ Len(m.inputs) \in Nat
  BY PeerFacts
<1>3. PICK p \in Connected : m.lastReceived[p] > FirstOpen(m)
  BY ConnectedAssumption DEF ValidateFrame, CanValidate, AllReceivedAfter
<1>4. FirstOpen(m) < Len(m.inputs) /\ m.lastConfirm + 1 < Len(m.inputs)
  BY <1>2, <1>3, ConnectedAssumption
     DEF SoundManager, RowsReach, FirstOpen, Larger, Manager, FrameOrNone
<1>5. /\ SoundManager(v) /\ v \in Manager /\ v.inputs = m.inputs
      /\ v.lastConfirm = m.lastConfirm + 1
  BY <1>1, <1>2, <1>4, ConfirmSound DEF SoundManager
<1>6. pkt \in ConfirmPacket
  <2>1. v.lastConfirm \in Nat /\ v.lastConfirm < Len(v.inputs)
    BY <1>2, <1>4, <1>5 DEF Manager, FrameOrNone
  <2>2. v.inputs \in Seq(Row) /\ v.sim \in Seq(GameTick)
    BY <1>5 DEF Manager
  <2> HIDE DEF v
  <2>3. RowAt(v, v.lastConfirm) \in Row
    BY <2>1, <2>2, ElementOfSeq DEF RowAt
  <2> QED
    BY <2>1, <2>2, <2>3 DEF ConfirmPacket, FrameOrNone
<1>7. /\ rollback' = [rollback EXCEPT ![n] = v]
      /\ confirmNet' = SentToOthers(n, pkt)
      /\ pc' = [pc EXCEPT ![n] = "validate"]
      /\ UNCHANGED <<inTick, currentFrame, isGameOver, hasDesync, endScreen,
                     gameSim, inputNet, pressed, truncated>>
  BY DEF ValidateFrame
<1> HIDE DEF v, pkt
<1>8. confirmNet' \in [Connected -> Seq(ConfirmPacket)]
  BY <1>6, <1>7, SentType DEF IndexInv
<1>9. rollback' \in [Connected -> Manager] /\ RowsExist'
  BY <1>5, <1>7, PeerFacts, ReplaceManager
<1> QED
  BY <1>7, <1>8, <1>9 DEF IndexInv, TypeOK, PC

\* What the two actions that may roll back write.
LEMMA RollbackFacts ==
  ASSUME IndexInv, NEW n \in Connected
  PROVE  /\ Rolled(n) \in Seq(GameTick)
         /\ SoundManager(Cleaned(n))
         /\ Cleaned(n).inputs = rollback[n].inputs
<1>1. Rolled(n) \in Seq(GameTick)
  BY PeerFacts, ReplayType DEF Rolled, IndexInv, TypeOK
<1>2. Cleaned(n) \in Manager
  BY PeerFacts DEF Cleaned, Manager
<1>3. /\ Cleaned(n).inputs = rollback[n].inputs
      /\ Cleaned(n).lastReceived = rollback[n].lastReceived
      /\ Cleaned(n).lastConfirm = rollback[n].lastConfirm
  BY PeerFacts DEF Cleaned, Manager
<1> QED
  BY <1>1, <1>2, <1>3, PeerFacts DEF SoundManager, RowsReach

LEMMA EndTickIndex ==
  ASSUME IndexInv, NEW n \in Connected, EndTick(n)
  PROVE  IndexInv'
<1> DEFINE m    == rollback[n]
           c    == currentFrame[n]
           u    == Cleaned(n)
           tick == TickOf(m, c, TRUE)
           pkt  == [player |-> n, frame |-> c, inputs |-> SentInputs(m, n, c)]
<1>1. /\ SoundManager(m) /\ Len(m.inputs) \in Nat
      /\ c \in Nat /\ c < Len(m.inputs)
  BY PeerFacts DEF EndTick
<1>2. Rolled(n) \in Seq(GameTick) /\ SoundManager(u) /\ u.inputs = m.inputs
  BY RollbackFacts
<1>3. tick \in GameTick
  BY <1>1, TickType
<1>4. pkt \in InputPacket
  BY <1>1, SentInputsType DEF InputPacket
<1>5. /\ gameSim' = [gameSim EXCEPT ![n] = Append(Rolled(n), tick)]
      /\ rollback' = [rollback EXCEPT ![n] = u]
      /\ inputNet' = inputNet \cup {pkt}
      /\ currentFrame' = [currentFrame EXCEPT ![n] = c + 1]
      /\ inTick' = [inTick EXCEPT ![n] = FALSE]
      /\ pc' = [pc EXCEPT ![n] = "play"]
      /\ UNCHANGED <<endScreen, confirmNet, pressed>>
  BY DEF EndTick
<1>6. /\ isGameOver' \in [Connected -> BOOLEAN]
      /\ hasDesync' \in [Connected -> BOOLEAN]
  BY DEF EndTick, ExitGame, IndexInv, TypeOK
<1>7. truncated' \in BOOLEAN
  BY DEF EndTick, IndexInv, TypeOK, IsTruncated
<1> HIDE DEF u, tick, pkt
<1>8. Append(Rolled(n), tick) \in Seq(GameTick)
  BY <1>2, <1>3, AppendProperties
<1>9. gameSim' \in [Connected -> Seq(GameTick)]
  BY <1>5, <1>8 DEF IndexInv, TypeOK
<1>10. currentFrame' \in [Connected -> Nat] /\ inTick' \in [Connected -> BOOLEAN]
  BY <1>1, <1>5 DEF IndexInv, TypeOK
<1>11. /\ currentFrame'[n] = c + 1 /\ ~inTick'[n]
       /\ \A k \in Connected \ {n} :
            currentFrame'[k] = currentFrame[k] /\ inTick'[k] = inTick[k]
  BY <1>5 DEF IndexInv, TypeOK
<1>12. rollback' \in [Connected -> Manager] /\ RowsExist'
  <2>1. currentFrame'[n] <= Len(u.inputs)
    BY <1>1, <1>2, <1>11
  <2> QED
    BY <1>2, <1>5, <1>11, <2>1, ReplaceManager
<1> QED
  BY <1>4, <1>5, <1>6, <1>7, <1>9, <1>10, <1>12 DEF IndexInv, TypeOK, PC

LEMMA EndGameOverRollbackIndex ==
  ASSUME IndexInv, NEW n \in Connected, EndGameOverRollback(n)
  PROVE  IndexInv'
<1> DEFINE u == Cleaned(n)
<1>1. /\ Rolled(n) \in Seq(GameTick) /\ SoundManager(u)
      /\ u.inputs = rollback[n].inputs
  BY RollbackFacts
<1>2. /\ gameSim' = [gameSim EXCEPT ![n] = Rolled(n)]
      /\ rollback' = [rollback EXCEPT ![n] = u]
      /\ pc' = [pc EXCEPT ![n] = AfterGameOver(n)]
      /\ UNCHANGED <<inTick, currentFrame, isGameOver, hasDesync, endScreen,
                     netVars, pressed, truncated>>
  BY DEF EndGameOverRollback
<1> HIDE DEF u
<1>3. gameSim' \in [Connected -> Seq(GameTick)]
  BY <1>1, <1>2 DEF IndexInv, TypeOK
<1>4. rollback' \in [Connected -> Manager] /\ RowsExist'
  BY <1>1, <1>2, PeerFacts, ReplaceManager
<1>5. pc' \in [Connected -> PC]
  BY <1>2 DEF IndexInv, TypeOK, PC, AfterGameOver
<1> QED
  BY <1>2, <1>3, <1>4, <1>5 DEF IndexInv, TypeOK, netVars

LEMMA GameOverIndex ==
  ASSUME IndexInv, NEW n \in Connected, GameOverRollback(n) \/ ShowEndScreen(n)
  PROVE  IndexInv'
<1>1. pc' \in [Connected -> PC]
  BY DEF IndexInv, TypeOK, PC, AfterGameOver, GameOverRollback, ShowEndScreen
<1>2. endScreen' \in [Connected -> BOOLEAN]
  BY DEF IndexInv, TypeOK, GameOverRollback, ShowEndScreen
<1> QED
  BY <1>1, <1>2 DEF IndexInv, TypeOK, RowsExist, netVars,
                    GameOverRollback, ShowEndScreen

-----------------------------------------------------------------------------

LEMMA InitIndex == Init => IndexInv
<1> SUFFICES ASSUME Init PROVE IndexInv
  OBVIOUS
<1>1. InitManager \in Manager
  BY EmptySeq DEF InitManager, Manager, FrameOrNone
<1>2. TypeOK
  BY <1>1, EmptySeq DEF Init, TypeOK, PC
<1>3. RowsExist
  BY EmptySeq DEF Init, RowsExist, InitManager
<1> QED
  BY <1>2, <1>3 DEF IndexInv

LEMMA NextIndex == IndexInv /\ [Next]_vars => IndexInv'
<1> SUFFICES ASSUME IndexInv, [Next]_vars PROVE IndexInv'
  OBVIOUS
<1>1. CASE UNCHANGED vars
  BY <1>1 DEF vars, gameVars, netVars, IndexInv, TypeOK, RowsExist
<1>2. ASSUME NEW n \in Connected, Step(n) PROVE IndexInv'
  BY <1>2, BeginTickIndex, ImportInputIndex, ImportConfirmIndex,
     RefuseConfirmIndex, ValidateFrameIndex, EndTickIndex,
     EndGameOverRollbackIndex, GameOverIndex DEF Step
<1> QED
  BY <1>1, <1>2 DEF Next

LEMMA IndexInvariant == Spec => []IndexInv
BY InitIndex, NextIndex, PTL DEF Spec

\* Every variable keeps its type: no step of any peer, however packets are
\* lost, repeated or reordered, writes a frame, a row or a packet that is none.
THEOREM TypeCorrect == Spec => []TypeOK
BY IndexInvariant, PTL DEF IndexInv

\* Every row that GetInputs and GetInput read by an unchecked index exists.
THEOREM RowsExistAlways == Spec => []RowsExist
BY IndexInvariant, PTL DEF IndexInv

-----------------------------------------------------------------------------
(* Who knows what when: no frame is sent, received or confirmed before it  *)
(* was pressed, no frame of a follower is confirmed before it was sent,    *)
(* and nothing a peer imports in a tick changes the input it has just      *)
(* pressed, whether packets are cut or not.                                *)

\* The frames a player has pressed are the ones it has ticked, and the one of
\* the tick it is in.
PressedInTime(n) ==
  Len(pressed[n]) = currentFrame[n] + (IF inTick[n] THEN 1 ELSE 0)

\* In a tick a peer has received its own input of the current frame.
OwnInputIn(n) ==
  inTick[n] =>
    /\ pc[n] \notin {"play", "over", "done"}
    /\ rollback[n].lastReceived[n] >= currentFrame[n]
    /\ rollback[n].inputs[currentFrame[n] + 1][n] = Last(pressed[n])

\* A frame is received after it was pressed; a frame of a player other than
\* the master is received by others after the tick that played it.
ReceivedInTime(n, p) ==
  /\ rollback[n].lastReceived[p] < Len(pressed[p])
  /\ n # p /\ p # Master => rollback[n].lastReceived[p] < currentFrame[p]

\* The master confirms first, and never ahead of what it has received.
ConfirmedInTime(n) ==
  /\ rollback[n].lastConfirm <= rollback[Master].lastConfirm
  /\ rollback[Master].lastConfirm < Len(pressed[n])
  /\ n # Master => rollback[Master].lastConfirm < currentFrame[n]
  /\ \A i \in DOMAIN confirmNet[n] :
       confirmNet[n][i].frame <= rollback[Master].lastConfirm

SentInTime == \A pkt \in inputNet : pkt.frame < currentFrame[pkt.player]

PeerInv ==
  \A n \in Connected : PressedInTime(n) /\ OwnInputIn(n) /\ ConfirmedInTime(n)

OrderInv ==
  /\ IndexInv
  /\ PeerInv
  /\ \A n, p \in Connected : ReceivedInTime(n, p)
  /\ SentInTime

\* What OrderInv says of one peer, unfolded.
LEMMA OrderFacts ==
  ASSUME OrderInv, NEW n \in Connected
  PROVE  /\ SoundManager(rollback[n]) /\ rollback[n] \in Manager
         /\ rollback[n].lastReceived \in [Player -> FrameOrNone]
         /\ rollback[n].lastConfirm \in FrameOrNone
         /\ Len(rollback[n].inputs) \in Nat
         /\ rollback[n].inputs \in Seq(Row)
         /\ currentFrame[n] \in Nat /\ inTick[n] \in BOOLEAN
         /\ pressed[n] \in Seq(Input) /\ Len(pressed[n]) \in Nat
         /\ confirmNet[n] \in Seq(ConfirmPacket)
         /\ PressedInTime(n) /\ OwnInputIn(n) /\ ConfirmedInTime(n)
         /\ \A p \in Connected : ReceivedInTime(n, p)
         /\ inTick[n] => currentFrame[n] + 1 \in 1 .. Len(rollback[n].inputs)
<1>1. SoundManager(rollback[n]) /\ rollback[n] \in Manager
      /\ Len(rollback[n].inputs) \in Nat /\ currentFrame[n] \in Nat
      /\ (inTick[n] => currentFrame[n] < Len(rollback[n].inputs))
  BY PeerFacts DEF OrderInv
<1>2. /\ inTick[n] \in BOOLEAN
      /\ pressed[n] \in Seq(Input) /\ Len(pressed[n]) \in Nat
      /\ confirmNet[n] \in Seq(ConfirmPacket)
  BY DEF OrderInv, IndexInv, TypeOK
<1>3. /\ PressedInTime(n) /\ OwnInputIn(n) /\ ConfirmedInTime(n)
      /\ \A p \in Connected : ReceivedInTime(n, p)
  BY DEF OrderInv, PeerInv
<1>4. inTick[n] => currentFrame[n] + 1 \in 1 .. Len(rollback[n].inputs)
  BY <1>1
<1>5. /\ rollback[n].lastReceived \in [Player -> FrameOrNone]
      /\ rollback[n].lastConfirm \in FrameOrNone
      /\ rollback[n].inputs \in Seq(Row)
  BY <1>1 DEF Manager
<1> QED
  BY <1>1, <1>2, <1>3, <1>4, <1>5

\* Where nothing but one manager changes, and that one keeps its own input,
\* receives and confirms in time, the invariant is kept.
LEMMA OrderKept ==
  ASSUME OrderInv, IndexInv', NEW n \in Connected,
         UNCHANGED <<inTick, currentFrame, inputNet, confirmNet, pressed>>,
         \A k \in Connected \ {n} : rollback'[k] = rollback[k] /\ pc'[k] = pc[k],
         rollback'[n].lastConfirm = rollback[n].lastConfirm,
         \A p \in Connected :
           rollback'[n].lastReceived[p] = rollback[n].lastReceived[p],
         inTick[n] => /\ pc'[n] \notin {"play", "over", "done"}
                      /\ rollback'[n].inputs[currentFrame[n] + 1][n]
                           = rollback[n].inputs[currentFrame[n] + 1][n]
  PROVE  OrderInv'
<1>1. \A k \in Connected : rollback'[k].lastConfirm = rollback[k].lastConfirm
  OBVIOUS
<1>2. \A k, p \in Connected :
        rollback'[k].lastReceived[p] = rollback[k].lastReceived[p]
  OBVIOUS
<1>3. \A k \in Connected : inTick[k] =>
        /\ rollback[k].inputs[currentFrame[k] + 1][k]
             = rollback'[k].inputs[currentFrame[k] + 1][k]
        /\ pc'[k] \notin {"play", "over", "done"}
  BY DEF OrderInv, PeerInv, OwnInputIn
<1>4. PeerInv'
  BY <1>1, <1>2, <1>3, MasterAssumption
     DEF OrderInv, PeerInv, PressedInTime, OwnInputIn, ConfirmedInTime
<1>5. \A k, p \in Connected : ReceivedInTime(k, p)'
  BY <1>2 DEF OrderInv, ReceivedInTime
<1> QED
  BY <1>4, <1>5 DEF OrderInv, SentInTime
-----------------------------------------------------------------------------
(* Queues of confirm packets. *)

UpTo(q, f) == \A i \in DOMAIN q : q[i].frame <= f

\* The elements of a queue are confirm packets, and have a frame.
LEMMA PacketFrames ==
  ASSUME NEW q \in Seq(ConfirmPacket)
  PROVE  \A i \in DOMAIN q : q[i] \in ConfirmPacket /\ q[i].frame \in Int
<1>1. DOMAIN q = 1 .. Len(q) /\ Len(q) \in Nat
  BY LenProperties
<1>2. \A i \in 1 .. Len(q) : q[i] \in ConfirmPacket
  BY <1>1, ElementOfSeq
<1>3. \A pkt \in ConfirmPacket : pkt.frame \in Int
  BY DEF ConfirmPacket, FrameOrNone
<1> QED
  BY <1>1, <1>2, <1>3

LEMMA UpToAppend ==
  ASSUME NEW q \in Seq(ConfirmPacket), NEW pkt \in ConfirmPacket, NEW f,
         UpTo(q, f), pkt.frame <= f
  PROVE  UpTo(Append(q, pkt), f)
<1>1. /\ DOMAIN Append(q, pkt) = 1 .. Len(q) + 1 /\ Len(q) \in Nat
      /\ Append(q, pkt)[Len(q) + 1] = pkt
      /\ \A i \in 1 .. Len(q) : Append(q, pkt)[i] = q[i]
  BY AppendProperties, LenProperties
<1>2. DOMAIN q = 1 .. Len(q)
  BY LenProperties
<1> QED
  BY <1>1, <1>2 DEF UpTo

LEMMA UpToSubSeq ==
  ASSUME NEW q \in Seq(ConfirmPacket), NEW k \in Nat \ {0}, NEW f, UpTo(q, f)
  PROVE  UpTo(SubSeq(q, k, Len(q)), f)
<1>1. Len(q) \in Nat /\ DOMAIN q = 1 .. Len(q)
  BY LenProperties
<1>2. \A i \in k .. Len(q) : q[i] \in ConfirmPacket
  BY <1>1, ElementOfSeq
<1> DEFINE tail == SubSeq(q, k, Len(q))
<1>3. /\ tail \in Seq(ConfirmPacket)
      /\ \A i \in 1 .. Len(q) - k + 1 : tail[i] = q[k + i - 1]
      /\ Len(tail) = IF k <= Len(q) THEN Len(q) - k + 1 ELSE 0
  BY <1>1, <1>2, SubSeqProperties
<1>4. DOMAIN tail = 1 .. Len(tail)
  BY <1>3, LenProperties
<1> HIDE DEF tail
<1>5. \A i \in 1 .. Len(tail) : k + i - 1 \in DOMAIN q /\ tail[i] = q[k + i - 1]
  BY <1>1, <1>3
<1> QED
  BY <1>4, <1>5 DEF UpTo, tail

LEMMA UpToTail ==
  ASSUME NEW q \in Seq(ConfirmPacket), q # << >>, NEW f, UpTo(q, f)
  PROVE  UpTo(Tail(q), f)
<1>1. Tail(q) = SubSeq(q, 2, Len(q))
  BY TailIsSubSeq
<1>2. UpTo(SubSeq(q, 2, Len(q)), f)
  <2>1. 2 \in Nat \ {0}
    OBVIOUS
  <2> QED BY <2>1, UpToSubSeq
<1> QED
  BY <1>1, <1>2, Zenon

\* A default confirm packet stays behind whatever the master has confirmed.
LEMMA DefaultInTime ==
  ASSUME OrderInv, NEW d \in Connected
  PROVE  /\ SentToAll(DefaultConfirm)[d] \in Seq(ConfirmPacket)
         /\ SentToAll(DefaultConfirm)[d] # << >>
         /\ UpTo(SentToAll(DefaultConfirm)[d], rollback[Master].lastConfirm)
<1>1. SentToAll(DefaultConfirm)[d] = Append(confirmNet[d], DefaultConfirm)
  BY DEF SentToAll
<1>2. confirmNet[d] \in Seq(ConfirmPacket)
      /\ UpTo(confirmNet[d], rollback[Master].lastConfirm)
  BY OrderFacts DEF ConfirmedInTime, UpTo
<1>3. DefaultConfirm.frame <= rollback[Master].lastConfirm
  BY OrderFacts, MasterAssumption DEF DefaultConfirm, FrameOrNone
<1>4. UpTo(Append(confirmNet[d], DefaultConfirm), rollback[Master].lastConfirm)
  BY <1>2, <1>3, DefaultConfirmType, UpToAppend
<1> QED
  BY <1>1, <1>2, <1>4, DefaultConfirmType, AppendProperties

-----------------------------------------------------------------------------
(* One lemma per action. *)

LEMMA BeginTickOrder ==
  ASSUME OrderInv, NEW n \in Connected, NEW input \in Input,
         BeginTick(n, input), IndexInv'
  PROVE  OrderInv'
<1> DEFINE m == rollback[n]
           c == currentFrame[n]
           u == SetInput(m, n, input, c)
<1>1. /\ u.inputs[c + 1][n] = input
      /\ u.lastReceived = [m.lastReceived EXCEPT ![n] = Larger(m.lastReceived[n], c)]
      /\ u.lastConfirm = m.lastConfirm
  BY OrderFacts, SetInputEffect
<1> HIDE DEF u
<1>2. /\ rollback' = [rollback EXCEPT ![n] = u]
      /\ pressed' = [pressed EXCEPT ![n] = Append(pressed[n], input)]
      /\ inTick' = [inTick EXCEPT ![n] = TRUE]
      /\ pc' = [pc EXCEPT ![n] = "import"]
      /\ UNCHANGED <<currentFrame, inputNet, confirmNet>>
      /\ pc[n] = "play"
  BY DEF BeginTick, u, netVars
<1>3. /\ rollback'[n] = u
      /\ \A k \in Connected \ {n} : /\ rollback'[k] = rollback[k]
                                    /\ pressed'[k] = pressed[k]
                                    /\ inTick'[k] = inTick[k]
                                    /\ pc'[k] = pc[k]
      /\ pressed'[n] = Append(pressed[n], input)
      /\ inTick'[n] = TRUE /\ pc'[n] = "import"
  BY <1>2 DEF OrderInv, IndexInv, TypeOK
<1>4. ~inTick[n] /\ Len(pressed[n]) = c
  BY <1>2, OrderFacts DEF OwnInputIn, PressedInTime
<1>5. /\ Len(pressed'[n]) = c + 1 /\ Last(pressed'[n]) = input
      /\ \A k \in Connected : Len(pressed'[k]) >= Len(pressed[k])
  <2>1. Len(pressed'[n]) = c + 1 /\ pressed'[n][c + 1] = input
    BY <1>3, <1>4, OrderFacts, AppendProperties
  <2>2. \A k \in Connected : Len(pressed[k]) \in Nat
    BY OrderFacts
  <2>3. \A k \in Connected \ {n} : Len(pressed'[k]) >= Len(pressed[k])
    BY <1>3, <2>2
  <2>4. Len(pressed'[n]) >= Len(pressed[n])
    BY <1>4, <2>1, OrderFacts
  <2> QED
    BY <2>1, <2>3, <2>4 DEF Last
<1>6. /\ \A k \in Connected : rollback'[k].lastConfirm = rollback[k].lastConfirm
      /\ \A k, p \in Connected : k # n \/ p # n =>
           rollback'[k].lastReceived[p] = rollback[k].lastReceived[p]
      /\ rollback'[n].lastReceived[n] = Larger(m.lastReceived[n], c)
  BY <1>1, <1>3, OrderFacts, ConnectedAssumption
<1>7. PeerInv'
  <2>1. ASSUME NEW k \in Connected
        PROVE  PressedInTime(k)' /\ OwnInputIn(k)' /\ ConfirmedInTime(k)'
    <3>1. PressedInTime(k)'
      BY <1>2, <1>3, <1>5, OrderFacts DEF PressedInTime
    <3>2. OwnInputIn(k)'
      <4>1. CASE k = n
        BY <1>1, <1>2, <1>3, <1>5, <1>6, <4>1, OrderFacts
           DEF OwnInputIn, Larger, FrameOrNone
      <4>2. CASE k # n
        BY <1>2, <1>3, <4>2, OrderFacts DEF OwnInputIn
      <4> QED BY <4>1, <4>2
    <3>3. ConfirmedInTime(k)'
      <4>1. /\ rollback[Master].lastConfirm \in Int
            /\ Len(pressed[k]) \in Int /\ Len(pressed'[k]) \in Int
            /\ Len(pressed'[k]) >= Len(pressed[k])
        BY <1>3, <1>5, OrderFacts, MasterAssumption DEF FrameOrNone
      <4>2. ConfirmedInTime(k)
        BY OrderFacts
      <4> QED
        BY <1>2, <1>6, <4>1, <4>2, MasterAssumption DEF ConfirmedInTime
    <3> QED BY <3>1, <3>2, <3>3
  <2> QED BY <2>1 DEF PeerInv
<1>8. ASSUME NEW k \in Connected, NEW p \in Connected
      PROVE  ReceivedInTime(k, p)'
  <2>1. /\ rollback[k].lastReceived[p] \in Int /\ c \in Nat
        /\ Len(pressed[p]) \in Nat /\ Len(pressed'[p]) >= Len(pressed[p])
        /\ Len(pressed'[p]) \in Nat
        /\ ReceivedInTime(k, p)
    BY <1>3, <1>5, OrderFacts, ConnectedAssumption DEF FrameOrNone
  <2>2. CASE k = n /\ p = n
    BY <1>4, <1>5, <1>6, <2>1, <2>2 DEF ReceivedInTime, Larger
  <2>3. CASE k # n \/ p # n
    BY <1>2, <1>6, <2>1, <2>3 DEF ReceivedInTime
  <2> QED BY <2>2, <2>3
<1> QED
  BY <1>2, <1>7, <1>8 DEF OrderInv, SentInTime

LEMMA ImportInputOrder ==
  ASSUME OrderInv, NEW n \in Connected, NEW pkt \in inputNet,
         ImportInput(n, pkt), IndexInv'
  PROVE  OrderInv'
<1>1. pkt \in InputPacket /\ pkt.frame < currentFrame[pkt.player]
  BY DEF OrderInv, IndexInv, TypeOK, SentInTime
<1>2. /\ UNCHANGED <<inTick, currentFrame, inputNet, confirmNet, pressed>>
      /\ pc[n] = "import" /\ pkt.player # n
      /\ pc' \in {pc, [pc EXCEPT ![n] = "gap"]}
  BY DEF ImportInput, netVars
<1>3. /\ \A k \in Connected \ {n} : pc'[k] = pc[k]
      /\ pc'[n] \notin {"play", "over", "done"}
  BY <1>2 DEF OrderInv, IndexInv, TypeOK
<1>4. CASE rollback' = rollback
  BY <1>2, <1>3, <1>4, OrderKept
<1>5. CASE rollback' = [rollback EXCEPT ![n] = SetInputs(rollback[n], pkt)]
  <2> DEFINE m == rollback[n]
             u == SetInputs(m, pkt)
             p == pkt.player
  <2>1. /\ u.lastConfirm = m.lastConfirm
        /\ u.lastReceived = [m.lastReceived EXCEPT
                               ![p] = Larger(m.lastReceived[p], pkt.frame)]
        /\ \A q \in Player \ {p} : \A i \in 1 .. Len(m.inputs) :
             u.inputs[i][q] = m.inputs[i][q]
    BY <1>1, OrderFacts, SetInputsEffect
  <2>2. p \in Connected /\ pkt.frame \in Nat
    BY <1>1 DEF InputPacket
  <2> HIDE DEF u
  <2>3. /\ rollback'[n] = u
        /\ \A k \in Connected \ {n} : rollback'[k] = rollback[k]
    BY <1>5 DEF u, OrderInv, IndexInv, TypeOK
  <2>4. /\ \A k \in Connected : rollback'[k].lastConfirm = rollback[k].lastConfirm
        /\ \A k, q \in Connected : k # n \/ q # p =>
             rollback'[k].lastReceived[q] = rollback[k].lastReceived[q]
        /\ rollback'[n].lastReceived[p] = Larger(m.lastReceived[p], pkt.frame)
    BY <2>1, <2>2, <2>3, OrderFacts, ConnectedAssumption
  <2>5. ASSUME NEW k \in Connected
        PROVE  PressedInTime(k)' /\ OwnInputIn(k)' /\ ConfirmedInTime(k)'
    <3>1. PressedInTime(k)'
      BY <1>2, OrderFacts DEF PressedInTime
    <3>2. OwnInputIn(k)'
      <4>1. CASE k = n
        <5>1. inTick[n] => u.inputs[currentFrame[n] + 1][n]
                             = m.inputs[currentFrame[n] + 1][n]
          BY <1>2, <2>1, OrderFacts, ConnectedAssumption
        <5> QED
          BY <1>2, <1>3, <2>3, <2>4, <4>1, <5>1, OrderFacts DEF OwnInputIn
      <4>2. CASE k # n
        BY <1>2, <1>3, <2>3, <4>2, OrderFacts DEF OwnInputIn
      <4> QED BY <4>1, <4>2
    <3>3. ConfirmedInTime(k)'
      BY <1>2, <2>4, OrderFacts, MasterAssumption DEF ConfirmedInTime
    <3> QED BY <3>1, <3>2, <3>3
  <2>6. ASSUME NEW k \in Connected, NEW q \in Connected
        PROVE  ReceivedInTime(k, q)'
    <3>1. CASE k # n \/ q # p
      BY <1>2, <2>4, <3>1, OrderFacts DEF ReceivedInTime
    <3>2. CASE k = n /\ q = p
      <4>1. /\ m.lastReceived[p] \in Int /\ currentFrame[p] \in Nat
            /\ Len(pressed[p]) >= currentFrame[p]
            /\ Len(pressed[p]) \in Nat
            /\ ReceivedInTime(n, p)
        <5>1. m.lastReceived \in [Player -> FrameOrNone] /\ ReceivedInTime(n, p)
          BY <2>2, OrderFacts
        <5>2. /\ currentFrame[p] \in Nat /\ inTick[p] \in BOOLEAN
              /\ Len(pressed[p]) \in Nat /\ PressedInTime(p)
          BY <2>2, OrderFacts
        <5>3. Len(pressed[p]) >= currentFrame[p]
          BY <5>2 DEF PressedInTime
        <5>4. m.lastReceived[p] \in Int
          BY <2>2, <5>1, ConnectedAssumption DEF FrameOrNone
        <5> QED BY <5>1, <5>2, <5>3, <5>4
      <4> QED
        BY <1>1, <1>2, <2>2, <2>4, <3>2, <4>1 DEF ReceivedInTime, Larger
    <3> QED BY <3>1, <3>2
  <2> QED
    BY <1>2, <2>5, <2>6 DEF OrderInv, PeerInv, SentInTime
<1> QED
  BY <1>4, <1>5 DEF ImportInput

\* Where one peer confirms or refuses a frame, the invariant is kept if all
\* peers and packets stay behind the master, and the master behind the play.
LEMMA ConfirmKept ==
  ASSUME OrderInv, IndexInv', NEW n \in Connected,
         UNCHANGED <<inTick, currentFrame, inputNet, pressed>>,
         \A k \in Connected \ {n} : rollback'[k] = rollback[k] /\ pc'[k] = pc[k],
         \A k \in Connected :
           rollback'[k].lastConfirm <= rollback'[Master].lastConfirm,
         \A k \in Connected :
           /\ rollback'[Master].lastConfirm < Len(pressed[k])
           /\ k # Master => rollback'[Master].lastConfirm < currentFrame[k],
         \A d \in Connected :
           UpTo(confirmNet'[d], rollback'[Master].lastConfirm),
         \A p \in Connected : ReceivedInTime(n, p)',
         inTick[n] =>
           /\ pc'[n] \notin {"play", "over", "done"}
           /\ rollback'[n].lastReceived[n] >= currentFrame[n]
           /\ rollback'[n].inputs[currentFrame[n] + 1][n] = Last(pressed[n])
  PROVE  OrderInv'
<1>1. ASSUME NEW k \in Connected
      PROVE  PressedInTime(k)' /\ OwnInputIn(k)' /\ ConfirmedInTime(k)'
  <2>1. PressedInTime(k)'
    BY OrderFacts DEF PressedInTime
  <2>2. OwnInputIn(k)'
    <3>1. CASE k = n
      BY <3>1 DEF OwnInputIn
    <3>2. CASE k # n
      BY <3>2, OrderFacts DEF OwnInputIn
    <3> QED BY <3>1, <3>2
  <2>3. ConfirmedInTime(k)'
    BY DEF ConfirmedInTime, UpTo
  <2> QED BY <2>1, <2>2, <2>3
<1>2. ASSUME NEW k \in Connected, NEW p \in Connected
      PROVE  ReceivedInTime(k, p)'
  <2>1. CASE k = n
    BY <2>1
  <2>2. CASE k # n
    BY <2>2, OrderFacts DEF ReceivedInTime
  <2> QED BY <2>1, <2>2
<1> QED
  BY <1>1, <1>2 DEF OrderInv, PeerInv, SentInTime

LEMMA ValidateFrameOrder ==
  ASSUME OrderInv, NEW n \in Connected, NEW exact \in Exactness(n),
         ValidateFrame(n, exact), IndexInv'
  PROVE  OrderInv'
<1> DEFINE m == rollback[n]
           v == ConfirmLastFrame(m, exact)
           pkt == [frame    |-> v.lastConfirm,
                   checksum |-> v.sim,
                   input    |-> RowAt(v, v.lastConfirm)]
<1>1. /\ v.inputs = m.inputs /\ v.lastReceived = m.lastReceived
      /\ v.lastConfirm = m.lastConfirm + 1
  BY OrderFacts, ConfirmEffect
<1>2. /\ UNCHANGED <<inTick, currentFrame, inputNet, pressed>>
      /\ n = Master
      /\ \A p \in Connected : m.lastReceived[p] > FirstOpen(m)
      /\ rollback' = [rollback EXCEPT ![n] = v]
      /\ confirmNet' = SentToOthers(n, pkt)
      /\ pc' = [pc EXCEPT ![n] = "validate"]
  BY DEF ValidateFrame, CanValidate, AllReceivedAfter
<1>3. pkt.frame = m.lastConfirm + 1
  BY <1>1
<1> HIDE DEF v, pkt
<1>4. /\ rollback'[n] = v /\ pc'[n] = "validate"
      /\ \A k \in Connected \ {n} : rollback'[k] = rollback[k] /\ pc'[k] = pc[k]
  BY <1>2 DEF OrderInv, IndexInv, TypeOK
<1>5. m.lastConfirm \in Int /\ FirstOpen(m) >= m.lastConfirm /\ FirstOpen(m) \in Int
  BY OrderFacts DEF FirstOpen, Larger, FrameOrNone
<1>6. ASSUME NEW k \in Connected
      PROVE  rollback'[k].lastConfirm <= rollback'[Master].lastConfirm
  <2>1. CASE k = n
    BY <1>1, <1>2, <1>4, <1>5, <2>1
  <2>2. CASE k # n
    <3>1. rollback[k].lastConfirm \in Int /\ ConfirmedInTime(k)
      BY OrderFacts DEF FrameOrNone
    <3> QED
      BY <1>1, <1>2, <1>4, <1>5, <2>2, <3>1 DEF ConfirmedInTime
  <2> QED BY <2>1, <2>2
<1>7. ASSUME NEW k \in Connected
      PROVE  /\ rollback'[Master].lastConfirm < Len(pressed[k])
             /\ k # Master => rollback'[Master].lastConfirm < currentFrame[k]
  <2>1. /\ ReceivedInTime(n, k) /\ m.lastReceived \in [Player -> FrameOrNone]
        /\ m.lastReceived[k] > FirstOpen(m)
        /\ Len(pressed[k]) \in Int /\ currentFrame[k] \in Int
    BY <1>2, OrderFacts
  <2>2. m.lastReceived[k] \in Int
    BY <2>1, ConnectedAssumption DEF FrameOrNone
  <2> QED
    BY <1>1, <1>2, <1>4, <1>5, <2>1, <2>2 DEF ReceivedInTime
<1>8. ASSUME NEW d \in Connected
      PROVE  UpTo(confirmNet'[d], rollback'[Master].lastConfirm)
  <2> DEFINE g == rollback'[Master].lastConfirm
  <2>1. g = m.lastConfirm + 1 /\ g \in Int
    BY <1>1, <1>2, <1>4, <1>5
  <2>2. /\ confirmNet[d] \in Seq(ConfirmPacket) /\ ConfirmedInTime(d)
    BY OrderFacts
  <2>3. UpTo(confirmNet[d], g)
    <3>1. \A i \in DOMAIN confirmNet[d] : confirmNet[d][i].frame \in Int
      BY <2>2, PacketFrames
    <3>2. \A i \in DOMAIN confirmNet[d] : confirmNet[d][i].frame <= m.lastConfirm
      BY <1>2, <2>2 DEF ConfirmedInTime
    <3>3. \A i \in DOMAIN confirmNet[d] : confirmNet[d][i].frame <= g
      BY <1>5, <2>1, <3>1, <3>2
    <3> QED BY <3>3 DEF UpTo
  <2> HIDE DEF g
  <2>4. CASE d = n
    BY <1>2, <2>3, <2>4 DEF SentToOthers, g
  <2>5. CASE d # n
    <3>1. confirmNet'[d] = Append(confirmNet[d], pkt)
      BY <1>2, <2>5 DEF SentToOthers
    <3>2. pkt \in ConfirmPacket
      <4>1. confirmNet'[d] \in Seq(ConfirmPacket)
        BY DEF IndexInv, TypeOK
      <4>2. /\ Len(confirmNet'[d]) = Len(confirmNet[d]) + 1
            /\ confirmNet'[d][Len(confirmNet[d]) + 1] = pkt
            /\ Len(confirmNet[d]) \in Nat
        BY <2>2, <3>1, LenProperties, AppendProperties
      <4> QED BY <4>1, <4>2, ElementOfSeq
    <3>3. pkt.frame <= g
      BY <1>3, <2>1
    <3>4. UpTo(Append(confirmNet[d], pkt), g)
      BY <2>2, <2>3, <3>2, <3>3, UpToAppend
    <3> QED BY <3>1, <3>4 DEF g
  <2> QED BY <2>4, <2>5
<1>9. \A p \in Connected : ReceivedInTime(n, p)'
  BY <1>1, <1>2, <1>4, OrderFacts DEF ReceivedInTime
<1>10. inTick[n] =>
         /\ pc'[n] \notin {"play", "over", "done"}
         /\ rollback'[n].lastReceived[n] >= currentFrame[n]
         /\ rollback'[n].inputs[currentFrame[n] + 1][n] = Last(pressed[n])
  BY <1>1, <1>4, OrderFacts DEF OwnInputIn
<1> QED
  BY <1>2, <1>4, <1>6, <1>7, <1>8, <1>9, <1>10, ConfirmKept

LEMMA RefuseConfirmOrder ==
  ASSUME OrderInv, NEW n \in Connected, RefuseConfirm(n), IndexInv'
  PROVE  OrderInv'
<1>1. PICK dropped \in 1 .. Len(confirmNet[n]) :
        confirmNet' = [SentToAll(DefaultConfirm) EXCEPT
                         ![n] = SubSeq(@, dropped + 1, Len(@))]
  BY DEF RefuseConfirm
<1>2. /\ UNCHANGED <<inTick, currentFrame, inputNet, pressed, rollback>>
      /\ pc' = [pc EXCEPT ![n] = "abort"]
  BY DEF RefuseConfirm
<1>3. /\ pc'[n] = "abort" /\ \A k \in Connected \ {n} : pc'[k] = pc[k]
  BY <1>2 DEF OrderInv, IndexInv, TypeOK
<1>4. ASSUME NEW d \in Connected
      PROVE  UpTo(confirmNet'[d], rollback'[Master].lastConfirm)
  <2> DEFINE q == SentToAll(DefaultConfirm)[d]
             g == rollback[Master].lastConfirm
  <2>1. q \in Seq(ConfirmPacket) /\ UpTo(q, g)
    BY DefaultInTime
  <2>2. confirmNet'[d] = IF d = n THEN SubSeq(q, dropped + 1, Len(q)) ELSE q
    BY <1>1 DEF SentToAll
  <2> HIDE DEF q
  <2>3. dropped + 1 \in Nat \ {0}
    BY OrderFacts
  <2>4. UpTo(SubSeq(q, dropped + 1, Len(q)), g)
    BY <2>1, <2>3, UpToSubSeq
  <2> QED
    BY <1>2, <2>1, <2>2, <2>4
<1>5. \A k \in Connected : ConfirmedInTime(k) /\ ReceivedInTime(n, k)
  BY OrderFacts
<1>6. \A p \in Connected : ReceivedInTime(n, p)'
  BY <1>2, <1>5 DEF ReceivedInTime
<1>7. \A k \in Connected :
        /\ rollback'[k].lastConfirm <= rollback'[Master].lastConfirm
        /\ rollback'[Master].lastConfirm < Len(pressed[k])
        /\ k # Master => rollback'[Master].lastConfirm < currentFrame[k]
  BY <1>2, <1>5 DEF ConfirmedInTime
<1>8. inTick[n] =>
        /\ pc'[n] \notin {"play", "over", "done"}
        /\ rollback'[n].lastReceived[n] >= currentFrame[n]
        /\ rollback'[n].inputs[currentFrame[n] + 1][n] = Last(pressed[n])
  BY <1>2, <1>3, OrderFacts DEF OwnInputIn
<1> QED
  BY <1>2, <1>3, <1>4, <1>6, <1>7, <1>8, ConfirmKept

LEMMA ImportConfirmOrder ==
  ASSUME OrderInv, NEW n \in Connected, NEW exact \in Exactness(n),
         ImportConfirm(n, exact), IndexInv'
  PROVE  OrderInv'
<1> DEFINE m   == rollback[n]
           pkt == NextConfirm(n)
           f   == pkt.frame
           g   == rollback[Master].lastConfirm
           u   == SetConfirmed(m, pkt.input, f)
           v   == ConfirmLastFrame(u, exact)
<1>1. /\ confirmNet[n] \in Seq(ConfirmPacket) /\ confirmNet[n] # << >>
      /\ f = m.lastConfirm + 1
      /\ pc[n] \in {"import", "confirm"}
  BY OrderFacts DEF ImportConfirm, HasConfirm, InOrder
<1>2. /\ UNCHANGED <<inTick, currentFrame, inputNet, pressed>>
      /\ rollback' = [rollback EXCEPT ![n] = v]
      /\ pc' = [pc EXCEPT ![n] = "confirm"]
      /\ \/ confirmNet' = [confirmNet EXCEPT ![n] = Tail(@)]
         \/ confirmNet' = [SentToAll(DefaultConfirm) EXCEPT ![n] = Tail(@)]
  BY DEF ImportConfirm
<1>3. pkt \in ConfirmPacket /\ f <= g
  <2>1. 1 \in DOMAIN confirmNet[n] /\ pkt = confirmNet[n][1]
    BY <1>1, LenProperties, EmptySeq DEF NextConfirm
  <2> QED
    BY <1>1, <2>1, PacketFrames, OrderFacts DEF ConfirmedInTime
<1>4. m.lastConfirm \in Int /\ f \in Nat /\ pkt.input \in Row /\ g \in Int
  BY <1>1, <1>3, OrderFacts, MasterAssumption DEF FrameOrNone, ConfirmPacket
<1>5. n # Master
  BY <1>1, <1>3, <1>4
<1> HIDE DEF pkt, f
<1>6. SoundManager(m)
  BY OrderFacts
<1> HIDE DEF m
<1>7. SoundManager(u) /\ u.lastConfirm = m.lastConfirm
  BY <1>4, <1>6, SetConfirmedSound
<1>8. /\ u.lastReceived = [q \in Player |->
           IF q \in Connected THEN Larger(m.lastReceived[q], f)
                              ELSE m.lastReceived[q]]
      /\ \A q \in Player : \A i \in 1 .. Len(m.inputs) :
           m.lastReceived[q] >= f /\ i # f + 1 =>
             u.inputs[i][q] = m.inputs[i][q]
  BY <1>4, <1>6, SetConfirmedEffect
<1> HIDE DEF u
<1>9. u \in Manager
  BY <1>7 DEF SoundManager
<1>10. /\ v.inputs = u.inputs /\ v.lastReceived = u.lastReceived
       /\ v.lastConfirm = m.lastConfirm + 1
  BY <1>9, <1>7, ConfirmEffect
<1> HIDE DEF v
<1>11. /\ rollback'[n] = v /\ pc'[n] = "confirm"
       /\ \A k \in Connected \ {n} : rollback'[k] = rollback[k] /\ pc'[k] = pc[k]
       /\ rollback'[Master].lastConfirm = g
  BY <1>2, <1>5, MasterAssumption DEF OrderInv, IndexInv, TypeOK
<1>12. ASSUME NEW k \in Connected
       PROVE  /\ rollback'[k].lastConfirm <= rollback'[Master].lastConfirm
              /\ rollback'[Master].lastConfirm < Len(pressed[k])
              /\ k # Master => rollback'[Master].lastConfirm < currentFrame[k]
  <2>1. ConfirmedInTime(k)
    BY OrderFacts
  <2>2. CASE k = n
    <3>1. rollback'[k].lastConfirm = f
      BY <1>1, <1>10, <1>11, <2>2
    <3> QED
      BY <1>3, <1>11, <2>1, <3>1 DEF ConfirmedInTime
  <2>3. CASE k # n
    BY <1>11, <2>1, <2>3 DEF ConfirmedInTime
  <2> QED BY <2>2, <2>3
<1>13. ASSUME NEW d \in Connected
       PROVE  UpTo(confirmNet'[d], rollback'[Master].lastConfirm)
  <2> DEFINE old == confirmNet[d]
             all == SentToAll(DefaultConfirm)[d]
  <2>1. /\ old \in Seq(ConfirmPacket) /\ UpTo(old, g)
        /\ d = n => old # << >>
    BY <1>1, OrderFacts DEF ConfirmedInTime, UpTo
  <2>2. all \in Seq(ConfirmPacket) /\ all # << >> /\ UpTo(all, g)
    BY DefaultInTime
  <2>3. confirmNet'[d] \in {IF d = n THEN Tail(old) ELSE old,
                            IF d = n THEN Tail(all) ELSE all}
    <3>1. CASE confirmNet' = [confirmNet EXCEPT ![n] = Tail(@)]
      BY <3>1 DEF OrderInv, IndexInv, TypeOK
    <3>2. CASE confirmNet' = [SentToAll(DefaultConfirm) EXCEPT ![n] = Tail(@)]
      BY <3>2 DEF SentToAll
    <3> QED BY <1>2, <3>1, <3>2
  <2> HIDE DEF old, all
  <2>4. UpTo(all, g) /\ UpTo(Tail(all), g)
    BY <2>2, UpToTail
  <2>5. UpTo(old, g) /\ (d = n => UpTo(Tail(old), g))
    BY <2>1, UpToTail
  <2>6. UpTo(confirmNet'[d], g)
    BY <2>3, <2>4, <2>5
  <2> QED
    BY <1>11, <2>6
<1>14. ASSUME NEW p \in Connected
       PROVE  ReceivedInTime(n, p)'
  <2>1. ReceivedInTime(n, p) /\ ConfirmedInTime(p)
    BY OrderFacts
  <2>2. m.lastReceived[p] \in Int /\ p \in Player
    BY OrderFacts, ConnectedAssumption DEF m, FrameOrNone
  <2>3. rollback'[n].lastReceived[p] = Larger(m.lastReceived[p], f)
    BY <1>10, <1>11, <1>8, <2>2
  <2>4. /\ g < Len(pressed[p]) /\ (p # Master => g < currentFrame[p])
        /\ Len(pressed[p]) \in Int /\ currentFrame[p] \in Int
    BY <2>1, OrderFacts DEF ConfirmedInTime
  <2>5. /\ m.lastReceived[p] < Len(pressed[p])
        /\ n # p /\ p # Master => m.lastReceived[p] < currentFrame[p]
    BY <2>1 DEF ReceivedInTime, m
  <2> QED
    BY <1>2, <1>3, <1>4, <2>2, <2>3, <2>4, <2>5 DEF ReceivedInTime, Larger
<1>15. ASSUME inTick[n]
       PROVE  /\ pc'[n] \notin {"play", "over", "done"}
              /\ rollback'[n].lastReceived[n] >= currentFrame[n]
              /\ rollback'[n].inputs[currentFrame[n] + 1][n] = Last(pressed[n])
  <2> DEFINE c == currentFrame[n]
  <2>1. /\ c \in Nat /\ g < c /\ n \in Player
        /\ m.lastReceived[n] >= c
        /\ m.inputs[c + 1][n] = Last(pressed[n])
        /\ c + 1 \in 1 .. Len(m.inputs)
    BY <1>5, <1>15, OrderFacts, ConnectedAssumption
       DEF OwnInputIn, ConfirmedInTime, m
  <2>2. m.lastReceived[n] \in Int
    BY <2>1, OrderFacts DEF m, FrameOrNone
  <2>3. m.lastReceived[n] >= f /\ c + 1 # f + 1
    BY <1>3, <1>4, <2>1, <2>2
  <2>4. u.inputs[c + 1][n] = m.inputs[c + 1][n]
    BY <1>8, <2>1, <2>3
  <2>5. v.lastReceived[n] >= c
    BY <1>4, <1>10, <1>8, <2>1, <2>2 DEF Larger
  <2> QED
    BY <1>10, <1>11, <2>1, <2>4, <2>5
<1> QED
  BY <1>2, <1>11, <1>12, <1>13, <1>14, <1>15, ConfirmKept

\* A rollback changes nothing but the dirty flag of the manager.
LEMMA CleanedEffect ==
  ASSUME NEW n \in Connected, rollback[n] \in Manager
  PROVE  /\ Cleaned(n).inputs = rollback[n].inputs
         /\ Cleaned(n).lastReceived = rollback[n].lastReceived
         /\ Cleaned(n).lastConfirm = rollback[n].lastConfirm
BY DEF Cleaned, Manager

LEMMA EndTickOrder ==
  ASSUME OrderInv, NEW n \in Connected, EndTick(n), IndexInv'
  PROVE  OrderInv'
<1> DEFINE m   == rollback[n]
           c   == currentFrame[n]
           u   == Cleaned(n)
           pkt == [player |-> n, frame |-> c, inputs |-> SentInputs(m, n, c)]
<1>1. /\ u.lastReceived = m.lastReceived /\ u.lastConfirm = m.lastConfirm
  BY OrderFacts, CleanedEffect
<1>2. /\ inTick[n]
      /\ rollback' = [rollback EXCEPT ![n] = u]
      /\ inputNet' = inputNet \cup {pkt}
      /\ currentFrame' = [currentFrame EXCEPT ![n] = c + 1]
      /\ pc' = [pc EXCEPT ![n] = "play"]
      /\ inTick' = [inTick EXCEPT ![n] = FALSE]
      /\ UNCHANGED <<confirmNet, pressed>>
  BY DEF EndTick
<1>3. pkt.player = n /\ pkt.frame = c
  OBVIOUS
<1> HIDE DEF u, pkt
<1>4. /\ rollback'[n] = u /\ currentFrame'[n] = c + 1 /\ inTick'[n] = FALSE
      /\ \A k \in Connected \ {n} : /\ rollback'[k] = rollback[k]
                                    /\ currentFrame'[k] = currentFrame[k]
                                    /\ inTick'[k] = inTick[k]
                                    /\ pc'[k] = pc[k]
  BY <1>2 DEF OrderInv, IndexInv, TypeOK
<1>5. /\ \A k \in Connected : rollback'[k].lastConfirm = rollback[k].lastConfirm
      /\ \A k, p \in Connected :
           rollback'[k].lastReceived[p] = rollback[k].lastReceived[p]
  BY <1>1, <1>4
<1>6. \A k \in Connected : /\ currentFrame[k] \in Int /\ currentFrame'[k] \in Int
                           /\ currentFrame'[k] >= currentFrame[k]
  BY <1>4, OrderFacts
<1>7. ASSUME NEW k \in Connected
      PROVE  PressedInTime(k)' /\ OwnInputIn(k)' /\ ConfirmedInTime(k)'
  <2>1. PressedInTime(k)'
    <3>1. PressedInTime(k)
      BY OrderFacts
    <3> QED BY <1>2, <1>4, <3>1 DEF PressedInTime
  <2>2. OwnInputIn(k)'
    BY <1>2, <1>4, OrderFacts DEF OwnInputIn
  <2>3. ConfirmedInTime(k)'
    <3>1. ConfirmedInTime(k)
      BY OrderFacts
    <3>2. rollback[Master].lastConfirm \in Int
      BY OrderFacts, MasterAssumption DEF FrameOrNone
    <3> QED
      BY <1>2, <1>5, <1>6, <3>1, <3>2, MasterAssumption DEF ConfirmedInTime
  <2> QED BY <2>1, <2>2, <2>3
<1>8. ASSUME NEW k \in Connected, NEW p \in Connected
      PROVE  ReceivedInTime(k, p)'
  <2>1. ReceivedInTime(k, p) /\ rollback[k].lastReceived \in [Player -> FrameOrNone]
    BY OrderFacts
  <2>2. rollback[k].lastReceived[p] \in Int
    BY <2>1, ConnectedAssumption DEF FrameOrNone
  <2> QED
    BY <1>2, <1>5, <1>6, <2>1, <2>2 DEF ReceivedInTime
<1>9. SentInTime'
  <2>1. ASSUME NEW other \in inputNet
        PROVE  other.frame < currentFrame'[other.player]
    <3>1. /\ other.player \in Connected /\ other.frame \in Int
          /\ other.frame < currentFrame[other.player]
      BY DEF OrderInv, SentInTime, IndexInv, TypeOK, InputPacket
    <3> QED BY <1>6, <3>1
  <2>2. pkt.frame < currentFrame'[pkt.player]
    BY <1>3, <1>4, OrderFacts
  <2> QED BY <1>2, <2>1, <2>2 DEF SentInTime
<1> QED
  BY <1>7, <1>8, <1>9 DEF OrderInv, PeerInv

LEMMA EndGameOverRollbackOrder ==
  ASSUME OrderInv, NEW n \in Connected, EndGameOverRollback(n), IndexInv'
  PROVE  OrderInv'
<1> DEFINE u == Cleaned(n)
<1>1. /\ u.lastReceived = rollback[n].lastReceived
      /\ u.lastConfirm = rollback[n].lastConfirm
  BY OrderFacts, CleanedEffect
<1>2. /\ ~inTick[n]
      /\ rollback' = [rollback EXCEPT ![n] = u]
      /\ pc' = [pc EXCEPT ![n] = AfterGameOver(n)]
      /\ UNCHANGED <<inTick, currentFrame, inputNet, confirmNet, pressed>>
  BY DEF EndGameOverRollback, netVars
<1> HIDE DEF u
<1>3. /\ rollback'[n] = u
      /\ \A k \in Connected \ {n} : rollback'[k] = rollback[k] /\ pc'[k] = pc[k]
  BY <1>2 DEF OrderInv, IndexInv, TypeOK
<1> QED
  BY <1>1, <1>2, <1>3, OrderKept

LEMMA GameOverOrder ==
  ASSUME OrderInv, NEW n \in Connected,
         GameOverRollback(n) \/ ShowEndScreen(n), IndexInv'
  PROVE  OrderInv'
<1>1. /\ pc[n] \in {"play", "over"}
      /\ \E after : pc' = [pc EXCEPT ![n] = after]
      /\ UNCHANGED <<inTick, currentFrame, inputNet, confirmNet, pressed, rollback>>
  BY DEF GameOverRollback, ShowEndScreen, netVars
<1>2. ~inTick[n] /\ \A k \in Connected \ {n} : pc'[k] = pc[k]
  BY <1>1, OrderFacts DEF OwnInputIn, OrderInv, IndexInv, TypeOK
<1> QED
  BY <1>1, <1>2, OrderKept

-----------------------------------------------------------------------------
LEMMA InitOrder == Init => OrderInv
<1> SUFFICES ASSUME Init PROVE OrderInv
  OBVIOUS
<1>1. IndexInv
  BY InitIndex
<1>2. \A n \in Connected :
        /\ currentFrame[n] = 0 /\ inTick[n] = FALSE
        /\ pressed[n] = << >> /\ confirmNet[n] = << >>
        /\ rollback[n].lastConfirm = -1
        /\ \A p \in Connected : rollback[n].lastReceived[p] = -1
  BY ConnectedAssumption DEF Init, InitManager
<1>3. Len(<< >>) = 0 /\ DOMAIN << >> = {}
  BY EmptySeq
<1>4. PeerInv
  BY <1>2, <1>3, MasterAssumption
     DEF PeerInv, PressedInTime, OwnInputIn, ConfirmedInTime
<1>5. \A n, p \in Connected : ReceivedInTime(n, p)
  BY <1>2, <1>3 DEF ReceivedInTime
<1> QED
  BY <1>1, <1>4, <1>5 DEF OrderInv, SentInTime, Init

LEMMA NextOrder == OrderInv /\ [Next]_vars => OrderInv'
<1> SUFFICES ASSUME OrderInv, [Next]_vars PROVE OrderInv'
  OBVIOUS
<1>1. IndexInv'
  BY NextIndex DEF OrderInv
<1>2. CASE Next
  <2> SUFFICES ASSUME NEW n \in Connected, Step(n) PROVE OrderInv'
    BY <1>2 DEF Next
  <2>1. CASE \E input \in Input : BeginTick(n, input)
    BY <1>1, <2>1, BeginTickOrder
  <2>2. CASE \E pkt \in inputNet : ImportInput(n, pkt)
    BY <1>1, <2>2, ImportInputOrder
  <2>3. CASE \E exact \in Exactness(n) : ImportConfirm(n, exact)
    BY <1>1, <2>3, ImportConfirmOrder
  <2>4. CASE RefuseConfirm(n)
    BY <1>1, <2>4, RefuseConfirmOrder
  <2>5. CASE \E exact \in Exactness(n) : ValidateFrame(n, exact)
    BY <1>1, <2>5, ValidateFrameOrder
  <2>6. CASE EndTick(n)
    BY <1>1, <2>6, EndTickOrder
  <2>7. CASE EndGameOverRollback(n)
    BY <1>1, <2>7, EndGameOverRollbackOrder
  <2>8. CASE GameOverRollback(n) \/ ShowEndScreen(n)
    BY <1>1, <2>8, GameOverOrder
  <2> QED
    BY <2>1, <2>2, <2>3, <2>4, <2>5, <2>6, <2>7, <2>8 DEF Step
<1>3. CASE UNCHANGED vars
  BY <1>3 DEF vars, gameVars, netVars, OrderInv, IndexInv, TypeOK, RowsExist,
              PeerInv, PressedInTime, OwnInputIn, ConfirmedInTime,
              ReceivedInTime, SentInTime
<1> QED
  BY <1>2, <1>3

LEMMA OrderAlways == Spec => []OrderInv
BY InitOrder, NextOrder, PTL DEF Spec

-----------------------------------------------------------------------------
LEMMA OrderImpliesPlayed == OrderInv => ConfirmedWasPlayed
<1> SUFFICES ASSUME OrderInv, NEW n \in Connected, NEW p \in Connected
             PROVE  rollback[n].lastConfirm < Len(pressed[p])
  BY DEF ConfirmedWasPlayed
<1>1. /\ rollback[n].lastConfirm <= rollback[Master].lastConfirm
      /\ rollback[Master].lastConfirm < Len(pressed[p])
  BY OrderFacts DEF ConfirmedInTime
<1>2. /\ rollback[n].lastConfirm \in Int /\ rollback[Master].lastConfirm \in Int
      /\ Len(pressed[p]) \in Int
  BY OrderFacts, MasterAssumption DEF FrameOrNone
<1> QED
  BY <1>1, <1>2

\* No peer ever confirms a frame that some player has not pressed its input
\* for yet (RollbackUpdate, ConfirmLastFrame): the master waits for the
\* inputs of a later frame, and the others for the master.
THEOREM ConfirmedWasPlayedAlways == Spec => []ConfirmedWasPlayed
BY OrderAlways, OrderImpliesPlayed, PTL

LEMMA OrderImpliesLocal == OrderInv => LocalInputKept
<1> SUFFICES ASSUME OrderInv, NEW n \in Connected, inTick[n]
             PROVE  /\ rollback[n].inputs[currentFrame[n] + 1][n] = Last(pressed[n])
                    /\ SendsLocalInput(n)
  BY DEF LocalInputKept
<1> DEFINE m    == rollback[n]
           c    == currentFrame[n]
           sent == SentInputs(m, n, c)
           size == IF IsTruncated(m, c) THEN MaxPlayerInputNmb ELSE WindowSize(m, c)
<1>1. m.inputs[c + 1][n] = Last(pressed[n])
  BY OrderFacts DEF OwnInputIn
<1>2. /\ c \in Nat /\ m.lastConfirm \in Int
      /\ m.lastConfirm <= rollback[Master].lastConfirm
      /\ rollback[Master].lastConfirm < Len(pressed[n])
      /\ rollback[Master].lastConfirm \in Int
      /\ Len(pressed[n]) = c + 1
  BY OrderFacts, MasterAssumption
     DEF ConfirmedInTime, PressedInTime, FrameOrNone
<1>3. FirstOpen(m) \in Nat /\ FirstOpen(m) <= c
  BY <1>2 DEF FirstOpen, Larger
<1>4. size \in Nat \ {0} /\ WindowFirst(m, c) + size = c + 1
  BY <1>2, <1>3, WindowAssumption
     DEF WindowFirst, IsTruncated, WindowSize, Larger
<1>5. sent = [i \in 1 .. size |-> m.inputs[WindowFirst(m, c) + i][n]]
  BY DEF SentInputs
<1>6. sent \in Seq(Input) /\ sent # << >>
  BY OrderFacts, SentInputsType
<1> HIDE DEF sent, size
<1>7. Len(sent) = size
  BY <1>4, <1>5, <1>6, LenProperties
<1>8. sent[Len(sent)] = m.inputs[c + 1][n]
  BY <1>4, <1>5, <1>7
<1> QED
  BY <1>1, <1>8 DEF SendsLocalInput, Last, sent

\* The two "WTF!" errors of Tick never fire: whatever a peer imports in a
\* tick, it displays and sends the input its player has just pressed.
THEOREM LocalInputKeptAlways == Spec => []LocalInputKept
BY OrderAlways, OrderImpliesLocal, PTL
=============================================================================
