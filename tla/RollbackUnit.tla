----------------------------- MODULE RollbackUnit -----------------------------
(***************************************************************************)
(* A single RollbackManager under every legal sequence of calls, as a unit *)
(* test would drive it, and the loops of rollback_manager.cpp written as   *)
(* loops, to check the closed forms of RollbackManager against them.       *)
(***************************************************************************)
EXTENDS RollbackManager, FiniteSetsExt, SequencesExt

CONSTANT LastFrame   \* bound: the calls use the frames 0 .. LastFrame

ASSUME LastFrameAssumption == LastFrame \in Nat
ASSUME PlayersAreFinite == IsFiniteSet(Player)

VARIABLE manager

-----------------------------------------------------------------------------
(* The loops of the code *)

\* The push_back loop of SetInput; inputSize - index + 1u is narrowed to 16
\* bits.
Pushed(m, f) ==
  LET size  == Len(m.inputs)
      delta == (size - f + 1) % 65536
      last  == IF size = 0 THEN NeutralRow ELSE m.inputs[size]
  IN  IF f >= size THEN m.inputs \o [i \in 1 .. delta |-> last] ELSE m.inputs

\* Its loop over the rows behind frame f: predicted[i] are the rows once it
\* has passed row i.  inputSize is the size before the push_backs.
Predict(rows, p, input, f, inputSize) ==
  LET last == Larger(inputSize - 1, f)
      predicted[i \in f .. last] ==
        IF i = f THEN rows ELSE [predicted[i - 1] EXCEPT ![i + 1][p] = input]
  IN  predicted[last]

LoopSetInput(m, p, input, f) ==
  LET written == [Pushed(m, f) EXCEPT ![f + 1][p] = input]
  IN  IF p \notin Connected THEN m
      ELSE IF m.lastReceived[p] >= f THEN [m EXCEPT !.inputs = written]
      ELSE [m EXCEPT !.lastReceived[p] = f,
                     !.inputs = Predict(written, p, input, f, Len(m.inputs))]

\* One round of the loop of SetInputs, with the last received frame that was
\* read before the loop.
ImportInput(m, pkt, lastReceiveFrame, i) ==
  LET f     == FirstFrame(pkt) + i - 1
      input == pkt.inputs[i]
      wrong == m.inputs # << >> /\ InputAt(m, pkt.player, f) # input
      dirty == [m EXCEPT !.isDirty = @ \/ wrong]
  IN  IF f < lastReceiveFrame THEN m ELSE LoopSetInput(dirty, pkt.player, input, f)

\* The loop of SetInputs: imported[i] is the manager after i inputs.
LoopSetInputs(m, pkt) ==
  LET size == Len(pkt.inputs)
      imported[i \in 0 .. size] ==
        IF i = 0 THEN m
        ELSE ImportInput(imported[i - 1], pkt, m.lastReceived[pkt.player], i)
  IN  imported[size]

\* The loop over the players of a confirm packet, in this order.
LoopSetConfirmed(m, row, f, order) ==
  LET size == Len(order)
      confirmed[i \in 0 .. size] ==
        IF i = 0 THEN m ELSE LoopSetInput(confirmed[i - 1], order[i], row[order[i]], f)
  IN  confirmed[size]

\* GetLastReceivedFrame(): the least frame over the valid players.
GetLastReceivedFrame(m) == Min({m.lastReceived[p] : p \in Connected})

-----------------------------------------------------------------------------
(* The calls *)

Frame == 0 .. LastFrame

Packets ==
  {pkt \in [player : Connected, frame : Frame,
            inputs : SeqOf(Input, MaxPlayerInputNmb)] :
     pkt.inputs # << >> /\ Len(pkt.inputs) <= pkt.frame + 1}

Init == manager = InitManager

CallSetInput(p, input, f) ==
  /\ ~IsGap(manager, f)
  /\ manager' = SetInput(manager, p, input, f)

CallSetInputs(pkt) ==
  /\ ~IsGapPacket(manager, pkt)
  /\ manager' = SetInputs(manager, pkt)

\* As RollbackUpdate calls it: everybody's input is in for a later frame.
CallConfirmLastFrame ==
  /\ AllReceivedAfter(manager, FirstOpen(manager))
  /\ manager' = ConfirmLastFrame(manager, TRUE)

CallSetDirty == manager' = [manager EXCEPT !.isDirty = FALSE]

Next ==
  \/ \E p \in Player, input \in Input, f \in Frame : CallSetInput(p, input, f)
  \/ \E pkt \in Packets : CallSetInputs(pkt)
  \/ CallConfirmLastFrame
  \/ CallSetDirty

Spec == Init /\ [][Next]_manager

-----------------------------------------------------------------------------
\* The closed form of SetInputs computes what its loop computes, on every
\* manager the calls can build and for every packet that leaves no gap.
SetInputsIsLoop ==
  \A pkt \in Packets :
    ~IsGapPacket(manager, pkt) =>
      SetInputs(manager, pkt) = LoopSetInputs(manager, pkt)

\* The same for SetInput.
SetInputIsLoop ==
  \A p \in Player, input \in Input, f \in Frame :
    ~IsGap(manager, f) =>
      SetInput(manager, p, input, f) = LoopSetInput(manager, p, input, f)

\* The same for the confirmed rows, whatever the order of the players.
SetConfirmedIsLoop ==
  \A row \in Row, f \in Frame, order \in SetToSeqs(Player) :
    ~IsGap(manager, f) =>
      SetConfirmed(manager, row, f) = LoopSetConfirmed(manager, row, f, order)

\* The condition under which the master confirms is the code's comparison
\* with the least received frame.
ReceivedIsLeast ==
  \A f \in Frame : AllReceivedAfter(manager, f) = (GetLastReceivedFrame(manager) > f)

\* A packet that overrides what was held for a frame already simulated is
\* never imported without the manager becoming dirty: the rows change only
\* under the flag, or beyond the newest row.
ChangeIsDirty ==
  \A pkt \in Packets :
    LET after == SetInputs(manager, pkt) IN
    ~IsGapPacket(manager, pkt) /\ ~after.isDirty =>
      IsPrefix(manager.inputs, after.inputs)

\* The closed forms are the loops of the code, and these report what they change.
ManagerSound ==
  /\ SetInputsIsLoop /\ SetInputIsLoop /\ SetConfirmedIsLoop
  /\ ReceivedIsLeast /\ ChangeIsDirty
=============================================================================
