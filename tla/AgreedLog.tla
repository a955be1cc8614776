------------------------------ MODULE AgreedLog ------------------------------
(***************************************************************************)
(* What the rollback protocol promises, without frames in flight,          *)
(* predictions, rollbacks or packets: the players press inputs, and every  *)
(* peer plays the same rows of inputs in the same order, each row made of  *)
(* the inputs the players really pressed.  The master leads; the others    *)
(* follow it at their own pace.                                            *)
(***************************************************************************)
EXTENDS Naturals, Sequences

CONSTANTS Peer, Master, Input

VARIABLES
  pressed,  \* per player: the inputs pressed so far, one per frame
  played    \* per peer: the rows its confirmed game has played

logVars == <<pressed, played>>

Init ==
  /\ pressed = [p \in Peer |-> << >>]
  /\ played = [n \in Peer |-> << >>]

Press(p, input) ==
  /\ pressed' = [pressed EXCEPT ![p] = Append(@, input)]
  /\ UNCHANGED played

\* The next frame of peer n: everybody has pressed its input for it.
NextFrame(n) == Len(played[n]) + 1
Complete(f) == \A p \in Peer : Len(pressed[p]) >= f

Play(n) ==
  /\ Complete(NextFrame(n))
  /\ played' = [played EXCEPT
       ![n] = Append(@, [p \in Peer |-> pressed[p][NextFrame(n)]])]
  /\ UNCHANGED pressed

Lead == Play(Master)
Follow(n) == n # Master /\ Len(played[n]) < Len(played[Master]) /\ Play(n)

Next ==
  \/ \E p \in Peer, input \in Input : Press(p, input)
  \/ Lead
  \/ \E n \in Peer : Follow(n)

Spec == Init /\ [][Next]_logVars
=============================================================================
