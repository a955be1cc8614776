-------------------------------- MODULE Fifo --------------------------------
(***************************************************************************)
(* What the game takes a reliable packet stream for: packets sent by one    *)
(* peer are imported by another one once each and in the order sent.  It is *)
(* how RollbackProtocol models the confirm packets.  Packets are numbered.  *)
(***************************************************************************)
EXTENDS Naturals, Sequences

VARIABLES sent,  \* packets sent so far
          chan   \* numbers of the packets sent and not imported

vars == <<sent, chan>>

Init == sent = 0 /\ chan = <<>>

Send == sent' = sent + 1 /\ chan' = Append(chan, sent + 1)

Import == chan # <<>> /\ chan' = Tail(chan) /\ UNCHANGED sent

Next == Send \/ Import

Spec == Init /\ [][Next]_vars
=============================================================================
