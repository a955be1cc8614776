---------------------------- MODULE RollbackSafety ----------------------------
(***************************************************************************)
(* What the rollback protocol promises, stated over RollbackProtocol.      *)
(*                                                                         *)
(* Several promises hold only while no input packet was cut to             *)
(* MaxPlayerInputNmb inputs (truncated): a peer more than that many frames *)
(* ahead of its last confirmed frame drops unconfirmed inputs for good.    *)
(***************************************************************************)
EXTENDS RollbackProtocol, SequencesExt

\* The row of frame f that the players really pressed, and a game confirmed
\* up to frame k that was ticked on these rows: frame 0 twice, then each
\* frame before k once.
PressedRow(f) ==
  [p \in Player |-> IF p \in Connected THEN pressed[p][f + 1] ELSE Neutral]
PressedSim(k) ==
  [i \in 1 .. k + 1 |->
     LET f == Larger(i - 2, 0)
     IN  [prev  |-> IF f > 0 THEN PressedRow(f - 1) ELSE NeutralRow,
          now   |-> PressedRow(f),
          exact |-> TRUE]]

\* Every row the code reads by index exists: the vectors of rows reach past
\* the last confirmed frame, the last received frame of every player and, in
\* a tick, the current frame.  (GetInputs and GetInput index inputs_ without
\* a check, rollback_manager.cpp:85,102,113.)
RowsExist ==
  \A n \in Connected :
    LET m == rollback[n] IN
    /\ m.lastConfirm < Len(m.inputs)
    /\ \A p \in Player : m.lastReceived[p] < Len(m.inputs)
    /\ currentFrame[n] <= Len(m.inputs)
    /\ inTick[n] => currentFrame[n] < Len(m.inputs)

\* Whatever RollbackUpdate imports, the row of the current frame keeps the
\* input the local player pressed in this tick, and it is the last one sent:
\* the two "WTF!" errors of Tick (game_manager.cpp:192,217) never fire.
LocalInputKept ==
  \A n \in Connected : inTick[n] =>
    /\ rollback[n].inputs[currentFrame[n] + 1][n] = Last(pressed[n])
    /\ SendsLocalInput(n)

\* No peer confirms a frame before every connected player has pressed its
\* input for it.
ConfirmedWasPlayed ==
  \A n, p \in Connected : rollback[n].lastConfirm < Len(pressed[p])

\* A peer that has not left the game has confirmed a prefix of what the
\* master has confirmed, tick for tick: a different row or a different
\* computation is always detected by the checksum of the same frame.
ConfirmedAgree ==
  \A n \in Connected :
    hasDesync[n] \/ IsPrefix(rollback[n].sim, rollback[Master].sim)

\* A peer leaves the game for a desync only if some machine really computed a
\* tick differently: loss, delay, reordering and duplication of packets never
\* cause one ("Desync happened", game_manager.cpp:446).  With a third peer and
\* inputs dropped from a full packet the code breaks this (run false_desync).
NoFalseAlarm ==
  (\E n \in Connected : hasDesync[n]) =>
    \E n \in Connected : \E i \in DOMAIN rollback[n].sim :
      ~rollback[n].sim[i].exact

\* SetInput never has to leave a gap in the rows: a packet always starts at
\* or before the frame after the receiver's newest row.
NoGap == ~truncated => \A n \in Connected : pc[n] # "gap"

\* Every tick of a confirmed game was played on the inputs that the players
\* really pressed, none lost, predicted or invented.
ConfirmedIsPressed ==
  ~truncated => \A n \in Connected :
    /\ \A p \in Connected : rollback[n].lastConfirm < Len(pressed[p])
    /\ rollback[n].sim = PressedSim(rollback[n].lastConfirm)

\* An input packet carries what its player pressed.
PacketsTruthful ==
  ~truncated => \A pkt \in inputNet : \A i \in DOMAIN pkt.inputs :
    pkt.inputs[i] = pressed[pkt.player][FirstFrame(pkt) + i]

\* Every packet of a player starts at or before the first frame the master
\* still misses of that player: any later packet makes up for lost ones.
EveryPacketSuffices ==
  ~truncated => \A pkt \in inputNet :
    FirstFrame(pkt) <= rollback[Master].lastReceived[pkt.player] + 1

\* Packets are true, whole and early enough, so nobody has to leave a gap.
PacketsSuffice == PacketsTruthful /\ EveryPacketSuffices /\ NoGap

\* What the master counts as received is what was pressed, with no gap: its
\* rows up to the last received frame of a player hold that player's inputs.
MasterKnows ==
  ~truncated => \A p \in Connected :
    \A f \in 0 .. rollback[Master].lastReceived[p] :
      rollback[Master].inputs[f + 1][p] = pressed[p][f + 1]

\* Prediction: every row after the last received frame of a player repeats
\* the input of that frame ("Rollback predicts inputs by replicating them").
PredictionReplicates ==
  ~truncated => \A n, p \in Connected :
    LET m == rollback[n]
        r == m.lastReceived[p]
    IN  \A f \in r + 1 .. Len(m.inputs) - 1 :
          m.inputs[f + 1][p] = IF r < 0 THEN Neutral ELSE m.inputs[r + 1][p]

\* On the master a row is what was pressed up to the last received frame, and on every
\* peer it repeats that frame from there on.
RowsTruthful == MasterKnows /\ PredictionReplicates

\* The row of a confirmed frame never changes again, neither by a late or
\* repeated input packet nor by the confirmation of another frame.  Checked
\* between two peers, with whole packets and with cut ones.
ConfirmedRowsFinal ==
  [][\A n \in Connected : \A f \in 0 .. rollback[n].lastConfirm :
       rollback'[n].inputs[f + 1] = rollback[n].inputs[f + 1]]_rollback

\* The rows the confirmed game of peer n has played, frame 0 counted once,
\* and the protocol as an implementation of the agreed log.
Played(n) ==
  [i \in 1 .. Larger(Len(rollback[n].sim) - 1, 0) |->
     [p \in Connected |-> rollback[n].sim[i + 1].now[p]]]
Log == INSTANCE AgreedLog
         WITH Peer <- Connected, played <- [n \in Connected |-> Played(n)]

\* With packets large enough for every unconfirmed input and machines that
\* compute alike, all peers play the same log of really pressed inputs, the
\* master first.
ImplementsAgreedLog == Log!Spec

\* The display of peer n is what ticking frames 0 .. currentFrame-1 on the
\* rows it now holds gives; after a rollback frame 0 has been ticked twice.
OnceEach(n) ==
  [i \in 1 .. currentFrame[n] |-> TickOf(rollback[n], i - 1, TRUE)]
DisplayIsCurrent(n) ==
  gameSim[n] \in {OnceEach(n), <<Head(OnceEach(n))>> \o OnceEach(n)}

Ticked(n) == pc[n] = "play" /\ currentFrame[n] > 0

\* On the master, between two ticks, the game on display is always the game
\* on the rows received or predicted so far: every row that changed under a
\* frame already displayed has set the manager dirty and was rolled back.
MasterDisplayCurrent == Ticked(Master) => DisplayIsCurrent(Master)

\* The same for every peer ("rollback if needed", game_manager.cpp:373).  The code does
\* not keep this one: a confirm packet that corrects a row does not set the manager dirty.
EveryDisplayCurrent == \A n \in Connected : Ticked(n) => DisplayIsCurrent(n)

\* Where a confirm packet is about to be imported for a frame that the peer
\* has received from a player, it confirms the input the peer holds ("Not the
\* same input for confirm input", game_manager.cpp:306).  The code does not keep it: the
\* last received frame jumps over the frames of lost packets.
ConfirmsReceivedInput ==
  \A n \in Connected :
    HasConfirm(n) /\ InOrder(n) =>
      \A p \in Connected :
        rollback[n].lastReceived[p] >= NextConfirm(n).frame =>
          InputAt(rollback[n], p, NextConfirm(n).frame)
            = NextConfirm(n).input[p]

\* Two peers that have played the same rows to the same frame, and have both
\* replayed what changed, display the same game ("same inputs, same
\* checksum", ABSTRACTION_PLAN.md:225).  The code does not keep it: only a game that was
\* rolled back has ticked frame 0 twice.
SameInputsSameGame ==
  \A n, k \in Connected :
    /\ Ticked(n) /\ Ticked(k) /\ OnceEach(n) = OnceEach(k)
    /\ DisplayIsCurrent(n) /\ DisplayIsCurrent(k)
    => gameSim[n] = gameSim[k]

\* Once its game is over a peer eventually shows the end screen ("end game
\* and switch to victory screen", game_manager.cpp:156).  Run no_end_screen refutes it.
EndScreenShown ==
  \A n \in Connected : isGameOver[n] ~> endScreen[n]

\* The main thread of every peer keeps running and its mailboxes are emptied.
FairSpec == Spec /\ \A n \in Connected : WF_vars(Step(n))
=============================================================================
