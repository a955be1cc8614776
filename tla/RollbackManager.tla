--------------------------- MODULE RollbackManager ---------------------------
(***************************************************************************)
(* The RollbackManager of one peer: the input rows it has received or      *)
(* predicted for every player, and the confirmed copy of the game that is  *)
(* ticked once per confirmed frame.                                        *)
(*                                                                         *)
(* A manager is a record.  inputs is inputs_ (row of frame f at f + 1),    *)
(* lastReceived is inputDatas_[p].lastReceivedFrame, lastConfirm is        *)
(* lastConfirmFrame_, isDirty is isDirty_, and sim is                      *)
(* confirmFrameGameSystems_.                                               *)
(*                                                                         *)
(* The game itself is deterministic in its inputs, so a GameSystems is     *)
(* represented by the sequence of ticks it ran: each tick is the pair of   *)
(* the previous and the current input row it read, and whether it computed *)
(* what every other machine computes from them.  CalculateChecksum() is    *)
(* that sequence, i.e. the checksum is taken to be free of collisions.     *)
(***************************************************************************)
EXTENDS Integers, Sequences

CONSTANTS
  Player,            \* the player slots 0 .. MaxPlayerNmb-1
  Connected,         \* the slots in use: GameData::connectedPlayers
  Input,             \* the values a PlayerInput can take
  Neutral,           \* the value-initialised PlayerInput{}
  MaxPlayerInputNmb  \* most inputs one InputPacket carries (26 in const.h)

ASSUME ConnectedAssumption == Connected \subseteq Player /\ Connected # {}
ASSUME NeutralAssumption   == Neutral \in Input
ASSUME WindowAssumption    == MaxPlayerInputNmb \in Nat \ {0}

Larger(a, b) == IF a >= b THEN a ELSE b

Row        == [Player -> Input]
\* Mutant: a row sized by the players present instead of the slots.
NeutralRow_OnlyConnected == [p \in Connected |-> Neutral]

NeutralRow == [p \in Player |-> Neutral]
GameTick   == [prev : Row, now : Row, exact : BOOLEAN]

FrameOrNone == Nat \cup {-1}              \* a frame number; -1: none yet

Manager == [inputs       : Seq(Row),
            lastReceived : [Player -> FrameOrNone],
            lastConfirm  : FrameOrNone,
            isDirty      : BOOLEAN,
            sim          : Seq(GameTick)]

InitManager == [inputs       |-> << >>,
                lastReceived |-> [p \in Player |-> -1],
                lastConfirm  |-> -1,
                isDirty      |-> FALSE,
                sim          |-> << >>]

\* The frame whose row the next confirmation, or a replay, starts from.
FirstOpen(m) == Larger(m.lastConfirm, 0)

\* GetInputs(int): past the end it falls back on the newest row, except one
\* past the end, where the comparison lets the read run out of the vector.
RowAt(m, f) ==
  m.inputs[IF f > Len(m.inputs) THEN Len(m.inputs) ELSE f + 1]

\* GetInput(int, int): clamped to the newest row.
InputAt(m, p, f) ==
  m.inputs[IF f >= Len(m.inputs) THEN Len(m.inputs) ELSE f + 1][p]

\* Mutant: somebody's input is in.
AllReceivedAfter_Any(m, f) == \E p \in Connected : m.lastReceived[p] > f

\* GetLastReceivedFrame() > f: the inputs of every connected player are in.
AllReceivedAfter(m, f) == \A p \in Connected : m.lastReceived[p] > f

\* Mutant: new rows are value-initialised.
NewestRow_Default(m) == NeutralRow

\* The row a new row is copied from when the vector grows.
NewestRow(m) ==
  IF m.inputs = << >> THEN NeutralRow ELSE m.inputs[Len(m.inputs)]

\* Mutant: one row short.
GrownTo_Short(m, f) ==
  [i \in 1 .. Larger(Len(m.inputs), f) |->
     IF i <= Len(m.inputs) THEN m.inputs[i] ELSE NewestRow(m)]

\* The rows of m, grown by copies of the newest one until frame f has a row.
GrownTo(m, f) ==
  [i \in 1 .. Larger(Len(m.inputs), f + 1) |->
     IF i <= Len(m.inputs) THEN m.inputs[i] ELSE NewestRow(m)]

\* A frame beyond the next one to grow by.  There SetInput computes
\* delta = inputSize - index + 1u in 16 bits: 0 for the frame after the next,
\* so that the write is out of bounds, and a number close to 2^16 beyond it.
\* SetInput and SetInputs below are the code for the frames that are no gap.
IsGap(m, f) == f > Len(m.inputs)

\* Mutant: the prediction overwrites later rows with an old input, too.
SetInput_AlwaysPredicts(m, p, input, f) ==
  LET grown == GrownTo(m, f)
  IN  IF p \notin Connected
      THEN m
      ELSE [m EXCEPT
             !.inputs = [i \in DOMAIN grown |->
                           IF i >= f + 1
                           THEN [grown[i] EXCEPT ![p] = input] ELSE grown[i]],
             !.lastReceived = [@ EXCEPT ![p] = Larger(m.lastReceived[p], f)]]

\* SetInput: grow, write the row of frame f and, when f is the newest frame
\* of player p, predict that the later rows hold the same input.
SetInput(m, p, input, f) ==
  LET newest == m.lastReceived[p] < f
      grown  == GrownTo(m, f)
  IN  IF p \notin Connected
      THEN m
      ELSE [m EXCEPT
             !.inputs = [i \in DOMAIN grown |->
                           IF i = f + 1 \/ (newest /\ i > f + 1)
                           THEN [grown[i] EXCEPT ![p] = input]
                           ELSE grown[i]],
             !.lastReceived = IF newest THEN [@ EXCEPT ![p] = f] ELSE @]

\* Mutant: the confirmed row is replicated over inputs already received.
SetConfirmed_AlwaysPredicts(m, row, f) ==
  LET grown == GrownTo(m, f)
  IN  [m EXCEPT
         !.inputs = [i \in DOMAIN grown |-> [p \in Player |->
            IF p \in Connected /\ i >= f + 1 THEN row[p] ELSE grown[i][p]]],
         !.lastReceived = [p \in Player |->
            IF p \in Connected THEN Larger(@[p], f) ELSE @[p]]]

\* The row of a confirm packet, set for every connected player in turn.
SetConfirmed(m, row, f) ==
  LET grown == GrownTo(m, f)
      Newest(p) == m.lastReceived[p] < f
  IN  [m EXCEPT
         !.inputs = [i \in DOMAIN grown |-> [p \in Player |->
            IF p \in Connected /\ (i = f + 1 \/ (Newest(p) /\ i > f + 1))
            THEN row[p] ELSE grown[i][p]]],
         !.lastReceived = [p \in Player |->
            IF p \in Connected /\ Newest(p) THEN f ELSE @[p]]]

\* An InputPacket: the inputs of one player for the frames up to .frame.
InputPacket ==
  [player : Connected, frame : Nat, inputs : Seq(Input) \ {<< >>}]

FirstFrame(pkt)   == pkt.frame - Len(pkt.inputs) + 1
PacketInput(pkt, f) == pkt.inputs[f - FirstFrame(pkt) + 1]

\* The first frame of a packet that SetInputs does not skip as already known.
FirstUsed(m, pkt) == Larger(FirstFrame(pkt), m.lastReceived[pkt.player])

\* The input the manager holds for frame f of a packet at the moment
\* SetInputs reaches f: the packet's previous frame has been replicated over
\* it, unless f is the first frame used or follows a frame that was known.
HeldInput(m, pkt, f) ==
  IF \/ f = FirstUsed(m, pkt)
     \/ f = m.lastReceived[pkt.player] + 1 /\ f < Len(m.inputs)
  THEN InputAt(m, pkt.player, f)
  ELSE PacketInput(pkt, f - 1)

\* Mutant: only the newest frame of the packet is compared.
Mispredicted_NewestOnly(m, pkt) ==
  m.inputs # << >> /\ InputAt(m, pkt.player, pkt.frame) # PacketInput(pkt, pkt.frame)

\* A frame of the packet contradicts what the manager holds for it.
Mispredicted(m, pkt) ==
  \E f \in FirstUsed(m, pkt) .. pkt.frame :
     /\ f > FirstUsed(m, pkt) \/ m.inputs # << >>
     /\ HeldInput(m, pkt, f) # PacketInput(pkt, f)

\* Mutant: only the newest frame of the packet is stored.
SetInputs_NewestOnly(m, pkt) ==
  IF pkt.frame < m.lastReceived[pkt.player]
  THEN m
  ELSE [SetInput(m, pkt.player, PacketInput(pkt, pkt.frame), pkt.frame)
          EXCEPT !.isDirty = @ \/ Mispredicted(m, pkt)]

\* SetInputs: the loop over the packet in closed form.  The last frame of
\* the packet is replicated over the later rows when it is news; a packet
\* whose newest frame is the last received one rewrites that row alone.
SetInputs(m, pkt) ==
  LET p     == pkt.player
      first == FirstUsed(m, pkt)
      newer == m.lastReceived[p] < pkt.frame
      grown == GrownTo(m, pkt.frame)
      dirty == m.isDirty \/ Mispredicted(m, pkt)
  IN  IF pkt.frame < m.lastReceived[p]
      THEN m
      ELSE [m EXCEPT
             !.inputs = [i \in DOMAIN grown |->
                IF i - 1 \in first .. pkt.frame
                THEN [grown[i] EXCEPT ![p] = PacketInput(pkt, i - 1)]
                ELSE IF newer /\ i - 1 > pkt.frame
                THEN [grown[i] EXCEPT ![p] = PacketInput(pkt, pkt.frame)]
                ELSE grown[i]],
             !.lastReceived = [@ EXCEPT ![p] = pkt.frame],
             !.isDirty = dirty]

\* SetInputs would meet a gap: its first used frame is beyond the next row.
IsGapPacket(m, pkt) ==
  pkt.frame >= m.lastReceived[pkt.player] /\ IsGap(m, FirstUsed(m, pkt))

\* GetInputs(player, frame): the window of inputs to send, from the last
\* confirmed frame on, cut to its newest MaxPlayerInputNmb frames.
WindowSize(m, f) == Larger(f - FirstOpen(m) + 1, 1)
IsTruncated(m, f) == WindowSize(m, f) > MaxPlayerInputNmb
WindowFirst(m, f) ==
  IF IsTruncated(m, f) THEN f - MaxPlayerInputNmb + 1 ELSE FirstOpen(m)

\* Mutant: the input of the current frame alone, nothing sent again.
SentInputs_NewestOnly(m, p, f) == <<m.inputs[f + 1][p]>>

SentInputs(m, p, f) ==
  LET size == IF IsTruncated(m, f) THEN MaxPlayerInputNmb ELSE WindowSize(m, f)
  IN  [i \in 1 .. size |-> m.inputs[WindowFirst(m, f) + i][p]]

\* One tick of a game on frame f.  Frame 0 leaves the previous input at its
\* initial value.
TickOf(m, f, exact) ==
  [prev  |-> IF f > 0 THEN RowAt(m, f - 1) ELSE NeutralRow,
   now   |-> RowAt(m, f),
   exact |-> exact]

\* ConfirmLastFrame: tick the confirmed game on the row of the last confirmed
\* frame (of frame 0 while there is none), then advance.
ConfirmLastFrame(m, exact) ==
  [m EXCEPT !.sim         = Append(@, TickOf(m, FirstOpen(m), exact)),
            !.lastConfirm = @ + 1]

\* RollbackFrom and the replay of the frames up to f - 1.
Replay(m, f) ==
  m.sim \o [i \in 1 .. Larger(f - FirstOpen(m), 0) |->
              TickOf(m, FirstOpen(m) + i - 1, TRUE)]
=============================================================================
