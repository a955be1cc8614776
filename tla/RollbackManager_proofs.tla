------------------------ MODULE RollbackManager_proofs ------------------------
(***************************************************************************)
(* What the operations of a RollbackManager preserve and do: the manager   *)
(* stays well typed, its rows reach past every frame it has confirmed or   *)
(* received, which inputs and frames each operation changes, and when its  *)
(* rows hold what the players pressed.  Proved for all frames, players,    *)
(* inputs and packet sizes.                                                *)
(***************************************************************************)
EXTENDS RollbackManager, SequenceTheorems, WellFoundedInduction, TLAPS

\* The rows of m reach past its last confirmed and last received frames.
RowsReach(m) ==
  /\ m.lastConfirm < Len(m.inputs)
  /\ \A p \in Player : m.lastReceived[p] < Len(m.inputs)

SoundManager(m) == m \in Manager /\ RowsReach(m)

\* Every set of numbers has a smallest one.
LEMMA Smallest ==
  ASSUME NEW S, S \subseteq Nat, S # {}
  PROVE  \E x \in S : \A y \in S : x <= y
<1>1. PICK x \in S : \A y \in S : <<y, x>> \notin OpToRel(<, Nat)
  BY NatLessThanWellFounded, WFMin
<1>2. \A y \in S : ~(y < x)
  BY <1>1 DEF OpToRel
<1> QED
  BY <1>2

\* A function on 1..n is a sequence of length n.
LEMMA FunctionIsSeq ==
  ASSUME NEW S, NEW n \in Nat, NEW f \in [1 .. n -> S]
  PROVE  f \in Seq(S) /\ Len(f) = n
BY SeqDef

\* The default row is a row.
LEMMA NeutralRowType == NeutralRow \in Row
BY NeutralAssumption DEF NeutralRow, Row

\* Growing keeps the rows and reaches frame f.
LEMMA GrownToType ==
  ASSUME NEW m \in Manager, NEW f \in Nat
  PROVE  /\ GrownTo(m, f) \in [1 .. Larger(Len(m.inputs), f + 1) -> Row]
         /\ Larger(Len(m.inputs), f + 1) \in Nat
<1>1. m.inputs \in Seq(Row) /\ Len(m.inputs) \in Nat
  BY DEF Manager
<1>2. NewestRow(m) \in Row
  BY <1>1, NeutralRowType, ElementOfSeq, EmptySeq DEF NewestRow
<1>3. \A i \in 1 .. Len(m.inputs) : m.inputs[i] \in Row
  BY <1>1, ElementOfSeq
<1> QED
  BY <1>1, <1>2, <1>3 DEF GrownTo, Larger

\* SetInput keeps a manager sound, keeps what is confirmed, and leaves a row
\* for frame f.
LEMMA SetInputSound ==
  ASSUME NEW m, SoundManager(m),
         NEW p \in Connected, NEW input \in Input, NEW f \in Nat
  PROVE  /\ SoundManager(SetInput(m, p, input, f))
         /\ Len(SetInput(m, p, input, f).inputs) = Larger(Len(m.inputs), f + 1)
<1> DEFINE grown == GrownTo(m, f)
           size  == Larger(Len(m.inputs), f + 1)
           newest == m.lastReceived[p] < f
           rows  == [i \in DOMAIN grown |->
                       IF i = f + 1 \/ (newest /\ i > f + 1)
                       THEN [grown[i] EXCEPT ![p] = input] ELSE grown[i]]
           received == IF newest THEN [m.lastReceived EXCEPT ![p] = f]
                                 ELSE m.lastReceived
<1>1. m \in Manager /\ p \in Player /\ Len(m.inputs) \in Nat
  BY ConnectedAssumption DEF SoundManager, Manager
<1>2. grown \in [1 .. size -> Row] /\ size \in Nat
  BY <1>1, GrownToType
<1>3. rows \in [1 .. size -> Row]
  BY <1>1, <1>2 DEF Row
<1>4. rows \in Seq(Row) /\ Len(rows) = size
  <2> HIDE DEF grown, size, newest, rows, received
  <2> QED BY <1>2, <1>3, FunctionIsSeq
<1>5. received \in [Player -> FrameOrNone]
  BY <1>1 DEF Manager, FrameOrNone
<1>6. SetInput(m, p, input, f)
        = [m EXCEPT !.inputs = rows, !.lastReceived = received]
  BY <1>1 DEF SetInput
<1>7. SetInput(m, p, input, f) \in Manager
  BY <1>1, <1>4, <1>5, <1>6 DEF Manager
<1>8. m.lastConfirm < size
  BY <1>1 DEF SoundManager, RowsReach, Manager, FrameOrNone, Larger
<1>9. \A q \in Player : received[q] < size
  BY <1>1 DEF SoundManager, RowsReach, Manager, FrameOrNone, Larger
<1> QED
  BY <1>1, <1>4, <1>6, <1>7, <1>8, <1>9 DEF SoundManager, RowsReach, Manager
\* Importing a packet keeps a manager sound and takes no row away.
LEMMA SetInputsSound ==
  ASSUME NEW m, SoundManager(m), NEW pkt \in InputPacket
  PROVE  /\ SoundManager(SetInputs(m, pkt))
         /\ Len(SetInputs(m, pkt).inputs) >= Len(m.inputs)
<1> DEFINE p     == pkt.player
           first == FirstUsed(m, pkt)
           newer == m.lastReceived[p] < pkt.frame
           grown == GrownTo(m, pkt.frame)
           size  == Larger(Len(m.inputs), pkt.frame + 1)
           dirty == m.isDirty \/ Mispredicted(m, pkt)
           rows  == [i \in DOMAIN grown |->
                       IF i - 1 \in first .. pkt.frame
                       THEN [grown[i] EXCEPT ![p] = PacketInput(pkt, i - 1)]
                       ELSE IF newer /\ i - 1 > pkt.frame
                       THEN [grown[i] EXCEPT ![p] = PacketInput(pkt, pkt.frame)]
                       ELSE grown[i]]
           received == [m.lastReceived EXCEPT ![p] = pkt.frame]
<1>1. /\ m \in Manager /\ Len(m.inputs) \in Nat
      /\ pkt.player \in Player /\ pkt.frame \in Nat
      /\ pkt.inputs \in Seq(Input) /\ Len(pkt.inputs) \in Nat \ {0}
  BY ConnectedAssumption, EmptySeq DEF SoundManager, Manager, InputPacket
<1>2. CASE pkt.frame < m.lastReceived[pkt.player]
  BY <1>1, <1>2 DEF SetInputs
<1>3. CASE ~(pkt.frame < m.lastReceived[pkt.player])
  <2>1. grown \in [1 .. size -> Row] /\ size \in Nat
    BY <1>1, GrownToType
  <2>2. \A f \in first .. pkt.frame : PacketInput(pkt, f) \in Input
    <3> TAKE f \in first .. pkt.frame
    <3>1. m.lastReceived[pkt.player] \in Int
      BY <1>1 DEF Manager, FrameOrNone
    <3>2. FirstFrame(pkt) \in Int /\ first \in Int /\ first >= FirstFrame(pkt)
      BY <1>1, <3>1 DEF FirstUsed, FirstFrame, Larger
    <3>3. f - FirstFrame(pkt) + 1 \in 1 .. Len(pkt.inputs)
      <4> HIDE DEF first
      <4> QED BY <1>1, <3>2 DEF FirstFrame
    <3> QED
      BY <1>1, <3>3, ElementOfSeq DEF PacketInput
  <2>3. PacketInput(pkt, pkt.frame) \in Input
    BY <1>1, ElementOfSeq DEF PacketInput, FirstFrame
  <2>4. rows \in [1 .. size -> Row]
    <3> HIDE DEF first, newer, size
    <3> QED BY <1>1, <2>1, <2>2, <2>3 DEF Row
  <2>5. rows \in Seq(Row) /\ Len(rows) = size
    <3> HIDE DEF first, newer, grown, size, rows
    <3> QED BY <2>1, <2>4, FunctionIsSeq
  <2>6. received \in [Player -> FrameOrNone]
    BY <1>1 DEF Manager, FrameOrNone
  <2>7. dirty \in BOOLEAN
    BY <1>1 DEF Manager, Mispredicted
  <2>8. SetInputs(m, pkt) = [m EXCEPT !.inputs = rows,
                               !.lastReceived = received, !.isDirty = dirty]
    BY <1>1, <1>3 DEF SetInputs
  <2>9. SetInputs(m, pkt) \in Manager
    <3> HIDE DEF rows, size, received, dirty
    <3> QED BY <1>1, <2>5, <2>6, <2>7, <2>8 DEF Manager
  <2>10. m.lastConfirm < size /\ \A q \in Player : received[q] < size
    BY <1>1 DEF SoundManager, RowsReach, Manager, FrameOrNone, Larger
  <2>11. size >= Len(m.inputs)
    BY <1>1 DEF Larger
  <2> HIDE DEF rows, size, received, dirty
  <2>12. /\ SetInputs(m, pkt).inputs = rows
         /\ SetInputs(m, pkt).lastReceived = received
         /\ SetInputs(m, pkt).lastConfirm = m.lastConfirm
    BY <1>1, <2>8 DEF Manager
  <2> QED
    BY <2>5, <2>9, <2>10, <2>11, <2>12 DEF SoundManager, RowsReach
<1> QED
  BY <1>1, <1>2, <1>3

\* Storing a confirmed row keeps a manager sound and leaves a row for its
\* frame.
LEMMA SetConfirmedSound ==
  ASSUME NEW m, SoundManager(m), NEW row \in Row, NEW f \in Nat
  PROVE  LET u == SetConfirmed(m, row, f)
         IN  /\ SoundManager(u)
             /\ u.lastConfirm = m.lastConfirm
             /\ Len(u.inputs) = Larger(Len(m.inputs), f + 1)
<1> DEFINE grown == GrownTo(m, f)
           size  == Larger(Len(m.inputs), f + 1)
           Newest(q) == m.lastReceived[q] < f
           rows  == [i \in DOMAIN grown |-> [q \in Player |->
                       IF q \in Connected /\ (i = f + 1 \/ (Newest(q) /\ i > f + 1))
                       THEN row[q] ELSE grown[i][q]]]
           received == [q \in Player |->
              IF q \in Connected /\ Newest(q) THEN f ELSE m.lastReceived[q]]
<1>1. m \in Manager /\ Len(m.inputs) \in Nat
  BY DEF SoundManager, Manager
<1>2. grown \in [1 .. size -> Row] /\ size \in Nat
  BY <1>1, GrownToType
<1>3. rows \in [1 .. size -> Row]
  BY <1>1, <1>2 DEF Row
<1>4. rows \in Seq(Row) /\ Len(rows) = size
  <2> HIDE DEF grown, size, Newest, rows
  <2> QED BY <1>2, <1>3, FunctionIsSeq
<1>5. received \in [Player -> FrameOrNone]
  BY <1>1 DEF Manager, FrameOrNone
<1>6. SetConfirmed(m, row, f)
        = [m EXCEPT !.inputs = rows, !.lastReceived = received]
  BY <1>1 DEF SetConfirmed
<1>7. m.lastConfirm < size /\ \A q \in Player : received[q] < size
  BY <1>1 DEF SoundManager, RowsReach, Manager, FrameOrNone, Larger
<1> HIDE DEF grown, size, Newest, rows, received
<1>8. SetConfirmed(m, row, f) \in Manager
  BY <1>1, <1>4, <1>5, <1>6 DEF Manager
<1>9. /\ SetConfirmed(m, row, f).inputs = rows
      /\ SetConfirmed(m, row, f).lastReceived = received
      /\ SetConfirmed(m, row, f).lastConfirm = m.lastConfirm
  BY <1>1, <1>6 DEF Manager
<1> QED
  BY <1>4, <1>7, <1>8, <1>9 DEF SoundManager, RowsReach, size

\* A tick of a frame that has a row reads rows only.
LEMMA TickType ==
  ASSUME NEW m, SoundManager(m), NEW f \in Nat, f < Len(m.inputs),
         NEW exact \in BOOLEAN
  PROVE  TickOf(m, f, exact) \in GameTick
<1>1. m.inputs \in Seq(Row) /\ Len(m.inputs) \in Nat
  BY DEF SoundManager, Manager
<1>2. RowAt(m, f) \in Row
  BY <1>1, ElementOfSeq DEF RowAt
<1>3. f > 0 => RowAt(m, f - 1) \in Row
  BY <1>1, ElementOfSeq DEF RowAt
<1> QED
  BY <1>2, <1>3, NeutralRowType DEF TickOf, GameTick

\* FirstOpen is a frame, and it has a row as soon as any frame has.
LEMMA FirstOpenType ==
  ASSUME NEW m, SoundManager(m)
  PROVE  /\ FirstOpen(m) \in Nat
         /\ Len(m.inputs) > 0 => FirstOpen(m) < Len(m.inputs)
BY DEF FirstOpen, Larger, SoundManager, RowsReach, Manager, FrameOrNone

\* Confirming a frame keeps a manager sound where the next frame has a row.
LEMMA ConfirmSound ==
  ASSUME NEW m, SoundManager(m), NEW exact \in BOOLEAN,
         FirstOpen(m) < Len(m.inputs), m.lastConfirm + 1 < Len(m.inputs)
  PROVE  LET u == ConfirmLastFrame(m, exact)
         IN  /\ SoundManager(u)
             /\ u.inputs = m.inputs
             /\ u.lastConfirm = m.lastConfirm + 1
<1> DEFINE tick == TickOf(m, FirstOpen(m), exact)
<1>1. m \in Manager
  BY DEF SoundManager
<1>2. tick \in GameTick
  BY TickType, FirstOpenType
<1> HIDE DEF tick
<1>3. Append(m.sim, tick) \in Seq(GameTick)
  BY <1>1, <1>2, AppendProperties DEF Manager
<1>4. m.lastConfirm + 1 \in FrameOrNone
  BY <1>1 DEF Manager, FrameOrNone
<1>5. ConfirmLastFrame(m, exact)
        = [m EXCEPT !.sim = Append(m.sim, tick),
                    !.lastConfirm = m.lastConfirm + 1]
  BY <1>1 DEF ConfirmLastFrame, tick
<1>6. ConfirmLastFrame(m, exact) \in Manager
  BY <1>1, <1>3, <1>4, <1>5 DEF Manager
<1>7. /\ ConfirmLastFrame(m, exact).inputs = m.inputs
      /\ ConfirmLastFrame(m, exact).lastReceived = m.lastReceived
      /\ ConfirmLastFrame(m, exact).lastConfirm = m.lastConfirm + 1
  BY <1>1, <1>5 DEF Manager
<1> QED
  BY <1>6, <1>7 DEF SoundManager, RowsReach

\* A replay up to a frame that the rows reach is a game.
LEMMA ReplayType ==
  ASSUME NEW m, SoundManager(m), NEW f \in Nat, f <= Len(m.inputs)
  PROVE  Replay(m, f) \in Seq(GameTick)
<1> DEFINE size == Larger(f - FirstOpen(m), 0)
           ticks == [i \in 1 .. size |-> TickOf(m, FirstOpen(m) + i - 1, TRUE)]
<1>1. FirstOpen(m) \in Nat /\ Len(m.inputs) \in Nat /\ m.sim \in Seq(GameTick)
  BY FirstOpenType DEF SoundManager, Manager
<1>2. size \in Nat
  BY <1>1 DEF Larger
<1>3. \A i \in 1 .. size :
        FirstOpen(m) + i - 1 \in Nat /\ FirstOpen(m) + i - 1 < Len(m.inputs)
  BY <1>1 DEF Larger
<1>4. \A i \in 1 .. size : TickOf(m, FirstOpen(m) + i - 1, TRUE) \in GameTick
  BY <1>3, TickType
<1>5. ticks \in [1 .. size -> GameTick]
  BY <1>4
<1>6. ticks \in Seq(GameTick)
  <2> HIDE DEF size, ticks
  <2> QED BY <1>2, <1>5, FunctionIsSeq
<1>7. Replay(m, f) = m.sim \o ticks
  BY DEF Replay
<1> HIDE DEF ticks
<1> QED
  BY <1>1, <1>6, <1>7, ConcatProperties

\* The inputs that are sent for a frame with a row make a packet.
LEMMA SentInputsType ==
  ASSUME NEW m, SoundManager(m), NEW p \in Connected, NEW f \in Nat,
         f < Len(m.inputs)
  PROVE  SentInputs(m, p, f) \in Seq(Input) \ {<< >>}
<1> DEFINE size == IF IsTruncated(m, f) THEN MaxPlayerInputNmb ELSE WindowSize(m, f)
<1>1. /\ FirstOpen(m) \in Nat /\ FirstOpen(m) < Len(m.inputs)
      /\ Len(m.inputs) \in Nat /\ m.inputs \in Seq(Row) /\ p \in Player
  BY FirstOpenType, ConnectedAssumption DEF SoundManager, Manager
<1>2. size \in Nat /\ size > 0
  BY <1>1, WindowAssumption DEF WindowSize, Larger
<1>3. \A i \in 1 .. size : WindowFirst(m, f) + i \in 1 .. Len(m.inputs)
  BY <1>1, WindowAssumption DEF WindowSize, WindowFirst, IsTruncated, Larger
<1>4. \A i \in 1 .. size : m.inputs[WindowFirst(m, f) + i][p] \in Input
  <2> TAKE i \in 1 .. size
  <2>1. m.inputs[WindowFirst(m, f) + i] \in Row
    BY <1>1, <1>3, ElementOfSeq
  <2> QED BY <1>1, <2>1 DEF Row
<1>5. SentInputs(m, p, f) \in [1 .. size -> Input]
  BY <1>4 DEF SentInputs
<1> HIDE DEF size
<1>6. SentInputs(m, p, f) \in Seq(Input) /\ Len(SentInputs(m, p, f)) = size
  BY <1>2, <1>5, FunctionIsSeq
<1> QED
  BY <1>2, <1>6, EmptySeq
-----------------------------------------------------------------------------
(* What the operations change. *)

\* Growing changes no row that is there.
LEMMA GrownCell ==
  ASSUME NEW m \in Manager, NEW f \in Nat, NEW i \in 1 .. Len(m.inputs)
  PROVE  i \in DOMAIN GrownTo(m, f) /\ GrownTo(m, f)[i] = m.inputs[i]
<1>1. Len(m.inputs) \in Nat
  BY DEF Manager
<1> QED
  BY <1>1 DEF GrownTo, Larger

\* SetInput writes the input and moves the last received frame forward only.
LEMMA SetInputEffect ==
  ASSUME NEW m, SoundManager(m),
         NEW p \in Connected, NEW input \in Input, NEW f \in Nat
  PROVE  LET u == SetInput(m, p, input, f)
         IN  /\ u.inputs[f + 1][p] = input
             /\ u.lastReceived
                  = [m.lastReceived EXCEPT ![p] = Larger(m.lastReceived[p], f)]
             /\ u.lastConfirm = m.lastConfirm
<1> DEFINE grown == GrownTo(m, f)
           size  == Larger(Len(m.inputs), f + 1)
           newest == m.lastReceived[p] < f
           rows  == [i \in DOMAIN grown |->
                       IF i = f + 1 \/ (newest /\ i > f + 1)
                       THEN [grown[i] EXCEPT ![p] = input] ELSE grown[i]]
           received == IF newest THEN [m.lastReceived EXCEPT ![p] = f]
                                 ELSE m.lastReceived
<1>1. /\ m \in Manager /\ p \in Player /\ Len(m.inputs) \in Nat
      /\ m.lastReceived \in [Player -> FrameOrNone]
  BY ConnectedAssumption DEF SoundManager, Manager
<1>2. grown \in [1 .. size -> Row] /\ f + 1 \in 1 .. size
  <2>1. grown \in [1 .. size -> Row]
    BY <1>1, GrownToType
  <2>2. f + 1 \in 1 .. size
    BY <1>1 DEF Larger
  <2> QED BY <2>1, <2>2
<1>3. rows[f + 1][p] = input
  <2> HIDE DEF grown, size, newest
  <2> QED BY <1>1, <1>2 DEF Row
<1>4. received = [m.lastReceived EXCEPT ![p] = Larger(m.lastReceived[p], f)]
  BY <1>1 DEF Larger, FrameOrNone
<1>5. SetInput(m, p, input, f)
        = [m EXCEPT !.inputs = rows, !.lastReceived = received]
  BY <1>1 DEF SetInput
<1> HIDE DEF rows, received
<1>6. /\ SetInput(m, p, input, f).inputs = rows
      /\ SetInput(m, p, input, f).lastReceived = received
      /\ SetInput(m, p, input, f).lastConfirm = m.lastConfirm
  BY <1>1, <1>5 DEF Manager
<1> QED
  BY <1>3, <1>4, <1>6

\* Importing a packet touches the inputs of its player only.
LEMMA SetInputsEffect ==
  ASSUME NEW m, SoundManager(m), NEW pkt \in InputPacket
  PROVE  LET u == SetInputs(m, pkt)
         IN  /\ u.lastConfirm = m.lastConfirm
             /\ u.lastReceived = [m.lastReceived EXCEPT ![pkt.player]
                                    = Larger(m.lastReceived[pkt.player], pkt.frame)]
             /\ \A q \in Player \ {pkt.player} : \A i \in 1 .. Len(m.inputs) :
                  u.inputs[i][q] = m.inputs[i][q]
<1> DEFINE p     == pkt.player
           first == FirstUsed(m, pkt)
           newer == m.lastReceived[p] < pkt.frame
           grown == GrownTo(m, pkt.frame)
           dirty == m.isDirty \/ Mispredicted(m, pkt)
           rows  == [i \in DOMAIN grown |->
                       IF i - 1 \in first .. pkt.frame
                       THEN [grown[i] EXCEPT ![p] = PacketInput(pkt, i - 1)]
                       ELSE IF newer /\ i - 1 > pkt.frame
                       THEN [grown[i] EXCEPT ![p] = PacketInput(pkt, pkt.frame)]
                       ELSE grown[i]]
           received == [m.lastReceived EXCEPT ![p] = pkt.frame]
<1>1. /\ m \in Manager /\ m.inputs \in Seq(Row) /\ Len(m.inputs) \in Nat
      /\ p \in Player /\ pkt.frame \in Nat
      /\ m.lastReceived \in [Player -> FrameOrNone]
      /\ m.lastReceived[p] \in Int
  BY ConnectedAssumption DEF SoundManager, Manager, InputPacket, FrameOrNone
<1>2. CASE pkt.frame < m.lastReceived[p]
  BY <1>1, <1>2 DEF SetInputs, Larger
<1>3. CASE ~(pkt.frame < m.lastReceived[p])
  <2>1. SetInputs(m, pkt) = [m EXCEPT !.inputs = rows,
                               !.lastReceived = received, !.isDirty = dirty]
    BY <1>1, <1>3 DEF SetInputs
  <2>2. ASSUME NEW q \in Player \ {p}, NEW i \in 1 .. Len(m.inputs)
        PROVE  rows[i][q] = m.inputs[i][q]
    <3>1. i \in DOMAIN grown /\ grown[i] = m.inputs[i]
      BY <1>1, GrownCell
    <3>2. m.inputs[i] \in Row
      BY <1>1, ElementOfSeq
    <3> HIDE DEF first, newer, grown
    <3> QED BY <3>1, <3>2 DEF Row
  <2>3. received = [m.lastReceived EXCEPT ![p] = Larger(m.lastReceived[p], pkt.frame)]
    BY <1>1, <1>3 DEF Larger
  <2> HIDE DEF rows, received, dirty
  <2>4. /\ SetInputs(m, pkt).inputs = rows
        /\ SetInputs(m, pkt).lastReceived = received
        /\ SetInputs(m, pkt).lastConfirm = m.lastConfirm
    BY <1>1, <2>1 DEF Manager
  <2> QED
    BY <2>2, <2>3, <2>4
<1> QED
  BY <1>1, <1>2, <1>3

\* Storing a confirmed row changes no input already received, but that of
\* the confirmed frame.
LEMMA SetConfirmedEffect ==
  ASSUME NEW m, SoundManager(m), NEW row \in Row, NEW f \in Nat
  PROVE  LET u == SetConfirmed(m, row, f)
         IN  /\ u.lastReceived = [q \in Player |->
                  IF q \in Connected THEN Larger(m.lastReceived[q], f)
                                     ELSE m.lastReceived[q]]
             /\ \A q \in Player : \A i \in 1 .. Len(m.inputs) :
                  m.lastReceived[q] >= f /\ i # f + 1 =>
                    u.inputs[i][q] = m.inputs[i][q]
<1> DEFINE grown == GrownTo(m, f)
           Newest(q) == m.lastReceived[q] < f
           rows  == [i \in DOMAIN grown |-> [q \in Player |->
                       IF q \in Connected /\ (i = f + 1 \/ (Newest(q) /\ i > f + 1))
                       THEN row[q] ELSE grown[i][q]]]
           received == [q \in Player |->
              IF q \in Connected /\ Newest(q) THEN f ELSE m.lastReceived[q]]
<1>1. /\ m \in Manager /\ m.lastReceived \in [Player -> FrameOrNone]
      /\ \A q \in Player : m.lastReceived[q] \in Int
  BY DEF SoundManager, Manager, FrameOrNone
<1>2. SetConfirmed(m, row, f)
        = [m EXCEPT !.inputs = rows, !.lastReceived = received]
  BY <1>1 DEF SetConfirmed
<1>3. received = [q \in Player |->
                    IF q \in Connected THEN Larger(m.lastReceived[q], f)
                                       ELSE m.lastReceived[q]]
  BY <1>1 DEF Larger
<1>4. ASSUME NEW q \in Player, NEW i \in 1 .. Len(m.inputs),
             m.lastReceived[q] >= f, i # f + 1
      PROVE  rows[i][q] = m.inputs[i][q]
  <2>1. i \in DOMAIN grown /\ grown[i] = m.inputs[i]
    BY <1>1, GrownCell
  <2>2. ~Newest(q)
    BY <1>1, <1>4
  <2> HIDE DEF grown, Newest
  <2> QED BY <1>4, <2>1, <2>2
<1> HIDE DEF rows, received
<1>5. /\ SetConfirmed(m, row, f).inputs = rows
      /\ SetConfirmed(m, row, f).lastReceived = received
  BY <1>1, <1>2 DEF Manager
<1> QED
  BY <1>3, <1>4, <1>5

\* Confirming a frame receives none.
LEMMA ConfirmEffect ==
  ASSUME NEW m \in Manager, NEW exact
  PROVE  /\ ConfirmLastFrame(m, exact).inputs = m.inputs
         /\ ConfirmLastFrame(m, exact).lastReceived = m.lastReceived
         /\ ConfirmLastFrame(m, exact).lastConfirm = m.lastConfirm + 1
BY DEF ConfirmLastFrame, Manager

-----------------------------------------------------------------------------
(* When the rows of a RollbackManager tell the truth: against a history h  *)
(* of the inputs that the players really pressed, which rows of a manager  *)
(* hold them, which only predict them, and how each operation keeps that.  *)

History == [Connected -> Seq(Input)]

\* The row that the players pressed for frame f.
HistoryRow(h, f) ==
  [p \in Player |-> IF p \in Connected THEN h[p][f + 1] ELSE Neutral]

\* g has everything that h has, and perhaps more.
Extends(g, h) ==
  \A p \in Connected : /\ Len(h[p]) <= Len(g[p])
                       /\ \A i \in 1 .. Len(h[p]) : g[p][i] = h[p][i]

\* The rows up to frame last hold what player p pressed.
TrueTo(m, h, p, last) ==
  \A f \in 0 .. last : m.inputs[f + 1][p] = h[p][f + 1]

\* Everything received of player p is there, with no frame left out.
Whole(m, h, p) == TrueTo(m, h, p, m.lastReceived[p])

\* The input that the manager takes player p to repeat after the last one it
\* has received; the rows it does so in; the cell of a row it would grow by.
Predicted(m, p) ==
  IF m.lastReceived[p] < 0 THEN Neutral ELSE m.inputs[m.lastReceived[p] + 1][p]
Replicates(m, p) ==
  \A f \in m.lastReceived[p] + 1 .. Len(m.inputs) - 1 :
    m.inputs[f + 1][p] = Predicted(m, p)
GrownAt(m, i, p) ==
  IF i <= Len(m.inputs) THEN m.inputs[i][p] ELSE NewestRow(m)[p]

\* What every manager knows of player p: all its confirmed inputs and the
\* newest one received, which it repeats from there on.
PlayerTruth(m, h, p) ==
  /\ m.lastConfirm <= m.lastReceived[p]
  /\ m.lastReceived[p] < Len(h[p])
  /\ TrueTo(m, h, p, m.lastConfirm)
  /\ m.lastReceived[p] >= 0 => Predicted(m, p) = h[p][m.lastReceived[p] + 1]
  /\ Replicates(m, p)

UnusedNeutral(m) ==
  \A i \in 1 .. Len(m.inputs) : \A q \in Player \ Connected :
    m.inputs[i][q] = Neutral

RowsTruth(m, h) == UnusedNeutral(m) /\ \A p \in Connected : PlayerTruth(m, h, p)

\* The confirmed game was ticked on what was pressed: frame 0, and then each
\* frame before the last confirmed one.
SimTruth(m, h) ==
  /\ Len(m.sim) = m.lastConfirm + 1
  /\ \A i \in 1 .. m.lastConfirm + 1 :
       LET f == Larger(i - 2, 0)
       IN  /\ m.sim[i].prev = IF f > 0 THEN HistoryRow(h, f - 1) ELSE NeutralRow
           /\ m.sim[i].now = HistoryRow(h, f)

-----------------------------------------------------------------------------
(* The shape of a manager, and of the rows that an operation writes.        *)

LEMMA ManagerShape ==
  ASSUME NEW m, SoundManager(m)
  PROVE  /\ m \in Manager /\ m.inputs \in Seq(Row) /\ Len(m.inputs) \in Nat
         /\ DOMAIN m.inputs = 1 .. Len(m.inputs)
         /\ \A i \in 1 .. Len(m.inputs) : m.inputs[i] \in Row
         /\ m.lastConfirm \in FrameOrNone /\ m.lastConfirm \in Int
         /\ m.lastConfirm >= -1 /\ m.lastConfirm < Len(m.inputs)
         /\ m.sim \in Seq(GameTick) /\ m.isDirty \in BOOLEAN
         /\ m.lastReceived \in [Player -> FrameOrNone]
         /\ \A p \in Player : /\ m.lastReceived[p] \in Int
                              /\ m.lastReceived[p] >= -1
                              /\ m.lastReceived[p] < Len(m.inputs)
<1>1. m \in Manager /\ RowsReach(m)
  BY DEF SoundManager
<1>2. /\ m.inputs \in Seq(Row) /\ m.lastConfirm \in FrameOrNone
      /\ m.sim \in Seq(GameTick) /\ m.isDirty \in BOOLEAN
      /\ m.lastReceived \in [Player -> FrameOrNone]
  BY <1>1 DEF Manager
<1>3. /\ Len(m.inputs) \in Nat /\ DOMAIN m.inputs = 1 .. Len(m.inputs)
      /\ \A i \in 1 .. Len(m.inputs) : m.inputs[i] \in Row
  BY <1>2, LenProperties, ElementOfSeq
<1> QED
  BY <1>1, <1>2, <1>3 DEF RowsReach, FrameOrNone

\* The cells of the grown rows.
LEMMA GrownCells ==
  ASSUME NEW m, SoundManager(m), NEW f \in Nat
  PROVE  LET grown == GrownTo(m, f)
         IN  /\ DOMAIN grown = 1 .. Larger(Len(m.inputs), f + 1)
             /\ \A i \in DOMAIN grown : \A q \in Player :
                  grown[i][q] = GrownAt(m, i, q)
             /\ \A i \in DOMAIN grown : grown[i] \in Row
<1>1. m \in Manager /\ Len(m.inputs) \in Nat
  BY ManagerShape
<1>2. /\ GrownTo(m, f) \in [1 .. Larger(Len(m.inputs), f + 1) -> Row]
      /\ Larger(Len(m.inputs), f + 1) \in Nat
  BY <1>1, GrownToType
<1>3. \A i \in 1 .. Larger(Len(m.inputs), f + 1) : \A q \in Player :
        GrownTo(m, f)[i][q] = GrownAt(m, i, q)
  BY DEF GrownTo, GrownAt
<1> QED
  BY <1>2, <1>3

\* SetInput, cell by cell.
LEMMA SetInputCells ==
  ASSUME NEW m, SoundManager(m),
         NEW p \in Connected, NEW input \in Input, NEW f \in Nat
  PROVE  LET u == SetInput(m, p, input, f)
         IN  /\ \A i \in 1 .. Larger(Len(m.inputs), f + 1) : \A q \in Player :
                  u.inputs[i][q] =
                    IF q = p /\ (i = f + 1 \/ (m.lastReceived[p] < f /\ i > f + 1))
                    THEN input ELSE GrownAt(m, i, q)
             /\ u.sim = m.sim /\ u.isDirty = m.isDirty
<1> DEFINE grown == GrownTo(m, f)
           newest == m.lastReceived[p] < f
           rows  == [i \in DOMAIN grown |->
                       IF i = f + 1 \/ (newest /\ i > f + 1)
                       THEN [grown[i] EXCEPT ![p] = input] ELSE grown[i]]
           received == IF newest THEN [m.lastReceived EXCEPT ![p] = f]
                                 ELSE m.lastReceived
<1>1. m \in Manager /\ p \in Player
  BY ManagerShape, ConnectedAssumption
<1>2. /\ DOMAIN grown = 1 .. Larger(Len(m.inputs), f + 1)
      /\ \A i \in DOMAIN grown : \A q \in Player : grown[i][q] = GrownAt(m, i, q)
      /\ \A i \in DOMAIN grown : grown[i] \in Row
  BY GrownCells
<1>3. SetInput(m, p, input, f)
        = [m EXCEPT !.inputs = rows, !.lastReceived = received]
  BY <1>1 DEF SetInput
<1>4. ASSUME NEW i \in 1 .. Larger(Len(m.inputs), f + 1), NEW q \in Player
      PROVE  rows[i][q] =
               IF q = p /\ (i = f + 1 \/ (newest /\ i > f + 1))
               THEN input ELSE GrownAt(m, i, q)
  <2>1. i \in DOMAIN grown
    BY <1>2
  <2> HIDE DEF grown, newest
  <2> QED
    BY <1>2, <2>1 DEF Row
<1> HIDE DEF rows, received
<1>5. /\ SetInput(m, p, input, f).inputs = rows
      /\ SetInput(m, p, input, f).sim = m.sim
      /\ SetInput(m, p, input, f).isDirty = m.isDirty
  BY <1>1, <1>3 DEF Manager
<1> QED
  BY <1>4, <1>5

\* SetInputs, cell by cell, for a packet that it does not ignore.
LEMMA SetInputsCells ==
  ASSUME NEW m, SoundManager(m), NEW pkt \in InputPacket,
         pkt.frame >= m.lastReceived[pkt.player]
  PROVE  LET u == SetInputs(m, pkt)
             p == pkt.player
         IN  /\ Len(u.inputs) = Larger(Len(m.inputs), pkt.frame + 1)
             /\ \A i \in 1 .. Larger(Len(m.inputs), pkt.frame + 1) :
                  \A q \in Player :
                    u.inputs[i][q] =
                      IF q = p /\ i - 1 \in FirstUsed(m, pkt) .. pkt.frame
                      THEN PacketInput(pkt, i - 1)
                      ELSE IF q = p /\ m.lastReceived[p] < pkt.frame
                                    /\ i - 1 > pkt.frame
                      THEN PacketInput(pkt, pkt.frame)
                      ELSE GrownAt(m, i, q)
             /\ u.sim = m.sim
             /\ u.isDirty = (m.isDirty \/ Mispredicted(m, pkt))
<1> DEFINE p     == pkt.player
           first == FirstUsed(m, pkt)
           newer == m.lastReceived[p] < pkt.frame
           size  == Larger(Len(m.inputs), pkt.frame + 1)
           grown == GrownTo(m, pkt.frame)
           dirty == m.isDirty \/ Mispredicted(m, pkt)
           rows  == [i \in DOMAIN grown |->
                       IF i - 1 \in first .. pkt.frame
                       THEN [grown[i] EXCEPT ![p] = PacketInput(pkt, i - 1)]
                       ELSE IF newer /\ i - 1 > pkt.frame
                       THEN [grown[i] EXCEPT ![p] = PacketInput(pkt, pkt.frame)]
                       ELSE grown[i]]
           received == [m.lastReceived EXCEPT ![p] = pkt.frame]
<1>1. /\ m \in Manager /\ p \in Player /\ pkt.frame \in Nat
      /\ m.lastReceived[p] \in Int /\ Len(m.inputs) \in Nat
  BY ManagerShape, ConnectedAssumption DEF InputPacket
<1>2. /\ DOMAIN grown = 1 .. size
      /\ \A i \in DOMAIN grown : \A q \in Player : grown[i][q] = GrownAt(m, i, q)
      /\ \A i \in DOMAIN grown : grown[i] \in Row
  BY <1>1, GrownCells
<1>3. SetInputs(m, pkt) = [m EXCEPT !.inputs = rows,
                             !.lastReceived = received, !.isDirty = dirty]
  BY <1>1 DEF SetInputs
<1>4. ASSUME NEW i \in 1 .. size, NEW q \in Player
      PROVE  rows[i][q] =
               IF q = p /\ i - 1 \in first .. pkt.frame
               THEN PacketInput(pkt, i - 1)
               ELSE IF q = p /\ newer /\ i - 1 > pkt.frame
               THEN PacketInput(pkt, pkt.frame)
               ELSE GrownAt(m, i, q)
  <2>1. i \in DOMAIN grown
    BY <1>2
  <2> HIDE DEF grown, newer, first
  <2> QED
    BY <1>2, <2>1 DEF Row
<1>5. DOMAIN rows = 1 .. size
  BY <1>2
<1> HIDE DEF rows, received, dirty, grown
<1>6. /\ SetInputs(m, pkt).inputs = rows /\ SetInputs(m, pkt).sim = m.sim
      /\ SetInputs(m, pkt).isDirty = dirty
  BY <1>1, <1>3 DEF Manager
<1>7. Len(rows) = size
  <2>1. SoundManager(SetInputs(m, pkt))
    BY SetInputsSound
  <2>2. rows \in Seq(Row)
    BY <1>6, <2>1, ManagerShape
  <2>3. DOMAIN rows = 1 .. Len(rows) /\ Len(rows) \in Nat
    BY <2>2, LenProperties
  <2>4. size \in Nat
    BY <1>1 DEF Larger
  <2> HIDE DEF size
  <2> QED
    BY <1>5, <2>3, <2>4
<1> QED
  BY <1>4, <1>6, <1>7 DEF dirty

\* SetConfirmed, cell by cell.
LEMMA SetConfirmedCells ==
  ASSUME NEW m, SoundManager(m), NEW row \in Row, NEW f \in Nat
  PROVE  LET u == SetConfirmed(m, row, f)
         IN  /\ \A i \in 1 .. Larger(Len(m.inputs), f + 1) : \A q \in Player :
                  u.inputs[i][q] =
                    IF /\ q \in Connected
                       /\ i = f + 1 \/ (m.lastReceived[q] < f /\ i > f + 1)
                    THEN row[q] ELSE GrownAt(m, i, q)
             /\ \A q \in Connected : u.lastReceived[q] = Larger(m.lastReceived[q], f)
             /\ u.sim = m.sim /\ u.isDirty = m.isDirty
<1> DEFINE grown == GrownTo(m, f)
           Newest(q) == m.lastReceived[q] < f
           rows  == [i \in DOMAIN grown |-> [q \in Player |->
                       IF q \in Connected /\ (i = f + 1 \/ (Newest(q) /\ i > f + 1))
                       THEN row[q] ELSE grown[i][q]]]
           received == [q \in Player |->
              IF q \in Connected /\ Newest(q) THEN f ELSE m.lastReceived[q]]
<1>1. m \in Manager
  BY ManagerShape
<1>2. /\ DOMAIN grown = 1 .. Larger(Len(m.inputs), f + 1)
      /\ \A i \in DOMAIN grown : \A q \in Player : grown[i][q] = GrownAt(m, i, q)
  BY GrownCells
<1>3. SetConfirmed(m, row, f)
        = [m EXCEPT !.inputs = rows, !.lastReceived = received]
  BY <1>1 DEF SetConfirmed
<1>4. ASSUME NEW i \in 1 .. Larger(Len(m.inputs), f + 1), NEW q \in Player
      PROVE  rows[i][q] =
               IF q \in Connected /\ (i = f + 1 \/ (Newest(q) /\ i > f + 1))
               THEN row[q] ELSE GrownAt(m, i, q)
  <2>1. i \in DOMAIN grown
    BY <1>2
  <2> HIDE DEF grown, Newest
  <2> QED
    BY <1>2, <2>1
<1>6. \A q \in Connected : received[q] = Larger(m.lastReceived[q], f)
  BY ManagerShape, ConnectedAssumption DEF Larger
<1> HIDE DEF rows, received
<1>5. /\ SetConfirmed(m, row, f).inputs = rows
      /\ SetConfirmed(m, row, f).lastReceived = received
      /\ SetConfirmed(m, row, f).sim = m.sim
      /\ SetConfirmed(m, row, f).isDirty = m.isDirty
  BY <1>1, <1>3 DEF Manager
<1> QED
  BY <1>4, <1>5, <1>6

-----------------------------------------------------------------------------
(* The truth of a manager, and what keeps it.                               *)

LEMMA GrownAtRepeats ==
  ASSUME NEW m, SoundManager(m), NEW p \in Player, Replicates(m, p),
         NEW i \in Nat, i > m.lastReceived[p] + 1
  PROVE  GrownAt(m, i, p) = Predicted(m, p)
<1>1. /\ Len(m.inputs) \in Nat /\ m.lastReceived[p] \in Int
      /\ m.lastReceived[p] >= -1 /\ m.lastReceived[p] < Len(m.inputs)
      /\ m.inputs \in Seq(Row)
  BY ManagerShape
<1>2. CASE i <= Len(m.inputs)
  <2>1. i - 1 \in m.lastReceived[p] + 1 .. Len(m.inputs) - 1 /\ (i - 1) + 1 = i
    BY <1>1, <1>2
  <2> QED
    BY <1>2, <2>1 DEF Replicates, GrownAt
<1>3. CASE i > Len(m.inputs) /\ m.inputs = << >>
  <2>1. m.lastReceived[p] < 0
    BY <1>1, <1>3, EmptySeq
  <2> QED
    BY <1>1, <1>3, <2>1 DEF GrownAt, NewestRow, NeutralRow, Predicted
<1>4. CASE i > Len(m.inputs) /\ m.inputs # << >>
  <2> DEFINE s == Len(m.inputs)
  <2>1. s \in Nat \ {0}
    BY <1>1, <1>4, EmptySeq
  <2>2. GrownAt(m, i, p) = m.inputs[s][p]
    BY <1>1, <1>4 DEF GrownAt, NewestRow
  <2>3. CASE m.lastReceived[p] + 1 = s
    BY <1>1, <2>1, <2>2, <2>3 DEF Predicted
  <2>4. CASE m.lastReceived[p] + 1 # s
    <3>1. s - 1 \in m.lastReceived[p] + 1 .. s - 1 /\ (s - 1) + 1 = s
      BY <1>1, <2>1, <2>4
    <3> QED
      BY <2>2, <3>1 DEF Replicates
  <2> QED
    BY <2>3, <2>4
<1> QED
  BY <1>1, <1>2, <1>3, <1>4

LEMMA GrownAtUnused ==
  ASSUME NEW m, SoundManager(m), UnusedNeutral(m),
         NEW p \in Player \ Connected, NEW i \in Nat \ {0}
  PROVE  GrownAt(m, i, p) = Neutral
<1>1. Len(m.inputs) \in Nat /\ m.inputs \in Seq(Row)
  BY ManagerShape
<1>2. CASE i <= Len(m.inputs)
  BY <1>1, <1>2 DEF GrownAt, UnusedNeutral
<1>3. CASE i > Len(m.inputs) /\ m.inputs = << >>
  BY <1>1, <1>3 DEF GrownAt, NewestRow, NeutralRow
<1>4. CASE i > Len(m.inputs) /\ m.inputs # << >>
  <2>1. Len(m.inputs) \in 1 .. Len(m.inputs)
    BY <1>1, <1>4, EmptySeq
  <2> QED
    BY <1>1, <1>4, <2>1 DEF GrownAt, NewestRow, UnusedNeutral
<1> QED
  BY <1>1, <1>2, <1>3, <1>4

\* A player of whom an operation writes nothing: its column only grows.
LEMMA ColumnKept ==
  ASSUME NEW m, SoundManager(m), NEW u, SoundManager(u), NEW h,
         NEW p \in Connected, PlayerTruth(m, h, p),
         u.lastConfirm = m.lastConfirm, u.lastReceived[p] = m.lastReceived[p],
         Len(u.inputs) >= Len(m.inputs),
         \A i \in 1 .. Len(u.inputs) : u.inputs[i][p] = GrownAt(m, i, p)
  PROVE  PlayerTruth(u, h, p) /\ (Whole(m, h, p) => Whole(u, h, p))
<1>1. /\ p \in Player /\ m.lastReceived[p] \in Int /\ m.lastReceived[p] >= -1
      /\ m.lastReceived[p] < Len(m.inputs) /\ Len(m.inputs) \in Nat
      /\ m.lastConfirm \in Int /\ m.lastConfirm < Len(m.inputs)
      /\ Len(u.inputs) \in Nat
  BY ManagerShape, ConnectedAssumption
<1>2. \A i \in 1 .. Len(m.inputs) : u.inputs[i][p] = m.inputs[i][p]
  BY <1>1 DEF GrownAt
<1>3. \A last \in Int : last < Len(m.inputs) /\ TrueTo(m, h, p, last)
                          => TrueTo(u, h, p, last)
  BY <1>1, <1>2 DEF TrueTo
<1>4. Predicted(u, p) = Predicted(m, p)
  <2>1. m.lastReceived[p] >= 0 => m.lastReceived[p] + 1 \in 1 .. Len(m.inputs)
    BY <1>1
  <2> QED
    BY <1>1, <1>2, <2>1 DEF Predicted
<1>5. Replicates(u, p)
  <2>1. ASSUME NEW f \in m.lastReceived[p] + 1 .. Len(u.inputs) - 1
        PROVE  u.inputs[f + 1][p] = Predicted(m, p)
    <3>1. /\ f + 1 \in 1 .. Len(u.inputs) /\ f + 1 \in Nat
          /\ f + 1 > m.lastReceived[p] + 1
      BY <1>1
    <3> QED
      BY <1>1, <3>1, GrownAtRepeats DEF PlayerTruth
  <2> QED
    BY <1>4, <2>1 DEF Replicates
<1> QED
  BY <1>1, <1>3, <1>4, <1>5 DEF PlayerTruth, Whole

LEMMA UnusedKept ==
  ASSUME NEW m, SoundManager(m), UnusedNeutral(m), NEW u,
         \A i \in 1 .. Len(u.inputs) : \A q \in Player \ Connected :
           u.inputs[i][q] = GrownAt(m, i, q),
         Len(u.inputs) \in Nat
  PROVE  UnusedNeutral(u)
<1>1. \A i \in 1 .. Len(u.inputs) : i \in Nat \ {0}
  OBVIOUS
<1> QED
  BY <1>1, GrownAtUnused DEF UnusedNeutral

\* A row that tells the truth of every player is the row that was pressed.
LEMMA TrueRow ==
  ASSUME NEW m, SoundManager(m), UnusedNeutral(m), NEW h,
         NEW f \in Nat, f < Len(m.inputs),
         \A p \in Connected : m.inputs[f + 1][p] = h[p][f + 1]
  PROVE  m.inputs[f + 1] = HistoryRow(h, f)
<1>1. f + 1 \in 1 .. Len(m.inputs)
  BY ManagerShape
<1>2. m.inputs[f + 1] \in Row
  BY <1>1, ManagerShape
<1>3. \A p \in Player : m.inputs[f + 1][p]
                          = IF p \in Connected THEN h[p][f + 1] ELSE Neutral
  BY <1>1 DEF UnusedNeutral
<1> QED
  BY <1>2, <1>3 DEF Row, HistoryRow

\* Rows that were true stay true when more is pressed.
LEMMA HistoryGrows ==
  ASSUME NEW m, SoundManager(m), NEW h \in History, NEW g \in History,
         Extends(g, h), RowsTruth(m, h)
  PROVE  /\ RowsTruth(m, g)
         /\ \A p \in Connected : Whole(m, h, p) => Whole(m, g, p)
         /\ SimTruth(m, h) => SimTruth(m, g)
<1>1. ASSUME NEW p \in Connected
      PROVE  /\ Len(h[p]) \in Nat /\ Len(g[p]) \in Nat /\ Len(h[p]) <= Len(g[p])
             /\ \A f \in Nat : f < Len(h[p]) => g[p][f + 1] = h[p][f + 1]
             /\ PlayerTruth(m, h, p)
  <2>1. h[p] \in Seq(Input) /\ g[p] \in Seq(Input)
    BY DEF History
  <2>2. Len(h[p]) \in Nat /\ Len(g[p]) \in Nat
    BY <2>1, LenProperties
  <2> QED
    BY <2>2 DEF Extends, RowsTruth
<1>2. ASSUME NEW p \in Connected
      PROVE  /\ m.lastReceived[p] \in Int /\ m.lastReceived[p] >= -1
             /\ m.lastConfirm \in Int
  BY ManagerShape, ConnectedAssumption
<1>3. \A p \in Connected : PlayerTruth(m, g, p)
  BY <1>1, <1>2 DEF PlayerTruth, TrueTo
<1>4. \A p \in Connected : Whole(m, h, p) => Whole(m, g, p)
  BY <1>1, <1>2 DEF PlayerTruth, TrueTo, Whole
<1>5. ASSUME NEW f \in Nat, f = 0 \/ f < m.lastConfirm, m.lastConfirm >= 0
      PROVE  HistoryRow(g, f) = HistoryRow(h, f)
  <2>1. \A p \in Connected : g[p][f + 1] = h[p][f + 1]
    BY <1>1, <1>2, <1>5 DEF PlayerTruth
  <2> QED
    BY <2>1 DEF HistoryRow
<1>6. ASSUME SimTruth(m, h) PROVE SimTruth(m, g)
  <2>1. ASSUME NEW i \in 1 .. m.lastConfirm + 1
        PROVE LET f == Larger(i - 2, 0)
              IN  /\ m.sim[i].prev = IF f > 0 THEN HistoryRow(g, f - 1)
                                              ELSE NeutralRow
                  /\ m.sim[i].now = HistoryRow(g, f)
    <3> DEFINE f == Larger(i - 2, 0)
    <3>1. /\ f \in Nat /\ (f = 0 \/ f < m.lastConfirm) /\ m.lastConfirm >= 0
          /\ f > 0 => f - 1 \in Nat /\ f - 1 < m.lastConfirm
      BY <1>2, ConnectedAssumption DEF Larger
    <3>2. /\ m.sim[i].prev = IF f > 0 THEN HistoryRow(h, f - 1) ELSE NeutralRow
          /\ m.sim[i].now = HistoryRow(h, f)
      BY <1>6 DEF SimTruth
    <3>3. /\ HistoryRow(g, f) = HistoryRow(h, f)
          /\ f > 0 => HistoryRow(g, f - 1) = HistoryRow(h, f - 1)
      <4> HIDE DEF f
      <4> QED BY <1>5, <3>1
    <3> QED
      BY <3>2, <3>3
  <2> QED
    BY <1>6, <2>1 DEF SimTruth
<1> QED
  BY <1>3, <1>4, <1>6 DEF RowsTruth

-----------------------------------------------------------------------------
(* The truth of each operation.                                             *)

\* Storing the input that player n has just pressed.
LEMMA SetInputTruth ==
  ASSUME NEW m, SoundManager(m), NEW h \in History, RowsTruth(m, h),
         NEW n \in Connected, Whole(m, h, n),
         NEW c \in Nat, m.lastReceived[n] = c - 1, c < Len(h[n])
  PROVE  LET u == SetInput(m, n, h[n][c + 1], c)
         IN  /\ RowsTruth(u, h) /\ u.sim = m.sim /\ u.isDirty = m.isDirty
             /\ u.lastReceived[n] = c /\ u.lastConfirm = m.lastConfirm
             /\ \A p \in Connected : Whole(m, h, p) => Whole(u, h, p)
             /\ \A i \in 1 .. c : u.inputs[i] = m.inputs[i]
<1> DEFINE input == h[n][c + 1]
           u     == SetInput(m, n, input, c)
           size  == Larger(Len(m.inputs), c + 1)
<1>1. input \in Input /\ n \in Player /\ Len(h[n]) \in Nat
  <2>1. h[n] \in Seq(Input)
    BY DEF History
  <2>2. Len(h[n]) \in Nat
    BY <2>1, LenProperties
  <2>3. c + 1 \in 1 .. Len(h[n])
    BY <2>2
  <2> QED
    BY <2>1, <2>2, <2>3, ElementOfSeq, ConnectedAssumption
<1> HIDE DEF input
<1>2. /\ SoundManager(u) /\ Len(u.inputs) = size
      /\ u.lastReceived = [m.lastReceived EXCEPT ![n] = Larger(m.lastReceived[n], c)]
      /\ u.lastConfirm = m.lastConfirm
  BY <1>1, SetInputSound, SetInputEffect
<1>3. /\ \A i \in 1 .. size : \A q \in Player :
           u.inputs[i][q] = IF q = n /\ i >= c + 1 THEN input
                                                   ELSE GrownAt(m, i, q)
      /\ u.sim = m.sim /\ u.isDirty = m.isDirty
  BY <1>1, SetInputCells
<1> HIDE DEF u
<1>4. /\ Len(m.inputs) \in Nat /\ size \in Nat /\ size >= c + 1
      /\ size >= Len(m.inputs) /\ c <= Len(m.inputs)
      /\ m.lastConfirm \in Int /\ m.lastConfirm < Len(m.inputs)
  BY <1>1, ManagerShape DEF Larger
<1>5. \A p \in Connected : /\ p \in Player /\ m.lastReceived[p] \in Int
                           /\ m.lastReceived[p] >= -1
                           /\ m.lastReceived[p] < Len(m.inputs)
                           /\ PlayerTruth(m, h, p)
  BY ManagerShape, ConnectedAssumption DEF RowsTruth
<1>6. /\ u.lastReceived[n] = c
      /\ \A p \in Connected \ {n} : u.lastReceived[p] = m.lastReceived[p]
  BY <1>1, <1>2, <1>5, ManagerShape DEF Larger
<1> HIDE DEF size
<1>7. \A i \in 1 .. Len(m.inputs) : \A q \in Player :
        i <= c \/ q # n => u.inputs[i][q] = m.inputs[i][q]
  BY <1>3, <1>4 DEF GrownAt
<1>8. \A i \in 1 .. c : u.inputs[i] = m.inputs[i]
  <2>1. ASSUME NEW i \in 1 .. c
        PROVE  u.inputs[i] \in Row /\ m.inputs[i] \in Row
    <3>1. i \in 1 .. Len(u.inputs) /\ i \in 1 .. Len(m.inputs)
      BY <1>2, <1>4
    <3> QED
      BY <1>2, <3>1, ManagerShape
  <2> QED
    BY <1>4, <1>7, <2>1 DEF Row
<1>9. PlayerTruth(u, h, n) /\ Whole(u, h, n)
  <2>1. TrueTo(u, h, n, c)
    <3>1. ASSUME NEW f \in 0 .. c PROVE u.inputs[f + 1][n] = h[n][f + 1]
      <4>1. CASE f = c
        BY <1>1, <1>3, <1>4, <4>1 DEF input
      <4>2. CASE f # c
        <5>1. f + 1 \in 1 .. Len(m.inputs) /\ f + 1 <= c /\ f \in 0 .. c - 1
          BY <1>4, <4>2
        <5>2. m.inputs[f + 1][n] = h[n][f + 1]
          BY <5>1 DEF Whole, TrueTo
        <5> QED
          BY <1>1, <1>7, <5>1, <5>2
      <4> QED BY <4>1, <4>2
    <3> QED BY <3>1 DEF TrueTo
  <2>2. m.lastConfirm <= c - 1
    BY <1>5 DEF PlayerTruth
  <2>3. TrueTo(u, h, n, m.lastConfirm)
    BY <1>4, <2>1, <2>2 DEF TrueTo
  <2>4. Predicted(u, n) = input
    BY <1>1, <1>3, <1>4, <1>6 DEF Predicted
  <2>5. Replicates(u, n)
    BY <1>1, <1>2, <1>3, <1>4, <1>6, <2>4 DEF Replicates
  <2> QED
    BY <1>2, <1>4, <1>6, <2>1, <2>2, <2>3, <2>4, <2>5 DEF PlayerTruth, Whole, input
<1>10. ASSUME NEW p \in Connected, p # n
       PROVE  PlayerTruth(u, h, p) /\ (Whole(m, h, p) => Whole(u, h, p))
  <2>1. \A i \in 1 .. Len(u.inputs) : u.inputs[i][p] = GrownAt(m, i, p)
    BY <1>2, <1>3, <1>5, <1>10
  <2> QED
    BY <1>2, <1>4, <1>5, <1>6, <1>10, <2>1, ColumnKept
<1>11. UnusedNeutral(u)
  BY <1>2, <1>3, ConnectedAssumption, UnusedKept DEF RowsTruth
<1> QED
  BY <1>2, <1>3, <1>6, <1>8, <1>9, <1>10, <1>11 DEF RowsTruth, u, input

\* A packet of inputs that its player has really pressed.
TruePacket(pkt, h) ==
  /\ FirstFrame(pkt) >= 0 /\ pkt.frame < Len(h[pkt.player])
  /\ \A f \in FirstFrame(pkt) .. pkt.frame :
       PacketInput(pkt, f) = h[pkt.player][f + 1]

\* Importing a true packet; one that starts in time leaves no frame out.
LEMMA SetInputsTruth ==
  ASSUME NEW m, SoundManager(m), NEW h \in History, RowsTruth(m, h),
         NEW pkt \in InputPacket, TruePacket(pkt, h)
  PROVE  LET u == SetInputs(m, pkt)
         IN  /\ RowsTruth(u, h) /\ u.sim = m.sim
             /\ \A q \in Connected :
                  /\ Whole(m, h, q)
                  /\ q = pkt.player => FirstFrame(pkt) <= m.lastReceived[q] + 1
                  => Whole(u, h, q)
<1> DEFINE p     == pkt.player
           r     == m.lastReceived[p]
           last  == pkt.frame
           u     == SetInputs(m, pkt)
           first == FirstUsed(m, pkt)
           size  == Larger(Len(m.inputs), last + 1)
<1>1. /\ p \in Connected /\ p \in Player /\ last \in Nat /\ last < Len(h[p])
      /\ FirstFrame(pkt) \in Nat /\ FirstFrame(pkt) <= last
  <2>1. /\ p \in Connected /\ last \in Nat
        /\ pkt.inputs \in Seq(Input) /\ pkt.inputs # << >>
    BY DEF InputPacket
  <2>2. Len(pkt.inputs) \in Nat /\ Len(pkt.inputs) > 0
    BY <2>1, EmptySeq, LenProperties
  <2> QED
    BY <2>1, <2>2, ConnectedAssumption DEF TruePacket, FirstFrame
<1>2. CASE last < r
  <2>1. u = m
    BY <1>2 DEF SetInputs
  <2> QED
    BY <2>1
<1>3. CASE ~(last < r)
  <2>1. /\ r \in Int /\ r >= -1 /\ r < Len(m.inputs) /\ Len(m.inputs) \in Nat
        /\ m.lastConfirm \in Int /\ m.lastConfirm <= r
        /\ PlayerTruth(m, h, p)
    BY <1>1, ManagerShape DEF RowsTruth, PlayerTruth
  <2>2. r <= last /\ size \in Nat /\ size >= last + 1 /\ size >= Len(m.inputs)
    BY <1>1, <1>3, <2>1 DEF Larger
  <2>3. /\ SoundManager(u) /\ Len(u.inputs) = size /\ u.sim = m.sim
        /\ u.lastConfirm = m.lastConfirm
        /\ u.lastReceived = [m.lastReceived EXCEPT ![p] = Larger(r, last)]
        /\ \A i \in 1 .. size : \A q \in Player :
             u.inputs[i][q] =
               IF q = p /\ i - 1 \in first .. last THEN PacketInput(pkt, i - 1)
               ELSE IF q = p /\ r < last /\ i - 1 > last
               THEN PacketInput(pkt, last)
               ELSE GrownAt(m, i, q)
    <3>1. pkt.frame >= m.lastReceived[pkt.player]
      BY <1>1, <2>1, <2>2
    <3> QED
      BY <3>1, SetInputsSound, SetInputsEffect, SetInputsCells
  <2> HIDE DEF u
  <2>4. /\ u.lastReceived[p] = last
        /\ \A q \in Connected \ {p} : u.lastReceived[q] = m.lastReceived[q]
    BY <1>1, <2>1, <2>2, <2>3, ManagerShape DEF Larger
  <2>5. /\ first \in Nat /\ first <= last /\ first >= FirstFrame(pkt)
        /\ first >= r /\ (first = r \/ first = FirstFrame(pkt))
    BY <1>1, <2>1, <2>2 DEF FirstUsed, Larger
  <2> HIDE DEF first, size
  <2>6. \A f \in first .. last : u.inputs[f + 1][p] = h[p][f + 1]
    <3>1. ASSUME NEW f \in first .. last
          PROVE  u.inputs[f + 1][p] = h[p][f + 1]
      <4>1. /\ f + 1 \in 1 .. size /\ (f + 1) - 1 = f
            /\ f \in FirstFrame(pkt) .. last
        BY <1>1, <2>2, <2>5
      <4>2. u.inputs[f + 1][p] = PacketInput(pkt, f)
        BY <1>1, <2>3, <4>1
      <4> QED
        BY <4>1, <4>2 DEF TruePacket
    <3> QED BY <3>1
  <2>7. \A f \in Nat : f < r => u.inputs[f + 1][p] = m.inputs[f + 1][p]
    <3>1. ASSUME NEW f \in Nat, f < r
          PROVE  u.inputs[f + 1][p] = m.inputs[f + 1][p]
      <4>1. /\ f + 1 \in 1 .. size /\ (f + 1) - 1 = f /\ f \notin first .. last
            /\ ~(f > last) /\ f + 1 <= Len(m.inputs)
        BY <1>1, <2>1, <2>2, <2>5, <3>1
      <4> QED
        BY <1>1, <2>3, <4>1 DEF GrownAt
    <3> QED BY <3>1
  <2>8. Predicted(u, p) = h[p][last + 1]
    <3>1. u.inputs[last + 1][p] = h[p][last + 1]
      BY <1>1, <2>5, <2>6
    <3>2. Predicted(u, p) = u.inputs[last + 1][p]
      BY <1>1, <2>4 DEF Predicted
    <3> QED
      BY <3>1, <3>2
  <2>9. ASSUME r >= 0
        PROVE  u.inputs[r + 1][p] = h[p][r + 1]
    <3>1. CASE r \in first .. last
      BY <2>6, <3>1
    <3>2. CASE r \notin first .. last
      <4>1. /\ r + 1 \in 1 .. size /\ (r + 1) - 1 = r /\ ~(r > last)
            /\ r + 1 <= Len(m.inputs)
        BY <1>1, <2>1, <2>2, <2>9
      <4>2. u.inputs[r + 1][p] = m.inputs[r + 1][p]
        BY <1>1, <2>3, <3>2, <4>1 DEF GrownAt
      <4> QED
        BY <2>1, <2>9, <4>2 DEF PlayerTruth, Predicted
    <3> QED BY <3>1, <3>2
  <2>10. TrueTo(u, h, p, m.lastConfirm)
    <3>1. ASSUME NEW f \in 0 .. m.lastConfirm
          PROVE  u.inputs[f + 1][p] = h[p][f + 1]
      <4>1. m.inputs[f + 1][p] = h[p][f + 1]
        BY <2>1 DEF PlayerTruth, TrueTo
      <4>2. f \in Nat /\ (f < r \/ f = r)
        BY <2>1
      <4> QED
        BY <2>7, <2>9, <4>1, <4>2
    <3> QED BY <3>1 DEF TrueTo
  <2>11. Replicates(u, p)
    <3>1. ASSUME NEW f \in last + 1 .. size - 1
          PROVE  u.inputs[f + 1][p] = h[p][last + 1]
      <4>1. /\ f + 1 \in 1 .. size /\ (f + 1) - 1 = f /\ f > last
            /\ f \notin first .. last /\ f + 1 \in Nat /\ f + 1 > r + 1
        BY <1>1, <2>1, <2>2, <2>5
      <4>2. CASE r < last
        <5>1. u.inputs[f + 1][p] = PacketInput(pkt, last)
          BY <1>1, <2>3, <4>1, <4>2
        <5>2. last \in FirstFrame(pkt) .. last
          BY <1>1
        <5> QED
          BY <5>1, <5>2 DEF TruePacket
      <4>3. CASE ~(r < last)
        <5>1. r = last /\ r >= 0
          BY <1>1, <2>1, <2>2, <4>3
        <5>2. u.inputs[f + 1][p] = GrownAt(m, f + 1, p)
          BY <1>1, <2>3, <4>1, <4>3
        <5>3. GrownAt(m, f + 1, p) = Predicted(m, p)
          BY <1>1, <2>1, <4>1, GrownAtRepeats DEF PlayerTruth
        <5>4. Predicted(m, p) = h[p][r + 1]
          BY <2>1, <5>1 DEF PlayerTruth
        <5> QED
          BY <5>1, <5>2, <5>3, <5>4
      <4> QED BY <4>2, <4>3
    <3> QED
      BY <2>3, <2>4, <2>8, <3>1 DEF Replicates
  <2>12. PlayerTruth(u, h, p)
    BY <1>1, <2>1, <2>2, <2>3, <2>4, <2>8, <2>10, <2>11 DEF PlayerTruth
  <2>13. ASSUME Whole(m, h, p), FirstFrame(pkt) <= r + 1
         PROVE  Whole(u, h, p)
    <3>1. ASSUME NEW f \in 0 .. last PROVE u.inputs[f + 1][p] = h[p][f + 1]
      <4>1. CASE f \in first .. last
        BY <2>6, <4>1
      <4>2. CASE f \notin first .. last
        <5>1. f \in 0 .. r
          BY <1>1, <2>1, <2>2, <2>5, <2>13, <4>2
        <5>2. m.inputs[f + 1][p] = h[p][f + 1]
          BY <2>13, <5>1 DEF Whole, TrueTo
        <5>3. f \in Nat /\ (f < r \/ (f = r /\ r >= 0))
          BY <2>1, <5>1
        <5> QED
          BY <2>7, <2>9, <5>2, <5>3
      <4> QED BY <4>1, <4>2
    <3> QED BY <2>4, <3>1 DEF Whole, TrueTo
  <2>14. ASSUME NEW q \in Connected, q # p
         PROVE  PlayerTruth(u, h, q) /\ (Whole(m, h, q) => Whole(u, h, q))
    <3>1. \A i \in 1 .. Len(u.inputs) : u.inputs[i][q] = GrownAt(m, i, q)
      BY <2>3, <2>14, ConnectedAssumption
    <3>2. PlayerTruth(m, h, q)
      BY DEF RowsTruth
    <3> QED
      BY <2>2, <2>3, <2>4, <2>14, <3>1, <3>2, ColumnKept
  <2>15. UnusedNeutral(u)
    <3>1. \A i \in 1 .. Len(u.inputs) : \A q \in Player \ Connected :
            u.inputs[i][q] = GrownAt(m, i, q)
      BY <1>1, <2>3
    <3> QED
      BY <2>2, <2>3, <3>1, UnusedKept DEF RowsTruth
  <2> QED
    BY <2>3, <2>12, <2>13, <2>14, <2>15 DEF RowsTruth, u
<1> QED
  BY <1>2, <1>3

\* Storing the row that was pressed for the next frame to confirm.
LEMMA SetConfirmedTruth ==
  ASSUME NEW m, SoundManager(m), NEW h \in History, RowsTruth(m, h),
         NEW row \in Row, NEW f \in Nat, f = m.lastConfirm + 1,
         \A p \in Connected : f < Len(h[p]) /\ row[p] = h[p][f + 1]
  PROVE  LET u == SetConfirmed(m, row, f)
         IN  /\ RowsTruth(u, h) /\ u.sim = m.sim /\ u.isDirty = m.isDirty
             /\ \A p \in Connected :
                  /\ f <= u.lastReceived[p] /\ TrueTo(u, h, p, f)
                  /\ Whole(m, h, p) => Whole(u, h, p)
<1> DEFINE u    == SetConfirmed(m, row, f)
           size == Larger(Len(m.inputs), f + 1)
<1>1. /\ SoundManager(u) /\ u.lastConfirm = m.lastConfirm
      /\ Len(u.inputs) = size
  BY SetConfirmedSound
<1>2. /\ \A i \in 1 .. size : \A q \in Player :
           u.inputs[i][q] =
             IF /\ q \in Connected
                /\ i = f + 1 \/ (m.lastReceived[q] < f /\ i > f + 1)
             THEN row[q] ELSE GrownAt(m, i, q)
      /\ \A q \in Connected : u.lastReceived[q] = Larger(m.lastReceived[q], f)
      /\ u.sim = m.sim /\ u.isDirty = m.isDirty
  BY SetConfirmedCells
<1> HIDE DEF u
<1>3. /\ Len(m.inputs) \in Nat /\ size \in Nat /\ size >= f + 1
      /\ size >= Len(m.inputs)
      /\ m.lastConfirm \in Int /\ m.lastConfirm < Len(m.inputs)
  BY ManagerShape DEF Larger
<1> HIDE DEF size
<1>4. ASSUME NEW p \in Connected
      PROVE  /\ PlayerTruth(u, h, p)
             /\ f <= u.lastReceived[p] /\ TrueTo(u, h, p, f)
             /\ Whole(m, h, p) => Whole(u, h, p)
  <2> DEFINE r == m.lastReceived[p]
  <2>1. /\ p \in Player /\ r \in Int /\ r >= -1 /\ r < Len(m.inputs)
        /\ f - 1 <= r /\ r < Len(h[p]) /\ PlayerTruth(m, h, p)
        /\ f < Len(h[p]) /\ row[p] = h[p][f + 1]
    <3>1. PlayerTruth(m, h, p) /\ p \in Player
      BY ConnectedAssumption DEF RowsTruth
    <3>2. r \in Int /\ r >= -1 /\ r < Len(m.inputs)
      BY <3>1, ManagerShape
    <3> QED
      BY <1>3, <3>1, <3>2 DEF PlayerTruth
  <2>2. u.lastReceived[p] = Larger(r, f)
    BY <1>2, <2>1
  <2>3. u.inputs[f + 1][p] = h[p][f + 1]
    BY <1>2, <1>3, <2>1
  <2>4. \A g \in Nat : g < Len(m.inputs) /\ g # f /\ (r < f => g < f)
                         => u.inputs[g + 1][p] = m.inputs[g + 1][p]
    <3>1. ASSUME NEW g \in Nat, g < Len(m.inputs), g # f, r < f => g < f
          PROVE  u.inputs[g + 1][p] = m.inputs[g + 1][p]
      <4>1. /\ g + 1 \in 1 .. size /\ g + 1 <= Len(m.inputs) /\ g + 1 # f + 1
            /\ ~(r < f /\ g + 1 > f + 1)
        BY <1>3, <2>1, <3>1
      <4> QED
        BY <1>2, <2>1, <4>1 DEF GrownAt
    <3> QED BY <3>1
  <2>5. TrueTo(u, h, p, f)
    <3>1. ASSUME NEW g \in 0 .. f PROVE u.inputs[g + 1][p] = h[p][g + 1]
      <4>1. CASE g = f
        BY <2>3, <4>1
      <4>2. CASE g # f
        <5>1. g \in 0 .. m.lastConfirm /\ g \in Nat /\ g < f /\ g < Len(m.inputs)
          BY <1>3, <4>2
        <5>2. m.inputs[g + 1][p] = h[p][g + 1]
          BY <2>1, <5>1 DEF PlayerTruth, TrueTo
        <5> QED
          BY <2>4, <5>1, <5>2
      <4> QED BY <4>1, <4>2
    <3> QED BY <3>1 DEF TrueTo
  <2>6. CASE r < f
    <3>1. u.lastReceived[p] = f
      BY <2>1, <2>2, <2>6 DEF Larger
    <3>2. Predicted(u, p) = h[p][f + 1]
      BY <2>3, <3>1 DEF Predicted
    <3>3. Replicates(u, p)
      <4>1. ASSUME NEW g \in f + 1 .. size - 1
            PROVE  u.inputs[g + 1][p] = row[p]
        <5>1. g + 1 \in 1 .. size /\ g + 1 > f + 1
          BY <1>3
        <5> QED
          BY <1>2, <2>1, <2>6, <5>1
      <4> QED
        BY <1>1, <2>1, <3>1, <3>2, <4>1 DEF Replicates
    <3>4. Whole(u, h, p)
      BY <2>5, <3>1 DEF Whole
    <3>5. TrueTo(u, h, p, m.lastConfirm)
      BY <1>3, <2>5 DEF TrueTo
    <3> QED
      BY <1>1, <1>3, <2>1, <2>5, <3>1, <3>2, <3>3, <3>4, <3>5 DEF PlayerTruth
  <2>7. CASE ~(r < f)
    <3>1. u.lastReceived[p] = r /\ r >= f
      BY <2>1, <2>2, <2>7 DEF Larger
    <3>2. u.inputs[r + 1][p] = h[p][r + 1] /\ m.inputs[r + 1][p] = h[p][r + 1]
      <4>1. m.inputs[r + 1][p] = h[p][r + 1]
        BY <2>1, <3>1 DEF PlayerTruth, Predicted
      <4>2. CASE r = f
        BY <2>3, <4>1, <4>2
      <4>3. CASE r # f
        <5>1. r \in Nat /\ r < Len(m.inputs) /\ ~(r < f)
          BY <2>1, <3>1
        <5> QED
          BY <2>4, <4>1, <4>3, <5>1
      <4> QED BY <4>1, <4>2, <4>3
    <3>3. Predicted(u, p) = Predicted(m, p) /\ Predicted(u, p) = h[p][r + 1]
      BY <2>1, <3>1, <3>2 DEF Predicted
    <3>4. Replicates(u, p)
      <4>1. ASSUME NEW g \in r + 1 .. size - 1
            PROVE  u.inputs[g + 1][p] = Predicted(m, p)
        <5>1. /\ g + 1 \in 1 .. size /\ g + 1 # f + 1 /\ g + 1 \in Nat
              /\ g + 1 > r + 1
          <6>1. r \in Int /\ r >= f
            BY <2>1, <3>1
          <6> HIDE DEF r
          <6> QED BY <1>3, <6>1
        <5>2. u.inputs[g + 1][p] = GrownAt(m, g + 1, p)
          BY <1>2, <2>1, <2>7, <5>1
        <5> QED
          BY <2>1, <5>1, <5>2, GrownAtRepeats DEF PlayerTruth
      <4> QED
        BY <1>1, <3>1, <3>3, <4>1 DEF Replicates
    <3>5. TrueTo(u, h, p, m.lastConfirm)
      BY <1>3, <2>5 DEF TrueTo
    <3>6. Whole(m, h, p) => Whole(u, h, p)
      <4>1. ASSUME Whole(m, h, p), NEW g \in 0 .. r
            PROVE  u.inputs[g + 1][p] = h[p][g + 1]
        <5>1. CASE g = f
          BY <2>3, <5>1
        <5>2. CASE g # f
          <6>1. g \in Nat /\ g < Len(m.inputs)
            BY <2>1
          <6>2. u.inputs[g + 1][p] = m.inputs[g + 1][p]
            BY <2>4, <2>7, <5>2, <6>1
          <6> QED
            BY <4>1, <6>2 DEF Whole, TrueTo
        <5> QED BY <5>1, <5>2
      <4> QED
        BY <3>1, <4>1 DEF Whole, TrueTo
    <3> QED
      BY <1>1, <1>3, <2>1, <2>5, <3>1, <3>3, <3>4, <3>5, <3>6 DEF PlayerTruth
  <2> QED BY <2>6, <2>7
<1>5. UnusedNeutral(u)
  <2>1. \A i \in 1 .. Len(u.inputs) : \A q \in Player \ Connected :
          u.inputs[i][q] = GrownAt(m, i, q)
    BY <1>1, <1>2
  <2> QED
    BY <1>1, <1>3, <2>1, UnusedKept DEF RowsTruth
<1> QED
  BY <1>2, <1>4, <1>5 DEF RowsTruth, u

\* Confirming a frame whose row tells the truth.
LEMMA ConfirmTruth ==
  ASSUME NEW m, SoundManager(m), NEW h \in History, RowsTruth(m, h),
         SimTruth(m, h), NEW exact \in BOOLEAN,
         \A p \in Connected : /\ m.lastConfirm + 1 <= m.lastReceived[p]
                              /\ TrueTo(m, h, p, m.lastConfirm + 1)
  PROVE  LET v == ConfirmLastFrame(m, exact)
         IN  /\ RowsTruth(v, h) /\ SimTruth(v, h)
             /\ v.sim = Append(m.sim, TickOf(m, FirstOpen(m), exact))
             /\ v.isDirty = m.isDirty
             /\ \A p \in Connected : Whole(m, h, p) => Whole(v, h, p)
<1> DEFINE v    == ConfirmLastFrame(m, exact)
           open == FirstOpen(m)
           tick == TickOf(m, open, exact)
<1>1. /\ m \in Manager /\ m.lastConfirm \in Int /\ m.lastConfirm >= -1
      /\ Len(m.inputs) \in Nat /\ m.sim \in Seq(GameTick)
      /\ \A p \in Player : m.lastReceived[p] \in Int
                           /\ m.lastReceived[p] < Len(m.inputs)
  BY ManagerShape
<1>2. PICK p0 \in Connected : TRUE
  BY ConnectedAssumption
<1>3. /\ open \in Nat /\ open <= m.lastConfirm + 1 /\ open < Len(m.inputs)
      /\ open = Larger(m.lastConfirm, 0) /\ m.lastConfirm + 1 < Len(m.inputs)
  <2>1. m.lastConfirm + 1 < Len(m.inputs)
    BY <1>1, <1>2, ConnectedAssumption
  <2> QED
    BY <1>1, <2>1 DEF FirstOpen, Larger
<1> HIDE DEF open
<1>4. \A f \in Nat : f <= m.lastConfirm + 1 => RowAt(m, f) = HistoryRow(h, f)
  <2>1. ASSUME NEW f \in Nat, f <= m.lastConfirm + 1
        PROVE  RowAt(m, f) = HistoryRow(h, f)
    <3>1. f < Len(m.inputs)
      BY <1>1, <1>3, <2>1
    <3>2. \A p \in Connected : m.inputs[f + 1][p] = h[p][f + 1]
      <4>1. f \in 0 .. m.lastConfirm + 1
        BY <1>1, <2>1
      <4> QED
        BY <4>1 DEF TrueTo
    <3>3. m.inputs[f + 1] = HistoryRow(h, f)
      BY <3>1, <3>2, TrueRow DEF RowsTruth
    <3> QED
      BY <1>1, <3>1, <3>3 DEF RowAt
  <2> QED BY <2>1
<1>5. /\ tick.now = HistoryRow(h, open)
      /\ tick.prev = IF open > 0 THEN HistoryRow(h, open - 1) ELSE NeutralRow
  <2>1. RowAt(m, open) = HistoryRow(h, open)
    BY <1>3, <1>4
  <2>2. open > 0 => RowAt(m, open - 1) = HistoryRow(h, open - 1)
    BY <1>1, <1>3, <1>4
  <2> QED
    BY <2>1, <2>2 DEF TickOf
<1>6. tick \in GameTick
  BY <1>3, TickType
<1>7. /\ v.sim = Append(m.sim, tick) /\ v.lastConfirm = m.lastConfirm + 1
      /\ v.inputs = m.inputs /\ v.lastReceived = m.lastReceived
      /\ v.isDirty = m.isDirty
  BY <1>1 DEF ConfirmLastFrame, Manager, open
<1> HIDE DEF tick, v
<1>8. /\ Len(v.sim) = v.lastConfirm + 1 /\ Len(m.sim) = m.lastConfirm + 1
      /\ v.sim[m.lastConfirm + 2] = tick
      /\ \A i \in 1 .. m.lastConfirm + 1 : v.sim[i] = m.sim[i]
  <2>1. Len(m.sim) = m.lastConfirm + 1
    BY DEF SimTruth
  <2> QED
    BY <1>1, <1>6, <1>7, <2>1, AppendProperties
<1>9. SimTruth(v, h)
  <2>1. ASSUME NEW i \in 1 .. v.lastConfirm + 1
        PROVE  LET f == Larger(i - 2, 0)
               IN  /\ v.sim[i].prev = IF f > 0 THEN HistoryRow(h, f - 1)
                                               ELSE NeutralRow
                   /\ v.sim[i].now = HistoryRow(h, f)
    <3>1. CASE i \in 1 .. m.lastConfirm + 1
      <4>1. v.sim[i] = m.sim[i]
        BY <1>8, <3>1
      <4> QED
        BY <3>1, <4>1 DEF SimTruth
    <3>2. CASE i \notin 1 .. m.lastConfirm + 1
      <4>1. i = m.lastConfirm + 2 /\ Larger(i - 2, 0) = open
        <5>1. i \in Int /\ i <= m.lastConfirm + 2 /\ i > m.lastConfirm + 1
          BY <1>1, <1>7, <3>2
        <5> QED
          BY <1>1, <1>3, <5>1
      <4> QED
        BY <1>5, <1>8, <4>1
    <3> QED BY <3>1, <3>2
  <2> QED
    BY <1>8, <2>1 DEF SimTruth
<1>10. RowsTruth(v, h)
  <2>1. UnusedNeutral(v)
    BY <1>7 DEF RowsTruth, UnusedNeutral
  <2>2. ASSUME NEW p \in Connected PROVE PlayerTruth(v, h, p)
    <3>1. PlayerTruth(m, h, p)
      BY DEF RowsTruth
    <3> QED
      BY <1>7, <3>1 DEF PlayerTruth, TrueTo, Predicted, Replicates
  <2> QED BY <2>1, <2>2 DEF RowsTruth
<1>11. \A p \in Connected : Whole(m, h, p) => Whole(v, h, p)
  BY <1>7 DEF Whole, TrueTo
<1> QED
  BY <1>7, <1>9, <1>10, <1>11 DEF v, tick, open
=============================================================================
