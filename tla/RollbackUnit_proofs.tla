-------------------------- MODULE RollbackUnit_proofs --------------------------
(***************************************************************************)
(* The functions of one RollbackManager, for every sequence of calls: each *)
(* closed form is what its loop computes, the master's condition is the    *)
(* comparison in the code, and a packet that changes a row says so.        *)
(***************************************************************************)
EXTENDS RollbackUnit, RollbackManager_proofs, FiniteSetTheorems

\* Two loops over a .. b that begin alike and take the same steps are the same.
TakesSteps(f, g, a, b) ==
  f[a] = g[a] /\ \A i \in a + 1 .. b : f[i - 1] = g[i - 1] => f[i] = g[i]

LEMMA SameLoop ==
  ASSUME NEW a \in Nat, NEW b \in Nat, NEW f, NEW g, TakesSteps(f, g, a, b)
  PROVE  \A i \in a .. b : f[i] = g[i]
<1> DEFINE S == {i \in a .. b : f[i] # g[i]}
<1> SUFFICES ASSUME S # {} PROVE FALSE
  OBVIOUS
<1>1. S \subseteq Nat
  OBVIOUS
<1>2. PICK i \in S : \A j \in S : i <= j
  <2> HIDE DEF S
  <2> QED BY <1>1, Smallest
<1>3. i \in a .. b /\ f[i] # g[i] /\ i # a
  BY <1>2 DEF TakesSteps
<1>4. i - 1 \in a .. b /\ i - 1 \notin S
  BY <1>2, <1>3
<1> QED
  BY <1>3, <1>4 DEF TakesSteps

-----------------------------------------------------------------------------
(* SetInput and its loop.                                                   *)

\* The rows that the loop pushes are the rows grown.
LEMMA PushedIsGrown ==
  ASSUME NEW m, SoundManager(m), NEW f \in Nat, ~IsGap(m, f)
  PROVE  Pushed(m, f) = GrownTo(m, f)
<1> DEFINE size == Len(m.inputs)
           delta == (size - f + 1) % 65536
           last == IF size = 0 THEN NeutralRow ELSE m.inputs[size]
           more == [i \in 1 .. delta |-> last]
<1> DEFINE rows  == m.inputs
<1>1. /\ rows \in Seq(Row) /\ size \in Nat /\ size = Len(rows) /\ f <= size
      /\ DOMAIN rows = 1 .. size
      /\ (rows = << >> <=> size = 0)
  <2>1. rows \in Seq(Row) /\ size \in Nat /\ DOMAIN rows = 1 .. size
    BY ManagerShape
  <2> QED
    BY <2>1, EmptySeq DEF IsGap
<1>2. last = NewestRow(m) /\ last \in Row
  <2>1. last = NewestRow(m)
    BY <1>1 DEF NewestRow
  <2>2. size # 0 => size \in 1 .. size
    BY <1>1
  <2> QED
    BY <1>1, <2>1, <2>2, NeutralRowType, ElementOfSeq
<1>3. GrownTo(m, f) = [i \in 1 .. Larger(size, f + 1) |-> IF i <= size THEN rows[i] ELSE last]
  BY <1>2 DEF GrownTo
<1>6. Pushed(m, f) = IF f >= size THEN rows \o more ELSE rows
  BY DEF Pushed
<1>7. f = size => delta = 1
  BY <1>1
<1> HIDE DEF rows, last, size, delta
<1>4. CASE f < size
  <2>1. Larger(size, f + 1) = size /\ ~(f >= size)
    BY <1>1, <1>4 DEF Larger
  <2>2. rows = [i \in 1 .. size |-> rows[i]]
    BY <1>1
  <2>3. GrownTo(m, f) = rows
    BY <1>1, <1>3, <2>1, <2>2
  <2> QED
    BY <1>6, <2>1, <2>3
<1>5. CASE f = size
  <2>1. delta = 1 /\ Larger(size, f + 1) = size + 1
    BY <1>1, <1>5, <1>7 DEF Larger
  <2>2. more \in Seq(Row) /\ Len(more) = 1 /\ more[1] = last
    <3>1. more \in [1 .. 1 -> Row] /\ more[1] = last
      BY <1>2, <2>1
    <3> QED BY <3>1, FunctionIsSeq
  <2> HIDE DEF more
  <2> DEFINE both == rows \o more
  <2>3. /\ both \in Seq(Row) /\ Len(both) = Len(rows) + Len(more)
        /\ \A i \in 1 .. Len(rows) + Len(more) :
             both[i] = IF i <= Len(rows) THEN rows[i] ELSE more[i - Len(rows)]
    <3>1. rows \in Seq(Row) /\ more \in Seq(Row)
      BY <1>1, <2>2
    <3> QED BY ONLY <3>1, ConcatProperties
  <2> HIDE DEF both
  <2>4. \A i \in 1 .. size + 1 : both[i] = IF i <= size THEN rows[i] ELSE last
    <3>1. ASSUME NEW i \in 1 .. size + 1
          PROVE  both[i] = IF i <= size THEN rows[i] ELSE last
      <4>1. ~(i <= size) => i - size = 1
        BY <1>1
      <4> QED BY <1>1, <2>2, <2>3, <4>1
    <3> QED BY <3>1
  <2>5. both = [i \in 1 .. size + 1 |-> both[i]]
    BY <1>1, <2>2, <2>3, LenProperties
  <2>6. GrownTo(m, f) = both
    BY <1>3, <2>1, <2>4, <2>5
  <2>7. f >= size
    BY <1>1, <1>5
  <2> QED
    BY <1>6, <2>6, <2>7 DEF both
<1> QED
  BY <1>1, <1>4, <1>5

\* The last loop of SetInput writes one input over the rows that follow.
LEMMA PredictedRows ==
  ASSUME NEW size \in Nat, NEW f \in Nat, NEW last \in Nat, last - 1 = Larger(size - 1, f),
         NEW rows \in [1 .. last -> Row], NEW p \in Player, NEW input \in Input
  PROVE  Predict(rows, p, input, f, size) = [j \in 1 .. last |->
           IF j > f + 1 THEN [rows[j] EXCEPT ![p] = input] ELSE rows[j]]
<1>1. f < last /\ f \in f .. last - 1 /\ last - 1 \in f .. last - 1 /\ last - 1 \in Nat
  BY DEF Larger
<1> DEFINE g == [i \in f .. last - 1 |-> [j \in 1 .. last |->
                   IF j > f + 1 /\ j <= i + 1 THEN [rows[j] EXCEPT ![p] = input] ELSE rows[j]]]
           IsLoop(loop) == loop = [i \in f .. last - 1 |->
             IF i = f THEN rows ELSE [loop[i - 1] EXCEPT ![i + 1][p] = input]]
           predicted == CHOOSE loop : IsLoop(loop)
<1>2. Predict(rows, p, input, f, size) = predicted[last - 1]
  BY DEF Predict
<1>3. g[f] = rows
  <2>1. g[f] = [j \in 1 .. last |->
           IF j > f + 1 /\ j <= f + 1 THEN [rows[j] EXCEPT ![p] = input] ELSE rows[j]]
    BY <1>1
  <2>2. \A j \in 1 .. last : ~(j > f + 1 /\ j <= f + 1)
    OBVIOUS
  <2> HIDE DEF g
  <2> QED BY <2>1, <2>2
<1>4. ASSUME NEW i \in f + 1 .. last - 1
      PROVE  g[i] = [g[i - 1] EXCEPT ![i + 1][p] = input]
  <2>1. i \in f .. last - 1 /\ i - 1 \in f .. last - 1 /\ i # f /\ i + 1 \in 1 .. last /\ i \in Nat
    OBVIOUS
  <2>2. g[i - 1] = [j \in 1 .. last |->
           IF j > f + 1 /\ j <= i THEN [rows[j] EXCEPT ![p] = input] ELSE rows[j]]
    BY <2>1
  <2>3. g[i] = [j \in 1 .. last |->
           IF j > f + 1 /\ j <= i + 1 THEN [rows[j] EXCEPT ![p] = input] ELSE rows[j]]
    BY <2>1
  <2> DEFINE old == g[i - 1]
             row == [rows[i + 1] EXCEPT ![p] = input]
  <2>4. old[i + 1] = rows[i + 1]
    BY <2>1, <2>2
  <2>5. [old EXCEPT ![i + 1][p] = input] = [old EXCEPT ![i + 1] = row]
    BY <2>4
  <2> HIDE DEF g
  <2>6. old = [j \in 1 .. last |->
           IF j > f + 1 /\ j <= i THEN [rows[j] EXCEPT ![p] = input] ELSE rows[j]]
    BY <2>2
  <2> HIDE DEF old
  <2>7. [old EXCEPT ![i + 1] = row] = [j \in 1 .. last |-> IF j = i + 1 THEN row ELSE old[j]]
    BY <2>1, <2>6
  <2>8. g[i] = [j \in 1 .. last |-> IF j = i + 1 THEN row ELSE old[j]]
    <3>1. ASSUME NEW j \in 1 .. last
          PROVE  (IF j = i + 1 THEN row ELSE old[j])
                   = IF j > f + 1 /\ j <= i + 1 THEN [rows[j] EXCEPT ![p] = input] ELSE rows[j]
      <4>1. CASE j = i + 1
        <5>1. j > f + 1 /\ j <= i + 1 /\ row = [rows[j] EXCEPT ![p] = input]
          BY <2>1, <4>1
        <5> HIDE DEF row
        <5> QED BY <4>1, <5>1
      <4>2. CASE j # i + 1
        <5>1. j <= i + 1 <=> j <= i
          BY <2>1, <4>2
        <5> QED BY <2>6, <4>2, <5>1
      <4> QED BY <4>1, <4>2
    <3> HIDE DEF row
    <3> QED BY <2>3, <3>1
  <2> QED BY <2>5, <2>7, <2>8 DEF old
<1>5. g = [i \in f .. last - 1 |->
             IF i = f THEN rows ELSE [g[i - 1] EXCEPT ![i + 1][p] = input]]
  <2>1. ASSUME NEW i \in f .. last - 1
        PROVE  g[i] = IF i = f THEN rows ELSE [g[i - 1] EXCEPT ![i + 1][p] = input]
    <3>1. i # f => i \in f + 1 .. last - 1
      OBVIOUS
    <3> HIDE DEF g
    <3> QED BY <1>3, <1>4, <3>1
  <2>2. g = [i \in f .. last - 1 |-> g[i]]
    OBVIOUS
  <2> HIDE DEF g
  <2> QED BY <2>1, <2>2
<1>6. g[last - 1] = [j \in 1 .. last |->
           IF j > f + 1 THEN [rows[j] EXCEPT ![p] = input] ELSE rows[j]]
  <2>1. g[last - 1] = [j \in 1 .. last |->
           IF j > f + 1 /\ j <= last THEN [rows[j] EXCEPT ![p] = input] ELSE rows[j]]
    BY <1>1
  <2> HIDE DEF g
  <2> QED BY <2>1
<1> HIDE DEF g
<1>7. IsLoop(predicted)
  <2>1. IsLoop(g)
    BY <1>5
  <2> HIDE DEF IsLoop
  <2> QED BY <2>1
<1>8. \A i \in f .. last - 1 : predicted[i] = g[i]
  <2>1. predicted = [i \in f .. last - 1 |->
             IF i = f THEN rows ELSE [predicted[i - 1] EXCEPT ![i + 1][p] = input]]
    BY <1>7
  <2> HIDE DEF predicted, IsLoop
  <2>2. predicted[f] = g[f]
    BY <1>1, <1>3, <2>1
  <2>3. ASSUME NEW i \in f + 1 .. last - 1, predicted[i - 1] = g[i - 1]
        PROVE  predicted[i] = g[i]
    <3>1. i \in f .. last - 1 /\ i # f
      OBVIOUS
    <3>2. predicted[i] = [predicted[i - 1] EXCEPT ![i + 1][p] = input]
      BY <2>1, <3>1
    <3> QED BY <1>4, <2>3, <3>2
  <2> DEFINE end == last - 1
  <2>4. end \in Nat /\ TakesSteps(predicted, g, f, end)
    BY <1>1, <2>2, <2>3 DEF TakesSteps
  <2> HIDE DEF end
  <2>5. \A i \in f .. end : predicted[i] = g[i]
    BY <2>4, SameLoop
  <2> QED BY <2>5 DEF end
<1> HIDE DEF predicted
<1> QED BY <1>1, <1>2, <1>6, <1>8

\* The closed form of SetInput is its loop.
LEMMA SetInputLoop ==
  ASSUME NEW m, SoundManager(m), NEW p \in Player, NEW input \in Input,
         NEW f \in Nat, ~IsGap(m, f)
  PROVE  LoopSetInput(m, p, input, f) = SetInput(m, p, input, f)
<1> DEFINE size  == Len(m.inputs)
           grown == GrownTo(m, f)
           last  == Larger(size, f + 1)
           written == [grown EXCEPT ![f + 1][p] = input]
           newest == m.lastReceived[p] < f
           rows  == [i \in DOMAIN grown |->
                       IF i = f + 1 \/ (newest /\ i > f + 1)
                       THEN [grown[i] EXCEPT ![p] = input] ELSE grown[i]]
<1>1. /\ m \in Manager /\ size \in Nat /\ f <= size /\ m.lastReceived[p] \in Int
      /\ m.lastReceived \in [Player -> FrameOrNone]
  BY ManagerShape DEF IsGap
<1>2. Pushed(m, f) = grown
  BY PushedIsGrown
<1>3. grown \in [1 .. last -> Row]
  BY <1>1, GrownToType
<1>4. last \in Nat /\ f < last /\ last - 1 = Larger(size - 1, f) /\ f + 1 \in 1 .. last
  BY <1>1 DEF Larger
<1>5. written \in [1 .. last -> Row]
      /\ written = [j \in 1 .. last |-> IF j = f + 1 THEN [grown[j] EXCEPT ![p] = input]
                                                     ELSE grown[j]]
  <2> HIDE DEF grown, last
  <2> QED BY <1>3, <1>4 DEF Row
<1>6. CASE p \notin Connected
  <2>1. LoopSetInput(m, p, input, f) = m
    BY <1>6 DEF LoopSetInput
  <2>2. SetInput(m, p, input, f) = m
    BY <1>6 DEF SetInput
  <2> QED BY <2>1, <2>2
<1>7. CASE p \in Connected /\ ~newest
  <2>1. LoopSetInput(m, p, input, f) = [m EXCEPT !.inputs = written]
    BY <1>1, <1>2, <1>7 DEF LoopSetInput
  <2>2. SetInput(m, p, input, f) = [m EXCEPT !.inputs = rows, !.lastReceived = m.lastReceived]
    BY <1>7 DEF SetInput
  <2>3. rows = written
    <3> HIDE DEF grown, last, newest, written
    <3> QED BY <1>3, <1>5, <1>7
  <2> HIDE DEF rows, written
  <2> QED BY <1>1, <2>1, <2>2, <2>3 DEF Manager
<1>8. CASE p \in Connected /\ newest
  <2> DEFINE predicted == Predict(written, p, input, f, size)
             received == [m.lastReceived EXCEPT ![p] = f]
  <2>1. LoopSetInput(m, p, input, f)
          = [m EXCEPT !.lastReceived = received, !.inputs = predicted]
    BY <1>1, <1>2, <1>8 DEF LoopSetInput
  <2>2. SetInput(m, p, input, f) = [m EXCEPT !.inputs = rows, !.lastReceived = received]
    BY <1>8 DEF SetInput
  <2>3. predicted = [j \in 1 .. last |->
           IF j > f + 1 THEN [written[j] EXCEPT ![p] = input] ELSE written[j]]
    <3>1. written \in [1 .. last -> Row]
      BY <1>5
    <3> HIDE DEF written, last, size
    <3> QED BY <1>1, <1>4, <3>1, PredictedRows
  <2>4. rows = predicted
    <3>1. rows = [j \in 1 .. last |->
                    IF j = f + 1 \/ j > f + 1 THEN [grown[j] EXCEPT ![p] = input] ELSE grown[j]]
      <4> HIDE DEF grown, last, newest
      <4> QED BY <1>3, <1>8
    <3> HIDE DEF grown, last, written, predicted, rows
    <3>2. \A j \in 1 .. last : j > f + 1 => j # f + 1 /\ written[j] = grown[j]
      BY <1>4, <1>5
    <3> QED BY <1>4, <1>5, <2>3, <3>1, <3>2
  <2> HIDE DEF rows, predicted, received
  <2> QED BY <1>1, <2>1, <2>2, <2>4 DEF Manager
<1> QED BY <1>6, <1>7, <1>8

-----------------------------------------------------------------------------
(* SetConfirmed and its loop.                                               *)

\* The manager once the players of T have been set: nothing, or the rows grown and
\* written for them.
ConfirmedFor(m, row, f, T) ==
  LET grown == GrownTo(m, f)
      Newest(p) == m.lastReceived[p] < f
  IN  IF T = {} THEN m
      ELSE [m EXCEPT
             !.inputs = [i \in DOMAIN grown |-> [p \in Player |->
                IF p \in T /\ (i = f + 1 \/ (Newest(p) /\ i > f + 1))
                THEN row[p] ELSE grown[i][p]]],
             !.lastReceived = [p \in Player |->
                IF p \in T /\ Newest(p) THEN f ELSE @[p]]]

\* What setting them has done to m.
SetsConfirmed(u, m, row, f, T) ==
  /\ SoundManager(u)
  /\ T # {} => /\ Len(u.inputs) = Larger(Len(m.inputs), f + 1)
               /\ DOMAIN u.inputs = 1 .. Larger(Len(m.inputs), f + 1)
               /\ \A i \in DOMAIN u.inputs : \A q \in Player : u.inputs[i][q] =
                    IF q \in T /\ (i = f + 1 \/ (m.lastReceived[q] < f /\ i > f + 1))
                    THEN row[q] ELSE GrownTo(m, f)[i][q]
               /\ u.lastReceived = [q \in Player |->
                    IF q \in T /\ m.lastReceived[q] < f THEN f ELSE m.lastReceived[q]]
  /\ u.sim = m.sim /\ u.isDirty = m.isDirty /\ u.lastConfirm = m.lastConfirm

LEMMA ConfirmedForSound ==
  ASSUME NEW m, SoundManager(m), NEW row \in Row, NEW f \in Nat, NEW T \in SUBSET Connected,
         NEW u, u = ConfirmedFor(m, row, f, T)
  PROVE  SetsConfirmed(u, m, row, f, T)
<1> DEFINE grown == GrownTo(m, f)
           size  == Larger(Len(m.inputs), f + 1)
           Newest(q) == m.lastReceived[q] < f
           rows  == [i \in DOMAIN grown |-> [q \in Player |->
                       IF q \in T /\ (i = f + 1 \/ (Newest(q) /\ i > f + 1))
                       THEN row[q] ELSE grown[i][q]]]
           received == [q \in Player |-> IF q \in T /\ Newest(q) THEN f ELSE m.lastReceived[q]]
<1>1. m \in Manager /\ Len(m.inputs) \in Nat
  BY DEF SoundManager, Manager
<1>2. CASE T = {}
  <2>1. u = m
    BY <1>2 DEF ConfirmedFor
  <2> QED BY <1>2, <2>1 DEF SetsConfirmed
<1>3. CASE T # {}
  <2>1. grown \in [1 .. size -> Row] /\ size \in Nat
    BY <1>1, GrownToType
  <2>2. rows \in [1 .. size -> Row]
    BY <1>1, <2>1 DEF Row
  <2>3. rows \in Seq(Row) /\ Len(rows) = size /\ DOMAIN rows = 1 .. size
    <3> HIDE DEF grown, size, Newest, rows
    <3> QED BY <2>1, <2>2, FunctionIsSeq
  <2>4. received \in [Player -> FrameOrNone]
    BY <1>1 DEF Manager, FrameOrNone
  <2>5. u = [m EXCEPT !.inputs = rows, !.lastReceived = received]
    BY <1>1, <1>3 DEF ConfirmedFor
  <2>6. m.lastConfirm < size /\ \A q \in Player : received[q] < size
    BY <1>1 DEF SoundManager, RowsReach, Manager, FrameOrNone, Larger
  <2>7. \A i \in 1 .. size : \A q \in Player : rows[i][q] =
          IF q \in T /\ (i = f + 1 \/ (Newest(q) /\ i > f + 1)) THEN row[q] ELSE grown[i][q]
    <3> HIDE DEF grown, size, Newest
    <3> QED BY <2>1
  <2> HIDE DEF grown, size, Newest, rows
  <2>8. received = [q \in Player |-> IF q \in T /\ Newest(q) THEN f ELSE m.lastReceived[q]]
    OBVIOUS
  <2> HIDE DEF received
  <2>9. u \in Manager
    BY <1>1, <2>3, <2>4, <2>5 DEF Manager
  <2>10. /\ u.inputs = rows /\ u.lastReceived = received /\ u.lastConfirm = m.lastConfirm
         /\ u.sim = m.sim /\ u.isDirty = m.isDirty
    BY <1>1, <2>5 DEF Manager
  <2>11. SoundManager(u)
    BY <2>3, <2>6, <2>9, <2>10 DEF SoundManager, RowsReach
  <2> QED
    BY <2>3, <2>7, <2>8, <2>10, <2>11 DEF size, Newest, grown, SetsConfirmed
<1> QED BY <1>2, <1>3

\* Managers that agree in every cell and every field are the same.
Agree(u, v) ==
  /\ Len(u.inputs) = Len(v.inputs)
  /\ \A i \in 1 .. Len(u.inputs) : \A q \in Player : u.inputs[i][q] = v.inputs[i][q]
  /\ \A q \in Player : u.lastReceived[q] = v.lastReceived[q]
  /\ u.lastConfirm = v.lastConfirm /\ u.isDirty = v.isDirty /\ u.sim = v.sim

LEMMA SameManager ==
  ASSUME NEW u, SoundManager(u), NEW v, SoundManager(v), Agree(u, v)
  PROVE  u = v
<1> DEFINE size == Len(u.inputs)
<1>0. /\ size \in Nat /\ Len(v.inputs) = size
      /\ \A i \in 1 .. size : \A q \in Player : u.inputs[i][q] = v.inputs[i][q]
      /\ \A q \in Player : u.lastReceived[q] = v.lastReceived[q]
      /\ u.lastConfirm = v.lastConfirm /\ u.isDirty = v.isDirty /\ u.sim = v.sim
  BY ManagerShape DEF Agree
<1> DEFINE a == u.inputs
           b == v.inputs
           c == u.lastReceived
           d == v.lastReceived
<1>1. /\ \A i \in 1 .. size : a[i] \in [Player -> Input]
      /\ \A i \in 1 .. size : b[i] \in [Player -> Input]
      /\ c \in [Player -> FrameOrNone] /\ d \in [Player -> FrameOrNone]
      /\ DOMAIN a = 1 .. size /\ DOMAIN b = 1 .. size
      /\ a \in Seq(Row) /\ b \in Seq(Row)
      /\ u \in Manager /\ v \in Manager
  BY <1>0, ManagerShape DEF Row
<1>2. \A i \in 1 .. size : a[i] = b[i]
  <2> SUFFICES ASSUME NEW i \in 1 .. size PROVE a[i] = b[i]
    OBVIOUS
  <2>1. a[i] \in [Player -> Input] /\ b[i] \in [Player -> Input]
        /\ \A q \in Player : a[i][q] = b[i][q]
    BY <1>0, <1>1
  <2> HIDE DEF a, b
  <2> QED BY <2>1
<1>3. a = b /\ c = d
  <2>1. \A q \in Player : c[q] = d[q]
    BY <1>0
  <2> HIDE DEF a, b, c, d
  <2>2. a = [i \in 1 .. size |-> a[i]] /\ b = [i \in 1 .. size |-> b[i]]
    BY <1>1
  <2>3. a = b
    BY ONLY <1>2, <2>2
  <2>4. c \in [Player -> FrameOrNone] /\ d \in [Player -> FrameOrNone]
    BY <1>1
  <2>5. c = d
    BY ONLY <2>1, <2>4
  <2> QED BY ONLY <2>3, <2>5
<1>4. /\ u = [inputs |-> a, lastReceived |-> c, lastConfirm |-> u.lastConfirm,
             isDirty |-> u.isDirty, sim |-> u.sim]
      /\ v = [inputs |-> b, lastReceived |-> d, lastConfirm |-> v.lastConfirm,
              isDirty |-> v.isDirty, sim |-> v.sim]
  BY <1>1 DEF Manager
<1> HIDE DEF a, b, c, d
<1> QED BY <1>0, <1>3, <1>4

\* The next player is set.
LEMMA ConfirmedNext ==
  ASSUME NEW m, SoundManager(m), NEW row \in Row, NEW f \in Nat, ~IsGap(m, f),
         NEW T \in SUBSET Connected, NEW p \in Connected \ T,
         NEW u, u = ConfirmedFor(m, row, f, T)
  PROVE  /\ SoundManager(u) /\ ~IsGap(u, f)
         /\ SetInput(u, p, row[p], f) = ConfirmedFor(m, row, f, T \cup {p})
<1> DEFINE v == SetInput(u, p, row[p], f)
           T2 == T \cup {p}
           w == ConfirmedFor(m, row, f, T2)
           size == Larger(Len(m.inputs), f + 1)
           grown == GrownTo(m, f)
<1>0. /\ T2 \in SUBSET Connected /\ T2 # {} /\ p \in Player /\ p \in Connected
      /\ row[p] \in Input
      /\ \A q : q \in T2 <=> q \in T \/ q = p
  BY ConnectedAssumption DEF Row
<1> HIDE DEF T2
<1>1. /\ SoundManager(u)
      /\ u.sim = m.sim /\ u.isDirty = m.isDirty /\ u.lastConfirm = m.lastConfirm
      /\ T # {} => /\ Len(u.inputs) = size
                   /\ DOMAIN u.inputs = 1 .. size
                   /\ \A i \in DOMAIN u.inputs : \A q \in Player : u.inputs[i][q] =
                        IF q \in T /\ (i = f + 1 \/ (m.lastReceived[q] < f /\ i > f + 1))
                        THEN row[q] ELSE grown[i][q]
                   /\ u.lastReceived = [q \in Player |->
                        IF q \in T /\ m.lastReceived[q] < f THEN f ELSE m.lastReceived[q]]
  <2>1. SetsConfirmed(u, m, row, f, T)
    BY ConfirmedForSound
  <2> QED BY <2>1 DEF SetsConfirmed
<1>2. /\ Len(m.inputs) \in Nat /\ Len(u.inputs) \in Nat /\ size \in Nat
      /\ m.lastReceived \in [Player -> FrameOrNone] /\ m.lastReceived[p] \in Int
  BY <1>0, <1>1, ManagerShape DEF Larger
<1>3. /\ SoundManager(w) /\ Len(w.inputs) = size /\ DOMAIN w.inputs = 1 .. size
      /\ w.sim = m.sim /\ w.isDirty = m.isDirty /\ w.lastConfirm = m.lastConfirm
      /\ w.lastReceived = [q \in Player |->
           IF q \in T2 /\ m.lastReceived[q] < f THEN f ELSE m.lastReceived[q]]
      /\ \A i \in DOMAIN w.inputs : \A q \in Player : w.inputs[i][q] =
           IF q \in T2 /\ (i = f + 1 \/ (m.lastReceived[q] < f /\ i > f + 1))
           THEN row[q] ELSE grown[i][q]
  <2>1. T2 \in SUBSET Connected
    BY <1>0
  <2>2. SetsConfirmed(w, m, row, f, T2)
    BY ONLY <2>1, SoundManager(m), row \in Row, f \in Nat, ConfirmedForSound
  <2> HIDE DEF w
  <2> QED
    BY <1>0, <2>2 DEF SetsConfirmed
<1>4. \A i \in 1 .. size : \A q \in Player : grown[i][q] = GrownAt(m, i, q)
  BY GrownCells
<1>5. /\ ~IsGap(u, f) /\ Larger(Len(u.inputs), f + 1) = size
      /\ u.lastReceived[p] = m.lastReceived[p]
      /\ \A q \in Player : u.lastReceived[q] =
           IF q \in T /\ m.lastReceived[q] < f THEN f ELSE m.lastReceived[q]
      /\ \A i \in 1 .. size : \A q \in Player : GrownAt(u, i, q) =
           IF q \in T /\ (i = f + 1 \/ (m.lastReceived[q] < f /\ i > f + 1))
           THEN row[q] ELSE grown[i][q]
  <2>1. CASE T = {}
    <3>1. u = m
      BY <2>1 DEF ConfirmedFor
    <3> HIDE DEF grown
    <3> QED BY <1>4, <2>1, <3>1
  <2>2. CASE T # {}
    <3>1. /\ Len(u.inputs) = size /\ DOMAIN u.inputs = 1 .. size
          /\ \A i \in DOMAIN u.inputs : \A q \in Player : u.inputs[i][q] =
               IF q \in T /\ (i = f + 1 \/ (m.lastReceived[q] < f /\ i > f + 1))
               THEN row[q] ELSE grown[i][q]
          /\ u.lastReceived = [q \in Player |->
               IF q \in T /\ m.lastReceived[q] < f THEN f ELSE m.lastReceived[q]]
      BY <1>1, <2>2
    <3>2. size >= f + 1 /\ Larger(size, f + 1) = size
      BY <1>2 DEF Larger
    <3> HIDE DEF grown, size
    <3>3. ~IsGap(u, f) /\ Larger(Len(u.inputs), f + 1) = size
      BY <1>2, <3>1, <3>2 DEF IsGap
    <3>4. \A q \in Player : u.lastReceived[q] =
            IF q \in T /\ m.lastReceived[q] < f THEN f ELSE m.lastReceived[q]
      BY <3>1
    <3>5. u.lastReceived[p] = m.lastReceived[p]
      BY <1>0, <3>4
    <3>6. \A i \in 1 .. size : \A q \in Player : GrownAt(u, i, q) = u.inputs[i][q]
      <4>1. \A i \in 1 .. size : i <= Len(u.inputs)
        BY <1>2, <3>1
      <4> QED BY <4>1 DEF GrownAt
    <3> QED BY <3>1, <3>3, <3>4, <3>5, <3>6
  <2> QED BY <2>1, <2>2
<1> HIDE DEF w, size, grown
<1>6. /\ SoundManager(v) /\ Len(v.inputs) = size
      /\ v.lastReceived = [u.lastReceived EXCEPT ![p] = Larger(u.lastReceived[p], f)]
      /\ v.lastConfirm = u.lastConfirm /\ v.sim = u.sim /\ v.isDirty = u.isDirty
      /\ \A i \in 1 .. size : \A q \in Player : v.inputs[i][q] =
           IF q = p /\ (i = f + 1 \/ (u.lastReceived[p] < f /\ i > f + 1))
           THEN row[p] ELSE GrownAt(u, i, q)
  <2>1. SoundManager(v) /\ Len(v.inputs) = size
    BY <1>0, <1>1, <1>5, SetInputSound
  <2>2. /\ v.lastReceived = [u.lastReceived EXCEPT ![p] = Larger(u.lastReceived[p], f)]
        /\ v.lastConfirm = u.lastConfirm
    BY <1>0, <1>1, SetInputEffect
  <2>3. /\ v.sim = u.sim /\ v.isDirty = u.isDirty
        /\ \A i \in 1 .. Larger(Len(u.inputs), f + 1) : \A q \in Player : v.inputs[i][q] =
           IF q = p /\ (i = f + 1 \/ (u.lastReceived[p] < f /\ i > f + 1))
           THEN row[p] ELSE GrownAt(u, i, q)
    BY <1>0, <1>1, SetInputCells
  <2> HIDE DEF v
  <2> QED BY <1>5, <2>1, <2>2, <2>3
<1> HIDE DEF v
<1>7. \A i \in 1 .. size : \A q \in Player : v.inputs[i][q] = w.inputs[i][q]
  <2> SUFFICES ASSUME NEW i \in 1 .. size, NEW q \in Player
               PROVE  v.inputs[i][q] = w.inputs[i][q]
    OBVIOUS
  <2>1. CASE q = p
    BY <1>0, <1>3, <1>5, <1>6, <2>1
  <2>2. CASE q # p
    BY <1>0, <1>3, <1>5, <1>6, <2>2
  <2> QED BY <2>1, <2>2
<1>8. \A q \in Player : v.lastReceived[q] = w.lastReceived[q]
  <2> SUFFICES ASSUME NEW q \in Player PROVE v.lastReceived[q] = w.lastReceived[q]
    OBVIOUS
  <2>1. u.lastReceived \in [Player -> FrameOrNone]
    BY <1>1, ManagerShape
  <2>2. CASE q = p
    BY <1>0, <1>1, <1>2, <1>3, <1>5, <1>6, <2>1, <2>2 DEF Larger
  <2>3. CASE q # p
    BY <1>0, <1>1, <1>3, <1>5, <1>6, <2>1, <2>3
  <2> QED BY <2>2, <2>3
<1>9. v = w
  <2>1. Agree(v, w)
    BY <1>1, <1>3, <1>6, <1>7, <1>8 DEF Agree
  <2> QED BY <1>3, <1>6, <2>1, SameManager
<1> QED BY <1>1, <1>5, <1>9 DEF v, w, T2

\* An order of the players names each of them once.
LEMMA OrderFacts ==
  ASSUME NEW order \in SetToSeqs(Player)
  PROVE  /\ Len(order) \in Nat
         /\ \A i \in 1 .. Len(order) : order[i] \in Player
         /\ \A i, j \in 1 .. Len(order) : order[i] = order[j] => i = j
         /\ \A p \in Player : \E i \in 1 .. Len(order) : order[i] = p
<1> DEFINE n == Cardinality(Player)
<1>1. n \in Nat
  BY PlayersAreFinite, FS_CardinalityType
<1>2. /\ order \in [1 .. n -> Player]
      /\ \A i, j \in 1 .. n : order[i] = order[j] => i = j
  BY DEF SetToSeqs
<1> HIDE DEF n
<1>3. Len(order) = n
  BY <1>1, <1>2, FunctionIsSeq
<1>4. order \in Injection(1 .. n, Player)
  BY <1>2 DEF Injection, IsInjective
<1>5. Cardinality(1 .. n) = Cardinality(Player)
  BY <1>1, FS_Interval DEF n
<1>6. order \in Surjection(1 .. n, Player)
  BY <1>4, <1>5, PlayersAreFinite, FS_Injection
<1> QED
  BY <1>1, <1>2, <1>3, <1>6 DEF Surjection

\* The closed form of SetConfirmed is its loop, whatever the order of the players.
LEMMA SetConfirmedLoop ==
  ASSUME NEW m, SoundManager(m), NEW row \in Row, NEW f \in Nat, ~IsGap(m, f),
         NEW order \in SetToSeqs(Player)
  PROVE  LoopSetConfirmed(m, row, f, order) = SetConfirmed(m, row, f)
<1> DEFINE size == Len(order)
           Before(i) == {q \in Connected : \E j \in 1 .. i : order[j] = q}
           g == [i \in 0 .. size |-> ConfirmedFor(m, row, f, Before(i))]
           IsLoop(loop) == loop = [i \in 0 .. size |->
             IF i = 0 THEN m ELSE LoopSetInput(loop[i - 1], order[i], row[order[i]], f)]
           confirmed == CHOOSE loop : IsLoop(loop)
<1>1. /\ size \in Nat
      /\ \A i \in 1 .. size : order[i] \in Player
      /\ \A i, j \in 1 .. size : order[i] = order[j] => i = j
      /\ \A p \in Player : \E i \in 1 .. size : order[i] = p
  BY OrderFacts
<1>2. LoopSetConfirmed(m, row, f, order) = confirmed[size]
  BY DEF LoopSetConfirmed
<1> HIDE DEF size
<1>3. g[0] = m
  <2>1. Before(0) = {}
    OBVIOUS
  <2>2. 0 \in 0 .. size
    BY <1>1
  <2> HIDE DEF Before
  <2>3. g[0] = ConfirmedFor(m, row, f, Before(0))
    BY <2>2
  <2> HIDE DEF g
  <2> QED BY <2>1, <2>3 DEF ConfirmedFor
<1>4. ASSUME NEW i \in 1 .. size
      PROVE  g[i] = LoopSetInput(g[i - 1], order[i], row[order[i]], f)
  <2> DEFINE p == order[i]
             T == Before(i - 1)
             u == ConfirmedFor(m, row, f, T)
  <2>1. i \in 0 .. size /\ i - 1 \in 0 .. size /\ p \in Player
    BY <1>1
  <2>2. g[i] = ConfirmedFor(m, row, f, Before(i)) /\ g[i - 1] = u
    <3> HIDE DEF Before
    <3> QED BY <2>1
  <2>3. T \in SUBSET Connected
    OBVIOUS
  <2>4. CASE p \notin Connected
    <3>1. Before(i) = T
      <4>1. \A q \in Connected : (\E j \in 1 .. i : order[j] = q)
                                   <=> \E j \in 1 .. i - 1 : order[j] = q
        BY <2>4
      <4> QED BY <4>1
    <3> HIDE DEF Before, T, g
    <3> QED BY <2>2, <2>4, <3>1 DEF LoopSetInput
  <2>5. CASE p \in Connected
    <3>1. p \notin T
      BY <1>1
    <3>2. Before(i) = T \cup {p}
      <4>1. \A q \in Connected : (\E j \in 1 .. i : order[j] = q)
                                   <=> (\E j \in 1 .. i - 1 : order[j] = q) \/ q = p
        <5> SUFFICES ASSUME NEW q \in Connected
                     PROVE (\E j \in 1 .. i : order[j] = q)
                             <=> (\E j \in 1 .. i - 1 : order[j] = q) \/ q = p
          OBVIOUS
        <5>1. i \in 1 .. i /\ \A j \in 1 .. i : j \in 1 .. i - 1 \/ j = i
          OBVIOUS
        <5>2. \A j \in 1 .. i - 1 : j \in 1 .. i
          OBVIOUS
        <5> QED BY <5>1, <5>2
      <4> QED BY <2>5, <4>1
    <3>3. row[p] \in Input
      BY <2>1 DEF Row
    <3> HIDE DEF Before, T, g
    <3>4. p \in Connected \ T
      BY <2>5, <3>1
    <3> HIDE DEF p
    <3>5. u = ConfirmedFor(m, row, f, T)
      OBVIOUS
    <3> HIDE DEF u
    <3>6. /\ SoundManager(u) /\ ~IsGap(u, f)
          /\ SetInput(u, p, row[p], f) = ConfirmedFor(m, row, f, T \cup {p})
      BY <2>3, <3>4, <3>5, ConfirmedNext
    <3>7. LoopSetInput(u, p, row[p], f) = SetInput(u, p, row[p], f)
      BY <2>1, <3>3, <3>6, SetInputLoop
    <3> QED BY <2>2, <3>2, <3>6, <3>7 DEF p
  <2> QED BY <2>4, <2>5
<1>5. g = [i \in 0 .. size |->
             IF i = 0 THEN m ELSE LoopSetInput(g[i - 1], order[i], row[order[i]], f)]
  <2>1. ASSUME NEW i \in 0 .. size
        PROVE  g[i] = IF i = 0 THEN m ELSE LoopSetInput(g[i - 1], order[i], row[order[i]], f)
    <3>1. i # 0 => i \in 1 .. size
      OBVIOUS
    <3> HIDE DEF g
    <3> QED BY <1>3, <1>4, <3>1
  <2>2. g = [i \in 0 .. size |-> g[i]]
    OBVIOUS
  <2> HIDE DEF g
  <2> QED BY <2>1, <2>2
<1>6. g[size] = SetConfirmed(m, row, f)
  <2>1. Before(size) = Connected
    BY <1>1, ConnectedAssumption
  <2>2. g[size] = ConfirmedFor(m, row, f, Before(size))
    <3> HIDE DEF Before
    <3> QED BY <1>1
  <2>3. ConfirmedFor(m, row, f, Connected) = SetConfirmed(m, row, f)
    BY ConnectedAssumption DEF ConfirmedFor, SetConfirmed
  <2> HIDE DEF Before, g
  <2> QED BY <2>1, <2>2, <2>3
<1> HIDE DEF g
<1>7. IsLoop(confirmed)
  <2>1. IsLoop(g)
    BY <1>5
  <2> HIDE DEF IsLoop
  <2> QED BY <2>1
<1>8. \A i \in 0 .. size : confirmed[i] = g[i]
  <2>1. confirmed = [i \in 0 .. size |->
             IF i = 0 THEN m ELSE LoopSetInput(confirmed[i - 1], order[i], row[order[i]], f)]
    BY <1>7
  <2> HIDE DEF confirmed, IsLoop
  <2>2. confirmed[0] = g[0]
    BY <1>1, <1>3, <2>1
  <2>3. ASSUME NEW i \in 0 + 1 .. size, confirmed[i - 1] = g[i - 1]
        PROVE  confirmed[i] = g[i]
    <3>1. i \in 0 .. size /\ i # 0 /\ i \in 1 .. size
      OBVIOUS
    <3>2. confirmed[i] = LoopSetInput(confirmed[i - 1], order[i], row[order[i]], f)
      BY <2>1, <3>1
    <3> QED BY <1>4, <2>3, <3>1, <3>2
  <2>4. TakesSteps(confirmed, g, 0, size)
    BY <2>2, <2>3 DEF TakesSteps
  <2> QED BY <1>1, <2>4, SameLoop
<1> HIDE DEF confirmed
<1> QED BY <1>1, <1>2, <1>6, <1>8

-----------------------------------------------------------------------------
(* SetInputs and its loop.                                                  *)

\* The manager as SetInputs marks it before it sets an input.
LEMMA DirtySound ==
  ASSUME NEW u, SoundManager(u), NEW wrong, NEW v, v = [u EXCEPT !.isDirty = @ \/ wrong]
  PROVE  /\ SoundManager(v) /\ v.isDirty \in BOOLEAN /\ (v.isDirty <=> u.isDirty \/ wrong)
         /\ v.inputs = u.inputs /\ v.lastReceived = u.lastReceived
         /\ v.lastConfirm = u.lastConfirm /\ v.sim = u.sim
<1>1. u \in Manager /\ RowsReach(u) /\ u.isDirty \in BOOLEAN
  BY DEF SoundManager, Manager
<1>2. /\ v.isDirty = (u.isDirty \/ wrong)
      /\ v.inputs = u.inputs /\ v.lastReceived = u.lastReceived
      /\ v.lastConfirm = u.lastConfirm /\ v.sim = u.sim
  BY <1>1 DEF Manager
<1>3. (u.isDirty \/ wrong) \in BOOLEAN
  OBVIOUS
<1>4. v \in Manager
  BY <1>1, <1>3 DEF Manager
<1>5. RowsReach(v)
  BY <1>1, <1>2 DEF RowsReach
<1>6. v.isDirty \in BOOLEAN /\ (v.isDirty <=> u.isDirty \/ wrong)
  BY <1>2, <1>3
<1> QED
  BY <1>2, <1>4, <1>5, <1>6 DEF SoundManager

\* w is u once one input of a packet is in.
ImportsOne(w, u, p, input, f) ==
  /\ Len(w.inputs) = Larger(Len(u.inputs), f + 1)
  /\ \A i \in 1 .. Len(w.inputs) : \A q \in Player : w.inputs[i][q] =
       IF q = p /\ (i = f + 1 \/ (u.lastReceived[p] < f /\ i > f + 1))
       THEN input ELSE GrownAt(u, i, q)
  /\ \A q \in Player : w.lastReceived[q] =
       IF q = p THEN Larger(u.lastReceived[p], f) ELSE u.lastReceived[q]
  /\ w.lastConfirm = u.lastConfirm /\ w.sim = u.sim
  /\ w.isDirty <=> u.isDirty \/ (u.inputs # << >> /\ InputAt(u, p, f) # input)

\* One round of the loop that is not skipped does just that.
LEMMA ImportOne ==
  ASSUME NEW u, SoundManager(u), NEW p \in Connected, NEW input \in Input,
         NEW f \in Nat, ~IsGap(u, f), NEW w, SoundManager(w),
         ImportsOne(w, u, p, input, f)
  PROVE  LoopSetInput([u EXCEPT !.isDirty = @ \/ (u.inputs # << >> /\ InputAt(u, p, f) # input)],
                      p, input, f) = w
<1> DEFINE wrong == u.inputs # << >> /\ InputAt(u, p, f) # input
           d == [u EXCEPT !.isDirty = @ \/ wrong]
           v == SetInput(d, p, input, f)
<1>1. /\ SoundManager(d) /\ d.isDirty \in BOOLEAN /\ (d.isDirty <=> u.isDirty \/ wrong)
      /\ d.inputs = u.inputs /\ d.lastReceived = u.lastReceived
      /\ d.lastConfirm = u.lastConfirm /\ d.sim = u.sim
  <2> HIDE DEF wrong
  <2>1. d = [u EXCEPT !.isDirty = @ \/ wrong]
    OBVIOUS
  <2> HIDE DEF d
  <2> QED BY <2>1, DirtySound
<1>2. /\ ~IsGap(d, f) /\ p \in Player
      /\ \A i, q : GrownAt(d, i, q) = GrownAt(u, i, q)
  <2> HIDE DEF d
  <2> QED BY <1>1, ConnectedAssumption DEF IsGap, GrownAt, NewestRow
<1>3. w.isDirty <=> u.isDirty \/ wrong
  BY DEF ImportsOne
<1> HIDE DEF d, wrong
<1>4. LoopSetInput(d, p, input, f) = v
  BY <1>1, <1>2, SetInputLoop
<1>5. SoundManager(v) /\ Len(v.inputs) = Larger(Len(u.inputs), f + 1)
  BY <1>1, SetInputSound
<1>6. /\ v.lastReceived = [u.lastReceived EXCEPT ![p] = Larger(u.lastReceived[p], f)]
      /\ v.lastConfirm = u.lastConfirm
  BY <1>1, SetInputEffect
<1>7. /\ v.sim = u.sim /\ v.isDirty = d.isDirty
      /\ \A i \in 1 .. Larger(Len(u.inputs), f + 1) : \A q \in Player : v.inputs[i][q] =
           IF q = p /\ (i = f + 1 \/ (u.lastReceived[p] < f /\ i > f + 1))
           THEN input ELSE GrownAt(d, i, q)
  BY <1>1, SetInputCells
<1> HIDE DEF v
<1>8. \A q \in Player : v.lastReceived[q] = w.lastReceived[q]
  <2>1. u.lastReceived \in [Player -> FrameOrNone]
    BY ManagerShape
  <2> QED BY <1>2, <1>6, <2>1 DEF ImportsOne
<1>9. \A i \in 1 .. Len(v.inputs) : \A q \in Player : v.inputs[i][q] = w.inputs[i][q]
  <2> SUFFICES ASSUME NEW i \in 1 .. Len(v.inputs), NEW q \in Player
               PROVE  v.inputs[i][q] = w.inputs[i][q]
    OBVIOUS
  <2>1. v.inputs[i][q] =
           IF q = p /\ (i = f + 1 \/ (u.lastReceived[p] < f /\ i > f + 1))
           THEN input ELSE GrownAt(u, i, q)
    BY <1>2, <1>5, <1>7
  <2>2. w.inputs[i][q] =
           IF q = p /\ (i = f + 1 \/ (u.lastReceived[p] < f /\ i > f + 1))
           THEN input ELSE GrownAt(u, i, q)
    BY <1>5 DEF ImportsOne
  <2> QED BY ONLY <2>1, <2>2
<1>10. v.isDirty = w.isDirty
  <2>1. w.isDirty \in BOOLEAN
    BY ManagerShape
  <2> QED BY <1>1, <1>3, <1>7, <2>1
<1>11. Agree(v, w)
  BY <1>5, <1>6, <1>7, <1>8, <1>9, <1>10 DEF Agree, ImportsOne
<1>12. v = w
  BY <1>5, <1>11, SameManager
<1> QED
  BY <1>4, <1>12 DEF d, wrong

\* The first i inputs of a packet, as a packet.
FirstInputs(pkt, i) ==
  [player |-> pkt.player, frame |-> FirstFrame(pkt) + i - 1,
   inputs |-> SubSeq(pkt.inputs, 1, i)]

LEMMA FirstInputsFacts ==
  ASSUME NEW pkt \in InputPacket, FirstFrame(pkt) \in Nat,
         NEW i \in 1 .. Len(pkt.inputs),
         NEW part, part = FirstInputs(pkt, i)
  PROVE  /\ part \in InputPacket /\ part.player = pkt.player
         /\ part.frame = FirstFrame(pkt) + i - 1 /\ part.frame \in Nat
         /\ FirstFrame(part) = FirstFrame(pkt)
         /\ \A f \in FirstFrame(pkt) .. part.frame : PacketInput(part, f) = PacketInput(pkt, f)
<1> DEFINE xs == pkt.inputs
           ys == SubSeq(xs, 1, i)
           first == FirstFrame(pkt)
<1>1. xs \in Seq(Input) /\ Len(xs) \in Nat /\ i \in Nat /\ i >= 1 /\ pkt.player \in Connected
  BY DEF InputPacket
<1>2. /\ ys \in Seq(Input) /\ Len(ys) = i
      /\ \A j \in 1 .. i : ys[j] = xs[j]
  <2>1. 1 \in 1 .. Len(xs) + 1 /\ i \in 0 .. Len(xs) /\ 1 <= i + 1
    BY <1>1
  <2> HIDE DEF xs
  <2>2. /\ ys \in Seq(Input) /\ Len(ys) = i
        /\ \A j \in 1 .. i : ys[j] = xs[j]
    BY <1>1, <2>1, SubSeqProperties
  <2> QED BY <2>2
<1>3. ys # << >>
  BY <1>1, <1>2, EmptySeq
<1>4. part.player = pkt.player /\ part.frame = first + i - 1 /\ part.inputs = ys
  BY DEF FirstInputs
<1> HIDE DEF xs, ys
<1>5. first + i - 1 \in Nat
  BY <1>1 DEF first
<1>6. part \in InputPacket
  BY <1>1, <1>2, <1>3, <1>5 DEF FirstInputs, InputPacket, xs, ys, first
<1>7. FirstFrame(part) = first
  BY <1>1, <1>2, <1>4, <1>5 DEF FirstFrame
<1>8. ASSUME NEW f \in first .. part.frame
      PROVE  PacketInput(part, f) = PacketInput(pkt, f)
  <2>1. f - first + 1 \in 1 .. i
    BY <1>1, <1>4, <1>5
  <2>2. PacketInput(part, f) = ys[f - first + 1] /\ PacketInput(pkt, f) = xs[f - first + 1]
    BY <1>4, <1>7 DEF PacketInput, xs, first
  <2> QED BY <1>2, <2>1, <2>2
<1> QED
  BY <1>4, <1>5, <1>6, <1>7, <1>8 DEF first

\* A frame of the packet contradicts what is held for it.
Contradicts(m, pkt, f) ==
  /\ f > FirstUsed(m, pkt) \/ m.inputs # << >>
  /\ HeldInput(m, pkt, f) # PacketInput(pkt, f)

\* Of the first inputs of a packet SetInputs compares the same frames as of all.
LEMMA FirstInputsMispredicted ==
  ASSUME NEW m, SoundManager(m), NEW pkt \in InputPacket, FirstFrame(pkt) \in Nat,
         NEW i \in 1 .. Len(pkt.inputs),
         NEW part, part = FirstInputs(pkt, i)
  PROVE  /\ FirstUsed(m, part) = FirstUsed(m, pkt)
         /\ Mispredicted(m, part) <=>
              \E f \in FirstUsed(m, pkt) .. FirstFrame(pkt) + i - 1 : Contradicts(m, pkt, f)
<1> DEFINE first == FirstFrame(pkt)
           used == FirstUsed(m, pkt)
<1>1. /\ part.player = pkt.player /\ part.frame = first + i - 1 /\ part.frame \in Nat
      /\ FirstFrame(part) = first
      /\ \A f \in first .. part.frame : PacketInput(part, f) = PacketInput(pkt, f)
  BY FirstInputsFacts
<1>2. FirstUsed(m, part) = used
  BY <1>1 DEF FirstUsed
<1>3. m.lastReceived[pkt.player] \in Int /\ used \in Int /\ used >= first
  <2>1. pkt.player \in Player
    BY ConnectedAssumption DEF InputPacket
  <2> QED BY <2>1, ManagerShape DEF FirstUsed, Larger
<1> HIDE DEF first, used
<1>4. ASSUME NEW f \in used .. part.frame
      PROVE  /\ PacketInput(part, f) = PacketInput(pkt, f)
             /\ HeldInput(m, part, f) = HeldInput(m, pkt, f)
  <2>1. first \in Nat /\ f \in first .. part.frame
    BY <1>1, <1>3 DEF first
  <2>2. f # used => f - 1 \in first .. part.frame
    BY <1>1, <1>3, <2>1
  <2> QED
    BY <1>1, <1>2, <2>1, <2>2 DEF HeldInput, used
<1>5. Mispredicted(m, part) <=>
        \E f \in used .. part.frame :
          /\ f > used \/ m.inputs # << >>
          /\ HeldInput(m, part, f) # PacketInput(part, f)
  BY <1>2 DEF Mispredicted
<1>6. Mispredicted(m, part) <=> \E f \in used .. part.frame : Contradicts(m, pkt, f)
  BY <1>4, <1>5 DEF Contradicts, used
<1> QED
  BY <1>1, <1>2, <1>6 DEF used, first

\* What SetInputs makes of a packet that holds input for its newest frame f and
\* fills the rows from frame used on.
Fills(w, m, pkt, used, f) ==
  LET p == pkt.player
  IN  /\ SoundManager(w)
      /\ Len(w.inputs) = Larger(Len(m.inputs), f + 1)
      /\ \A i \in 1 .. Len(w.inputs) : \A q \in Player : w.inputs[i][q] =
           IF q = p /\ i > used /\ i <= f + 1 THEN PacketInput(pkt, i - 1)
           ELSE IF q = p /\ m.lastReceived[p] < f /\ i > f + 1 THEN PacketInput(pkt, f)
           ELSE GrownAt(m, i, q)
      /\ \A q \in Player : w.lastReceived[q] = IF q = p THEN f ELSE m.lastReceived[q]
      /\ w.lastConfirm = m.lastConfirm /\ w.sim = m.sim
      /\ w.isDirty <=> m.isDirty \/ \E g \in used .. f : Contradicts(m, pkt, g)

LEMMA FirstInputsFill ==
  ASSUME NEW m, SoundManager(m), NEW pkt \in InputPacket, FirstFrame(pkt) \in Nat,
         NEW i \in 1 .. Len(pkt.inputs), NEW f, f = FirstFrame(pkt) + i - 1,
         f >= m.lastReceived[pkt.player]
  PROVE  Fills(SetInputs(m, FirstInputs(pkt, i)), m, pkt, FirstUsed(m, pkt), f)
<1> DEFINE part == FirstInputs(pkt, i)
           p == pkt.player
           w == SetInputs(m, part)
           used == FirstUsed(m, pkt)
           first == FirstFrame(pkt)
<1>1. /\ part \in InputPacket /\ part.player = p /\ part.frame = f /\ f \in Nat
      /\ \A g \in first .. f : PacketInput(part, g) = PacketInput(pkt, g)
  <2> HIDE DEF part
  <2>1. part = FirstInputs(pkt, i)
    BY DEF part
  <2> QED BY <2>1, FirstInputsFacts
<1>2. /\ FirstUsed(m, part) = used
      /\ Mispredicted(m, part) <=> \E g \in used .. f : Contradicts(m, pkt, g)
  <2> HIDE DEF part
  <2>1. part = FirstInputs(pkt, i)
    BY DEF part
  <2> QED BY <2>1, FirstInputsMispredicted
<1>3. /\ p \in Player /\ m.lastReceived[p] \in Int /\ used \in Int /\ used >= first
      /\ m.lastReceived \in [Player -> FrameOrNone]
      /\ first \in Nat /\ first <= f /\ Len(m.inputs) \in Nat /\ used <= f
  <2>1. p \in Player
    BY ConnectedAssumption DEF InputPacket
  <2> QED BY <1>1, <2>1, ManagerShape DEF FirstUsed, Larger
<1> HIDE DEF part, p, used, first
<1>4. SoundManager(w)
  BY <1>1, SetInputsSound
<1>5. /\ w.lastConfirm = m.lastConfirm
      /\ w.lastReceived = [m.lastReceived EXCEPT ![p] = Larger(m.lastReceived[p], f)]
  <2>1. /\ w.lastConfirm = m.lastConfirm
        /\ w.lastReceived = [m.lastReceived EXCEPT ![part.player]
                                = Larger(m.lastReceived[part.player], part.frame)]
    BY <1>1, SetInputsEffect
  <2> QED BY <1>1, <2>1
<1>6. part.frame >= m.lastReceived[part.player]
  BY <1>1 DEF p
<1>7. /\ Len(w.inputs) = Larger(Len(m.inputs), f + 1)
      /\ \A j \in 1 .. Larger(Len(m.inputs), f + 1) : \A q \in Player : w.inputs[j][q] =
           IF q = p /\ j - 1 \in used .. f THEN PacketInput(part, j - 1)
           ELSE IF q = p /\ m.lastReceived[p] < f /\ j - 1 > f THEN PacketInput(part, f)
           ELSE GrownAt(m, j, q)
      /\ w.sim = m.sim
      /\ w.isDirty = (m.isDirty \/ Mispredicted(m, part))
  <2>1. part \in InputPacket
    BY <1>1
  <2>2. /\ Len(w.inputs) = Larger(Len(m.inputs), part.frame + 1)
        /\ \A j \in 1 .. Larger(Len(m.inputs), part.frame + 1) : \A q \in Player :
             w.inputs[j][q] =
               IF q = part.player /\ j - 1 \in FirstUsed(m, part) .. part.frame
               THEN PacketInput(part, j - 1)
               ELSE IF q = part.player /\ m.lastReceived[part.player] < part.frame
                       /\ j - 1 > part.frame
               THEN PacketInput(part, part.frame)
               ELSE GrownAt(m, j, q)
        /\ w.sim = m.sim
        /\ w.isDirty = (m.isDirty \/ Mispredicted(m, part))
    BY ONLY <1>6, <2>1, SoundManager(m), SetInputsCells
  <2>3. part.player = p /\ part.frame = f /\ FirstUsed(m, part) = used
    BY <1>1, <1>2
  <2> HIDE DEF w
  <2> QED BY ONLY <2>2, <2>3
<1> HIDE DEF w
<1>70. \A j \in 1 .. Larger(Len(m.inputs), f + 1) : \A q \in Player : w.inputs[j][q] =
           IF q = p /\ j - 1 \in used .. f THEN PacketInput(part, j - 1)
           ELSE IF q = p /\ m.lastReceived[p] < f /\ j - 1 > f THEN PacketInput(part, f)
           ELSE GrownAt(m, j, q)
  BY <1>7
<1>8. ASSUME NEW j \in 1 .. Len(w.inputs), NEW q \in Player
      PROVE  w.inputs[j][q] =
           IF q = p /\ j > used /\ j <= f + 1 THEN PacketInput(pkt, j - 1)
           ELSE IF q = p /\ m.lastReceived[p] < f /\ j > f + 1 THEN PacketInput(pkt, f)
           ELSE GrownAt(m, j, q)
  <2>1. Larger(Len(m.inputs), f + 1) \in Nat
    BY <1>1, <1>3 DEF Larger
  <2>2. j \in Int /\ (j - 1 \in used .. f <=> j > used /\ j <= f + 1) /\ (j - 1 > f <=> j > f + 1)
        /\ (j > used /\ j <= f + 1 => j - 1 \in first .. f) /\ f \in first .. f
    <3>1. j \in Int
      BY <1>7, <2>1
    <3>2. f \in Nat /\ used \in Int /\ used >= first /\ first \in Nat /\ first <= f
      BY <1>1, <1>3
    <3> QED BY ONLY <3>1, <3>2
  <2>3. w.inputs[j][q] =
           IF q = p /\ j - 1 \in used .. f THEN PacketInput(part, j - 1)
           ELSE IF q = p /\ m.lastReceived[p] < f /\ j - 1 > f THEN PacketInput(part, f)
           ELSE GrownAt(m, j, q)
    <3>1. j \in 1 .. Larger(Len(m.inputs), f + 1)
      BY <1>7
    <3> QED BY ONLY <1>70, <3>1, q \in Player
  <2>4. PacketInput(part, f) = PacketInput(pkt, f)
        /\ (j - 1 \in first .. f => PacketInput(part, j - 1) = PacketInput(pkt, j - 1))
    BY <1>1, <2>2
  <2> QED BY <2>2, <2>3, <2>4
<1>9. \A q \in Player : w.lastReceived[q] = IF q = p THEN f ELSE m.lastReceived[q]
  <2>1. Larger(m.lastReceived[p], f) = f
    BY <1>1, <1>3, <1>6 DEF Larger
  <2> QED BY <1>3, <1>5, <2>1
<1>10. w.isDirty <=> m.isDirty \/ \E g \in used .. f : Contradicts(m, pkt, g)
  BY <1>2, <1>7
<1> QED
  BY <1>4, <1>5, <1>7, <1>8, <1>9, <1>10 DEF Fills, p, used, w, part

\* The manager after i rounds of the loop.
PartialImport(m, pkt, i) == IF i = 0 THEN m ELSE SetInputs(m, FirstInputs(pkt, i))

\* The first input used is set on the manager as it was.
LEMMA FirstImport ==
  ASSUME NEW m, SoundManager(m), NEW pkt \in InputPacket, FirstFrame(pkt) \in Nat,
         NEW i \in 1 .. Len(pkt.inputs), NEW f, f = FirstFrame(pkt) + i - 1,
         f = FirstUsed(m, pkt), ~IsGap(m, f),
         NEW w, Fills(w, m, pkt, f, f)
  PROVE  ImportsOne(w, m, pkt.player, pkt.inputs[i], f)
<1> DEFINE p == pkt.player
           input == pkt.inputs[i]
<1>1. /\ p \in Player /\ m.lastReceived[p] \in Int /\ f \in Nat /\ i \in Nat
      /\ f >= m.lastReceived[p] /\ Len(m.inputs) \in Nat
  <2>1. p \in Player
    BY ConnectedAssumption DEF InputPacket
  <2>2. i \in Nat /\ i >= 1
    BY DEF InputPacket
  <2> QED BY <2>1, <2>2, ManagerShape DEF FirstUsed, Larger
<1>2. PacketInput(pkt, f) = input
  <2>1. f - FirstFrame(pkt) + 1 = i
    BY <1>1
  <2> QED BY <2>1 DEF PacketInput
<1>3. (\E g \in f .. f : Contradicts(m, pkt, g))
        <=> m.inputs # << >> /\ InputAt(m, p, f) # input
  <2>1. \A g \in f .. f : g = f
    BY <1>1
  <2>2. f \in f .. f /\ ~(f > f)
    BY <1>1
  <2>3. Contradicts(m, pkt, f) <=> m.inputs # << >> /\ InputAt(m, p, f) # input
    BY <1>2, <2>2 DEF Contradicts, HeldInput
  <2> QED BY <2>1, <2>2, <2>3
<1> HIDE DEF p, input
<1>4. /\ SoundManager(w)
      /\ Len(w.inputs) = Larger(Len(m.inputs), f + 1)
      /\ \A j \in 1 .. Len(w.inputs) : \A q \in Player : w.inputs[j][q] =
           IF q = p /\ j > f /\ j <= f + 1 THEN PacketInput(pkt, j - 1)
           ELSE IF q = p /\ m.lastReceived[p] < f /\ j > f + 1 THEN PacketInput(pkt, f)
           ELSE GrownAt(m, j, q)
      /\ \A q \in Player : w.lastReceived[q] = IF q = p THEN f ELSE m.lastReceived[q]
      /\ w.lastConfirm = m.lastConfirm /\ w.sim = m.sim
      /\ w.isDirty <=> m.isDirty \/ \E g \in f .. f : Contradicts(m, pkt, g)
  BY DEF Fills, p
<1>5. ASSUME NEW j \in 1 .. Len(w.inputs), NEW q \in Player
      PROVE  w.inputs[j][q] = IF q = p /\ (j = f + 1 \/ (m.lastReceived[p] < f /\ j > f + 1))
                              THEN input ELSE GrownAt(m, j, q)
  <2>1. Len(w.inputs) \in Nat
    BY <1>4, ManagerShape
  <2>2. j \in Int /\ (j > f /\ j <= f + 1 <=> j = f + 1)
    BY <1>1, <2>1
  <2>3. j = f + 1 => j - 1 = f /\ ~(j > f + 1)
    BY <1>1
  <2> QED BY <1>2, <1>4, <2>2, <2>3
<1>6. \A q \in Player : w.lastReceived[q] =
        IF q = p THEN Larger(m.lastReceived[p], f) ELSE m.lastReceived[q]
  <2>1. Larger(m.lastReceived[p], f) = f
    BY <1>1 DEF Larger
  <2> QED BY <1>4, <2>1
<1> QED
  BY <1>3, <1>4, <1>5, <1>6 DEF ImportsOne, p, input

\* The next input is set on the manager that the previous ones were set on.
LEMMA NextImport ==
  ASSUME NEW m, SoundManager(m), NEW pkt \in InputPacket, FirstFrame(pkt) \in Nat,
         NEW i \in 2 .. Len(pkt.inputs), NEW f, f = FirstFrame(pkt) + i - 1,
         f - 1 >= m.lastReceived[pkt.player],
         NEW used, used = FirstUsed(m, pkt), ~IsGap(m, used),
         NEW u, Fills(u, m, pkt, used, f - 1), NEW w, Fills(w, m, pkt, used, f)
  PROVE  ~IsGap(u, f) /\ ImportsOne(w, u, pkt.player, pkt.inputs[i], f)
<1> DEFINE p == pkt.player
           input == pkt.inputs[i]
           r == m.lastReceived[p]
           size == Len(m.inputs)
<1>1. /\ p \in Player /\ r \in Int /\ f \in Nat /\ i \in Nat /\ size \in Nat
      /\ f - 1 >= r /\ f >= 1
      /\ used \in Int /\ used <= f - 1 /\ used >= 0 /\ used <= size
  <2>1. p \in Player
    BY ConnectedAssumption DEF InputPacket
  <2>2. i \in Nat /\ i >= 2
    BY DEF InputPacket
  <2>3. r \in Int /\ r >= -1 /\ size \in Nat
    BY <2>1, ManagerShape
  <2>4. used = Larger(FirstFrame(pkt), r) /\ ~(used > size)
    BY DEF FirstUsed, IsGap
  <2>5. f - 1 >= r /\ f = FirstFrame(pkt) + i - 1 /\ FirstFrame(pkt) \in Nat
    OBVIOUS
  <2> HIDE DEF p, r, size
  <2> QED BY ONLY <2>1, <2>2, <2>3, <2>4, <2>5 DEF Larger
<1>2. PacketInput(pkt, f) = input
  <2>1. f - FirstFrame(pkt) + 1 = i
    <3>1. f \in Nat /\ i \in Nat
      BY <1>1
    <3> QED BY ONLY <3>1, f = FirstFrame(pkt) + i - 1, FirstFrame(pkt) \in Nat
  <2> QED BY <2>1 DEF PacketInput
<1>3. /\ SoundManager(u)
      /\ Len(u.inputs) = Larger(size, f)
      /\ \A j \in 1 .. Len(u.inputs) : \A q \in Player : u.inputs[j][q] =
           IF q = p /\ j > used /\ j <= f THEN PacketInput(pkt, j - 1)
           ELSE IF q = p /\ r < f - 1 /\ j > f THEN PacketInput(pkt, f - 1)
           ELSE GrownAt(m, j, q)
      /\ \A q \in Player : u.lastReceived[q] = IF q = p THEN f - 1 ELSE m.lastReceived[q]
      /\ u.lastConfirm = m.lastConfirm /\ u.sim = m.sim
      /\ u.isDirty <=> m.isDirty \/ \E g \in used .. f - 1 : Contradicts(m, pkt, g)
  <2>1. f - 1 + 1 = f
    <3>1. f \in Nat
      BY <1>1
    <3> QED BY ONLY <3>1
  <2>2. /\ SoundManager(u)
        /\ Len(u.inputs) = Larger(size, f - 1 + 1)
        /\ \A j \in 1 .. Len(u.inputs) : \A q \in Player : u.inputs[j][q] =
             IF q = p /\ j > used /\ j <= f - 1 + 1 THEN PacketInput(pkt, j - 1)
             ELSE IF q = p /\ r < f - 1 /\ j > f - 1 + 1 THEN PacketInput(pkt, f - 1)
             ELSE GrownAt(m, j, q)
        /\ \A q \in Player : u.lastReceived[q] = IF q = p THEN f - 1 ELSE m.lastReceived[q]
        /\ u.lastConfirm = m.lastConfirm /\ u.sim = m.sim
        /\ u.isDirty <=> m.isDirty \/ \E g \in used .. f - 1 : Contradicts(m, pkt, g)
    BY DEF Fills
  <2> HIDE DEF p, r, size
  <2> QED BY ONLY <2>1, <2>2
<1>4. /\ SoundManager(w)
      /\ Len(w.inputs) = Larger(size, f + 1)
      /\ \A j \in 1 .. Len(w.inputs) : \A q \in Player : w.inputs[j][q] =
           IF q = p /\ j > used /\ j <= f + 1 THEN PacketInput(pkt, j - 1)
           ELSE IF q = p /\ r < f /\ j > f + 1 THEN PacketInput(pkt, f)
           ELSE GrownAt(m, j, q)
      /\ \A q \in Player : w.lastReceived[q] = IF q = p THEN f ELSE m.lastReceived[q]
      /\ w.lastConfirm = m.lastConfirm /\ w.sim = m.sim
      /\ w.isDirty <=> m.isDirty \/ \E g \in used .. f : Contradicts(m, pkt, g)
  BY DEF Fills
<1> HIDE DEF p, input, r, size
<1>30. \A j \in 1 .. Len(u.inputs) : \A q \in Player : u.inputs[j][q] =
           IF q = p /\ j > used /\ j <= f THEN PacketInput(pkt, j - 1)
           ELSE IF q = p /\ r < f - 1 /\ j > f THEN PacketInput(pkt, f - 1)
           ELSE GrownAt(m, j, q)
  BY <1>3
<1>40. \A j \in 1 .. Len(w.inputs) : \A q \in Player : w.inputs[j][q] =
           IF q = p /\ j > used /\ j <= f + 1 THEN PacketInput(pkt, j - 1)
           ELSE IF q = p /\ r < f /\ j > f + 1 THEN PacketInput(pkt, f)
           ELSE GrownAt(m, j, q)
  BY <1>4
<1>5. /\ Len(u.inputs) \in Nat /\ Len(u.inputs) >= f /\ Len(u.inputs) >= size
      /\ Len(w.inputs) = Larger(Len(u.inputs), f + 1) /\ Len(w.inputs) \in Nat
      /\ Len(u.inputs) >= 1 /\ (Len(u.inputs) = f \/ Len(u.inputs) = size)
  <2>1. Len(u.inputs) = Larger(size, f) /\ Len(w.inputs) = Larger(size, f + 1)
    BY <1>3, <1>4
  <2>2. size \in Nat /\ f \in Nat /\ f >= 1
    BY <1>1
  <2> QED BY ONLY <2>1, <2>2 DEF Larger
<1>6. u.inputs # << >> /\ ~IsGap(u, f)
  <2>1. u.inputs \in Seq(Row) /\ SoundManager(u)
    BY <1>3, ManagerShape
  <2>2. ~(Len(u.inputs) = 0) /\ ~(f > Len(u.inputs))
    BY ONLY <1>1, <1>5
  <2>3. u.inputs # << >>
    BY ONLY <2>1, <2>2, EmptySeq
  <2> QED BY ONLY <2>2, <2>3 DEF IsGap
<1>7. ASSUME NEW j \in 1 .. Len(w.inputs), NEW q \in Player
      PROVE  w.inputs[j][q] =
               IF q = p /\ (j = f + 1 \/ (u.lastReceived[p] < f /\ j > f + 1))
               THEN input ELSE GrownAt(u, j, q)
  <2>1. j \in Nat /\ j >= 1 /\ u.lastReceived[p] < f /\ r < f
    <3>1. u.lastReceived[p] = f - 1
      BY <1>1, <1>3
    <3>2. Len(w.inputs) \in Nat /\ f \in Nat /\ r \in Int /\ f - 1 >= r
      BY <1>1, <1>5
    <3> QED BY ONLY <3>1, <3>2, j \in 1 .. Len(w.inputs)
  <2>0. w.inputs[j][q] =
           IF q = p /\ j > used /\ j <= f + 1 THEN PacketInput(pkt, j - 1)
           ELSE IF q = p /\ r < f /\ j > f + 1 THEN PacketInput(pkt, f)
           ELSE GrownAt(m, j, q)
    BY ONLY <1>40, j \in 1 .. Len(w.inputs), q \in Player
  <2>2. CASE q = p /\ j >= f + 1
    <3>1. w.inputs[j][q] = PacketInput(pkt, f)
      <4>1. CASE j = f + 1
        <5>1. j > used /\ j <= f + 1 /\ j - 1 = f
          BY ONLY <1>1, <4>1
        <5> QED BY ONLY <2>0, <2>2, <5>1
      <4>2. CASE j > f + 1
        <5>1. ~(j <= f + 1)
          BY ONLY <1>1, <2>1, <4>2
        <5> QED BY ONLY <2>0, <2>1, <2>2, <4>2, <5>1
      <4> QED BY ONLY <1>1, <2>1, <2>2, <4>1, <4>2
    <3>2. j = f + 1 \/ j > f + 1
      BY ONLY <1>1, <2>1, <2>2
    <3> QED BY <1>2, <2>1, <2>2, <3>1, <3>2
  <2>3. CASE ~(q = p /\ j >= f + 1) /\ j <= Len(u.inputs)
    <3>1. j \in 1 .. Len(u.inputs) /\ GrownAt(u, j, q) = u.inputs[j][q]
      BY <1>5, <2>1, <2>3 DEF GrownAt
    <3>0. j \in Nat /\ f \in Nat
      BY <1>1, <2>1
    <3>2. ~(q = p /\ (j = f + 1 \/ (u.lastReceived[p] < f /\ j > f + 1)))
      BY ONLY <2>3, <3>0
    <3>3. q = p => j <= f /\ ~(j > f) /\ j <= f + 1 /\ ~(j > f + 1)
      BY ONLY <2>3, <3>0
    <3>4. u.inputs[j][q] = IF q = p /\ j > used THEN PacketInput(pkt, j - 1) ELSE GrownAt(m, j, q)
      BY ONLY <1>30, <3>1, <3>3, q \in Player
    <3>5. w.inputs[j][q] = IF q = p /\ j > used THEN PacketInput(pkt, j - 1) ELSE GrownAt(m, j, q)
      BY ONLY <2>0, <3>3
    <3> QED BY ONLY <3>1, <3>2, <3>4, <3>5
  <2>4. CASE q # p /\ j > Len(u.inputs)
    <3>1. Len(u.inputs) = f /\ j = f + 1 /\ size <= f /\ f \in 1 .. Len(u.inputs)
      BY ONLY <1>1, <1>5, <2>1, <2>4 DEF Larger
    <3>2. GrownAt(u, j, q) = GrownAt(m, f, q)
      <4>1. NewestRow(u) = u.inputs[f]
        BY <1>6, <3>1 DEF NewestRow
      <4>2. GrownAt(u, j, q) = u.inputs[f][q]
        <5>1. ~(j <= Len(u.inputs))
          BY <1>5, <2>1, <2>4
        <5> QED BY ONLY <4>1, <5>1 DEF GrownAt
      <4>3. u.inputs[f][q] = GrownAt(m, f, q)
        BY ONLY <1>30, <2>4, <3>1, q \in Player
      <4> QED BY ONLY <4>2, <4>3
    <3>3. GrownAt(m, f + 1, q) = GrownAt(m, f, q)
      <4>1. ~(f + 1 <= Len(m.inputs))
        BY ONLY <1>1, <3>1 DEF size
      <4>2. GrownAt(m, f + 1, q) = NewestRow(m)[q]
        BY <4>1 DEF GrownAt
      <4>3. CASE f <= size
        <5>1. f = Len(m.inputs) /\ Len(m.inputs) # 0
          BY ONLY <1>1, <3>1, <4>3 DEF size
        <5>2. m.inputs # << >>
          BY <5>1, ManagerShape, EmptySeq
        <5>3. NewestRow(m) = m.inputs[f]
          BY <5>1, <5>2 DEF NewestRow
        <5>4. GrownAt(m, f, q) = m.inputs[f][q]
          BY <5>1, <1>1 DEF GrownAt
        <5> QED BY <4>2, <5>3, <5>4
      <4>4. CASE ~(f <= size)
        BY <4>2, <4>4 DEF GrownAt, size
      <4> QED BY <4>3, <4>4
    <3>4. w.inputs[j][q] = GrownAt(m, j, q)
      BY ONLY <2>0, <2>4
    <3> QED BY <2>4, <3>1, <3>2, <3>3, <3>4
  <2>5. q = p /\ ~(j >= f + 1) => j <= Len(u.inputs)
    BY ONLY <1>1, <1>5, <2>1
  <2>6. j <= Len(u.inputs) \/ j > Len(u.inputs)
    BY <1>5, <2>1
  <2> QED BY <2>2, <2>3, <2>4, <2>5, <2>6
<1>8. \A q \in Player : w.lastReceived[q] =
        IF q = p THEN Larger(u.lastReceived[p], f) ELSE u.lastReceived[q]
  <2>1. u.lastReceived[p] = f - 1 /\ Larger(f - 1, f) = f
    BY <1>1, <1>3 DEF Larger
  <2> QED BY <1>3, <1>4, <2>1
<1>9. InputAt(u, p, f) = HeldInput(m, pkt, f)
  <2>1. f # used /\ f > used
    BY <1>1
  <2>2. HeldInput(m, pkt, f) = IF f = r + 1 /\ f < size THEN InputAt(m, p, f)
                               ELSE PacketInput(pkt, f - 1)
    BY <2>1 DEF HeldInput, r, p, size
  <2>3. CASE size <= f
    <3>1. Len(u.inputs) = f /\ f \in 1 .. Len(u.inputs) /\ ~(f < size) /\ f > used /\ f <= f
      BY ONLY <1>1, <1>5, <2>3
    <3>2. f >= Len(u.inputs)
      BY <1>1, <3>1
    <3>3. InputAt(u, p, f) = u.inputs[f][p]
      BY <3>1, <3>2 DEF InputAt
    <3>4. u.inputs[f][p] = PacketInput(pkt, f - 1)
      <4>1. p \in Player
        BY <1>1
      <4> QED BY ONLY <1>30, <3>1, <4>1
    <3> QED BY <2>2, <3>1, <3>3, <3>4
  <2>4. CASE size > f
    <3>1. /\ Len(u.inputs) = size /\ f + 1 \in 1 .. Len(u.inputs) /\ f < size
          /\ ~(f + 1 <= f) /\ f + 1 > f /\ ~(f >= size)
      BY ONLY <1>1, <1>5, <2>4
    <3>2. InputAt(u, p, f) = u.inputs[f + 1][p]
      BY <3>1 DEF InputAt
    <3>3. u.inputs[f + 1][p] = IF r < f - 1 THEN PacketInput(pkt, f - 1) ELSE GrownAt(m, f + 1, p)
      <4>1. p \in Player
        BY <1>1
      <4> QED BY ONLY <1>30, <3>1, <4>1
    <3>4. GrownAt(m, f + 1, p) = InputAt(m, p, f)
      <4>1. f + 1 <= Len(m.inputs) /\ ~(f >= Len(m.inputs))
        BY <3>1 DEF size
      <4> QED BY <4>1 DEF GrownAt, InputAt
    <3>5. r < f - 1 <=> f # r + 1
      BY ONLY <1>1
    <3> QED BY <2>2, <3>1, <3>2, <3>3, <3>4, <3>5
  <2> QED BY <1>1, <2>3, <2>4
<1>10. w.isDirty <=> u.isDirty \/ (u.inputs # << >> /\ InputAt(u, p, f) # input)
  <2>1. Contradicts(m, pkt, f) <=> HeldInput(m, pkt, f) # input
    BY <1>1, <1>2 DEF Contradicts
  <2>2. \A g : g \in used .. f <=> g \in used .. f - 1 \/ g = f
    BY <1>1
  <2>3. (\E g \in used .. f : Contradicts(m, pkt, g))
          <=> (\E g \in used .. f - 1 : Contradicts(m, pkt, g)) \/ Contradicts(m, pkt, f)
    BY <2>2
  <2> QED BY <1>3, <1>4, <1>6, <1>9, <2>1, <2>3
<1> QED
  BY <1>3, <1>4, <1>5, <1>6, <1>7, <1>8, <1>10 DEF ImportsOne, p, input

\* Every round of the loop adds the next input to those of the packet so far.
LEMMA ImportStep ==
  ASSUME NEW m, SoundManager(m), NEW pkt \in InputPacket, FirstFrame(pkt) \in Nat,
         ~IsGapPacket(m, pkt), NEW i \in 1 .. Len(pkt.inputs)
  PROVE  PartialImport(m, pkt, i)
           = ImportInput(PartialImport(m, pkt, i - 1), pkt, m.lastReceived[pkt.player], i)
<1> DEFINE p == pkt.player
           r == m.lastReceived[p]
           f == FirstFrame(pkt) + i - 1
           used == FirstUsed(m, pkt)
           input == pkt.inputs[i]
           u == PartialImport(m, pkt, i - 1)
           w == PartialImport(m, pkt, i)
           n == Len(pkt.inputs)
<1>1. /\ p \in Connected /\ p \in Player /\ r \in Int /\ f \in Nat /\ i \in Nat /\ n \in Nat
      /\ input \in Input /\ i >= 1 /\ i <= n /\ pkt.frame = FirstFrame(pkt) + n - 1
      /\ FirstFrame(pkt) \in Nat
  <2>1. p \in Connected /\ p \in Player /\ pkt.inputs \in Seq(Input) /\ n \in Nat
        /\ pkt.frame \in Nat
    BY ConnectedAssumption DEF InputPacket
  <2>2. input \in Input
    BY <2>1, ElementOfSeq
  <2>3. pkt.frame = FirstFrame(pkt) + n - 1
    BY <2>1 DEF FirstFrame
  <2>4. r \in Int
    BY <2>1, ManagerShape
  <2> QED BY <2>1, <2>2, <2>3, <2>4
<1>2. used = Larger(FirstFrame(pkt), r)
  BY DEF FirstUsed
<1>3. w = SetInputs(m, FirstInputs(pkt, i)) /\ (i = 1 => u = m)
      /\ (i # 1 => u = SetInputs(m, FirstInputs(pkt, i - 1)))
  BY DEF PartialImport
<1>4. ASSUME NEW j \in 1 .. n, FirstFrame(pkt) + j - 1 < r
      PROVE  SetInputs(m, FirstInputs(pkt, j)) = m
  BY <1>4 DEF SetInputs, FirstInputs
<1>5. ImportInput(u, pkt, r, i) =
        IF f < r THEN u
        ELSE LoopSetInput([u EXCEPT !.isDirty = @ \/ (u.inputs # << >> /\ InputAt(u, p, f) # input)],
                          p, input, f)
  BY DEF ImportInput
<1> HIDE DEF u, w, p, r, used, input, n
<1>6. CASE f < r
  <2>1. w = m
    BY <1>1, <1>3, <1>4, <1>6
  <2>2. u = m
    <3>1. i # 1 => i - 1 \in 1 .. n /\ FirstFrame(pkt) + (i - 1) - 1 < r
      BY <1>1, <1>6
    <3> QED BY <1>3, <1>4, <3>1
  <2> QED BY <1>5, <1>6, <2>1, <2>2 DEF u, w, r, p
<1>7. CASE ~(f < r)
  <2>1. /\ Fills(w, m, pkt, used, f) /\ SoundManager(w)
    <3>1. f >= m.lastReceived[pkt.player]
      BY <1>1, <1>7 DEF r, p
    <3>2. Fills(w, m, pkt, used, f)
      BY <1>3, <3>1, FirstInputsFill DEF used
    <3> QED BY <3>2 DEF Fills
  <2>2. ~IsGap(m, used)
    <3>1. pkt.frame >= r
      BY <1>1, <1>7
    <3> QED BY <3>1 DEF IsGapPacket, used, r, p
  <2>3. SoundManager(u) /\ ~IsGap(u, f) /\ ImportsOne(w, u, p, input, f)
    <3>1. CASE i = 1 \/ f - 1 < r
      <4>1. used = f
        BY <1>1, <1>2, <1>7, <3>1 DEF Larger
      <4>2. u = m
        <5>1. i # 1 => i - 1 \in 1 .. n /\ FirstFrame(pkt) + (i - 1) - 1 < r
          BY <1>1, <3>1
        <5> QED BY <1>3, <1>4, <5>1
      <4>3. ~IsGap(m, f) /\ Fills(w, m, pkt, f, f) /\ f = FirstUsed(m, pkt)
        BY <2>1, <2>2, <4>1 DEF used
      <4> HIDE DEF f
      <4>4. f = FirstFrame(pkt) + i - 1
        BY DEF f
      <4>5. ImportsOne(w, m, pkt.player, pkt.inputs[i], f)
        BY <4>3, <4>4, FirstImport
      <4> QED BY <4>2, <4>3, <4>5 DEF p, input
    <3>2. CASE i # 1 /\ f - 1 >= r
      <4>1. i - 1 \in 1 .. Len(pkt.inputs) /\ i \in 2 .. Len(pkt.inputs)
            /\ f - 1 = FirstFrame(pkt) + (i - 1) - 1
        BY <1>1, <3>2 DEF n
      <4>2. f - 1 >= m.lastReceived[pkt.player]
        BY <3>2 DEF r, p
      <4>3. Fills(u, m, pkt, used, f - 1)
        <5> DEFINE g == f - 1
                   k == i - 1
        <5>1. k \in 1 .. Len(pkt.inputs) /\ g = FirstFrame(pkt) + k - 1
              /\ g >= m.lastReceived[pkt.player]
          BY <4>1, <4>2
        <5>2. u = SetInputs(m, FirstInputs(pkt, k))
          BY <1>3, <3>2
        <5> HIDE DEF g, k, f
        <5>3. Fills(u, m, pkt, FirstUsed(m, pkt), g)
          BY <5>1, <5>2, FirstInputsFill
        <5> QED BY <5>3 DEF used, g
      <4> HIDE DEF f
      <4>4. f = FirstFrame(pkt) + i - 1
        BY DEF f
      <4>5. used = FirstUsed(m, pkt)
        BY DEF used
      <4>6. ~IsGap(u, f) /\ ImportsOne(w, u, pkt.player, pkt.inputs[i], f)
        BY <2>1, <2>2, <4>1, <4>2, <4>3, <4>4, <4>5, NextImport
      <4>7. SoundManager(u)
        BY <4>3 DEF Fills
      <4> QED BY <4>6, <4>7 DEF p, input
    <3>3. f - 1 < r \/ f - 1 >= r
      BY <1>1
    <3> QED BY <3>1, <3>2, <3>3
  <2> HIDE DEF f
  <2>4. LoopSetInput([u EXCEPT !.isDirty = @ \/ (u.inputs # << >> /\ InputAt(u, p, f) # input)],
                     p, input, f) = w
    BY <1>1, <2>1, <2>3, ImportOne
  <2> QED BY <1>5, <1>7, <2>4 DEF u, w, r, p
<1> QED BY <1>6, <1>7

\* The closed form of SetInputs is its loop.
LEMMA SetInputsLoop ==
  ASSUME NEW m, SoundManager(m), NEW pkt \in InputPacket, FirstFrame(pkt) \in Nat,
         ~IsGapPacket(m, pkt)
  PROVE  LoopSetInputs(m, pkt) = SetInputs(m, pkt)
<1> DEFINE size == Len(pkt.inputs)
           r == m.lastReceived[pkt.player]
           g == [i \in 0 .. size |-> PartialImport(m, pkt, i)]
           IsLoop(loop) == loop = [i \in 0 .. size |->
             IF i = 0 THEN m ELSE ImportInput(loop[i - 1], pkt, r, i)]
           imported == CHOOSE loop : IsLoop(loop)
<1>1. LoopSetInputs(m, pkt) = imported[size]
  BY DEF LoopSetInputs
<1>2. /\ size \in Nat /\ size >= 1 /\ pkt.inputs \in Seq(Input)
      /\ pkt.frame = FirstFrame(pkt) + size - 1
  <2>1. pkt.inputs \in Seq(Input) /\ size \in Nat /\ size # 0 /\ pkt.frame \in Nat
    BY EmptySeq DEF InputPacket
  <2> QED BY <2>1 DEF FirstFrame
<1>3. \A i \in 1 .. size : PartialImport(m, pkt, i) = ImportInput(PartialImport(m, pkt, i - 1), pkt, r, i)
  BY ImportStep
<1> HIDE DEF size, r
<1>4. g[0] = m
  BY <1>2 DEF PartialImport
<1>5. ASSUME NEW i \in 1 .. size PROVE g[i] = ImportInput(g[i - 1], pkt, r, i)
  <2>1. i \in 0 .. size /\ i - 1 \in 0 .. size
    BY <1>2
  <2>2. g[i] = PartialImport(m, pkt, i) /\ g[i - 1] = PartialImport(m, pkt, i - 1)
    BY <2>1
  <2> HIDE DEF g
  <2> QED BY <1>3, <2>2
<1>6. IsLoop(g)
  <2>1. ASSUME NEW i \in 0 .. size
        PROVE  g[i] = IF i = 0 THEN m ELSE ImportInput(g[i - 1], pkt, r, i)
    <3>1. i # 0 => i \in 1 .. size
      OBVIOUS
    <3> HIDE DEF g
    <3> QED BY <1>4, <1>5, <3>1
  <2>2. g = [i \in 0 .. size |-> g[i]]
    OBVIOUS
  <2> HIDE DEF g
  <2> QED BY <2>1, <2>2
<1>7. g[size] = SetInputs(m, pkt)
  <2>1. g[size] = SetInputs(m, FirstInputs(pkt, size))
    BY <1>2 DEF PartialImport
  <2>2. SubSeq(pkt.inputs, 1, size) = pkt.inputs
    BY <1>2, SubSeqFull DEF size
  <2>3. FirstInputs(pkt, size) = pkt
    <3>1. pkt = [player |-> pkt.player, frame |-> pkt.frame, inputs |-> pkt.inputs]
      BY DEF InputPacket
    <3> QED BY <1>2, <2>2, <3>1 DEF FirstInputs
  <2> HIDE DEF g
  <2> QED BY <2>1, <2>3
<1> HIDE DEF g
<1>8. IsLoop(imported)
  <2> HIDE DEF IsLoop
  <2> QED BY <1>6
<1>9. \A i \in 0 .. size : imported[i] = g[i]
  <2>1. imported = [i \in 0 .. size |->
             IF i = 0 THEN m ELSE ImportInput(imported[i - 1], pkt, r, i)]
    BY <1>8
  <2> HIDE DEF imported, IsLoop
  <2>2. imported[0] = g[0]
    BY <1>2, <1>4, <2>1
  <2>3. ASSUME NEW i \in 0 + 1 .. size, imported[i - 1] = g[i - 1]
        PROVE  imported[i] = g[i]
    <3>1. i \in 0 .. size /\ i # 0 /\ i \in 1 .. size
      OBVIOUS
    <3>2. imported[i] = ImportInput(imported[i - 1], pkt, r, i)
      BY <2>1, <3>1
    <3> QED BY <1>5, <2>3, <3>1, <3>2
  <2>4. TakesSteps(imported, g, 0, size)
    BY <2>2, <2>3 DEF TakesSteps
  <2> QED BY <1>2, <2>4, SameLoop
<1> HIDE DEF imported
<1> QED BY <1>1, <1>2, <1>7, <1>9

-----------------------------------------------------------------------------
(* The master's condition, and what a packet may change without saying so.  *)

\* The least received frame: it is one, and no other is less.
LEMMA LeastReceived ==
  ASSUME NEW m, SoundManager(m)
  PROVE  /\ \E p \in Connected : GetLastReceivedFrame(m) = m.lastReceived[p]
         /\ \A p \in Connected : GetLastReceivedFrame(m) <= m.lastReceived[p]
<1> DEFINE S == {m.lastReceived[p] : p \in Connected}
           T == {x + 1 : x \in S}
<1>1. S # {} /\ \A x \in S : x \in Int /\ x >= -1
  BY ConnectedAssumption, ManagerShape
<1> HIDE DEF S
<1>2. T \subseteq Nat /\ T # {}
  BY <1>1
<1> HIDE DEF T
<1>3. PICK y \in T : \A z \in T : y <= z
  BY <1>2, Smallest
<1>4. \E x \in S : \A z \in S : x <= z
  <2>1. PICK x \in S : y = x + 1
    BY DEF T
  <2>2. \A z \in S : z + 1 \in T
    BY DEF T
  <2> QED BY <1>1, <1>3, <2>1, <2>2
<1>5. Min(S) \in S /\ \A z \in S : Min(S) <= z
  BY <1>4 DEF Min
<1>6. GetLastReceivedFrame(m) = Min(S)
  BY DEF GetLastReceivedFrame, S
<1> QED
  BY <1>5, <1>6 DEF S

\* The master's condition is the comparison with the least received frame.
LEMMA AllReceivedIsLeast ==
  ASSUME NEW m, SoundManager(m), NEW f \in Nat
  PROVE  AllReceivedAfter(m, f) = (GetLastReceivedFrame(m) > f)
<1> DEFINE least == GetLastReceivedFrame(m)
<1>1. PICK p \in Connected : least = m.lastReceived[p]
  BY LeastReceived
<1>2. \A q \in Connected : least <= m.lastReceived[q] /\ m.lastReceived[q] \in Int
  BY LeastReceived, ManagerShape, ConnectedAssumption
<1> HIDE DEF least
<1>3. AllReceivedAfter(m, f) <=> least > f
  BY <1>1, <1>2 DEF AllReceivedAfter
<1>4. (least > f) \in BOOLEAN
  BY <1>1, <1>2
<1>5. AllReceivedAfter(m, f) \in BOOLEAN
  BY DEF AllReceivedAfter
<1>6. AllReceivedAfter(m, f) = (least > f)
  BY ONLY <1>3, <1>4, <1>5
<1> QED
  BY <1>6 DEF least

\* Beyond the last received frame of player p all rows repeat the newest.
Flat(m, p) ==
  \A i \in 1 .. Len(m.inputs) :
    i > m.lastReceived[p] + 1 => m.inputs[i][p] = NewestRow(m)[p]

LEMMA FlatGrown ==
  ASSUME NEW m, SoundManager(m), NEW p \in Player, Flat(m, p),
         NEW i \in Nat, i > m.lastReceived[p] + 1
  PROVE  GrownAt(m, i, p) = NewestRow(m)[p]
<1>1. m.lastReceived[p] \in Int /\ m.lastReceived[p] >= -1 /\ Len(m.inputs) \in Nat
  BY ManagerShape
<1>2. i <= Len(m.inputs) => i \in 1 .. Len(m.inputs)
  BY <1>1
<1>3. CASE i <= Len(m.inputs)
  <2>1. m.inputs[i][p] = NewestRow(m)[p]
    BY <1>2, <1>3 DEF Flat
  <2> QED BY <1>3, <2>1 DEF GrownAt
<1>4. CASE ~(i <= Len(m.inputs))
  BY <1>4 DEF GrownAt
<1> QED
  BY <1>3, <1>4

\* Rows that repeat anything repeat the newest.
LEMMA FlatOf ==
  ASSUME NEW u, SoundManager(u), NEW p \in Player, NEW c,
         \A i \in 1 .. Len(u.inputs) : i > u.lastReceived[p] + 1 => u.inputs[i][p] = c
  PROVE  Flat(u, p)
<1>1. u.lastReceived[p] \in Int /\ u.lastReceived[p] >= -1 /\ Len(u.inputs) \in Nat
      /\ u.inputs \in Seq(Row)
  BY ManagerShape
<1>2. ASSUME NEW i \in 1 .. Len(u.inputs), i > u.lastReceived[p] + 1
      PROVE  u.inputs[i][p] = NewestRow(u)[p]
  <2>1. /\ Len(u.inputs) \in 1 .. Len(u.inputs) /\ Len(u.inputs) > u.lastReceived[p] + 1
        /\ Len(u.inputs) # 0
    BY <1>1, <1>2
  <2>2. NewestRow(u) = u.inputs[Len(u.inputs)]
    BY <1>1, <2>1, EmptySeq DEF NewestRow
  <2> QED BY <1>2, <2>1, <2>2
<1> QED
  BY <1>2 DEF Flat

\* SetInput keeps the rows flat.
LEMMA SetInputFlat ==
  ASSUME NEW m, SoundManager(m), NEW p \in Connected, NEW input \in Input, NEW f \in Nat,
         NEW q \in Player, Flat(m, q)
  PROVE  Flat(SetInput(m, p, input, f), q)
<1> DEFINE u == SetInput(m, p, input, f)
<1>1. SoundManager(u) /\ Len(u.inputs) = Larger(Len(m.inputs), f + 1)
  BY SetInputSound
<1>2. u.lastReceived = [m.lastReceived EXCEPT ![p] = Larger(m.lastReceived[p], f)]
  BY SetInputEffect
<1>3. \A i \in 1 .. Larger(Len(m.inputs), f + 1) : \A r \in Player : u.inputs[i][r] =
        IF r = p /\ (i = f + 1 \/ (m.lastReceived[p] < f /\ i > f + 1))
        THEN input ELSE GrownAt(m, i, r)
  BY SetInputCells
<1>4. /\ m.lastReceived \in [Player -> FrameOrNone] /\ p \in Player
      /\ m.lastReceived[p] \in Int /\ m.lastReceived[q] \in Int
      /\ Len(u.inputs) \in Nat
  BY <1>1, ManagerShape, ConnectedAssumption
<1> HIDE DEF u
<1>5. CASE q = p /\ m.lastReceived[p] < f
  <2>1. u.lastReceived[q] = f
    BY <1>2, <1>4, <1>5 DEF Larger
  <2>2. \A i \in 1 .. Len(u.inputs) : i > u.lastReceived[q] + 1 => u.inputs[i][q] = input
    BY <1>1, <1>3, <1>5, <2>1
  <2> QED BY <1>1, <2>2, FlatOf DEF u
<1>6. CASE ~(q = p /\ m.lastReceived[p] < f)
  <2>1. u.lastReceived[q] = m.lastReceived[q]
    BY <1>2, <1>4, <1>6 DEF Larger
  <2>2. ASSUME NEW i \in 1 .. Len(u.inputs), i > u.lastReceived[q] + 1
        PROVE  u.inputs[i][q] = NewestRow(m)[q]
    <3>1. i \in Nat /\ i > m.lastReceived[q] + 1
      BY <2>1, <2>2
    <3>2. q = p => ~(i = f + 1) /\ ~(m.lastReceived[p] < f)
      BY <1>4, <1>6, <3>1
    <3>3. u.inputs[i][q] = GrownAt(m, i, q)
      BY <1>1, <1>3, <3>2
    <3> QED BY <3>1, <3>3, FlatGrown
  <2> QED BY <1>1, <2>2, FlatOf DEF u
<1> QED BY <1>5, <1>6

\* So does SetInputs.
LEMMA SetInputsFlat ==
  ASSUME NEW m, SoundManager(m), NEW pkt \in InputPacket, NEW q \in Player, Flat(m, q)
  PROVE  Flat(SetInputs(m, pkt), q)
<1> DEFINE u == SetInputs(m, pkt)
           p == pkt.player
           f == pkt.frame
<1>1. /\ p \in Player /\ f \in Nat /\ m.lastReceived \in [Player -> FrameOrNone]
      /\ m.lastReceived[p] \in Int /\ m.lastReceived[q] \in Int
  <2>1. p \in Player /\ f \in Nat
    BY ConnectedAssumption DEF InputPacket
  <2> QED BY <2>1, ManagerShape
<1>2. CASE f < m.lastReceived[p]
  <2>1. u = m
    BY <1>2 DEF SetInputs
  <2> QED BY <2>1
<1>3. CASE f >= m.lastReceived[p]
  <2>1. SoundManager(u)
    BY SetInputsSound
  <2>2. u.lastReceived = [m.lastReceived EXCEPT ![p] = Larger(m.lastReceived[p], f)]
    BY SetInputsEffect
  <2>3. /\ Len(u.inputs) = Larger(Len(m.inputs), f + 1)
        /\ \A i \in 1 .. Larger(Len(m.inputs), f + 1) : \A r \in Player : u.inputs[i][r] =
             IF r = p /\ i - 1 \in FirstUsed(m, pkt) .. f THEN PacketInput(pkt, i - 1)
             ELSE IF r = p /\ m.lastReceived[p] < f /\ i - 1 > f THEN PacketInput(pkt, f)
             ELSE GrownAt(m, i, r)
    BY <1>3, SetInputsCells
  <2>4. Len(u.inputs) \in Nat
    BY <2>1, ManagerShape
  <2> HIDE DEF u, p, f
  <2>5. CASE q = p
    <3>1. u.lastReceived[q] = f
      BY <1>1, <1>3, <2>2, <2>5 DEF Larger
    <3>2. ASSUME NEW i \in 1 .. Len(u.inputs), i > u.lastReceived[q] + 1
          PROVE  u.inputs[i][q] = IF m.lastReceived[p] < f THEN PacketInput(pkt, f)
                                  ELSE NewestRow(m)[q]
      <4>1. i \in Nat /\ i - 1 > f /\ i - 1 \notin FirstUsed(m, pkt) .. f
        BY <1>1, <2>4, <3>1, <3>2
      <4>2. u.inputs[i][q] = IF m.lastReceived[p] < f THEN PacketInput(pkt, f)
                             ELSE GrownAt(m, i, q)
        BY <2>3, <2>5, <4>1
      <4>3. i > m.lastReceived[q] + 1
        BY <1>1, <1>3, <2>5, <4>1
      <4> QED BY <4>1, <4>2, <4>3, FlatGrown
    <3> DEFINE c == IF m.lastReceived[p] < f THEN PacketInput(pkt, f) ELSE NewestRow(m)[q]
    <3>3. \A i \in 1 .. Len(u.inputs) : i > u.lastReceived[q] + 1 => u.inputs[i][q] = c
      BY <3>2
    <3> HIDE DEF c
    <3> QED BY <2>1, <3>3, FlatOf DEF u
  <2>6. CASE q # p
    <3>1. u.lastReceived[q] = m.lastReceived[q]
      BY <1>1, <2>2, <2>6
    <3>2. ASSUME NEW i \in 1 .. Len(u.inputs), i > u.lastReceived[q] + 1
          PROVE  u.inputs[i][q] = NewestRow(m)[q]
      <4>1. i \in Nat /\ i > m.lastReceived[q] + 1
        BY <2>4, <3>1, <3>2
      <4>2. u.inputs[i][q] = GrownAt(m, i, q)
        BY <2>3, <2>6
      <4> QED BY <4>1, <4>2, FlatGrown
    <3> QED BY <2>1, <3>2, FlatOf DEF u
  <2> QED BY <2>5, <2>6
<1> QED BY <1>1, <1>2, <1>3

\* A packet of which no frame is mispredicted changes no row that is there.
LEMMA UnchangedRows ==
  ASSUME NEW m, SoundManager(m), NEW pkt \in InputPacket, Flat(m, pkt.player),
         pkt.frame >= m.lastReceived[pkt.player], ~Mispredicted(m, pkt),
         NEW g \in FirstUsed(m, pkt) .. pkt.frame, g < Len(m.inputs),
         g \in Nat
  PROVE  m.inputs[g + 1][pkt.player] = PacketInput(pkt, g)
<1> DEFINE p == pkt.player
           r == m.lastReceived[p]
           used == FirstUsed(m, pkt)
           last == pkt.frame
           size == Len(m.inputs)
           S == {f \in used .. last : f \in Nat /\ f < size /\ m.inputs[f + 1][p] # PacketInput(pkt, f)}
<1> SUFFICES ASSUME S # {} PROVE FALSE
  OBVIOUS
<1>1. /\ p \in Player /\ r \in Int /\ r >= -1 /\ last \in Nat /\ used \in Int /\ used >= r
      /\ size \in Nat
  <2>1. p \in Player /\ last \in Nat /\ Len(pkt.inputs) \in Nat
    BY ConnectedAssumption DEF InputPacket
  <2>2. r \in Int /\ r >= -1 /\ size \in Nat
    BY <2>1, ManagerShape
  <2> QED BY <2>1, <2>2 DEF FirstUsed, FirstFrame, Larger
<1>2. S \subseteq Nat
  OBVIOUS
<1>3. PICK f \in S : \A h \in S : f <= h
  <2> HIDE DEF S
  <2> QED BY <1>2, Smallest
<1>4. /\ f \in used .. last /\ f \in Nat /\ f < size
      /\ m.inputs[f + 1][p] # PacketInput(pkt, f)
  BY <1>3
<1>5. m.inputs # << >>
  BY <1>1, <1>4, EmptySeq DEF size
<1>6. HeldInput(m, pkt, f) = PacketInput(pkt, f)
  BY <1>4, <1>5 DEF Mispredicted, used, last
<1>7. InputAt(m, p, f) = m.inputs[f + 1][p]
  BY <1>1, <1>4 DEF InputAt, size
<1>8. f # used /\ f # r + 1
  BY <1>4, <1>6, <1>7 DEF HeldInput, used, r, p, size
<1>9. PacketInput(pkt, f - 1) = PacketInput(pkt, f)
  BY <1>6, <1>8 DEF HeldInput, used, r, p
<1> HIDE DEF p, r, used, last, size
<1>10. /\ f - 1 \in used .. last /\ f - 1 \in Nat /\ f - 1 < size /\ f > r + 1
       /\ f \in 1 .. size /\ f + 1 \in 1 .. size /\ f + 1 > r + 1
  BY <1>1, <1>4, <1>8
<1>11. f - 1 \notin S
  BY <1>3, <1>10
<1>12. m.inputs[(f - 1) + 1][p] = PacketInput(pkt, f - 1)
  BY <1>10, <1>11
<1>13. m.inputs[f][p] = PacketInput(pkt, f)
  <2>1. (f - 1) + 1 = f
    BY <1>4
  <2> QED BY <1>9, <1>12, <2>1
<1>14. m.inputs[f][p] = NewestRow(m)[p] /\ m.inputs[f + 1][p] = NewestRow(m)[p]
  BY <1>10 DEF Flat, size, r, p
<1> QED
  BY <1>4, <1>13, <1>14

\* Without the flag the rows are kept, and only grow.
LEMMA CleanKeepsRows ==
  ASSUME NEW m, SoundManager(m), NEW pkt \in InputPacket, Flat(m, pkt.player),
         FirstFrame(pkt) \in Nat, ~SetInputs(m, pkt).isDirty
  PROVE  IsPrefix(m.inputs, SetInputs(m, pkt).inputs)
<1> DEFINE u == SetInputs(m, pkt)
           p == pkt.player
           last == pkt.frame
           used == FirstUsed(m, pkt)
           size == Len(m.inputs)
<1>1. /\ SoundManager(u) /\ size \in Nat /\ Len(u.inputs) \in Nat /\ Len(u.inputs) >= size
      /\ m.inputs \in Seq(Row) /\ u.inputs \in Seq(Row)
  <2>1. SoundManager(u) /\ Len(u.inputs) >= size
    BY SetInputsSound
  <2> QED BY <2>1, ManagerShape
<1>2. \/ /\ p \in Player /\ last \in Nat /\ used \in Nat /\ used <= last
         /\ m.lastReceived[p] \in Int
      \/ last < m.lastReceived[p]
  <2>1. p \in Player /\ last \in Nat /\ Len(pkt.inputs) \in Nat /\ Len(pkt.inputs) # 0
    BY ConnectedAssumption, EmptySeq DEF InputPacket
  <2>2. m.lastReceived[p] \in Int
    BY <2>1, ManagerShape
  <2> QED BY <2>1, <2>2 DEF FirstUsed, FirstFrame, Larger
<1>3. ASSUME NEW j \in 1 .. size PROVE u.inputs[j] = m.inputs[j]
  <2>1. CASE last < m.lastReceived[p]
    <3>1. u = m
      BY <2>1 DEF SetInputs
    <3> QED BY <3>1
  <2>2. CASE last >= m.lastReceived[p]
    <3>1. /\ Len(u.inputs) = Larger(size, last + 1)
          /\ \A i \in 1 .. Larger(size, last + 1) : \A q \in Player : u.inputs[i][q] =
               IF q = p /\ i - 1 \in used .. last THEN PacketInput(pkt, i - 1)
               ELSE IF q = p /\ m.lastReceived[p] < last /\ i - 1 > last
               THEN PacketInput(pkt, last)
               ELSE GrownAt(m, i, q)
          /\ u.isDirty = (m.isDirty \/ Mispredicted(m, pkt))
      BY <2>2, SetInputsCells
    <3>2. ~Mispredicted(m, pkt)
      BY <3>1
    <3>3. ~(last < m.lastReceived[p])
      <4>1. p \in Player /\ last \in Nat
        BY ConnectedAssumption DEF InputPacket
      <4>2. m.lastReceived[p] \in Int
        BY <4>1, ManagerShape
      <4> QED BY <2>2, <4>1, <4>2
    <3>4. p \in Player /\ last \in Nat /\ used \in Nat /\ m.lastReceived[p] \in Int /\ used <= last
      BY <1>2, <3>3
    <3>5. \A g \in used .. last : g < size => m.inputs[g + 1][p] = PacketInput(pkt, g)
      <4>1. \A g \in used .. last : g \in Nat
        BY <3>4
      <4> QED BY <2>2, <3>2, <4>1, UnchangedRows
    <3> HIDE DEF u, used, last
    <3>6. j \in 1 .. Len(u.inputs) /\ j \in 1 .. Larger(size, last + 1) /\ j \in Nat /\ j <= size
      BY <1>1, <3>1
    <3>7. ASSUME NEW q \in Player PROVE u.inputs[j][q] = m.inputs[j][q]
      <4>1. GrownAt(m, j, q) = m.inputs[j][q]
        BY <3>6 DEF GrownAt
      <4>2. CASE q = p /\ j - 1 \in used .. last
        <5>1. j - 1 < size /\ (j - 1) + 1 = j
          BY <3>6, <1>1
        <5>2. m.inputs[j][p] = PacketInput(pkt, j - 1)
          BY <3>5, <4>2, <5>1
        <5> QED BY <3>1, <3>6, <4>2, <5>2
      <4>3. CASE q = p /\ j - 1 > last /\ m.lastReceived[p] < last
        <5>1. /\ last \in used .. last /\ last < size /\ last + 1 \in 1 .. size
              /\ last + 1 > m.lastReceived[p] + 1 /\ j > m.lastReceived[p] + 1
              /\ j - 1 \notin used .. last
          BY <1>1, <3>4, <3>6, <4>3
        <5>2. m.inputs[last + 1][p] = PacketInput(pkt, last)
          BY <3>5, <5>1
        <5>3. m.inputs[last + 1][p] = NewestRow(m)[p] /\ m.inputs[j][p] = NewestRow(m)[p]
          BY <3>6, <5>1 DEF Flat
        <5>4. u.inputs[j][q] = PacketInput(pkt, last)
          BY <3>1, <3>6, <4>3, <5>1
        <5> QED BY <4>3, <5>2, <5>3, <5>4
      <4>4. CASE q # p \/ (j - 1 \notin used .. last /\ ~(j - 1 > last /\ m.lastReceived[p] < last))
        BY <3>1, <3>6, <4>1, <4>4
      <4> QED BY <4>2, <4>3, <4>4
    <3>8. u.inputs[j] \in Row /\ m.inputs[j] \in Row
      BY <1>1, <3>6, ManagerShape
    <3> DEFINE a == u.inputs[j]
               b == m.inputs[j]
    <3>9. a \in [Player -> Input] /\ b \in [Player -> Input] /\ \A q \in Player : a[q] = b[q]
      BY <3>7, <3>8 DEF Row
    <3> HIDE DEF a, b
    <3>10. a = b
      BY <3>9
    <3> QED BY <3>10 DEF a, b
  <2>3. last < m.lastReceived[p] \/ last >= m.lastReceived[p]
    <3>1. p \in Player /\ last \in Nat
      BY ConnectedAssumption DEF InputPacket
    <3> QED BY <3>1, ManagerShape
  <2> QED BY <2>1, <2>2, <2>3
<1> HIDE DEF u
<1> DEFINE a == m.inputs
           b == u.inputs
<1>4. SubSeq(a, 1, size) = SubSeq(b, 1, size)
  <2>1. a \in Seq(Row) /\ b \in Seq(Row) /\ size \in 0 .. Len(a) /\ size \in 0 .. Len(b)
    BY <1>1
  <2>2. \A j \in 1 .. size : a[j] = b[j]
    BY <1>3
  <2> HIDE DEF a, b, size
  <2>3. SubSeq(a, 1, size) = Restrict(a, 1 .. size) /\ SubSeq(b, 1, size) = Restrict(b, 1 .. size)
    BY <2>1, SubSeqRestrict
  <2> QED BY <2>2, <2>3 DEF Restrict
<1> QED
  BY <1>1, <1>4 DEF IsPrefix, u

-----------------------------------------------------------------------------
(* Every sequence of calls.                                                 *)

\* What every call keeps: the rows reach past what was received, and behind it
\* they repeat the newest.
UnitInv == SoundManager(manager) /\ \A p \in Connected : Flat(manager, p)

LEMMA PacketFacts ==
  ASSUME NEW pkt \in Packets
  PROVE  pkt \in InputPacket /\ FirstFrame(pkt) \in Nat
<1>1. /\ pkt \in [player : Connected, frame : Frame, inputs : SeqOf(Input, MaxPlayerInputNmb)]
      /\ pkt.inputs # << >> /\ Len(pkt.inputs) <= pkt.frame + 1
  BY DEF Packets
<1>2. pkt.player \in Connected /\ pkt.frame \in Nat
  BY <1>1, LastFrameAssumption DEF Frame
<1>3. pkt.inputs \in Seq(Input) /\ Len(pkt.inputs) \in Nat
  <2>1. pkt.inputs \in UNION {[1 .. n -> Input] : n \in 0 .. MaxPlayerInputNmb}
    BY <1>1 DEF SeqOf
  <2>2. PICK n \in 0 .. MaxPlayerInputNmb : pkt.inputs \in [1 .. n -> Input]
    BY <2>1
  <2>3. n \in Nat
    BY WindowAssumption
  <2> QED BY <2>2, <2>3, FunctionIsSeq
<1>4. pkt = [player |-> pkt.player, frame |-> pkt.frame, inputs |-> pkt.inputs]
  BY <1>1
<1>5. pkt \in InputPacket
  BY <1>1, <1>2, <1>3, <1>4 DEF InputPacket
<1>6. FirstFrame(pkt) \in Nat
  BY <1>1, <1>2, <1>3 DEF FirstFrame
<1> QED BY <1>5, <1>6

\* The invariant holds of the empty manager and is kept by every call.
LEMMA UnitInvAlways == Spec => []UnitInv
<1>1. Init => UnitInv
  <2> SUFFICES ASSUME manager = InitManager PROVE UnitInv
    BY DEF Init
  <2>1. /\ manager.inputs = << >> /\ manager.lastConfirm = -1
        /\ manager.lastReceived = [p \in Player |-> -1]
    BY DEF InitManager
  <2>2. Len(manager.inputs) = 0
    BY <2>1
  <2>3. manager \in Manager
    BY EmptySeq DEF InitManager, Manager, FrameOrNone
  <2>4. SoundManager(manager)
    BY <2>1, <2>2, <2>3 DEF SoundManager, RowsReach
  <2> QED BY <2>2, <2>4 DEF UnitInv, Flat
<1>2. UnitInv /\ [Next]_manager => UnitInv'
  <2> SUFFICES ASSUME UnitInv, [Next]_manager PROVE UnitInv'
    OBVIOUS
  <2>0. SoundManager(manager) /\ (\A p \in Connected : Flat(manager, p)) /\ Connected \subseteq Player
    BY ConnectedAssumption DEF UnitInv
  <2>1. ASSUME NEW p \in Player, NEW input \in Input, NEW f \in Frame, CallSetInput(p, input, f)
        PROVE  UnitInv'
    <3>1. f \in Nat /\ manager' = SetInput(manager, p, input, f)
      BY <2>1, LastFrameAssumption DEF Frame, CallSetInput
    <3>2. CASE p \in Connected
      <4>1. SoundManager(SetInput(manager, p, input, f))
        BY <2>0, <3>1, <3>2, SetInputSound
      <4>2. \A q \in Connected : Flat(SetInput(manager, p, input, f), q)
        BY <2>0, <3>1, <3>2, SetInputFlat
      <4> QED BY <3>1, <4>1, <4>2 DEF UnitInv
    <3>3. CASE p \notin Connected
      <4>1. manager' = manager
        BY <3>1, <3>3 DEF SetInput
      <4> QED BY <2>0, <4>1 DEF UnitInv
    <3> QED BY <3>2, <3>3
  <2>2. ASSUME NEW pkt \in Packets, CallSetInputs(pkt)
        PROVE  UnitInv'
    <3>1. manager' = SetInputs(manager, pkt)
      BY <2>2 DEF CallSetInputs
    <3>2. SoundManager(SetInputs(manager, pkt))
      BY <2>0, PacketFacts, SetInputsSound
    <3>3. \A q \in Connected : Flat(SetInputs(manager, pkt), q)
      BY <2>0, PacketFacts, SetInputsFlat
    <3> QED BY <3>1, <3>2, <3>3 DEF UnitInv
  <2>3. CASE CallConfirmLastFrame
    <3>1. AllReceivedAfter(manager, FirstOpen(manager)) /\ manager' = ConfirmLastFrame(manager, TRUE)
      BY <2>3 DEF CallConfirmLastFrame
    <3>2. PICK p \in Connected : manager.lastReceived[p] > FirstOpen(manager)
      BY <3>1, ConnectedAssumption DEF AllReceivedAfter
    <3>3. /\ manager.lastReceived[p] \in Int /\ manager.lastReceived[p] < Len(manager.inputs)
          /\ manager.lastConfirm \in Int /\ Len(manager.inputs) \in Nat /\ manager \in Manager
      BY <2>0, ManagerShape
    <3>4. FirstOpen(manager) \in Int /\ FirstOpen(manager) >= manager.lastConfirm
      BY <3>3 DEF FirstOpen, Larger
    <3>5. FirstOpen(manager) < Len(manager.inputs) /\ manager.lastConfirm + 1 < Len(manager.inputs)
      BY <3>2, <3>3, <3>4
    <3>6. SoundManager(ConfirmLastFrame(manager, TRUE))
      BY <2>0, <3>5, ConfirmSound
    <3>7. manager'.inputs = manager.inputs /\ manager'.lastReceived = manager.lastReceived
      BY <3>1, <3>3, ConfirmEffect
    <3>8. \A q \in Connected : Flat(manager, q)'
      BY <2>0, <3>7 DEF Flat, NewestRow
    <3> QED BY <3>1, <3>6, <3>8 DEF UnitInv
  <2>4. CASE CallSetDirty
    <3>1. manager \in Manager /\ RowsReach(manager)
      BY <2>0 DEF SoundManager
    <3>2. /\ manager' \in Manager
          /\ manager'.inputs = manager.inputs /\ manager'.lastReceived = manager.lastReceived
          /\ manager'.lastConfirm = manager.lastConfirm
      BY <2>4, <3>1 DEF CallSetDirty, Manager
    <3>3. SoundManager(manager)'
      BY <3>1, <3>2 DEF SoundManager, RowsReach
    <3>4. \A q \in Connected : Flat(manager, q)'
      BY <2>0, <3>2 DEF Flat, NewestRow
    <3> QED BY <3>3, <3>4 DEF UnitInv
  <2>5. CASE UNCHANGED manager
    BY <2>0, <2>5 DEF UnitInv
  <2> QED BY <2>1, <2>2, <2>3, <2>4, <2>5 DEF Next
<1> QED BY <1>1, <1>2, PTL DEF Spec

\* Whatever calls have been made: the closed forms of SetInput, SetInputs and
\* SetConfirmed compute what the loops of rollback_manager.cpp compute, for frames
\* that leave no gap, packets of any size and any order of the players; the master
\* confirms exactly when the least received frame is later; and a packet that
\* changes a row which is there leaves the manager dirty.
THEOREM ManagerSoundAlways == Spec => []ManagerSound
<1>1. UnitInv => ManagerSound
  <2> SUFFICES ASSUME UnitInv PROVE ManagerSound
    OBVIOUS
  <2>0. /\ SoundManager(manager) /\ (\A p \in Connected : Flat(manager, p))
        /\ Frame \subseteq Nat
    BY LastFrameAssumption DEF UnitInv, Frame
  <2>1. SetInputsIsLoop
    BY <2>0, PacketFacts, SetInputsLoop DEF SetInputsIsLoop
  <2>2. SetInputIsLoop
    BY <2>0, SetInputLoop DEF SetInputIsLoop
  <2>3. SetConfirmedIsLoop
    BY <2>0, SetConfirmedLoop DEF SetConfirmedIsLoop
  <2>4. ReceivedIsLeast
    BY <2>0, AllReceivedIsLeast DEF ReceivedIsLeast
  <2>5. ChangeIsDirty
    <3> SUFFICES ASSUME NEW pkt \in Packets, ~SetInputs(manager, pkt).isDirty
                 PROVE  IsPrefix(manager.inputs, SetInputs(manager, pkt).inputs)
      BY DEF ChangeIsDirty
    <3>1. pkt \in InputPacket /\ FirstFrame(pkt) \in Nat
      BY PacketFacts
    <3>2. Flat(manager, pkt.player)
      BY <2>0, <3>1 DEF InputPacket
    <3> QED BY <2>0, <3>1, <3>2, CleanKeepsRows
  <2> QED BY <2>1, <2>2, <2>3, <2>4, <2>5 DEF ManagerSound
<1> QED BY <1>1, UnitInvAlways, PTL

=============================================================================
