-------------------------- MODULE RollbackTruth_proofs --------------------------
(***************************************************************************)
(* What is confirmed is what was pressed: the inductive invariant behind   *)
(* the promises that hold while no packet was cut, for any number of       *)
(* peers, any length of the game and every loss, repetition and reordering *)
(* of the input packets.                                                   *)
(***************************************************************************)
EXTENDS RollbackProtocol_proofs

\* The confirm packets on their way hold the rows that were pressed.
QueueTruth(n) ==
  \A i \in DOMAIN confirmNet[n] :
    confirmNet[n][i].frame >= 0 =>
      confirmNet[n][i].input = HistoryRow(pressed, confirmNet[n][i].frame)

\* Peer n knows what it has confirmed, and everything it has pressed itself.
PeerTruth(n) ==
  /\ RowsTruth(rollback[n], pressed)
  /\ SimTruth(rollback[n], pressed)
  /\ rollback[n].lastReceived[n] = Len(pressed[n]) - 1
  /\ Whole(rollback[n], pressed, n)
  /\ QueueTruth(n)
  /\ pc[n] # "gap"

\* The master knows everything it has received of everybody.
MasterTruth == \A p \in Connected : Whole(rollback[Master], pressed, p)

\* A packet holds what was pressed, from a frame on that nobody is behind of.
PacketsTruth ==
  \A pkt \in inputNet :
    TruePacket(pkt, pressed) /\ FirstFrame(pkt) <= FirstOpen(rollback[Master])

Truth == (\A n \in Connected : PeerTruth(n)) /\ MasterTruth /\ PacketsTruth

TruthInv == OrderInv /\ (~truncated => Truth)

-----------------------------------------------------------------------------
(* What the invariant says of one peer, and how a step re-establishes it.   *)

LEMMA PressedIsHistory ==
  ASSUME OrderInv
  PROVE  /\ pressed \in History
         /\ \A p \in Connected : Len(pressed[p]) \in Nat
         /\ Master \in Connected /\ Connected \subseteq Player
BY OrderFacts, MasterAssumption, ConnectedAssumption
   DEF OrderInv, IndexInv, TypeOK, History

LEMMA TruthFacts ==
  ASSUME OrderInv, Truth, NEW n \in Connected
  PROVE  /\ SoundManager(rollback[n])
         /\ RowsTruth(rollback[n], pressed) /\ SimTruth(rollback[n], pressed)
         /\ rollback[n].lastReceived[n] = Len(pressed[n]) - 1
         /\ Whole(rollback[n], pressed, n) /\ QueueTruth(n) /\ pc[n] # "gap"
         /\ \A p \in Connected : PlayerTruth(rollback[n], pressed, p)
         /\ n = Master => \A p \in Connected : Whole(rollback[n], pressed, p)
         /\ confirmNet[n] \in Seq(ConfirmPacket)
         /\ DOMAIN confirmNet[n] = 1 .. Len(confirmNet[n])
         /\ Len(confirmNet[n]) \in Nat
<1>1. SoundManager(rollback[n]) /\ confirmNet[n] \in Seq(ConfirmPacket)
  BY OrderFacts
<1>2. /\ DOMAIN confirmNet[n] = 1 .. Len(confirmNet[n])
      /\ Len(confirmNet[n]) \in Nat
  BY <1>1, LenProperties
<1>3. PeerTruth(n) /\ MasterTruth
  BY DEF Truth
<1> QED
  BY <1>1, <1>2, <1>3 DEF PeerTruth, RowsTruth, MasterTruth

\* Packets stay true and early while nothing is sent or pressed and the
\* master confirms nothing back.
LEMMA PacketsKept ==
  ASSUME OrderInv, Truth, UNCHANGED <<inputNet, pressed>>,
         OrderInv', rollback[Master].lastConfirm <= rollback'[Master].lastConfirm
  PROVE  PacketsTruth'
<1>1. /\ rollback[Master].lastConfirm \in Int /\ rollback'[Master].lastConfirm \in Int
  <2>1. SoundManager(rollback[Master]) /\ SoundManager(rollback'[Master])
    BY OrderFacts, MasterAssumption DEF OrderInv, IndexInv, TypeOK, RowsExist,
                                        SoundManager, RowsReach
  <2> QED
    BY <2>1, ManagerShape
<1>2. FirstOpen(rollback[Master]) <= FirstOpen(rollback'[Master])
  BY <1>1 DEF FirstOpen, Larger
<1>3. FirstOpen(rollback[Master]) \in Int /\ FirstOpen(rollback'[Master]) \in Int
  BY <1>1 DEF FirstOpen, Larger
<1>4. ASSUME NEW pkt \in inputNet
      PROVE  /\ TruePacket(pkt, pressed)
             /\ FirstFrame(pkt) <= FirstOpen(rollback'[Master])
  <2>1. TruePacket(pkt, pressed) /\ FirstFrame(pkt) <= FirstOpen(rollback[Master])
    BY DEF Truth, PacketsTruth
  <2>2. FirstFrame(pkt) \in Int
    <3>1. pkt.frame \in Nat /\ pkt.inputs \in Seq(Input)
      BY DEF OrderInv, IndexInv, TypeOK, InputPacket
    <3> QED
      BY <3>1, LenProperties DEF FirstFrame
  <2> QED
    BY <1>2, <1>3, <2>1, <2>2
<1> QED
  BY <1>4 DEF PacketsTruth

\* Where only peer n steps, presses nothing, and its new manager and all the
\* queues tell the truth.
LEMMA TruthKept ==
  ASSUME OrderInv, Truth, OrderInv', NEW n \in Connected, NEW u,
         rollback' = [rollback EXCEPT ![n] = u], UNCHANGED pressed,
         RowsTruth(u, pressed), SimTruth(u, pressed),
         u.lastReceived[n] = rollback[n].lastReceived[n],
         \A p \in Connected : p = n \/ n = Master =>
           (Whole(rollback[n], pressed, p) => Whole(u, pressed, p)),
         \A k \in Connected : QueueTruth(k)',
         \A k \in Connected : pc'[k] = pc[k] \/ pc'[k] # "gap",
         PacketsTruth'
  PROVE  Truth'
<1>1. /\ rollback'[n] = u
      /\ \A k \in Connected \ {n} : rollback'[k] = rollback[k]
  BY DEF OrderInv, IndexInv, TypeOK
<1>2. ASSUME NEW k \in Connected PROVE PeerTruth(k)'
  BY <1>1, TruthFacts DEF PeerTruth
<1>3. MasterTruth'
  BY <1>1, TruthFacts, MasterAssumption DEF MasterTruth
<1> QED
  BY <1>2, <1>3 DEF Truth

\* Queues that only lose packets, or get a default confirm packet, stay true.
LEMMA SubQueueTrue ==
  ASSUME NEW q \in Seq(ConfirmPacket), NEW k \in 1 .. Len(q) + 1, NEW S,
         \A i \in DOMAIN q : q[i] \in S
  PROVE  LET t == SubSeq(q, k, Len(q))
         IN  \A i \in DOMAIN t : t[i] \in S
<1>1. Len(q) \in Nat /\ DOMAIN q = 1 .. Len(q)
  BY LenProperties
<1>2. \A i \in k .. Len(q) : q[i] \in ConfirmPacket
  BY <1>1, ElementOfSeq
<1> DEFINE t == SubSeq(q, k, Len(q))
<1>3. /\ t \in Seq(ConfirmPacket)
      /\ \A i \in 1 .. Len(q) - k + 1 : t[i] = q[k + i - 1]
      /\ Len(t) = IF k <= Len(q) THEN Len(q) - k + 1 ELSE 0
  BY <1>1, <1>2, SubSeqProperties
<1>4. DOMAIN t = 1 .. Len(t)
  BY <1>3, LenProperties
<1> HIDE DEF t
<1>5. \A i \in 1 .. Len(t) : k + i - 1 \in DOMAIN q /\ t[i] = q[k + i - 1]
  BY <1>1, <1>3
<1> QED
  BY <1>4, <1>5 DEF t

\* The confirm packets that tell the truth of a history.
TrueConfirms(h) ==
  {pkt \in ConfirmPacket :
     pkt.frame >= 0 => pkt.input = HistoryRow(h, pkt.frame)}

LEMMA QueueIsTrue ==
  ASSUME OrderInv, NEW n \in Connected
  PROVE  QueueTruth(n)
           <=> \A i \in DOMAIN confirmNet[n] : confirmNet[n][i] \in TrueConfirms(pressed)
<1>1. \A i \in DOMAIN confirmNet[n] : confirmNet[n][i] \in ConfirmPacket
  BY OrderFacts, PacketFrames
<1> QED
  BY <1>1 DEF QueueTruth, TrueConfirms

LEMMA AppendTrue ==
  ASSUME NEW q \in Seq(ConfirmPacket), NEW S, \A i \in DOMAIN q : q[i] \in S,
         NEW pkt \in ConfirmPacket, pkt \in S
  PROVE  /\ Append(q, pkt) \in Seq(ConfirmPacket)
         /\ \A i \in DOMAIN Append(q, pkt) : Append(q, pkt)[i] \in S
         /\ Len(Append(q, pkt)) = Len(q) + 1
<1>1. /\ DOMAIN Append(q, pkt) = 1 .. Len(q) + 1 /\ Len(q) \in Nat
      /\ Append(q, pkt)[Len(q) + 1] = pkt
      /\ \A i \in 1 .. Len(q) : Append(q, pkt)[i] = q[i]
      /\ Append(q, pkt) \in Seq(ConfirmPacket)
      /\ Len(Append(q, pkt)) = Len(q) + 1
  BY AppendProperties, LenProperties
<1>2. DOMAIN q = 1 .. Len(q)
  BY LenProperties
<1> QED
  BY <1>1, <1>2

LEMMA DefaultIsTrue == ASSUME NEW h PROVE DefaultConfirm \in TrueConfirms(h)
<1>1. ~(DefaultConfirm.frame >= 0)
  BY DEF DefaultConfirm
<1> QED
  BY <1>1, DefaultConfirmType DEF TrueConfirms

-----------------------------------------------------------------------------
(* One lemma per action.                                                    *)

LEMMA RowGrows ==
  ASSUME NEW g, NEW h, Extends(g, h), NEW f \in Nat,
         \A p \in Connected : Len(h[p]) \in Nat /\ f < Len(h[p])
  PROVE  HistoryRow(g, f) = HistoryRow(h, f)
<1>1. \A p \in Connected : g[p][f + 1] = h[p][f + 1]
  <2>1. \A p \in Connected : f + 1 \in 1 .. Len(h[p])
    OBVIOUS
  <2> QED
    BY <2>1 DEF Extends
<1> QED
  BY <1>1 DEF HistoryRow

LEMMA PacketGrows ==
  ASSUME NEW g \in History, NEW h \in History, Extends(g, h),
         NEW pkt \in InputPacket, TruePacket(pkt, h)
  PROVE  TruePacket(pkt, g)
<1> DEFINE p == pkt.player
<1>1. /\ p \in Connected /\ pkt.frame \in Nat /\ FirstFrame(pkt) \in Int
      /\ Len(h[p]) \in Nat /\ Len(g[p]) \in Nat
  <2>1. /\ p \in Connected /\ pkt.frame \in Nat
        /\ pkt.inputs \in Seq(Input) /\ h[p] \in Seq(Input) /\ g[p] \in Seq(Input)
    BY DEF InputPacket, History
  <2> QED
    BY <2>1, LenProperties DEF FirstFrame
<1>2. /\ FirstFrame(pkt) >= 0 /\ pkt.frame < Len(h[p])
      /\ \A f \in FirstFrame(pkt) .. pkt.frame : PacketInput(pkt, f) = h[p][f + 1]
  BY DEF TruePacket
<1>3. Len(h[p]) <= Len(g[p]) /\ \A i \in 1 .. Len(h[p]) : g[p][i] = h[p][i]
  BY <1>1 DEF Extends
<1>4. ASSUME NEW f \in FirstFrame(pkt) .. pkt.frame
      PROVE  PacketInput(pkt, f) = g[p][f + 1]
  <2>1. f + 1 \in 1 .. Len(h[p])
    BY <1>1, <1>2
  <2> QED
    BY <1>2, <1>3, <2>1
<1> QED
  BY <1>1, <1>2, <1>3, <1>4 DEF TruePacket

\* The frame of a confirm packet on its way has been pressed by everybody.
LEMMA QueuedIsPressed ==
  ASSUME OrderInv, NEW n \in Connected, NEW i \in DOMAIN confirmNet[n],
         confirmNet[n][i].frame >= 0
  PROVE  /\ confirmNet[n][i].frame \in Nat
         /\ \A p \in Connected : confirmNet[n][i].frame < Len(pressed[p])
<1>1. confirmNet[n][i].frame \in Int
  BY OrderFacts, PacketFrames
<1>2. confirmNet[n][i].frame <= rollback[Master].lastConfirm
  BY OrderFacts DEF ConfirmedInTime
<1>3. \A p \in Connected : /\ rollback[Master].lastConfirm < Len(pressed[p])
                           /\ Len(pressed[p]) \in Int
  BY OrderFacts DEF ConfirmedInTime
<1>4. rollback[Master].lastConfirm \in Int
  BY OrderFacts, MasterAssumption DEF FrameOrNone
<1> QED
  BY <1>1, <1>2, <1>3, <1>4

LEMMA BeginTickTruth ==
  ASSUME OrderInv, Truth, OrderInv', NEW n \in Connected, NEW input \in Input,
         BeginTick(n, input)
  PROVE  Truth'
<1> DEFINE m == rollback[n]
           c == currentFrame[n]
           g == pressed'
           u == SetInput(m, n, input, c)
<1>1. /\ rollback' = [rollback EXCEPT ![n] = u]
      /\ pressed' = [pressed EXCEPT ![n] = Append(pressed[n], input)]
      /\ pc' = [pc EXCEPT ![n] = "import"] /\ pc[n] = "play"
      /\ UNCHANGED <<inputNet, confirmNet>>
  BY DEF BeginTick, netVars
<1>2. /\ rollback'[n] = u /\ pc'[n] = "import"
      /\ \A k \in Connected \ {n} : rollback'[k] = rollback[k] /\ pc'[k] = pc[k]
      /\ pressed'[n] = Append(pressed[n], input)
      /\ \A k \in Connected \ {n} : pressed'[k] = pressed[k]
  BY <1>1 DEF OrderInv, IndexInv, TypeOK
<1>3. c \in Nat /\ Len(pressed[n]) = c /\ pressed[n] \in Seq(Input)
  <2>1. ~inTick[n]
    BY <1>1, OrderFacts DEF OwnInputIn
  <2> QED
    BY <2>1, OrderFacts DEF PressedInTime
<1>4. /\ Len(g[n]) = c + 1 /\ g[n][c + 1] = input
      /\ \A i \in 1 .. c : g[n][i] = pressed[n][i]
  BY <1>2, <1>3, AppendProperties
<1>5. pressed \in History /\ g \in History /\ \A p \in Connected : Len(pressed[p]) \in Nat
  BY PressedIsHistory DEF OrderInv, IndexInv, TypeOK, History
<1>6. Extends(g, pressed)
  BY <1>2, <1>3, <1>4, <1>5 DEF Extends
<1>7. SoundManager(m) /\ m.lastReceived[n] = c - 1
  <2>1. m.lastReceived[n] = Len(pressed[n]) - 1
    BY TruthFacts
  <2> QED
    BY <1>3, <2>1, TruthFacts
<1> HIDE DEF c, g
<1>8. \A k \in Connected :
        /\ RowsTruth(rollback[k], g) /\ SimTruth(rollback[k], g)
        /\ \A p \in Connected :
             Whole(rollback[k], pressed, p) => Whole(rollback[k], g, p)
  <2>1. ASSUME NEW k \in Connected
        PROVE  /\ RowsTruth(rollback[k], g) /\ SimTruth(rollback[k], g)
               /\ \A p \in Connected :
                    Whole(rollback[k], pressed, p) => Whole(rollback[k], g, p)
    <3>1. /\ SoundManager(rollback[k]) /\ RowsTruth(rollback[k], pressed)
          /\ SimTruth(rollback[k], pressed)
      BY TruthFacts
    <3> QED
      BY <1>5, <1>6, <3>1, HistoryGrows
  <2> QED BY <2>1
<1>9. /\ RowsTruth(u, g) /\ u.sim = m.sim /\ u.lastReceived[n] = c
      /\ u.lastConfirm = m.lastConfirm
      /\ \A p \in Connected : Whole(m, g, p) => Whole(u, g, p)
  <2>1. RowsTruth(m, g) /\ Whole(m, g, n)
    BY <1>8, TruthFacts
  <2>2. u = SetInput(m, n, g[n][c + 1], c) /\ c < Len(g[n])
    BY <1>3, <1>4
  <2> QED
    BY <1>3, <1>5, <1>7, <2>1, <2>2, SetInputTruth
<1>10. SimTruth(u, g)
  BY <1>8, <1>9 DEF SimTruth
<1> HIDE DEF u
<1>11. ASSUME NEW k \in Connected PROVE QueueTruth(k)'
  <2>1. ASSUME NEW i \in DOMAIN confirmNet[k], confirmNet[k][i].frame >= 0
        PROVE  confirmNet[k][i].input = HistoryRow(g, confirmNet[k][i].frame)
    <3>1. confirmNet[k][i].input = HistoryRow(pressed, confirmNet[k][i].frame)
      BY <2>1, TruthFacts DEF QueueTruth
    <3>2. /\ confirmNet[k][i].frame \in Nat
          /\ \A p \in Connected : confirmNet[k][i].frame < Len(pressed[p])
      BY <2>1, QueuedIsPressed
    <3> QED
      BY <1>5, <1>6, <3>1, <3>2, RowGrows
  <2> QED
    BY <1>1, <2>1 DEF QueueTruth, g
<1>12. ASSUME NEW k \in Connected PROVE PeerTruth(k)'
  <2>1. CASE k = n
    <3>1. Whole(u, g, n) /\ c = Len(g[n]) - 1
      BY <1>3, <1>4, <1>8, <1>9, TruthFacts
    <3> QED
      BY <1>2, <1>9, <1>10, <1>11, <2>1, <3>1 DEF PeerTruth, g
  <2>2. CASE k # n
    <3>1. /\ Whole(rollback[k], g, k) /\ pc[k] # "gap"
          /\ rollback[k].lastReceived[k] = Len(g[k]) - 1
      BY <1>2, <1>8, <2>2, TruthFacts DEF g
    <3> QED
      BY <1>2, <1>8, <1>11, <2>2, <3>1 DEF PeerTruth, g
  <2> QED BY <2>1, <2>2
<1>13. MasterTruth'
  <2>1. ASSUME NEW p \in Connected PROVE Whole(rollback'[Master], g, p)
    <3>1. Whole(rollback[Master], g, p)
      BY <1>8, TruthFacts, MasterAssumption
    <3> QED
      BY <1>2, <1>9, <3>1, MasterAssumption
  <2> QED
    BY <2>1 DEF MasterTruth, g
<1>14. PacketsTruth'
  <2>1. rollback'[Master].lastConfirm = rollback[Master].lastConfirm
    BY <1>2, <1>9, MasterAssumption
  <2>2. FirstOpen(rollback'[Master]) = FirstOpen(rollback[Master])
    BY <2>1 DEF FirstOpen
  <2>3. ASSUME NEW pkt \in inputNet PROVE TruePacket(pkt, g)
    <3>1. pkt \in InputPacket
      BY DEF OrderInv, IndexInv, TypeOK
    <3>2. TruePacket(pkt, pressed)
      BY DEF Truth, PacketsTruth
    <3> QED
      BY <1>5, <1>6, <3>1, <3>2, PacketGrows
  <2> QED
    BY <1>1, <2>2, <2>3 DEF Truth, PacketsTruth, g
<1> QED
  BY <1>12, <1>13, <1>14 DEF Truth

\* The frames that the master waits for lie within the rows of every peer,
\* and right behind what it has received itself.
LEMMA OpenWithinRows ==
  ASSUME OrderInv, Truth, NEW n \in Connected
  PROVE  /\ FirstOpen(rollback[Master]) \in Nat
         /\ FirstOpen(rollback[Master]) <= Len(rollback[n].inputs)
         /\ FirstOpen(rollback[n]) <= FirstOpen(rollback[Master])
         /\ \A p \in Connected : FirstOpen(rollback[Master])
                                   <= rollback[Master].lastReceived[p] + 1
<1> DEFINE g == rollback[Master].lastConfirm
<1>1. /\ g \in Int /\ g >= -1 /\ rollback[n].lastConfirm \in Int
      /\ rollback[n].lastConfirm >= -1
      /\ \A p \in Connected : /\ rollback[Master].lastReceived[p] \in Int
                              /\ rollback[Master].lastReceived[p] >= -1
                              /\ g <= rollback[Master].lastReceived[p]
  BY TruthFacts, ManagerShape, MasterAssumption, ConnectedAssumption
     DEF PlayerTruth
<1>2. /\ rollback[n].lastConfirm <= g /\ g < Len(pressed[n])
  BY OrderFacts DEF ConfirmedInTime
<1>3. /\ Len(pressed[n]) \in Nat /\ Len(rollback[n].inputs) \in Nat
      /\ Len(pressed[n]) <= Len(rollback[n].inputs)
  <2>1. /\ Len(pressed[n]) \in Nat /\ Len(rollback[n].inputs) \in Nat
        /\ currentFrame[n] \in Nat /\ currentFrame[n] <= Len(rollback[n].inputs)
        /\ inTick[n] => currentFrame[n] < Len(rollback[n].inputs)
        /\ PressedInTime(n)
    BY OrderFacts, PeerFacts DEF OrderInv
  <2> QED
    BY <2>1 DEF PressedInTime
<1> QED
  BY <1>1, <1>2, <1>3 DEF FirstOpen, Larger

LEMMA ImportInputTruth ==
  ASSUME OrderInv, Truth, OrderInv', NEW n \in Connected, NEW pkt \in inputNet,
         ImportInput(n, pkt)
  PROVE  Truth'
<1> DEFINE m == rollback[n]
           p == pkt.player
           u == SetInputs(m, pkt)
<1>1. /\ pkt \in InputPacket /\ p \in Connected /\ p # n /\ p \in Player
      /\ TruePacket(pkt, pressed)
      /\ FirstFrame(pkt) <= FirstOpen(rollback[Master])
      /\ FirstFrame(pkt) \in Int
  <2>1. pkt \in InputPacket /\ p # n
    BY DEF OrderInv, IndexInv, TypeOK, ImportInput
  <2>2. p \in Connected /\ pkt.frame \in Nat /\ pkt.inputs \in Seq(Input)
    BY <2>1 DEF InputPacket
  <2>3. FirstFrame(pkt) \in Int
    BY <2>2, LenProperties DEF FirstFrame
  <2> QED
    BY <2>1, <2>2, <2>3, ConnectedAssumption DEF Truth, PacketsTruth
<1>2. ~IsGapPacket(m, pkt)
  <2>1. /\ FirstOpen(rollback[Master]) \in Nat
        /\ FirstOpen(rollback[Master]) <= Len(m.inputs)
    BY OpenWithinRows
  <2>2. /\ m.lastReceived[p] \in Int /\ m.lastReceived[p] < Len(m.inputs)
        /\ Len(m.inputs) \in Nat
    BY <1>1, TruthFacts, ManagerShape
  <2> QED
    BY <1>1, <2>1, <2>2 DEF IsGapPacket, IsGap, FirstUsed, Larger
<1>3. /\ rollback' = [rollback EXCEPT ![n] = u] /\ pc' = pc
      /\ UNCHANGED <<inputNet, confirmNet, pressed>>
  BY <1>2 DEF ImportInput, netVars
<1>4. /\ RowsTruth(u, pressed) /\ u.sim = m.sim
      /\ \A q \in Connected :
           /\ Whole(m, pressed, q)
           /\ q = p => FirstFrame(pkt) <= m.lastReceived[q] + 1
           => Whole(u, pressed, q)
  BY <1>1, TruthFacts, PressedIsHistory, SetInputsTruth
<1>5. /\ u.lastConfirm = m.lastConfirm
      /\ u.lastReceived[n] = m.lastReceived[n]
  <2>1. SoundManager(m) /\ n \in Player
    BY TruthFacts, ConnectedAssumption
  <2>2. m.lastReceived \in [Player -> FrameOrNone]
    BY <2>1, ManagerShape
  <2>3. /\ u.lastConfirm = m.lastConfirm
        /\ u.lastReceived = [m.lastReceived EXCEPT ![p]
                               = Larger(m.lastReceived[p], pkt.frame)]
    BY <1>1, <2>1, SetInputsEffect
  <2> QED
    BY <1>1, <2>1, <2>2, <2>3
<1>6. SimTruth(u, pressed)
  BY <1>4, <1>5, TruthFacts DEF SimTruth
<1> HIDE DEF u
<1>7. \A q \in Connected : q = n \/ n = Master =>
        (Whole(m, pressed, q) => Whole(u, pressed, q))
  <2>1. ASSUME n = Master, NEW q \in Connected
        PROVE  FirstFrame(pkt) <= m.lastReceived[q] + 1
    <3>1. /\ FirstOpen(rollback[Master]) <= m.lastReceived[q] + 1
          /\ FirstOpen(rollback[Master]) \in Int
      BY <2>1, OpenWithinRows
    <3>2. m.lastReceived[q] \in Int
      BY TruthFacts, ManagerShape, ConnectedAssumption
    <3> QED
      BY <1>1, <3>1, <3>2
  <2> QED
    BY <1>1, <1>4, <2>1
<1>8. PacketsTruth'
  <2>1. rollback'[Master].lastConfirm = rollback[Master].lastConfirm
    BY <1>3, <1>5, MasterAssumption DEF OrderInv, IndexInv, TypeOK
  <2>2. rollback[Master].lastConfirm \in Int
    BY TruthFacts, ManagerShape, MasterAssumption
  <2> QED
    BY <1>3, <2>1, <2>2, PacketsKept
<1>9. \A k \in Connected : QueueTruth(k)'
  BY <1>3, TruthFacts DEF QueueTruth
<1> QED
  BY <1>3, <1>4, <1>5, <1>6, <1>7, <1>8, <1>9, TruthKept

\* A queue that loses packets, or gets a default confirm packet first, holds
\* nothing new but that.
LEMMA QueueShrinks ==
  ASSUME NEW all, NEW queue \in Seq(ConfirmPacket), NEW S, DefaultConfirm \in S,
         all = Append(queue, DefaultConfirm),
         \A i \in DOMAIN queue : queue[i] \in S,
         NEW q \in {queue, all}, NEW t,
         t = q \/ \E j \in 1 .. Len(q) + 1 : t = SubSeq(q, j, Len(q))
  PROVE  \A i \in DOMAIN t : t[i] \in S
<1>1. all \in Seq(ConfirmPacket) /\ \A i \in DOMAIN all : all[i] \in S
  BY DefaultConfirmType, AppendTrue
<1>2. q \in Seq(ConfirmPacket) /\ \A i \in DOMAIN q : q[i] \in S
  BY <1>1
<1>3. CASE t = q
  BY <1>2, <1>3
<1>4. ASSUME NEW j \in 1 .. Len(q) + 1, t = SubSeq(q, j, Len(q))
      PROVE  \A i \in DOMAIN t : t[i] \in S
  BY <1>2, <1>4, SubQueueTrue
<1> QED BY <1>3, <1>4

\* The packets taken out of the mailbox of one peer, and a default confirm
\* packet perhaps sent to everybody.
Taken(n) ==
  \/ confirmNet' = [confirmNet EXCEPT ![n] = Tail(@)]
  \/ confirmNet' = [SentToAll(DefaultConfirm) EXCEPT ![n] = Tail(@)]
  \/ \E dropped \in 1 .. Len(confirmNet[n]) :
       confirmNet' = [SentToAll(DefaultConfirm) EXCEPT
                        ![n] = SubSeq(@, dropped + 1, Len(@))]

LEMMA QueuesTaken ==
  ASSUME OrderInv, NEW n \in Connected, confirmNet[n] # << >>, Taken(n),
         NEW S, DefaultConfirm \in S,
         \A k \in Connected : \A i \in DOMAIN confirmNet[k] : confirmNet[k][i] \in S
  PROVE  \A k \in Connected : \A i \in DOMAIN confirmNet'[k] : confirmNet'[k][i] \in S
<1> DEFINE all(k) == SentToAll(DefaultConfirm)[k]
<1>1. /\ confirmNet[n] \in Seq(ConfirmPacket) /\ Len(confirmNet[n]) \in Nat
      /\ Len(confirmNet[n]) > 0
      /\ all(n) \in Seq(ConfirmPacket) /\ all(n) # << >>
      /\ Len(all(n)) = Len(confirmNet[n]) + 1
  <2>1. all(n) = Append(confirmNet[n], DefaultConfirm)
    BY DEF SentToAll
  <2>2. all(n) \in Seq(ConfirmPacket) /\ all(n) # << >>
    BY DefaultInTime
  <2>3. confirmNet[n] \in Seq(ConfirmPacket) /\ Len(confirmNet[n]) \in Nat
    BY OrderFacts, LenProperties
  <2> HIDE DEF all
  <2> QED
    BY <2>1, <2>2, <2>3, DefaultConfirmType, AppendProperties, EmptySeq
<1>2. /\ Tail(confirmNet[n]) = SubSeq(confirmNet[n], 2, Len(confirmNet[n]))
      /\ Tail(all(n)) = SubSeq(all(n), 2, Len(all(n)))
  BY <1>1, TailIsSubSeq
<1>3. /\ 2 \in 1 .. Len(confirmNet[n]) + 1 /\ 2 \in 1 .. Len(all(n)) + 1
      /\ \A dropped \in 1 .. Len(confirmNet[n]) : dropped + 1 \in 1 .. Len(all(n)) + 1
  <2> HIDE DEF all
  <2> QED BY <1>1
<1>4. DOMAIN confirmNet = Connected /\ DOMAIN SentToAll(DefaultConfirm) = Connected
  BY DEF OrderInv, IndexInv, TypeOK, SentToAll
<1>5. ASSUME NEW k \in Connected
      PROVE  \E q \in {confirmNet[k], all(k)} :
               \/ confirmNet'[k] = q
               \/ \E j \in 1 .. Len(q) + 1 : confirmNet'[k] = SubSeq(q, j, Len(q))
  <2>1. CASE k # n
    BY <1>4, <2>1 DEF Taken
  <2>2. CASE k = n
    <3>1. CASE confirmNet' = [confirmNet EXCEPT ![n] = Tail(@)]
      BY <1>2, <1>3, <1>4, <2>2, <3>1
    <3>2. CASE confirmNet' = [SentToAll(DefaultConfirm) EXCEPT ![n] = Tail(@)]
      BY <1>2, <1>3, <1>4, <2>2, <3>2
    <3>3. ASSUME NEW dropped \in 1 .. Len(confirmNet[n]),
                 confirmNet' = [SentToAll(DefaultConfirm) EXCEPT
                                  ![n] = SubSeq(@, dropped + 1, Len(@))]
          PROVE  \E q \in {confirmNet[k], all(k)} :
                   \E j \in 1 .. Len(q) + 1 : confirmNet'[k] = SubSeq(q, j, Len(q))
      BY <1>3, <1>4, <2>2, <3>3
    <3> QED BY <3>1, <3>2, <3>3 DEF Taken
  <2> QED BY <2>1, <2>2
<1>6. ASSUME NEW k \in Connected
      PROVE  all(k) = Append(confirmNet[k], DefaultConfirm)
             /\ confirmNet[k] \in Seq(ConfirmPacket)
  BY OrderFacts DEF SentToAll
<1> HIDE DEF all
<1> QED
  BY <1>5, <1>6, QueueShrinks

LEMMA TakenTrue ==
  ASSUME OrderInv, Truth, NEW n \in Connected, UNCHANGED pressed,
         confirmNet[n] # << >>, Taken(n)
  PROVE  \A k \in Connected : QueueTruth(k)'
<1> DEFINE S == TrueConfirms(pressed)
<1>1. \A k \in Connected : \A i \in DOMAIN confirmNet[k] : confirmNet[k][i] \in S
  BY TruthFacts, QueueIsTrue
<1>2. DefaultConfirm \in S
  BY DefaultIsTrue
<1> HIDE DEF S
<1>3. \A k \in Connected : \A i \in DOMAIN confirmNet'[k] : confirmNet'[k][i] \in S
  BY <1>1, <1>2, QueuesTaken
<1> QED
  BY <1>3 DEF S, TrueConfirms, QueueTruth

\* What a peer other than the master finds at the head of its mailbox, when
\* it is the packet of the next frame.
LEMMA NextIsTrue ==
  ASSUME OrderInv, Truth, NEW n \in Connected, HasConfirm(n), InOrder(n)
  PROVE  LET pkt == NextConfirm(n)
             f   == pkt.frame
         IN  /\ pkt \in ConfirmPacket /\ pkt = confirmNet[n][1]
             /\ 1 \in DOMAIN confirmNet[n]
             /\ f \in Nat /\ f = rollback[n].lastConfirm + 1
             /\ f <= rollback[Master].lastConfirm /\ n # Master
             /\ pkt.input \in Row
             /\ \A p \in Connected : /\ f < Len(pressed[p])
                                     /\ pkt.input[p] = pressed[p][f + 1]
<1> DEFINE pkt == NextConfirm(n)
           f   == pkt.frame
<1>1. 1 \in DOMAIN confirmNet[n] /\ pkt = confirmNet[n][1]
  <2>1. confirmNet[n] \in Seq(ConfirmPacket) /\ confirmNet[n] # << >>
    BY TruthFacts DEF HasConfirm
  <2>2. DOMAIN confirmNet[n] = 1 .. Len(confirmNet[n]) /\ Len(confirmNet[n]) \in Nat
        /\ Len(confirmNet[n]) > 0
    BY <2>1, LenProperties, EmptySeq
  <2> QED
    BY <2>2 DEF NextConfirm
<1>2. pkt \in ConfirmPacket /\ f <= rollback[Master].lastConfirm
  BY <1>1, OrderFacts, PacketFrames DEF ConfirmedInTime
<1>3. /\ rollback[n].lastConfirm \in Int /\ rollback[n].lastConfirm >= -1
      /\ rollback[Master].lastConfirm \in Int
  BY TruthFacts, ManagerShape, MasterAssumption
<1>4. f = rollback[n].lastConfirm + 1
  BY DEF InOrder
<1>5. f \in Nat /\ pkt.input \in Row
  BY <1>2, <1>3, <1>4 DEF ConfirmPacket
<1>6. n # Master
  BY <1>2, <1>3, <1>4
<1>7. \A p \in Connected : f < Len(pressed[p])
  BY <1>1, <1>5, QueuedIsPressed
<1>8. pkt.input = HistoryRow(pressed, f)
  BY <1>1, <1>5, TruthFacts DEF QueueTruth
<1>9. \A p \in Connected : pkt.input[p] = pressed[p][f + 1]
  BY <1>8, ConnectedAssumption DEF HistoryRow
<1> QED
  BY <1>1, <1>2, <1>4, <1>5, <1>6, <1>7, <1>9

\* The manager after a confirm packet.
LEMMA ImportedConfirm ==
  ASSUME OrderInv, Truth, NEW n \in Connected, HasConfirm(n), InOrder(n),
         NEW exact \in BOOLEAN
  PROVE  LET pkt == NextConfirm(n)
             u   == SetConfirmed(rollback[n], pkt.input, pkt.frame)
             v   == ConfirmLastFrame(u, exact)
         IN  /\ RowsTruth(v, pressed) /\ SimTruth(v, pressed)
             /\ v.lastReceived[n] = rollback[n].lastReceived[n]
             /\ v.lastConfirm = rollback[n].lastConfirm + 1
             /\ \A p \in Connected :
                  Whole(rollback[n], pressed, p) => Whole(v, pressed, p)
             /\ v.sim = Append(rollback[n].sim, TickOf(u, FirstOpen(u), exact))
             /\ SoundManager(v)
<1> DEFINE m   == rollback[n]
           pkt == NextConfirm(n)
           f   == pkt.frame
           row == pkt.input
           u   == SetConfirmed(m, row, f)
           v   == ConfirmLastFrame(u, exact)
<1>1. /\ f \in Nat /\ f = m.lastConfirm + 1 /\ row \in Row
      /\ \A p \in Connected : f < Len(pressed[p]) /\ row[p] = pressed[p][f + 1]
  BY NextIsTrue
<1>2. /\ SoundManager(m) /\ RowsTruth(m, pressed) /\ SimTruth(m, pressed)
      /\ pressed \in History /\ m.lastReceived[n] = Len(pressed[n]) - 1
      /\ Len(pressed[n]) \in Nat
  BY TruthFacts, PressedIsHistory
<1> HIDE DEF m, pkt
<1>3. /\ SoundManager(u) /\ u.lastConfirm = m.lastConfirm
      /\ Len(u.inputs) = Larger(Len(m.inputs), f + 1)
  BY <1>1, <1>2, SetConfirmedSound
<1>4. \A q \in Connected : u.lastReceived[q] = Larger(m.lastReceived[q], f)
  BY <1>1, <1>2, SetConfirmedCells
<1>5. /\ RowsTruth(u, pressed) /\ u.sim = m.sim
      /\ \A p \in Connected :
           /\ f <= u.lastReceived[p] /\ TrueTo(u, pressed, p, f)
           /\ Whole(m, pressed, p) => Whole(u, pressed, p)
  BY <1>1, <1>2, SetConfirmedTruth
<1> HIDE DEF u
<1>6. SimTruth(u, pressed)
  BY <1>2, <1>3, <1>5 DEF SimTruth
<1>7. \A p \in Connected : /\ u.lastConfirm + 1 <= u.lastReceived[p]
                           /\ TrueTo(u, pressed, p, u.lastConfirm + 1)
  BY <1>1, <1>3, <1>5
<1>8. /\ RowsTruth(v, pressed) /\ SimTruth(v, pressed)
      /\ v.sim = Append(u.sim, TickOf(u, FirstOpen(u), exact))
      /\ \A p \in Connected : Whole(u, pressed, p) => Whole(v, pressed, p)
  BY <1>2, <1>3, <1>5, <1>6, <1>7, ConfirmTruth
<1>9. /\ v.lastReceived = u.lastReceived /\ v.lastConfirm = m.lastConfirm + 1
  <2>1. u \in Manager
    BY <1>3, ManagerShape
  <2> QED
    BY <1>3, <2>1, ConfirmEffect
<1>10. v.lastReceived[n] = m.lastReceived[n]
  <2>1. f <= Len(pressed[n]) - 1
    BY <1>1, <1>2
  <2> QED
    BY <1>1, <1>2, <1>4, <1>9, <2>1 DEF Larger
<1>11. SoundManager(v)
  <2>1. /\ Len(u.inputs) \in Nat /\ Len(m.inputs) \in Nat
        /\ m.lastConfirm \in Int /\ m.lastConfirm >= -1
    BY <1>2, <1>3, ManagerShape
  <2>2. FirstOpen(u) < Len(u.inputs) /\ u.lastConfirm + 1 < Len(u.inputs)
    BY <1>1, <1>3, <2>1 DEF FirstOpen, Larger
  <2> QED
    BY <1>3, <2>2, ConfirmSound
<1> QED
  BY <1>5, <1>8, <1>9, <1>10, <1>11 DEF u, m, pkt

LEMMA ImportConfirmTruth ==
  ASSUME OrderInv, Truth, OrderInv', NEW n \in Connected,
         NEW exact \in Exactness(n), ImportConfirm(n, exact)
  PROVE  Truth'
<1> DEFINE pkt == NextConfirm(n)
           u   == SetConfirmed(rollback[n], pkt.input, pkt.frame)
           v   == ConfirmLastFrame(u, exact)
<1>1. HasConfirm(n) /\ InOrder(n) /\ exact \in BOOLEAN /\ n # Master
      /\ confirmNet[n] # << >>
  BY NextIsTrue DEF ImportConfirm, Exactness, HasConfirm
<1>2. /\ rollback' = [rollback EXCEPT ![n] = v]
      /\ pc' = [pc EXCEPT ![n] = "confirm"]
      /\ UNCHANGED <<inputNet, pressed>>
      /\ Taken(n)
  BY DEF ImportConfirm, Taken
<1>3. /\ RowsTruth(v, pressed) /\ SimTruth(v, pressed)
      /\ v.lastReceived[n] = rollback[n].lastReceived[n]
      /\ \A p \in Connected :
           Whole(rollback[n], pressed, p) => Whole(v, pressed, p)
  BY <1>1, ImportedConfirm
<1> HIDE DEF v
<1>4. \A k \in Connected : QueueTruth(k)'
  BY <1>1, <1>2, TakenTrue
<1>5. PacketsTruth'
  <2>1. rollback'[Master] = rollback[Master] /\ rollback[Master].lastConfirm \in Int
    BY <1>1, <1>2, MasterAssumption, TruthFacts, ManagerShape
       DEF OrderInv, IndexInv, TypeOK
  <2> QED
    BY <1>2, <2>1, PacketsKept
<1>6. \A k \in Connected : pc'[k] = pc[k] \/ pc'[k] # "gap"
  BY <1>2 DEF OrderInv, IndexInv, TypeOK
<1> QED
  BY <1>2, <1>3, <1>4, <1>5, <1>6, TruthKept

\* Where no manager is touched but for its dirty flag.
LEMMA OnlyQueues ==
  ASSUME OrderInv, Truth, OrderInv', NEW n \in Connected, NEW u,
         rollback' = [rollback EXCEPT ![n] = u],
         u.inputs = rollback[n].inputs, u.sim = rollback[n].sim,
         u.lastReceived = rollback[n].lastReceived,
         u.lastConfirm = rollback[n].lastConfirm,
         UNCHANGED pressed, PacketsTruth',
         \A k \in Connected : QueueTruth(k)',
         \A k \in Connected : pc'[k] = pc[k] \/ pc'[k] # "gap"
  PROVE  Truth'
<1> DEFINE m == rollback[n]
<1>3. RowsTruth(m, pressed) /\ SimTruth(m, pressed)
  BY TruthFacts
<1>4. /\ u.inputs = m.inputs /\ u.sim = m.sim
      /\ u.lastReceived = m.lastReceived /\ u.lastConfirm = m.lastConfirm
  OBVIOUS
<1>1. RowsTruth(u, pressed) /\ SimTruth(u, pressed)
  <2> HIDE DEF m
  <2>1. UnusedNeutral(u)
    BY <1>3, <1>4 DEF RowsTruth, UnusedNeutral
  <2>2. ASSUME NEW p \in Connected PROVE PlayerTruth(u, pressed, p)
    <3>1. PlayerTruth(m, pressed, p)
      BY <1>3 DEF RowsTruth
    <3>2. Predicted(u, p) = Predicted(m, p)
      BY <1>4 DEF Predicted
    <3>3. Replicates(m, p) => Replicates(u, p)
      BY <1>4, <3>2 DEF Replicates
    <3>4. TrueTo(m, pressed, p, m.lastConfirm) => TrueTo(u, pressed, p, u.lastConfirm)
      BY <1>4 DEF TrueTo
    <3> QED
      BY <1>4, <3>1, <3>2, <3>3, <3>4 DEF PlayerTruth
  <2>3. SimTruth(u, pressed)
    BY <1>3, <1>4 DEF SimTruth
  <2> QED
    BY <2>1, <2>2, <2>3 DEF RowsTruth
<1>2. \A p \in Connected : Whole(rollback[n], pressed, p) => Whole(u, pressed, p)
  BY DEF Whole, TrueTo
<1> QED
  BY <1>1, <1>2, TruthKept

LEMMA RefuseConfirmTruth ==
  ASSUME OrderInv, Truth, OrderInv', NEW n \in Connected, RefuseConfirm(n)
  PROVE  Truth'
<1>1. /\ UNCHANGED <<rollback, inputNet, pressed>>
      /\ confirmNet[n] # << >> /\ pc' = [pc EXCEPT ![n] = "abort"]
      /\ Taken(n)
  BY DEF RefuseConfirm, HasConfirm, Taken
<1>2. \A k \in Connected : QueueTruth(k)'
  BY <1>1, TakenTrue
<1>3. rollback[Master].lastConfirm \in Int
  BY MasterAssumption, TruthFacts, ManagerShape
<1>4. PacketsTruth'
  BY <1>1, <1>3, PacketsKept
<1>5. rollback' = [rollback EXCEPT ![n] = rollback[n]]
  BY <1>1 DEF OrderInv, IndexInv, TypeOK
<1>6. \A k \in Connected : pc'[k] = pc[k] \/ pc'[k] # "gap"
  BY <1>1 DEF OrderInv, IndexInv, TypeOK
<1> QED
  BY <1>1, <1>2, <1>4, <1>5, <1>6, OnlyQueues

\* The manager of the master after it has confirmed a frame, and the row it
\* publishes.
LEMMA ValidatedConfirm ==
  ASSUME OrderInv, Truth, CanValidate(Master), NEW exact \in BOOLEAN
  PROVE  LET m == rollback[Master]
             v == ConfirmLastFrame(m, exact)
         IN  /\ RowsTruth(v, pressed) /\ SimTruth(v, pressed)
             /\ v.lastReceived = m.lastReceived
             /\ v.lastConfirm = m.lastConfirm + 1 /\ v.lastConfirm \in Nat
             /\ \A p \in Connected : Whole(m, pressed, p) => Whole(v, pressed, p)
             /\ RowAt(v, v.lastConfirm) = HistoryRow(pressed, v.lastConfirm)
             /\ RowAt(v, v.lastConfirm) \in Row
             /\ v.sim = Append(m.sim, TickOf(m, FirstOpen(m), exact))
             /\ SoundManager(v)
<1> DEFINE m == rollback[Master]
           v == ConfirmLastFrame(m, exact)
<1>1. /\ SoundManager(m) /\ RowsTruth(m, pressed) /\ SimTruth(m, pressed)
      /\ pressed \in History
      /\ \A p \in Connected : Whole(m, pressed, p)
  BY TruthFacts, PressedIsHistory
<1>2. \A p \in Connected : m.lastReceived[p] > FirstOpen(m)
  BY DEF CanValidate, AllReceivedAfter
<1> HIDE DEF m
<1>3. /\ m.lastConfirm \in Int /\ m.lastConfirm >= -1 /\ Len(m.inputs) \in Nat
      /\ m \in Manager
      /\ \A p \in Connected : /\ m.lastReceived[p] \in Int
                              /\ m.lastReceived[p] < Len(m.inputs)
  BY <1>1, ManagerShape, ConnectedAssumption
<1>4. \A p \in Connected : m.lastConfirm + 1 <= m.lastReceived[p]
  BY <1>2, <1>3 DEF FirstOpen, Larger
<1>5. \A p \in Connected : TrueTo(m, pressed, p, m.lastConfirm + 1)
  BY <1>1, <1>3, <1>4 DEF Whole, TrueTo
<1>6. /\ RowsTruth(v, pressed) /\ SimTruth(v, pressed)
      /\ v.sim = Append(m.sim, TickOf(m, FirstOpen(m), exact))
      /\ \A p \in Connected : Whole(m, pressed, p) => Whole(v, pressed, p)
  BY <1>1, <1>4, <1>5, ConfirmTruth
<1>7. PICK p0 \in Connected : TRUE
  BY ConnectedAssumption
<1>8. FirstOpen(m) < Len(m.inputs) /\ m.lastConfirm + 1 < Len(m.inputs)
  BY <1>2, <1>3, <1>4, <1>7 DEF FirstOpen, Larger
<1>9. /\ SoundManager(v) /\ v.inputs = m.inputs
      /\ v.lastConfirm = m.lastConfirm + 1
  BY <1>1, <1>8, ConfirmSound
<1>10. v.lastReceived = m.lastReceived
  BY <1>3, ConfirmEffect
<1> HIDE DEF v
<1>11. v.lastConfirm \in Nat /\ v.lastConfirm < Len(v.inputs)
  BY <1>3, <1>8, <1>9
<1>12. v.inputs[v.lastConfirm + 1] = HistoryRow(pressed, v.lastConfirm)
  <2>1. \A p \in Connected :
          v.inputs[v.lastConfirm + 1][p] = pressed[p][v.lastConfirm + 1]
    BY <1>6, <1>11 DEF RowsTruth, PlayerTruth, TrueTo
  <2> QED
    BY <1>6, <1>9, <1>11, <2>1, TrueRow DEF RowsTruth
<1>13. RowAt(v, v.lastConfirm) = v.inputs[v.lastConfirm + 1]
  BY <1>3, <1>9, <1>11 DEF RowAt
<1>14. v.inputs[v.lastConfirm + 1] \in Row
  <2>1. v.lastConfirm + 1 \in 1 .. Len(v.inputs)
    BY <1>3, <1>9, <1>11
  <2> QED
    BY <1>9, <2>1, ManagerShape
<1> QED
  BY <1>6, <1>9, <1>10, <1>11, <1>12, <1>13, <1>14 DEF v, m

LEMMA ValidateFrameTruth ==
  ASSUME OrderInv, Truth, OrderInv', NEW n \in Connected,
         NEW exact \in Exactness(n), ValidateFrame(n, exact)
  PROVE  Truth'
<1> DEFINE m   == rollback[Master]
           v   == ConfirmLastFrame(m, exact)
           row == RowAt(v, v.lastConfirm)
           pkt == [frame |-> v.lastConfirm, checksum |-> v.sim, input |-> row]
<1>1. n = Master /\ exact \in BOOLEAN /\ CanValidate(Master)
  BY DEF ValidateFrame, CanValidate, Exactness
<1>2. /\ rollback' = [rollback EXCEPT ![n] = v]
      /\ confirmNet' = SentToOthers(n, pkt)
      /\ pc' = [pc EXCEPT ![n] = "validate"]
      /\ UNCHANGED <<inputNet, pressed>>
  BY <1>1 DEF ValidateFrame
<1>3. /\ RowsTruth(v, pressed) /\ SimTruth(v, pressed)
      /\ v.lastReceived = m.lastReceived
      /\ v.lastConfirm = m.lastConfirm + 1 /\ v.lastConfirm \in Nat
      /\ \A p \in Connected : Whole(m, pressed, p) => Whole(v, pressed, p)
      /\ row = HistoryRow(pressed, v.lastConfirm) /\ row \in Row
      /\ SoundManager(v)
  BY <1>1, ValidatedConfirm
<1> HIDE DEF v, row
<1>4. pkt \in TrueConfirms(pressed) /\ pkt \in ConfirmPacket
  <2>1. v.sim \in Seq(GameTick) /\ v.lastConfirm \in FrameOrNone
    BY <1>3, ManagerShape
  <2> QED
    BY <1>3, <2>1 DEF TrueConfirms, ConfirmPacket
<1> HIDE DEF pkt
<1>5. ASSUME NEW k \in Connected PROVE QueueTruth(k)'
  <2>1. confirmNet'[k] \in {confirmNet[k], Append(confirmNet[k], pkt)}
    BY <1>2 DEF SentToOthers
  <2>2. /\ confirmNet[k] \in Seq(ConfirmPacket)
        /\ \A i \in DOMAIN confirmNet[k] :
             confirmNet[k][i] \in TrueConfirms(pressed)
    BY TruthFacts, QueueIsTrue
  <2>3. \A i \in DOMAIN confirmNet'[k] : confirmNet'[k][i] \in TrueConfirms(pressed)
    BY <1>4, <2>1, <2>2, AppendTrue
  <2> QED
    BY <1>2, <2>3 DEF TrueConfirms, QueueTruth
<1>6. PacketsTruth'
  <2>1. rollback'[Master] = v /\ m.lastConfirm \in Int
    BY <1>1, <1>2, MasterAssumption, TruthFacts, ManagerShape
       DEF OrderInv, IndexInv, TypeOK
  <2> QED
    BY <1>2, <1>3, <2>1, PacketsKept
<1>7. \A k \in Connected : pc'[k] = pc[k] \/ pc'[k] # "gap"
  BY <1>2 DEF OrderInv, IndexInv, TypeOK
<1> QED
  BY <1>1, <1>2, <1>3, <1>5, <1>6, <1>7, TruthKept

\* The packet of a tick holds what its player has pressed since the last
\* frame it has confirmed, unless it is cut.
LEMMA SentIsTrue ==
  ASSUME OrderInv, Truth, NEW n \in Connected, inTick[n],
         ~IsTruncated(rollback[n], currentFrame[n])
  PROVE  LET pkt == [player |-> n, frame |-> currentFrame[n],
                     inputs |-> SentInputs(rollback[n], n, currentFrame[n])]
         IN  /\ TruePacket(pkt, pressed)
             /\ FirstFrame(pkt) = FirstOpen(rollback[n])
<1> DEFINE m    == rollback[n]
           c    == currentFrame[n]
           open == FirstOpen(m)
           size == c - open + 1
           sent == SentInputs(m, n, c)
           pkt  == [player |-> n, frame |-> c, inputs |-> sent]
<1>1. /\ c \in Nat /\ Len(pressed[n]) = c + 1 /\ m.lastConfirm \in Int
      /\ m.lastConfirm >= -1 /\ m.lastConfirm < Len(pressed[n])
      /\ m.lastReceived[n] = c /\ SoundManager(m) /\ c < Len(m.inputs)
  <2>1. /\ c \in Nat /\ Len(pressed[n]) = c + 1 /\ c < Len(m.inputs)
    BY OrderFacts, PeerFacts DEF PressedInTime, OrderInv
  <2>2. /\ m.lastReceived[n] = Len(pressed[n]) - 1 /\ SoundManager(m)
        /\ PlayerTruth(m, pressed, n)
    BY TruthFacts
  <2>3. m.lastConfirm <= m.lastReceived[n]
    BY <2>2 DEF PlayerTruth
  <2>4. m.lastConfirm \in Int /\ m.lastConfirm >= -1
    BY <2>2, ManagerShape
  <2> QED
    BY <2>1, <2>2, <2>3, <2>4
<1>2. open \in Nat /\ open <= c
  BY <1>1 DEF FirstOpen, Larger
<1>3. /\ sent = [i \in 1 .. size |-> m.inputs[open + i][n]]
      /\ size \in Nat \ {0}
  BY <1>2, <1>1 DEF SentInputs, IsTruncated, WindowSize, WindowFirst, Larger
<1>4. sent \in Seq(Input)
  BY <1>1, SentInputsType
<1> HIDE DEF open, sent
<1>5. Len(sent) = size
  BY <1>3, <1>4, LenProperties
<1>6. FirstFrame(pkt) = open
  BY <1>1, <1>2, <1>5 DEF FirstFrame
<1>7. ASSUME NEW f \in open .. c PROVE sent[f - open + 1] = pressed[n][f + 1]
  <2>1. f - open + 1 \in 1 .. size /\ open + (f - open + 1) = f + 1 /\ f \in 0 .. c
    BY <1>1, <1>2
  <2>2. m.inputs[f + 1][n] = pressed[n][f + 1]
    BY <1>1, <2>1, TruthFacts DEF Whole, TrueTo
  <2> QED
    BY <1>3, <2>1, <2>2
<1>8. TruePacket(pkt, pressed)
  BY <1>1, <1>2, <1>6, <1>7 DEF TruePacket, PacketInput
<1> QED
  BY <1>6, <1>8 DEF sent, open

LEMMA EndTickTruth ==
  ASSUME OrderInv, Truth, OrderInv', NEW n \in Connected, EndTick(n),
         ~IsTruncated(rollback[n], currentFrame[n])
  PROVE  Truth'
<1> DEFINE u   == Cleaned(n)
           pkt == [player |-> n, frame |-> currentFrame[n],
                   inputs |-> SentInputs(rollback[n], n, currentFrame[n])]
<1>1. /\ inTick[n] /\ rollback' = [rollback EXCEPT ![n] = u]
      /\ inputNet' = inputNet \cup {pkt}
      /\ pc' = [pc EXCEPT ![n] = "play"]
      /\ UNCHANGED <<confirmNet, pressed>>
  BY DEF EndTick
<1>2. /\ u.inputs = rollback[n].inputs /\ u.lastReceived = rollback[n].lastReceived
      /\ u.lastConfirm = rollback[n].lastConfirm /\ u.sim = rollback[n].sim
  BY OrderFacts, CleanedEffect DEF Cleaned, Manager
<1>3. TruePacket(pkt, pressed) /\ FirstFrame(pkt) = FirstOpen(rollback[n])
  BY <1>1, SentIsTrue
<1> HIDE DEF u, pkt
<1>4. FirstOpen(rollback'[Master]) = FirstOpen(rollback[Master])
  <2>1. rollback'[Master].lastConfirm = rollback[Master].lastConfirm
    BY <1>1, <1>2, MasterAssumption DEF OrderInv, IndexInv, TypeOK
  <2> QED
    BY <2>1 DEF FirstOpen
<1>5. PacketsTruth'
  BY <1>1, <1>3, <1>4, OpenWithinRows DEF Truth, PacketsTruth
<1>6. \A k \in Connected : QueueTruth(k)'
  BY <1>1, TruthFacts DEF QueueTruth
<1>7. \A k \in Connected : pc'[k] = pc[k] \/ pc'[k] # "gap"
  BY <1>1 DEF OrderInv, IndexInv, TypeOK
<1> QED
  BY <1>1, <1>2, <1>5, <1>6, <1>7, OnlyQueues

LEMMA GameOverTruth ==
  ASSUME OrderInv, Truth, OrderInv', NEW n \in Connected,
         GameOverRollback(n) \/ EndGameOverRollback(n) \/ ShowEndScreen(n)
  PROVE  Truth'
<1>1. /\ UNCHANGED <<inputNet, confirmNet, pressed>>
      /\ rollback' \in {rollback, [rollback EXCEPT ![n] = Cleaned(n)]}
      /\ \E after \in {"import", "done", "over"} : pc' = [pc EXCEPT ![n] = after]
  BY DEF GameOverRollback, EndGameOverRollback, ShowEndScreen, AfterGameOver, netVars
<1>2. PICK u \in {rollback[n], Cleaned(n)} : rollback' = [rollback EXCEPT ![n] = u]
  BY <1>1 DEF OrderInv, IndexInv, TypeOK
<1>3. /\ u.inputs = rollback[n].inputs /\ u.lastReceived = rollback[n].lastReceived
      /\ u.lastConfirm = rollback[n].lastConfirm /\ u.sim = rollback[n].sim
  BY <1>2, OrderFacts, CleanedEffect DEF Cleaned, Manager
<1>4. PacketsTruth'
  <2>1. rollback'[Master].lastConfirm = rollback[Master].lastConfirm
    BY <1>2, <1>3, MasterAssumption DEF OrderInv, IndexInv, TypeOK
  <2>2. rollback[Master].lastConfirm \in Int
    BY MasterAssumption, TruthFacts, ManagerShape
  <2> QED
    BY <1>1, <2>1, <2>2, PacketsKept
<1>5. \A k \in Connected : QueueTruth(k)'
  BY <1>1, TruthFacts DEF QueueTruth
<1>6. \A k \in Connected : pc'[k] = pc[k] \/ pc'[k] # "gap"
  BY <1>1 DEF OrderInv, IndexInv, TypeOK
<1> QED
  BY <1>1, <1>2, <1>3, <1>4, <1>5, <1>6, OnlyQueues

-----------------------------------------------------------------------------
LEMMA InitTruth == Init => TruthInv
<1> SUFFICES ASSUME Init PROVE TruthInv
  OBVIOUS
<1>1. OrderInv
  BY InitOrder
<1>2. Len(<< >>) = 0 /\ DOMAIN << >> = {}
  BY EmptySeq
<1>3. \A n \in Connected :
        /\ rollback[n] = InitManager /\ pressed[n] = << >>
        /\ confirmNet[n] = << >> /\ pc[n] = "play"
  BY DEF Init
<1>4. InitManager.inputs = << >> /\ InitManager.lastConfirm = -1
      /\ InitManager.sim = << >>
      /\ \A p \in Connected : InitManager.lastReceived[p] = -1
  BY ConnectedAssumption DEF InitManager
<1>5. \A n, p \in Connected : /\ TrueTo(rollback[n], pressed, p, -1)
                              /\ Replicates(rollback[n], p)
  BY <1>2, <1>3, <1>4 DEF TrueTo, Replicates
<1>6. \A n \in Connected : PeerTruth(n)
  BY <1>2, <1>3, <1>4, <1>5
     DEF PeerTruth, RowsTruth, SimTruth, UnusedNeutral, PlayerTruth, Whole, QueueTruth
<1>7. MasterTruth /\ PacketsTruth
  BY <1>3, <1>4, <1>5, MasterAssumption DEF MasterTruth, PacketsTruth, Whole, Init
<1> QED
  BY <1>1, <1>6, <1>7 DEF TruthInv, Truth

\* Only the packet of a tick can be cut, and what was cut stays missing.
LEMMA CutStaysCut ==
  ASSUME OrderInv, [Next]_vars, ~truncated'
  PROVE  /\ ~truncated
         /\ \A n \in Connected :
              EndTick(n) => ~IsTruncated(rollback[n], currentFrame[n])
<1>1. truncated \in BOOLEAN
  BY DEF OrderInv, IndexInv, TypeOK
<1>2. CASE UNCHANGED vars
  BY <1>1, <1>2 DEF vars, EndTick
<1>3. ASSUME NEW n \in Connected, Step(n)
      PROVE  UNCHANGED truncated
             \/ truncated' = (truncated \/ IsTruncated(rollback[n], currentFrame[n]))
  BY <1>3 DEF Step, BeginTick, ImportInput, ImportConfirm, RefuseConfirm,
              ValidateFrame, EndTick, GameOverRollback, EndGameOverRollback,
              ShowEndScreen
<1>4. \A n \in Connected :
        EndTick(n) => ~IsTruncated(rollback[n], currentFrame[n])
  BY DEF EndTick
<1> QED
  BY <1>1, <1>2, <1>3, <1>4 DEF Next

LEMMA NextTruth == TruthInv /\ [Next]_vars => TruthInv'
<1> SUFFICES ASSUME OrderInv, ~truncated => Truth, [Next]_vars, ~truncated'
             PROVE  Truth'
  BY NextOrder DEF TruthInv
<1>1. OrderInv'
  BY NextOrder
<1>2. /\ Truth
      /\ \A n \in Connected :
           EndTick(n) => ~IsTruncated(rollback[n], currentFrame[n])
  BY CutStaysCut
<1>3. CASE Next
  <2> SUFFICES ASSUME NEW n \in Connected, Step(n) PROVE Truth'
    BY <1>3 DEF Next
  <2>1. CASE \E input \in Input : BeginTick(n, input)
    BY <1>1, <1>2, <2>1, BeginTickTruth
  <2>2. CASE \E pkt \in inputNet : ImportInput(n, pkt)
    BY <1>1, <1>2, <2>2, ImportInputTruth
  <2>3. CASE \E exact \in Exactness(n) : ImportConfirm(n, exact)
    BY <1>1, <1>2, <2>3, ImportConfirmTruth
  <2>4. CASE RefuseConfirm(n)
    BY <1>1, <1>2, <2>4, RefuseConfirmTruth
  <2>5. CASE \E exact \in Exactness(n) : ValidateFrame(n, exact)
    BY <1>1, <1>2, <2>5, ValidateFrameTruth
  <2>6. CASE EndTick(n)
    BY <1>1, <1>2, <2>6, EndTickTruth
  <2>7. CASE GameOverRollback(n) \/ EndGameOverRollback(n) \/ ShowEndScreen(n)
    BY <1>1, <1>2, <2>7, GameOverTruth
  <2> QED
    BY <2>1, <2>2, <2>3, <2>4, <2>5, <2>6, <2>7 DEF Step
<1>4. CASE UNCHANGED vars
  BY <1>2, <1>4 DEF vars, gameVars, netVars, Truth, PeerTruth, MasterTruth,
                    PacketsTruth, QueueTruth
<1> QED
  BY <1>3, <1>4

LEMMA TruthAlways == Spec => []TruthInv
BY InitTruth, NextTruth, PTL DEF Spec

-----------------------------------------------------------------------------
LEMMA TruthImpliesPackets == TruthInv => PacketsSuffice
<1> SUFFICES ASSUME OrderInv, ~truncated, Truth
             PROVE  PacketsTruthful /\ EveryPacketSuffices /\ NoGap
  BY DEF TruthInv, PacketsSuffice, PacketsTruthful, EveryPacketSuffices, NoGap
<1>1. ASSUME NEW pkt \in inputNet
      PROVE  /\ pkt.player \in Connected /\ pkt.frame \in Nat
             /\ Len(pkt.inputs) \in Nat /\ DOMAIN pkt.inputs = 1 .. Len(pkt.inputs)
             /\ FirstFrame(pkt) = pkt.frame - Len(pkt.inputs) + 1
             /\ TruePacket(pkt, pressed)
             /\ FirstFrame(pkt) <= FirstOpen(rollback[Master])
  <2>1. pkt.player \in Connected /\ pkt.frame \in Nat /\ pkt.inputs \in Seq(Input)
    BY DEF OrderInv, IndexInv, TypeOK, InputPacket
  <2> QED
    BY <2>1, LenProperties DEF FirstFrame, Truth, PacketsTruth
<1>2. ASSUME NEW pkt \in inputNet, NEW i \in DOMAIN pkt.inputs
      PROVE  pkt.inputs[i] = pressed[pkt.player][FirstFrame(pkt) + i]
  <2> DEFINE f == FirstFrame(pkt) + i - 1
  <2>1. f \in FirstFrame(pkt) .. pkt.frame /\ f - FirstFrame(pkt) + 1 = i
        /\ f + 1 = FirstFrame(pkt) + i
    BY <1>1
  <2>2. PacketInput(pkt, f) = pressed[pkt.player][f + 1]
    BY <1>1, <2>1 DEF TruePacket
  <2> QED
    BY <2>1, <2>2 DEF PacketInput
<1>3. ASSUME NEW pkt \in inputNet
      PROVE  FirstFrame(pkt) <= rollback[Master].lastReceived[pkt.player] + 1
  <2>1. /\ FirstOpen(rollback[Master]) \in Nat
        /\ FirstOpen(rollback[Master])
             <= rollback[Master].lastReceived[pkt.player] + 1
    BY <1>1, OpenWithinRows, MasterAssumption
  <2>2. rollback[Master].lastReceived[pkt.player] \in Int
    BY <1>1, TruthFacts, ManagerShape, MasterAssumption, ConnectedAssumption
  <2> DEFINE first == FirstFrame(pkt)
             open == FirstOpen(rollback[Master])
             last == rollback[Master].lastReceived[pkt.player]
  <2>3. first \in Int /\ open \in Nat /\ last \in Int /\ first <= open /\ open <= last + 1
    BY <1>1, <2>1, <2>2
  <2> HIDE DEF first, open, last
  <2>4. first <= last + 1
    BY <2>3
  <2> QED
    BY <2>4 DEF first, last
<1>4. \A n \in Connected : pc[n] # "gap"
  BY TruthFacts
<1> QED
  BY <1>2, <1>3, <1>4 DEF PacketsTruthful, EveryPacketSuffices, NoGap

\* While no packet is cut, every packet holds what its player pressed, starts
\* early enough to make up for all the lost ones before it, and never makes
\* SetInput leave a gap in the rows (GetInputs(player, frame), SetInputs).
THEOREM PacketsSufficeAlways == Spec => []PacketsSuffice
BY TruthAlways, TruthImpliesPackets, PTL

LEMMA TruthImpliesRows == TruthInv => RowsTruthful
<1> SUFFICES ASSUME OrderInv, ~truncated, Truth
             PROVE  MasterKnows /\ PredictionReplicates
  BY DEF TruthInv, RowsTruthful, MasterKnows, PredictionReplicates
<1>1. MasterKnows
  BY DEF Truth, MasterTruth, MasterKnows, Whole, TrueTo
<1>2. ASSUME NEW n \in Connected, NEW p \in Connected PROVE Replicates(rollback[n], p)
  BY TruthFacts DEF PlayerTruth
<1> QED
  BY <1>1, <1>2 DEF PredictionReplicates, Replicates, Predicted

\* While no packet is cut, the master holds every input up to the last one it
\* counts as received, and every peer predicts by repeating that last one
\* (SetInput, SetInputs, SetConfirmed).
THEOREM RowsTruthfulAlways == Spec => []RowsTruthful
BY TruthAlways, TruthImpliesRows, PTL

-----------------------------------------------------------------------------
(* Nothing confirmed is ever taken back.                                    *)

\* The inputs pressed only grow, and so do the confirmed frames.
PressedGrows  == Extends(pressed', pressed)
ConfirmsGrow ==
  \A n \in Connected : rollback[n].lastConfirm <= rollback'[n].lastConfirm

\* A manager after a step of peer n: its confirmed game is the same, or has
\* gone on by the tick of one frame.
Confirms(m, u, n) ==
  \E tick \in GameTick :
    /\ tick.exact \in Exactness(n)
    /\ u.sim = Append(m.sim, tick) /\ u.lastConfirm = m.lastConfirm + 1
SameGame(m, u) == u.sim = m.sim /\ u.lastConfirm = m.lastConfirm
ConfirmStep(n) ==
  \E exact \in Exactness(n) : ImportConfirm(n, exact) \/ ValidateFrame(n, exact)

LEMMA SetInputSame ==
  ASSUME NEW m \in Manager, NEW p, NEW input, NEW f
  PROVE  SameGame(m, SetInput(m, p, input, f))
BY DEF SameGame, SetInput, Manager

LEMMA SetInputsSame ==
  ASSUME NEW m \in Manager, NEW pkt
  PROVE  SameGame(m, SetInputs(m, pkt))
BY DEF SameGame, SetInputs, Manager

LEMMA SetConfirmedSame ==
  ASSUME NEW m \in Manager, NEW row, NEW f
  PROVE  SameGame(m, SetConfirmed(m, row, f))
BY DEF SameGame, SetConfirmed, Manager

LEMMA CleanedSame ==
  ASSUME NEW n \in Connected, rollback[n] \in Manager
  PROVE  SameGame(rollback[n], Cleaned(n))
BY DEF SameGame, Cleaned, Manager

LEMMA ConfirmLastConfirms ==
  ASSUME NEW n \in Connected, NEW exact \in Exactness(n), NEW m, SoundManager(m),
         FirstOpen(m) < Len(m.inputs)
  PROVE  Confirms(m, ConfirmLastFrame(m, exact), n)
<1> DEFINE tick == TickOf(m, FirstOpen(m), exact)
<1>1. exact \in BOOLEAN
  BY DEF Exactness
<1>2. tick \in GameTick /\ tick.exact = exact
  <2>1. FirstOpen(m) \in Nat
    BY FirstOpenType
  <2> QED
    BY <1>1, <2>1, TickType DEF TickOf
<1>3. m \in Manager
  BY ManagerShape
<1>4. /\ ConfirmLastFrame(m, exact).sim = Append(m.sim, tick)
      /\ ConfirmLastFrame(m, exact).lastConfirm = m.lastConfirm + 1
  BY <1>3 DEF ConfirmLastFrame, Manager
<1> QED
  BY <1>2, <1>4 DEF Confirms

\* A step that confirms a frame confirms exactly one.
LEMMA ConfirmStepConfirms ==
  ASSUME OrderInv, NEW n \in Connected, ConfirmStep(n)
  PROVE  /\ \A k \in Connected \ {n} : rollback'[k] = rollback[k]
         /\ Confirms(rollback[n], rollback'[n], n)
<1> DEFINE m == rollback[n]
           Goal == /\ \A k \in Connected \ {n} : rollback'[k] = rollback[k]
                   /\ Confirms(m, rollback'[n], n)
<1>1. /\ m \in Manager /\ SoundManager(m) /\ rollback \in [Connected -> Manager]
      /\ Len(m.inputs) \in Nat /\ m.lastConfirm \in Int /\ m.lastConfirm >= -1
  BY OrderFacts DEF OrderInv, IndexInv, TypeOK, FrameOrNone
<1>2. ASSUME NEW exact \in Exactness(n), ImportConfirm(n, exact) PROVE Goal
  <2> DEFINE pkt == NextConfirm(n)
             u   == SetConfirmed(m, pkt.input, pkt.frame)
             v   == ConfirmLastFrame(u, exact)
  <2>1. /\ rollback' = [rollback EXCEPT ![n] = v] /\ confirmNet[n] # << >>
        /\ pkt.frame = m.lastConfirm + 1
    BY <1>2 DEF ImportConfirm, HasConfirm, InOrder
  <2>2. pkt.input \in Row /\ pkt.frame \in Nat
    <3>1. pkt \in ConfirmPacket
      BY <2>1, OrderFacts, HeadTailProperties DEF NextConfirm
    <3> QED
      BY <1>1, <2>1, <3>1 DEF ConfirmPacket
  <2> HIDE DEF pkt
  <2>3. /\ SoundManager(u) /\ SameGame(m, u)
        /\ Len(u.inputs) = Larger(Len(m.inputs), pkt.frame + 1)
    BY <1>1, <2>2, SetConfirmedSound, SetConfirmedSame
  <2> HIDE DEF u
  <2>4. FirstOpen(u) < Len(u.inputs)
    <3>1. Len(u.inputs) > 0
      BY <1>1, <2>2, <2>3 DEF Larger
    <3> QED
      BY <2>3, <3>1, FirstOpenType
  <2>5. Confirms(u, v, n)
    BY <2>3, <2>4, ConfirmLastConfirms
  <2> HIDE DEF v
  <2> QED
    BY <1>1, <2>1, <2>3, <2>5 DEF Confirms, SameGame
<1>3. ASSUME NEW exact \in Exactness(n), ValidateFrame(n, exact) PROVE Goal
  <2> DEFINE v == ConfirmLastFrame(m, exact)
  <2>1. rollback' = [rollback EXCEPT ![n] = v] /\ CanValidate(n)
    BY <1>3 DEF ValidateFrame
  <2>2. FirstOpen(m) < Len(m.inputs)
    <3>1. \A p \in Connected : /\ m.lastReceived[p] > FirstOpen(m)
                               /\ m.lastReceived[p] \in Int
                               /\ m.lastReceived[p] < Len(m.inputs)
      BY <1>1, <2>1, ManagerShape, ConnectedAssumption
         DEF CanValidate, AllReceivedAfter
    <3>2. PICK p \in Connected : TRUE
      BY ConnectedAssumption
    <3>3. FirstOpen(m) \in Nat
      BY <1>1, FirstOpenType
    <3> QED
      BY <1>1, <3>1, <3>2, <3>3
  <2>3. Confirms(m, v, n)
    BY <1>1, <2>2, ConfirmLastConfirms
  <2> HIDE DEF v
  <2> QED
    BY <1>1, <2>1, <2>3
<1> QED
  BY <1>2, <1>3 DEF ConfirmStep

LEMMA ManagerStep ==
  ASSUME OrderInv, NEW n \in Connected, Step(n)
  PROVE  /\ \A k \in Connected \ {n} : rollback'[k] = rollback[k]
         /\ \/ SameGame(rollback[n], rollback'[n])
            \/ ConfirmStep(n) /\ Confirms(rollback[n], rollback'[n], n)
<1> DEFINE m == rollback[n]
           Goal == /\ \A k \in Connected \ {n} : rollback'[k] = rollback[k]
                   /\ \/ SameGame(m, rollback'[n])
                      \/ ConfirmStep(n) /\ Confirms(m, rollback'[n], n)
<1>1. /\ m \in Manager /\ SoundManager(m) /\ rollback \in [Connected -> Manager]
      /\ Len(m.inputs) \in Nat /\ m.lastConfirm \in Int /\ m.lastConfirm >= -1
  BY OrderFacts DEF OrderInv, IndexInv, TypeOK, FrameOrNone
<1>2. CASE UNCHANGED rollback
  BY <1>2 DEF SameGame
<1>3. ASSUME NEW input \in Input, BeginTick(n, input) PROVE Goal
  <2> DEFINE u == SetInput(m, n, input, currentFrame[n])
  <2>1. rollback' = [rollback EXCEPT ![n] = u]
    BY <1>3 DEF BeginTick
  <2>2. SameGame(m, u)
    BY <1>1, SetInputSame
  <2> HIDE DEF u
  <2> QED
    BY <1>1, <2>1, <2>2
<1>4. ASSUME NEW pkt \in inputNet, ImportInput(n, pkt) PROVE Goal
  <2> DEFINE u == SetInputs(m, pkt)
  <2>1. UNCHANGED rollback \/ rollback' = [rollback EXCEPT ![n] = u]
    BY <1>4 DEF ImportInput
  <2>2. SameGame(m, u)
    BY <1>1, SetInputsSame
  <2> HIDE DEF u
  <2> QED
    BY <1>1, <1>2, <2>1, <2>2
<1>5. CASE ConfirmStep(n)
  BY <1>5, ConfirmStepConfirms
<1>6. CASE EndTick(n) \/ EndGameOverRollback(n)
  <2> DEFINE u == Cleaned(n)
  <2>1. rollback' = [rollback EXCEPT ![n] = u]
    BY <1>6 DEF EndTick, EndGameOverRollback
  <2>2. SameGame(m, u)
    BY <1>1, CleanedSame
  <2> HIDE DEF u
  <2> QED
    BY <1>1, <2>1, <2>2
<1> QED
  BY <1>2, <1>3, <1>4, <1>5, <1>6
     DEF Step, ConfirmStep, RefuseConfirm, GameOverRollback, ShowEndScreen

LEMMA StepGrows ==
  ASSUME OrderInv, [Next]_vars
  PROVE  PressedGrows /\ ConfirmsGrow
<1>1. \A n \in Connected :
        /\ pressed[n] \in Seq(Input) /\ Len(pressed[n]) \in Nat
        /\ rollback[n].lastConfirm \in Int
  BY OrderFacts DEF FrameOrNone
<1>2. CASE UNCHANGED vars
  BY <1>1, <1>2 DEF vars, gameVars, netVars, PressedGrows, ConfirmsGrow, Extends
<1>3. ASSUME NEW n \in Connected, Step(n) PROVE PressedGrows
  <2>1. CASE UNCHANGED pressed
    BY <1>1, <2>1 DEF PressedGrows, Extends
  <2>2. ASSUME NEW input \in Input, BeginTick(n, input) PROVE PressedGrows
    <3>1. /\ pressed'[n] = Append(pressed[n], input)
          /\ \A k \in Connected \ {n} : pressed'[k] = pressed[k]
      BY <2>2 DEF BeginTick, OrderInv, IndexInv, TypeOK
    <3>2. /\ Len(pressed'[n]) = Len(pressed[n]) + 1
          /\ \A i \in 1 .. Len(pressed[n]) : pressed'[n][i] = pressed[n][i]
      BY <1>1, <3>1, AppendProperties
    <3> QED
      BY <1>1, <3>1, <3>2 DEF PressedGrows, Extends
  <2> QED
    BY <1>3, <2>1, <2>2 DEF Step, ImportInput, ImportConfirm, RefuseConfirm,
       ValidateFrame, EndTick, GameOverRollback, EndGameOverRollback, ShowEndScreen
<1>4. ASSUME NEW n \in Connected, Step(n) PROVE ConfirmsGrow
  BY <1>1, <1>4, ManagerStep DEF ConfirmsGrow, SameGame, Confirms
<1> QED
  BY <1>2, <1>3, <1>4 DEF Next

LEMMA ConfirmedStay ==
  ASSUME TruthInv, TruthInv', [Next]_vars, ~truncated'
  PROVE  \A n \in Connected : \A f \in 0 .. rollback[n].lastConfirm :
           rollback'[n].inputs[f + 1] = rollback[n].inputs[f + 1]
<1>1. OrderInv /\ Truth
  BY CutStaysCut DEF TruthInv
<1>2. OrderInv' /\ Truth'
  BY DEF TruthInv
<1>3. PressedGrows /\ ConfirmsGrow
  BY <1>1, StepGrows
<1> TAKE n \in Connected
<1> TAKE f \in 0 .. rollback[n].lastConfirm
<1> DEFINE m == rollback[n]
           u == rollback'[n]
<1>4. SoundManager(m) /\ RowsTruth(m, pressed) /\ pressed \in History
  BY <1>1, TruthFacts, PressedIsHistory
<1>5. SoundManager(u) /\ RowsTruth(u, pressed') /\ pressed' \in History
  BY <1>2 DEF OrderInv, IndexInv, TypeOK, RowsExist, SoundManager, RowsReach,
              Truth, PeerTruth, History
<1>6. \A p \in Connected :
        m.lastConfirm < Len(pressed[p]) /\ Len(pressed[p]) \in Nat
  BY <1>1, OrderImpliesPlayed, OrderFacts DEF ConfirmedWasPlayed
<1> HIDE DEF m, u
<1>7. /\ m.lastConfirm \in Int /\ m.lastConfirm < Len(m.inputs)
      /\ u.lastConfirm \in Int /\ u.lastConfirm < Len(u.inputs)
      /\ Len(m.inputs) \in Nat /\ Len(u.inputs) \in Nat
  BY <1>4, <1>5, ManagerShape
<1>8. f \in 0 .. m.lastConfirm /\ f \in 0 .. u.lastConfirm /\ f \in Nat
  BY <1>3, <1>7 DEF ConfirmsGrow, m, u
<1>9. f + 1 \in 1 .. Len(m.inputs) /\ f + 1 \in 1 .. Len(u.inputs)
  BY <1>7, <1>8
<1>10. m.inputs[f + 1] = HistoryRow(pressed, f)
  <2>1. \A p \in Connected : m.inputs[f + 1][p] = pressed[p][f + 1]
    BY <1>4, <1>8 DEF RowsTruth, PlayerTruth, TrueTo
  <2> QED
    BY <1>4, <1>7, <1>8, <1>9, <2>1, TrueRow DEF RowsTruth
<1>11. u.inputs[f + 1] = HistoryRow(pressed', f)
  <2>1. \A p \in Connected : u.inputs[f + 1][p] = pressed'[p][f + 1]
    BY <1>5, <1>8 DEF RowsTruth, PlayerTruth, TrueTo
  <2> QED
    BY <1>5, <1>7, <1>8, <1>9, <2>1, TrueRow DEF RowsTruth
<1>12. HistoryRow(pressed', f) = HistoryRow(pressed, f)
  <2>1. \A p \in Connected : f < Len(pressed[p]) /\ Len(pressed[p]) \in Nat
    BY <1>6, <1>7, <1>8
  <2> QED
    BY <1>3, <1>8, <2>1, RowGrows DEF PressedGrows
<1> QED
  BY <1>10, <1>11, <1>12 DEF m, u

\* While no packet is cut, the row of a confirmed frame never changes again,
\* whatever packet arrives late, twice or out of order (SetInputs does not
\* look at the last confirmed frame).
THEOREM ConfirmedRowsStay == Spec /\ []~truncated => ConfirmedRowsFinal
<1>1. TruthInv /\ TruthInv' /\ [Next]_vars /\ ~truncated'
        => [\A n \in Connected : \A f \in 0 .. rollback[n].lastConfirm :
              rollback'[n].inputs[f + 1] = rollback[n].inputs[f + 1]]_rollback
  BY ConfirmedStay
<1> QED
  BY <1>1, TruthAlways, PTL DEF Spec, ConfirmedRowsFinal
=============================================================================
