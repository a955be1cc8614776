------------------------ MODULE RollbackAgreement_proofs ------------------------
(***************************************************************************)
(* The peers agree: what a peer confirms is a prefix of what the master    *)
(* has confirmed or it has left the game, nobody leaves the game without a *)
(* machine that computed something else, the protocol implements the       *)
(* agreed log, and the master displays the game of its rows.               *)
(***************************************************************************)
EXTENDS RollbackTruth_proofs

\* s is a prefix of t, tick for tick.
Begins(s, t) == Len(s) <= Len(t) /\ \A i \in 1 .. Len(s) : s[i] = t[i]

\* The confirm packets that carry the checksum of the first frames of sim.
MasterConfirms(sim) ==
  {pkt \in ConfirmPacket :
     pkt.frame >= 0 => /\ Len(pkt.checksum) = pkt.frame + 1
                       /\ Begins(pkt.checksum, sim)}

\* The confirmed game of a peer counts its frames, its mailbox holds what the
\* master has published, and the two games agree unless the peer has left.
Counted(n) == Len(rollback[n].sim) = rollback[n].lastConfirm + 1
QueueOfMaster(n) ==
  \A i \in DOMAIN confirmNet[n] :
    confirmNet[n][i] \in MasterConfirms(rollback[Master].sim)
Agrees(n) == hasDesync[n] \/ Begins(rollback[n].sim, rollback[Master].sim)

AgreeInv ==
  /\ OrderInv
  /\ \A n \in Connected : Counted(n) /\ QueueOfMaster(n) /\ Agrees(n)

-----------------------------------------------------------------------------
LEMMA BeginsRules ==
  ASSUME NEW S, NEW t \in Seq(S)
  PROVE  /\ Begins(t, t)
         /\ \A x \in S : Begins(t, Append(t, x))
         /\ \A s \in Seq(S), x \in S : Begins(s, t) => Begins(s, Append(t, x))
<1>1. Len(t) \in Nat /\ \A s \in Seq(S) : Len(s) \in Nat
  BY LenProperties
<1>2. \A x \in S : /\ Len(Append(t, x)) = Len(t) + 1
                   /\ \A i \in 1 .. Len(t) : Append(t, x)[i] = t[i]
  BY AppendProperties
<1> QED
  BY <1>1, <1>2 DEF Begins

LEMMA BeginsIsPrefix ==
  ASSUME NEW S, NEW s \in Seq(S), NEW t \in Seq(S), Begins(s, t)
  PROVE  IsPrefix(s, t)
<1>1. Len(s) \in Nat /\ Len(t) \in Nat /\ Len(s) <= Len(t)
  BY LenProperties DEF Begins
<1>2. /\ \A i \in 1 .. Len(s) : s[i] \in S
      /\ \A i \in 1 .. Len(s) : t[i] \in S
  BY <1>1, ElementOfSeq
<1>3. /\ SubSeq(s, 1, Len(s)) = [i \in 1 .. Len(s) |-> s[i]]
      /\ SubSeq(t, 1, Len(s)) = [i \in 1 .. Len(s) |-> t[i]]
  BY <1>1, <1>2
<1> QED
  BY <1>1, <1>3 DEF IsPrefix, Begins

LEMMA SimFacts ==
  ASSUME OrderInv, NEW n \in Connected
  PROVE  /\ rollback[n].sim \in Seq(GameTick) /\ Len(rollback[n].sim) \in Nat
         /\ rollback[n].lastConfirm \in Int /\ rollback[n].lastConfirm >= -1
         /\ rollback[Master].sim \in Seq(GameTick) /\ Master \in Connected
         /\ rollback[Master].lastConfirm \in Int
         /\ rollback[n].lastConfirm <= rollback[Master].lastConfirm
<1>1. /\ rollback[n].sim \in Seq(GameTick)
      /\ rollback[n].lastConfirm \in Int /\ rollback[n].lastConfirm >= -1
      /\ rollback[Master].sim \in Seq(GameTick)
      /\ rollback[Master].lastConfirm \in Int
  BY OrderFacts, ManagerShape, MasterAssumption
<1>2. rollback[n].lastConfirm <= rollback[Master].lastConfirm
  BY OrderFacts DEF ConfirmedInTime
<1> QED
  BY <1>1, <1>2, LenProperties, MasterAssumption

\* Nobody comes back to a game it has left.
LEMMA DesyncStays ==
  ASSUME OrderInv, [Next]_vars, NEW k \in Connected, hasDesync[k]
  PROVE  hasDesync'[k]
<1>1. UNCHANGED vars => hasDesync'[k]
  BY DEF vars, gameVars
<1>2. ASSUME NEW n \in Connected, Step(n) PROVE hasDesync'[k]
  <2>1. CASE UNCHANGED hasDesync
    BY <2>1
  <2>2. CASE ExitGame(n)
    BY <2>2 DEF ExitGame, OrderInv, IndexInv, TypeOK
  <2>3. UNCHANGED hasDesync \/ ExitGame(n)
    <3>1. CASE \E exact \in Exactness(n) : ImportConfirm(n, exact)
      BY <3>1 DEF ImportConfirm
    <3>2. CASE EndTick(n)
      BY <3>2 DEF EndTick
    <3> QED
      BY <1>2, <3>1, <3>2 DEF Step, BeginTick, ImportInput, RefuseConfirm,
         ValidateFrame, GameOverRollback, EndGameOverRollback, ShowEndScreen
  <2> QED BY <2>1, <2>2, <2>3
<1> QED
  BY <1>1, <1>2 DEF Next

\* What a peer does to its mailbox when it imports the next frame.
LEMMA ImportEffect ==
  ASSUME OrderInv, NEW n \in Connected, NEW exact \in Exactness(n),
         ImportConfirm(n, exact)
  PROVE  LET pkt == NextConfirm(n)
         IN  /\ pkt = confirmNet[n][1] /\ 1 \in DOMAIN confirmNet[n]
             /\ pkt \in ConfirmPacket /\ confirmNet[n] # << >>
             /\ pkt.frame = rollback[n].lastConfirm + 1 /\ pkt.frame \in Nat
             /\ pkt.frame <= rollback[Master].lastConfirm /\ n # Master
             /\ Taken(n)
             /\ IF rollback'[n].sim = pkt.checksum
                THEN /\ UNCHANGED hasDesync
                     /\ confirmNet' = [confirmNet EXCEPT ![n] = Tail(@)]
                ELSE hasDesync'[n]
<1> DEFINE pkt == NextConfirm(n)
           v   == ConfirmLastFrame(SetConfirmed(rollback[n], pkt.input, pkt.frame), exact)
<1>1. /\ confirmNet[n] # << >> /\ pkt.frame = rollback[n].lastConfirm + 1
  BY DEF ImportConfirm, HasConfirm, InOrder
<1>2. /\ pkt = confirmNet[n][1] /\ 1 \in DOMAIN confirmNet[n]
      /\ pkt \in ConfirmPacket
  <2>1. confirmNet[n] \in Seq(ConfirmPacket)
    BY OrderFacts
  <2> QED
    BY <1>1, <2>1, PacketFrames, HeadTailProperties, LenProperties, EmptySeq DEF NextConfirm
<1>3. pkt.frame <= rollback[Master].lastConfirm
  BY <1>2, OrderFacts DEF ConfirmedInTime
<1>4. pkt.frame \in Nat /\ n # Master
  BY <1>1, <1>3, SimFacts
<1>5. rollback'[n] = v
  BY DEF ImportConfirm, OrderInv, IndexInv, TypeOK
<1>6. IF v.sim = pkt.checksum
      THEN /\ UNCHANGED hasDesync
           /\ confirmNet' = [confirmNet EXCEPT ![n] = Tail(@)]
      ELSE hasDesync'[n] /\ Taken(n)
  <2>1. CASE v.sim = pkt.checksum
    BY <2>1 DEF ImportConfirm
  <2>2. CASE v.sim # pkt.checksum
    BY <2>2 DEF ImportConfirm, ExitGame, Taken, OrderInv, IndexInv, TypeOK
  <2> QED BY <2>1, <2>2
<1> HIDE DEF v
<1>7. Taken(n)
  BY <1>6 DEF Taken
<1> QED
  BY <1>1, <1>2, <1>3, <1>4, <1>5, <1>6, <1>7

-----------------------------------------------------------------------------
(* The invariant, for the steps that confirm nothing, the imports of a      *)
(* confirm packet and the confirmations of the master.                      *)

\* Mailboxes that are read, or get a default confirm packet, hold nothing
\* new of the master.
LEMMA MailKept ==
  ASSUME AgreeInv, NEW n \in Connected,
         confirmNet' = confirmNet \/ (confirmNet[n] # << >> /\ Taken(n)),
         rollback'[Master].sim = rollback[Master].sim
  PROVE  \A k \in Connected : QueueOfMaster(k)'
<1> DEFINE S == MasterConfirms(rollback[Master].sim)
<1>1. \A k \in Connected : \A i \in DOMAIN confirmNet[k] : confirmNet[k][i] \in S
  BY DEF AgreeInv, QueueOfMaster
<1>2. DefaultConfirm \in S
  <2>1. ~(DefaultConfirm.frame >= 0)
    BY DEF DefaultConfirm
  <2> QED
    BY <2>1, DefaultConfirmType DEF MasterConfirms
<1> HIDE DEF S
<1>3. \A k \in Connected : \A i \in DOMAIN confirmNet'[k] : confirmNet'[k][i] \in S
  BY <1>1, <1>2, QueuesTaken DEF AgreeInv
<1> QED
  BY <1>3 DEF S, QueueOfMaster

LEMMA QuietAgrees ==
  ASSUME AgreeInv, OrderInv', NEW n \in Connected, Step(n), ~ConfirmStep(n)
  PROVE  AgreeInv'
<1>1. \A k \in Connected : SameGame(rollback[k], rollback'[k])
  BY ManagerStep DEF AgreeInv, SameGame
<1>2. confirmNet' = confirmNet \/ (confirmNet[n] # << >> /\ Taken(n))
  BY DEF Step, ConfirmStep, BeginTick, ImportInput, RefuseConfirm, HasConfirm,
         EndTick, GameOverRollback, EndGameOverRollback, ShowEndScreen, netVars,
         Taken
<1>3. \A k \in Connected : QueueOfMaster(k)'
  BY <1>1, <1>2, MailKept, MasterAssumption DEF SameGame
<1>4. \A k \in Connected : hasDesync[k] => hasDesync'[k]
  BY DesyncStays DEF AgreeInv, Next
<1>5. \A k \in Connected : Counted(k)' /\ Agrees(k)'
  BY <1>1, <1>4, MasterAssumption DEF AgreeInv, SameGame, Counted, Agrees
<1> QED
  BY <1>3, <1>5 DEF AgreeInv

LEMMA ImportAgrees ==
  ASSUME AgreeInv, OrderInv', NEW n \in Connected, NEW exact \in Exactness(n),
         ImportConfirm(n, exact)
  PROVE  AgreeInv'
<1> DEFINE pkt == NextConfirm(n)
<1>1. /\ pkt = confirmNet[n][1] /\ 1 \in DOMAIN confirmNet[n] /\ n # Master
      /\ pkt.frame = rollback[n].lastConfirm + 1 /\ pkt.frame \in Nat
      /\ confirmNet[n] # << >> /\ Taken(n)
      /\ rollback'[n].sim = pkt.checksum \/ hasDesync'[n]
  BY ImportEffect DEF AgreeInv
<1>2. pkt \in MasterConfirms(rollback[Master].sim)
  BY <1>1 DEF AgreeInv, QueueOfMaster
<1>3. Begins(pkt.checksum, rollback[Master].sim)
  BY <1>1, <1>2 DEF MasterConfirms
<1> HIDE DEF pkt
<1>4. Step(n)
  BY DEF Step
<1>5. /\ \A k \in Connected \ {n} : rollback'[k] = rollback[k]
      /\ \/ SameGame(rollback[n], rollback'[n])
         \/ Confirms(rollback[n], rollback'[n], n)
  BY <1>4, ManagerStep DEF AgreeInv
<1>6. rollback'[Master] = rollback[Master]
  BY <1>1, <1>5, MasterAssumption
<1>7. \A k \in Connected : QueueOfMaster(k)'
  BY <1>1, <1>6, MailKept
<1>8. \A k \in Connected : hasDesync[k] => hasDesync'[k]
  BY <1>4, DesyncStays DEF AgreeInv, Next
<1>9. \A k \in Connected : Agrees(k)'
  BY <1>1, <1>3, <1>5, <1>6, <1>8 DEF AgreeInv, Agrees
<1>10. \A k \in Connected : Counted(k)'
  <2>1. CASE SameGame(rollback[n], rollback'[n])
    BY <1>5, <2>1 DEF AgreeInv, Counted, SameGame
  <2>2. CASE Confirms(rollback[n], rollback'[n], n)
    <3>1. Len(rollback'[n].sim) = Len(rollback[n].sim) + 1
      BY <2>2, SimFacts, AppendProperties DEF AgreeInv, Confirms
    <3> QED
      BY <1>5, <2>2, <3>1, SimFacts DEF AgreeInv, Counted, Confirms
  <2> QED BY <1>5, <2>1, <2>2
<1> QED
  BY <1>7, <1>9, <1>10 DEF AgreeInv

\* What the master publishes with the frame it confirms.
LEMMA ValidateEffect ==
  ASSUME OrderInv, NEW n \in Connected, NEW exact \in Exactness(n),
         ValidateFrame(n, exact)
  PROVE  /\ n = Master /\ UNCHANGED hasDesync
         /\ \E pkt : /\ confirmNet' = SentToOthers(n, pkt)
                     /\ pkt.frame = rollback'[n].lastConfirm
                     /\ pkt.checksum = rollback'[n].sim
<1> DEFINE v   == ConfirmLastFrame(rollback[n], exact)
           pkt == [frame    |-> v.lastConfirm,
                   checksum |-> v.sim,
                   input    |-> RowAt(v, v.lastConfirm)]
<1>1. /\ n = Master /\ UNCHANGED hasDesync
      /\ rollback' = [rollback EXCEPT ![n] = v]
      /\ confirmNet' = SentToOthers(n, pkt)
  BY DEF ValidateFrame, CanValidate
<1>2. rollback'[n] = v
  BY <1>1 DEF OrderInv, IndexInv, TypeOK
<1> HIDE DEF v
<1> QED
  BY <1>1, <1>2

LEMMA ValidateAgrees ==
  ASSUME AgreeInv, OrderInv', NEW n \in Connected, NEW exact \in Exactness(n),
         ValidateFrame(n, exact)
  PROVE  AgreeInv'
<1> DEFINE old == rollback[Master].sim
           new == rollback'[Master].sim
<1>1. n = Master /\ UNCHANGED hasDesync
  BY ValidateEffect DEF AgreeInv
<1>2. PICK pkt : /\ confirmNet' = SentToOthers(n, pkt)
                 /\ pkt.frame = rollback'[Master].lastConfirm
                 /\ pkt.checksum = new
  BY <1>1, ValidateEffect DEF AgreeInv
<1>3. /\ \A k \in Connected \ {n} : rollback'[k] = rollback[k]
      /\ \/ SameGame(rollback[n], rollback'[n])
         \/ Confirms(rollback[n], rollback'[n], n)
  BY ManagerStep DEF AgreeInv, Step
<1>4. /\ old \in Seq(GameTick) /\ new \in Seq(GameTick)
      /\ Begins(old, new)
      /\ \A s \in Seq(GameTick) : Begins(s, old) => Begins(s, new)
      /\ Len(new) = rollback'[Master].lastConfirm + 1
  <2>1. old \in Seq(GameTick) /\ Len(old) = rollback[Master].lastConfirm + 1
        /\ rollback[Master].lastConfirm \in Int
    BY SimFacts, MasterAssumption DEF AgreeInv, Counted
  <2>2. CASE SameGame(rollback[n], rollback'[n])
    BY <1>1, <2>1, <2>2, BeginsRules DEF SameGame
  <2>3. CASE Confirms(rollback[n], rollback'[n], n)
    <3>1. PICK tick \in GameTick : new = Append(old, tick)
                          /\ rollback'[Master].lastConfirm = rollback[Master].lastConfirm + 1
      BY <1>1, <2>3 DEF Confirms
    <3>2. Len(new) = Len(old) + 1 /\ new \in Seq(GameTick)
      BY <2>1, <3>1, AppendProperties
    <3> QED
      BY <2>1, <3>1, <3>2, BeginsRules
  <2> QED BY <1>3, <2>2, <2>3
<1> HIDE DEF old, new
<1>5. \A k \in Connected : Counted(k)' /\ Agrees(k)'
  <2>1. Counted(Master)' /\ Agrees(Master)'
    BY <1>4, BeginsRules DEF Counted, Agrees, new
  <2>2. ASSUME NEW k \in Connected, k # n PROVE Counted(k)' /\ Agrees(k)'
    <3>1. rollback'[k] = rollback[k] /\ rollback[k].sim \in Seq(GameTick)
          /\ Counted(k) /\ Agrees(k)
      BY <1>3, <2>2, SimFacts DEF AgreeInv
    <3> QED
      BY <1>1, <1>4, <3>1 DEF Counted, Agrees, old, new
  <2> QED BY <1>1, <2>1, <2>2
<1>6. ASSUME NEW k \in Connected, NEW i \in DOMAIN confirmNet'[k]
      PROVE  confirmNet'[k][i] \in MasterConfirms(new)
  <2>1. /\ confirmNet[k] \in Seq(ConfirmPacket)
        /\ confirmNet'[k] \in {confirmNet[k], Append(confirmNet[k], pkt)}
        /\ confirmNet'[k] \in Seq(ConfirmPacket)
    BY <1>2, OrderFacts DEF AgreeInv, SentToOthers, OrderInv, IndexInv, TypeOK
  <2>2. confirmNet'[k][i] \in ConfirmPacket
    BY <2>1, PacketFrames
  <2>3. CASE i \in DOMAIN confirmNet[k] /\ confirmNet'[k][i] = confirmNet[k][i]
    <3>1. confirmNet[k][i] \in MasterConfirms(old) /\ confirmNet[k][i] \in ConfirmPacket
      BY <2>2, <2>3 DEF AgreeInv, QueueOfMaster, old
    <3>2. confirmNet[k][i].checksum \in Seq(GameTick)
      BY <3>1 DEF ConfirmPacket
    <3> QED
      BY <1>4, <2>3, <3>1, <3>2 DEF MasterConfirms
  <2>4. CASE confirmNet'[k][i] = pkt
    BY <1>2, <1>4, <2>2, <2>4, BeginsRules DEF MasterConfirms
  <2>5. \/ i \in DOMAIN confirmNet[k] /\ confirmNet'[k][i] = confirmNet[k][i]
        \/ confirmNet'[k][i] = pkt
    <3>1. CASE confirmNet'[k] = confirmNet[k]
      BY <3>1
    <3>2. CASE confirmNet'[k] = Append(confirmNet[k], pkt)
      <4>1. /\ DOMAIN confirmNet'[k] = 1 .. Len(confirmNet'[k])
            /\ DOMAIN confirmNet[k] = 1 .. Len(confirmNet[k])
            /\ Len(confirmNet[k]) \in Nat
        BY <2>1, LenProperties
      <4> QED
        BY <2>1, <3>2, <4>1
    <3> QED BY <2>1, <3>1, <3>2
  <2> QED BY <2>3, <2>4, <2>5
<1>7. \A k \in Connected : QueueOfMaster(k)'
  BY <1>6 DEF QueueOfMaster, new
<1> QED
  BY <1>5, <1>7 DEF AgreeInv

LEMMA InitAgrees == Init => AgreeInv
<1> SUFFICES ASSUME Init PROVE AgreeInv
  OBVIOUS
<1>1. \A n \in Connected : /\ rollback[n].sim = << >> /\ rollback[n].lastConfirm = -1
                           /\ confirmNet[n] = << >>
  BY DEF Init, InitManager
<1>2. Len(<< >>) = 0 /\ DOMAIN << >> = {}
  BY EmptySeq
<1> QED
  BY <1>1, <1>2, InitOrder, MasterAssumption
     DEF AgreeInv, Counted, QueueOfMaster, Agrees, Begins

LEMMA NextAgrees == AgreeInv /\ [Next]_vars => AgreeInv'
<1> SUFFICES ASSUME AgreeInv, [Next]_vars PROVE AgreeInv'
  OBVIOUS
<1>1. OrderInv'
  BY NextOrder DEF AgreeInv
<1>2. CASE UNCHANGED vars
  BY <1>1, <1>2 DEF vars, gameVars, netVars, AgreeInv, Counted, QueueOfMaster, Agrees
<1>3. ASSUME NEW n \in Connected, Step(n) PROVE AgreeInv'
  BY <1>1, <1>3, QuietAgrees, ImportAgrees, ValidateAgrees DEF ConfirmStep
<1> QED
  BY <1>2, <1>3 DEF Next

LEMMA AgreeAlways == Spec => []AgreeInv
BY InitAgrees, NextAgrees, PTL DEF Spec

LEMMA AgreeImpliesAgreed == AgreeInv => ConfirmedAgree
<1> SUFFICES ASSUME AgreeInv, NEW n \in Connected, ~hasDesync[n]
             PROVE  IsPrefix(rollback[n].sim, rollback[Master].sim)
  BY DEF ConfirmedAgree
<1> QED
  BY SimFacts, BeginsIsPrefix DEF AgreeInv, Agrees

\* A peer that has not left the game has confirmed, tick for tick, a prefix
\* of what the master has: whatever packets are lost or cut and whichever
\* machine computes something else, the checksum of the frame gives it away
\* (RollbackUpdate, the comparison with the master's checksum).
THEOREM ConfirmedAgreeAlways == Spec => []ConfirmedAgree
BY AgreeAlways, AgreeImpliesAgreed, PTL

-----------------------------------------------------------------------------
(* Nobody leaves the game without a reason.                                 *)

\* As long as nobody has left, a mailbox holds the frames that its peer has
\* still to confirm, each once and in their order.
Sequenced ==
  (\A n \in Connected : ~hasDesync[n]) =>
    \A n \in Connected :
      /\ Len(confirmNet[n]) = rollback[Master].lastConfirm - rollback[n].lastConfirm
      /\ \A i \in DOMAIN confirmNet[n] :
           confirmNet[n][i].frame = rollback[n].lastConfirm + i

CauseInv ==
  TruthInv /\ AgreeInv /\ Sequenced /\ (~truncated => NoFalseAlarm)

LEMMA SequencedKept ==
  ASSUME OrderInv, Sequenced, [Next]_vars PROVE Sequenced'
<1> SUFFICES ASSUME \A k \in Connected : ~hasDesync'[k]
             PROVE  \A k \in Connected :
                      /\ Len(confirmNet'[k]) = rollback'[Master].lastConfirm
                                                 - rollback'[k].lastConfirm
                      /\ \A i \in DOMAIN confirmNet'[k] :
                           confirmNet'[k][i].frame = rollback'[k].lastConfirm + i
  BY DEF Sequenced
<1>1. \A k \in Connected : ~hasDesync[k]
  BY DesyncStays
<1>2. \A k \in Connected :
        /\ confirmNet[k] \in Seq(ConfirmPacket)
        /\ DOMAIN confirmNet[k] = 1 .. Len(confirmNet[k]) /\ Len(confirmNet[k]) \in Nat
        /\ rollback[k].lastConfirm \in Int
        /\ Len(confirmNet[k]) = rollback[Master].lastConfirm - rollback[k].lastConfirm
        /\ \A i \in DOMAIN confirmNet[k] :
             confirmNet[k][i].frame = rollback[k].lastConfirm + i
  BY <1>1, OrderFacts, SimFacts, LenProperties DEF Sequenced
<1>3. CASE UNCHANGED vars
  BY <1>2, <1>3 DEF vars, netVars
<1>4. ASSUME NEW n \in Connected, Step(n), ~ConfirmStep(n)
      PROVE  /\ UNCHANGED confirmNet
             /\ \A k \in Connected : rollback'[k].lastConfirm = rollback[k].lastConfirm
  <2>1. \A k \in Connected : rollback'[k].lastConfirm = rollback[k].lastConfirm
    BY <1>4, ManagerStep DEF SameGame
  <2>2. ~RefuseConfirm(n)
    BY DEF RefuseConfirm, ExitGame, OrderInv, IndexInv, TypeOK
  <2>3. UNCHANGED confirmNet
    BY <1>4, <2>2 DEF Step, ConfirmStep, BeginTick, ImportInput, EndTick,
                      GameOverRollback, EndGameOverRollback, ShowEndScreen, netVars
  <2> QED BY <2>1, <2>3
<1>5. ASSUME NEW n \in Connected, NEW exact \in Exactness(n), ImportConfirm(n, exact),
             NEW k \in Connected
      PROVE  /\ Len(confirmNet'[k]) = rollback'[Master].lastConfirm
                                        - rollback'[k].lastConfirm
             /\ \A i \in DOMAIN confirmNet'[k] :
                  confirmNet'[k][i].frame = rollback'[k].lastConfirm + i
  <2>1. /\ confirmNet' = [confirmNet EXCEPT ![n] = Tail(@)]
        /\ confirmNet[n] # << >> /\ n # Master
    BY <1>5, ImportEffect
  <2>2. /\ rollback'[n].lastConfirm = rollback[n].lastConfirm + 1
        /\ \A j \in Connected \ {n} : rollback'[j] = rollback[j]
    BY <1>5, ConfirmStepConfirms DEF ConfirmStep, Confirms
  <2>3. rollback'[Master] = rollback[Master]
    BY <2>1, <2>2, MasterAssumption
  <2>4. CASE k # n
    BY <1>2, <2>1, <2>2, <2>3, <2>4 DEF OrderInv, IndexInv, TypeOK
  <2>5. CASE k = n
    <3> DEFINE q == confirmNet[n]
    <3>1. /\ Tail(q) \in Seq(ConfirmPacket) /\ Len(Tail(q)) = Len(q) - 1
          /\ \A i \in 1 .. Len(Tail(q)) : Tail(q)[i] = q[i + 1]
      BY <1>2, <2>1, HeadTailProperties
    <3>2. DOMAIN Tail(q) = 1 .. Len(q) - 1
      BY <3>1, LenProperties
    <3>3. confirmNet'[n] = Tail(q)
      BY <2>1 DEF OrderInv, IndexInv, TypeOK
    <3>4. ASSUME NEW i \in 1 .. Len(q) - 1
          PROVE  Tail(q)[i].frame = rollback'[n].lastConfirm + i
      <4>1. i + 1 \in DOMAIN q /\ i \in 1 .. Len(Tail(q))
        BY <1>2, <3>1
      <4>2. Tail(q)[i].frame = rollback[n].lastConfirm + (i + 1)
        BY <1>2, <3>1, <4>1
      <4> QED
        BY <1>2, <2>2, <4>2
    <3>5. Len(Tail(q)) = rollback'[Master].lastConfirm - rollback'[n].lastConfirm
      <4>1. /\ Len(q) = rollback[Master].lastConfirm - rollback[n].lastConfirm
            /\ rollback[Master].lastConfirm \in Int /\ rollback[n].lastConfirm \in Int
        BY <1>2, MasterAssumption
      <4> HIDE DEF q
      <4> QED
        BY <2>2, <2>3, <3>1, <4>1
    <3>6. \A i \in DOMAIN confirmNet'[n] :
            confirmNet'[n][i].frame = rollback'[n].lastConfirm + i
      <4> HIDE DEF q
      <4> QED
        BY <3>2, <3>3, <3>4
    <3>7. Len(confirmNet'[n]) = rollback'[Master].lastConfirm - rollback'[n].lastConfirm
      BY <3>3, <3>5
    <3> QED
      BY <2>5, <3>6, <3>7
  <2> QED BY <2>4, <2>5
<1>6. ASSUME NEW n \in Connected, NEW exact \in Exactness(n), ValidateFrame(n, exact),
             NEW k \in Connected
      PROVE  /\ Len(confirmNet'[k]) = rollback'[Master].lastConfirm
                                        - rollback'[k].lastConfirm
             /\ \A i \in DOMAIN confirmNet'[k] :
                  confirmNet'[k][i].frame = rollback'[k].lastConfirm + i
  <2>1. n = Master
    BY <1>6, ValidateEffect
  <2>2. PICK pkt : /\ confirmNet' = SentToOthers(n, pkt)
                   /\ pkt.frame = rollback'[n].lastConfirm
    BY <1>6, ValidateEffect
  <2>3. /\ rollback'[n].lastConfirm = rollback[n].lastConfirm + 1
        /\ \A j \in Connected \ {n} : rollback'[j] = rollback[j]
    BY <1>6, ConfirmStepConfirms DEF ConfirmStep, Confirms
  <2>4. CASE k = n
    <3>1. confirmNet'[k] = confirmNet[k] /\ Len(confirmNet[k]) = 0
      BY <1>2, <2>1, <2>2, <2>4 DEF SentToOthers
    <3> QED
      BY <1>2, <2>1, <2>3, <2>4, <3>1
  <2>5. CASE k # n
    <3> DEFINE q == confirmNet[k]
    <3>1. confirmNet'[k] = Append(q, pkt)
      BY <2>2, <2>5 DEF SentToOthers
    <3>2. /\ Len(Append(q, pkt)) = Len(q) + 1
          /\ DOMAIN Append(q, pkt) = 1 .. Len(q) + 1
          /\ \A i \in 1 .. Len(q) : Append(q, pkt)[i] = q[i]
          /\ Append(q, pkt)[Len(q) + 1] = pkt
      <4>1. confirmNet'[k] \in Seq(ConfirmPacket)
        BY NextOrder DEF OrderInv, IndexInv, TypeOK
      <4>2. q \in Seq(ConfirmPacket) /\ Len(q) \in Nat /\ DOMAIN q = 1 .. Len(q)
        BY <1>2
      <4>3. DOMAIN confirmNet'[k] = 1 .. Len(confirmNet'[k])
        BY <4>1, LenProperties
      <4> HIDE DEF q
      <4>4. Len(Append(q, pkt)) = Len(q) + 1
        BY <4>2
      <4>5. \A i \in 1 .. Len(q) : Append(q, pkt)[i] = q[i]
        BY <4>2
      <4>6. Append(q, pkt)[Len(q) + 1] = pkt
        BY <4>2
      <4> QED
        BY <3>1, <4>2, <4>3, <4>4, <4>5, <4>6
    <3>3. rollback'[k].lastConfirm = rollback[k].lastConfirm
      BY <2>3, <2>5
    <3>4. pkt.frame = rollback[k].lastConfirm + (Len(q) + 1)
      <4>1. /\ Len(q) = rollback[n].lastConfirm - rollback[k].lastConfirm
            /\ rollback[n].lastConfirm \in Int /\ rollback[k].lastConfirm \in Int
        BY <1>2, <2>1, MasterAssumption
      <4> HIDE DEF q
      <4> QED
        BY <2>2, <2>3, <4>1
    <3> HIDE DEF q
    <3>5. ASSUME NEW i \in 1 .. Len(q) + 1
          PROVE  Append(q, pkt)[i].frame = rollback[k].lastConfirm + i
      <4>1. CASE i \in 1 .. Len(q)
        BY <1>2, <3>2, <4>1 DEF q
      <4>2. CASE i = Len(q) + 1
        BY <3>2, <3>4, <4>2
      <4> QED
        BY <1>2, <4>1, <4>2 DEF q
    <3>6. Len(q) + 1 = rollback'[Master].lastConfirm - rollback[k].lastConfirm
      BY <1>2, <2>1, <2>3, MasterAssumption DEF q
    <3> QED
      BY <3>1, <3>2, <3>3, <3>5, <3>6
  <2> QED BY <2>4, <2>5
<1>7. CASE Next
  <2>1. PICK n \in Connected : Step(n)
    BY <1>7 DEF Next
  <2>2. CASE ~ConfirmStep(n)
    BY <1>2, <1>4, <2>1, <2>2, MasterAssumption
  <2>3. CASE ConfirmStep(n)
    BY <1>5, <1>6, <2>3 DEF ConfirmStep
  <2> QED BY <2>2, <2>3
<1> QED
  BY <1>3, <1>7

Inexact ==
  \E n \in Connected : \E i \in DOMAIN rollback[n].sim : ~rollback[n].sim[i].exact

\* What a machine has computed differently stays in its confirmed game.
LEMMA InexactStays == OrderInv /\ [Next]_vars /\ Inexact => Inexact'
<1> SUFFICES ASSUME OrderInv, [Next]_vars, Inexact PROVE Inexact'
  OBVIOUS
<1>1. CASE UNCHANGED vars
  BY <1>1 DEF vars, Inexact
<1>2. ASSUME NEW n \in Connected, Step(n) PROVE Inexact'
  <2>0. PICK k \in Connected :
          \E i \in DOMAIN rollback[k].sim : ~rollback[k].sim[i].exact
    BY DEF Inexact
  <2>1. PICK i \in DOMAIN rollback[k].sim : ~rollback[k].sim[i].exact
    BY <2>0
  <2>2. CASE rollback'[k].sim = rollback[k].sim
    BY <2>1, <2>2 DEF Inexact
  <2>3. CASE Confirms(rollback[k], rollback'[k], n)
    <3>1. PICK tick \in GameTick : rollback'[k].sim = Append(rollback[k].sim, tick)
      BY <2>3 DEF Confirms
    <3>2. rollback[k].sim \in Seq(GameTick)
      BY SimFacts
    <3>3. i \in DOMAIN rollback'[k].sim /\ rollback'[k].sim[i] = rollback[k].sim[i]
      BY <2>1, <3>1, <3>2, AppendProperties, LenProperties
    <3> QED
      BY <2>1, <3>3 DEF Inexact
  <2> QED
    BY <1>2, <2>2, <2>3, ManagerStep DEF SameGame
<1> QED
  BY <1>1, <1>2 DEF Next

LEMMA TickEqual ==
  ASSUME NEW s \in GameTick, NEW t \in GameTick,
         s.prev = t.prev, s.now = t.now, s.exact = t.exact
  PROVE  s = t
<1>1. /\ s = [prev |-> s.prev, now |-> s.now, exact |-> s.exact]
      /\ t = [prev |-> t.prev, now |-> t.now, exact |-> t.exact]
  BY DEF GameTick
<1> QED BY <1>1

\* Two games on what was pressed, without a tick that came out differently,
\* are the same game as far as both go.
LEMMA ExactGamesAgree ==
  ASSUME NEW m, NEW k, NEW h,
         m.sim \in Seq(GameTick), k.sim \in Seq(GameTick),
         m.lastConfirm \in Int, k.lastConfirm \in Int, m.lastConfirm <= k.lastConfirm,
         SimTruth(m, h), SimTruth(k, h),
         \A i \in DOMAIN m.sim : m.sim[i].exact,
         \A i \in DOMAIN k.sim : k.sim[i].exact
  PROVE  \A i \in 1 .. Len(m.sim) : m.sim[i] = k.sim[i]
<1>1. /\ Len(m.sim) = m.lastConfirm + 1 /\ Len(k.sim) = k.lastConfirm + 1
      /\ DOMAIN m.sim = 1 .. Len(m.sim) /\ DOMAIN k.sim = 1 .. Len(k.sim)
  BY LenProperties DEF SimTruth
<1> TAKE i \in 1 .. Len(m.sim)
<1>2. i \in 1 .. Len(k.sim) /\ i \in 1 .. m.lastConfirm + 1 /\ i \in 1 .. k.lastConfirm + 1
  BY <1>1
<1>3. m.sim[i] \in GameTick /\ k.sim[i] \in GameTick
  BY <1>2, ElementOfSeq
<1>4. m.sim[i].prev = k.sim[i].prev /\ m.sim[i].now = k.sim[i].now
  BY <1>2 DEF SimTruth
<1>5. m.sim[i].exact = k.sim[i].exact
  <2>1. /\ m.sim[i].exact \in BOOLEAN /\ k.sim[i].exact \in BOOLEAN
    BY <1>3 DEF GameTick
  <2>2. m.sim[i].exact /\ k.sim[i].exact
    BY <1>1, <1>2
  <2> QED BY <2>1, <2>2
<1> QED
  BY <1>3, <1>4, <1>5, TickEqual

\* A checksum that differs gives away a tick that came out differently.
LEMMA MismatchHasCause ==
  ASSUME TruthInv, AgreeInv, TruthInv', ~truncated', NEW n \in Connected,
         NEW exact \in Exactness(n), ImportConfirm(n, exact),
         rollback'[n].sim # NextConfirm(n).checksum
  PROVE  Inexact'
<1> DEFINE pkt == NextConfirm(n)
           u   == rollback'[n]
           k   == rollback'[Master]
<1> SUFFICES ASSUME ~Inexact' PROVE FALSE
  OBVIOUS
<1>1. /\ pkt = confirmNet[n][1] /\ 1 \in DOMAIN confirmNet[n] /\ n # Master
      /\ pkt.frame = rollback[n].lastConfirm + 1 /\ pkt.frame \in Nat
      /\ pkt.frame <= rollback[Master].lastConfirm
  BY ImportEffect DEF AgreeInv
<1>2. /\ k = rollback[Master] /\ u.lastConfirm = pkt.frame
  BY <1>1, ConfirmStepConfirms, MasterAssumption
     DEF AgreeInv, ConfirmStep, Confirms
<1>3. pkt \in ConfirmPacket /\ Len(pkt.checksum) = pkt.frame + 1
      /\ Begins(pkt.checksum, k.sim)
  <2>1. pkt \in MasterConfirms(rollback[Master].sim)
    BY <1>1 DEF AgreeInv, QueueOfMaster
  <2> QED
    BY <1>1, <1>2, <2>1 DEF MasterConfirms
<1>4. /\ SimTruth(u, pressed') /\ SimTruth(k, pressed')
      /\ u.sim \in Seq(GameTick) /\ k.sim \in Seq(GameTick)
      /\ u.lastConfirm \in Int /\ k.lastConfirm \in Int
  <2>1. rollback'[n] \in Manager /\ rollback'[Master] \in Manager
    BY MasterAssumption DEF TruthInv, OrderInv, IndexInv, TypeOK
  <2>2. SimTruth(u, pressed') /\ SimTruth(k, pressed')
    BY MasterAssumption DEF TruthInv, Truth, PeerTruth
  <2> QED
    BY <2>1, <2>2 DEF Manager, FrameOrNone
<1>5. /\ \A i \in DOMAIN u.sim : u.sim[i].exact
      /\ \A i \in DOMAIN k.sim : k.sim[i].exact
  BY MasterAssumption DEF Inexact
<1> HIDE DEF u, k, pkt
<1>6. Len(u.sim) = Len(pkt.checksum)
  BY <1>2, <1>3, <1>4 DEF SimTruth
<1>7. \A i \in 1 .. Len(u.sim) : u.sim[i] = pkt.checksum[i]
  <2>1. \A i \in 1 .. Len(u.sim) : u.sim[i] = k.sim[i]
    BY <1>1, <1>2, <1>4, <1>5, ExactGamesAgree
  <2> QED
    BY <1>3, <1>6, <2>1 DEF Begins
<1>8. u.sim = pkt.checksum
  <2>1. pkt.checksum \in Seq(GameTick)
    BY <1>3 DEF ConfirmPacket
  <2> QED
    BY <1>4, <1>6, <1>7, <2>1, SeqEqual
<1> QED
  BY <1>8 DEF u, pkt

LEMMA CauseKept == CauseInv /\ [Next]_vars => CauseInv'
<1> SUFFICES ASSUME CauseInv, [Next]_vars PROVE CauseInv'
  OBVIOUS
<1>1. TruthInv /\ AgreeInv /\ Sequenced /\ OrderInv
  BY DEF CauseInv, AgreeInv
<1>2. TruthInv' /\ AgreeInv' /\ Sequenced'
  BY <1>1, NextTruth, NextAgrees, SequencedKept
<1>3. ASSUME ~truncated', NEW k \in Connected, hasDesync'[k] PROVE Inexact'
  <2>1. (\E j \in Connected : hasDesync[j]) => Inexact'
    BY <1>1, <1>3, CutStaysCut, InexactStays DEF CauseInv, NoFalseAlarm, Inexact
  <2> SUFFICES ASSUME \A j \in Connected : ~hasDesync[j] PROVE Inexact'
    BY <2>1
  <2>2. PICK n \in Connected : Step(n)
    <3>1. ~UNCHANGED vars
      BY <1>3 DEF vars, gameVars
    <3> QED BY <3>1 DEF Next
  <2>3. ASSUME NEW exact \in Exactness(n), ImportConfirm(n, exact) PROVE Inexact'
    <3>1. hasDesync' # hasDesync
      BY <1>3
    <3>2. rollback'[n].sim # NextConfirm(n).checksum
      BY <1>1, <2>3, <3>1, ImportEffect
    <3> QED
      BY <1>1, <1>2, <1>3, <2>3, <3>2, MismatchHasCause
  <2>4. ~RefuseConfirm(n)
    <3> SUFFICES ASSUME RefuseConfirm(n) PROVE FALSE
      OBVIOUS
    <3>1. confirmNet[n] # << >> /\ ~InOrder(n)
      BY DEF RefuseConfirm, HasConfirm
    <3>2. confirmNet[n] \in Seq(ConfirmPacket)
      BY <1>1, OrderFacts
    <3>3. 1 \in DOMAIN confirmNet[n] /\ NextConfirm(n) = confirmNet[n][1]
      BY <3>1, <3>2, HeadTailProperties, LenProperties, EmptySeq DEF NextConfirm
    <3>4. NextConfirm(n).frame = rollback[n].lastConfirm + 1
      BY <1>1, <3>3 DEF Sequenced
    <3> QED
      BY <3>1, <3>4 DEF InOrder
  <2>5. EndTick(n) => UNCHANGED hasDesync
    BY <1>1, OrderImpliesLocal DEF LocalInputKept, EndTick
  <2>6. \E exact \in Exactness(n) : ImportConfirm(n, exact)
    BY <1>3, <2>2, <2>4, <2>5 DEF Step, BeginTick, ImportInput, ValidateFrame,
                     GameOverRollback, EndGameOverRollback, ShowEndScreen
  <2> QED BY <2>3, <2>6
<1> QED
  BY <1>2, <1>3 DEF CauseInv, NoFalseAlarm, Inexact

LEMMA InitCause == Init => CauseInv
<1> SUFFICES ASSUME Init PROVE CauseInv
  OBVIOUS
<1>1. \A n \in Connected : /\ hasDesync[n] = FALSE /\ confirmNet[n] = << >>
                           /\ rollback[n].lastConfirm = -1
  BY DEF Init, InitManager
<1>2. Len(<< >>) = 0 /\ DOMAIN << >> = {}
  BY EmptySeq
<1>3. Sequenced /\ NoFalseAlarm
  BY <1>1, <1>2, MasterAssumption DEF Sequenced, NoFalseAlarm
<1> QED
  BY <1>3, InitTruth, InitAgrees DEF CauseInv

LEMMA CauseAlways == Spec => []CauseInv
BY InitCause, CauseKept, PTL DEF Spec

\* While no packet is cut, a peer leaves the game for a desync only if some
\* machine has really computed a tick differently: no loss, repetition, delay
\* or reordering of input packets makes one.  (With cut packets and three
\* peers it can: run false_desync.)
THEOREM NoFalseAlarmAlways == Spec => [](~truncated => NoFalseAlarm)
<1>1. CauseInv => (~truncated => NoFalseAlarm)
  BY DEF CauseInv
<1> QED
  BY <1>1, CauseAlways, PTL

-----------------------------------------------------------------------------
(* Machines that compute alike: the confirmed game is the game on what was  *)
(* pressed, and nobody ever leaves.                                         *)

ExactInv ==
  \A n \in Connected \ Diverging : \A i \in DOMAIN rollback[n].sim :
    rollback[n].sim[i].exact

LEMMA ExactKept == OrderInv /\ ExactInv /\ [Next]_vars => ExactInv'
<1> SUFFICES ASSUME OrderInv, ExactInv, [Next]_vars,
                    NEW k \in Connected \ Diverging, NEW i \in DOMAIN rollback'[k].sim
             PROVE  rollback'[k].sim[i].exact
  BY DEF ExactInv
<1>1. CASE rollback'[k].sim = rollback[k].sim
  BY <1>1 DEF ExactInv
<1>2. CASE Confirms(rollback[k], rollback'[k], k)
  <2>1. PICK tick \in GameTick : /\ rollback'[k].sim = Append(rollback[k].sim, tick)
                                 /\ tick.exact \in Exactness(k)
    BY <1>2 DEF Confirms
  <2>2. tick.exact
    BY <2>1 DEF Exactness
  <2>3. rollback[k].sim \in Seq(GameTick)
    BY SimFacts
  <2>4. \/ i \in DOMAIN rollback[k].sim /\ rollback'[k].sim[i] = rollback[k].sim[i]
        \/ rollback'[k].sim[i] = tick
    BY <2>1, <2>3, AppendProperties, LenProperties
  <2> QED
    BY <2>2, <2>4 DEF ExactInv
<1>3. UNCHANGED vars => rollback'[k].sim = rollback[k].sim
  BY DEF vars
<1>4. ASSUME NEW n \in Connected, Step(n)
      PROVE  \/ rollback'[k].sim = rollback[k].sim
             \/ Confirms(rollback[k], rollback'[k], k)
  BY <1>4, ManagerStep DEF SameGame
<1> QED
  BY <1>1, <1>2, <1>3, <1>4 DEF Next

LEMMA InitExact == Init => ExactInv
<1>1. DOMAIN << >> = {}
  BY EmptySeq
<1> QED
  BY <1>1 DEF Init, InitManager, ExactInv

PeaceInv == CauseInv /\ ExactInv

LEMMA PeaceAlways == Spec => []PeaceInv
<1>1. Init => PeaceInv
  BY InitCause, InitExact DEF PeaceInv
<1>2. PeaceInv /\ [Next]_vars => PeaceInv'
  <2>1. CauseInv => OrderInv
    BY DEF CauseInv, AgreeInv
  <2> QED
    BY <2>1, CauseKept, ExactKept DEF PeaceInv
<1> QED
  BY <1>1, <1>2, PTL DEF Spec

\* Nobody leaves while no packet is cut and no machine diverges.
LEMMA NobodyLeaves ==
  ASSUME PeaceInv, ~truncated, Diverging = {}
  PROVE  \A n \in Connected : ~hasDesync[n]
BY DEF PeaceInv, CauseInv, ExactInv, NoFalseAlarm

LEMMA ExactIsPressed ==
  ASSUME Diverging = {} PROVE PeaceInv => ConfirmedIsPressed
<1> SUFFICES ASSUME PeaceInv, ~truncated, NEW n \in Connected
             PROVE  /\ \A p \in Connected : rollback[n].lastConfirm < Len(pressed[p])
                    /\ rollback[n].sim = PressedSim(rollback[n].lastConfirm)
  BY DEF ConfirmedIsPressed
<1> DEFINE m == rollback[n]
           k == rollback[n].lastConfirm
<1>1. OrderInv /\ Truth
  BY DEF PeaceInv, CauseInv, TruthInv
<1>2. /\ m.sim \in Seq(GameTick) /\ SimTruth(m, pressed)
      /\ k \in Int /\ k >= -1
      /\ \A p \in Connected : k < Len(pressed[p])
  BY <1>1, SimFacts, TruthFacts, OrderImpliesPlayed DEF ConfirmedWasPlayed
<1>3. \A i \in DOMAIN m.sim : m.sim[i].exact
  BY DEF PeaceInv, ExactInv
<1> HIDE DEF m, k
<1>4. /\ DOMAIN m.sim = 1 .. k + 1 /\ m.sim = [i \in 1 .. k + 1 |-> m.sim[i]]
      /\ \A i \in 1 .. k + 1 : m.sim[i] \in GameTick
  <2>1. Len(m.sim) = k + 1
    BY <1>2 DEF SimTruth, m, k
  <2> QED
    BY <1>2, <2>1, LenProperties, ElementOfSeq
<1>5. ASSUME NEW i \in 1 .. k + 1
      PROVE  m.sim[i] = LET f == Larger(i - 2, 0)
                        IN  [prev  |-> IF f > 0 THEN PressedRow(f - 1) ELSE NeutralRow,
                             now   |-> PressedRow(f),
                             exact |-> TRUE]
  <2> DEFINE f == Larger(i - 2, 0)
             prev == IF f > 0 THEN PressedRow(f - 1) ELSE NeutralRow
  <2>1. \A g : PressedRow(g) = HistoryRow(pressed, g)
    BY DEF PressedRow, HistoryRow
  <2>2. m.sim[i].prev = prev /\ m.sim[i].now = PressedRow(f)
    BY <1>2, <2>1 DEF SimTruth, k, m
  <2>3. m.sim[i] \in GameTick /\ m.sim[i].exact
    BY <1>3, <1>4
  <2>4. m.sim[i] = [prev |-> m.sim[i].prev, now |-> m.sim[i].now, exact |-> m.sim[i].exact]
        /\ m.sim[i].exact = TRUE
    BY <2>3 DEF GameTick
  <2> HIDE DEF prev, f
  <2>5. m.sim[i] = [prev |-> prev, now |-> PressedRow(f), exact |-> TRUE]
    BY <2>2, <2>4
  <2> QED
    BY <2>5 DEF prev, f
<1>6. m.sim = PressedSim(k)
  BY <1>4, <1>5 DEF PressedSim
<1> QED
  BY <1>2, <1>6 DEF m, k

\* While no packet is cut and the machines compute alike, every tick of every
\* confirmed game was played on the inputs that the players really pressed,
\* none lost, predicted or invented (SetConfirmed, ConfirmLastFrame).
THEOREM ConfirmedIsPressedAlways ==
  ASSUME Diverging = {} PROVE Spec => []ConfirmedIsPressed
<1>1. PeaceInv => ConfirmedIsPressed
  BY ExactIsPressed
<1> QED
  BY <1>1, PeaceAlways, PTL

-----------------------------------------------------------------------------
(* The protocol implements the agreed log: a press is a Press, the master's *)
(* confirmations Lead, the imports of confirm packets Follow, and the first *)
(* confirmation of a peer, which plays frame 0 for the first of two times,  *)
(* changes nothing.                                                         *)

\* The rows pressed for the frames up to k - 1, and the log of each peer.
PressedLog(h, k) ==
  [i \in 1 .. Larger(k, 0) |-> [p \in Connected |-> h[p][i]]]
Logs == [n \in Connected |-> Played(n)]

LEMMA PlayedIsPressed ==
  ASSUME NEW m, NEW h, m.lastConfirm \in Int, m.lastConfirm >= -1, SimTruth(m, h)
  PROVE  [i \in 1 .. Larger(Len(m.sim) - 1, 0) |->
            [p \in Connected |-> m.sim[i + 1].now[p]]] = PressedLog(h, m.lastConfirm)
<1> DEFINE k == m.lastConfirm
<1>1. Len(m.sim) - 1 = k
  BY DEF SimTruth
<1>2. ASSUME NEW i \in 1 .. Larger(k, 0)
      PROVE  [p \in Connected |-> m.sim[i + 1].now[p]] = [p \in Connected |-> h[p][i]]
  <2>1. i \in 1 .. k /\ i + 1 \in 1 .. k + 1 /\ Larger((i + 1) - 2, 0) = i - 1
    BY DEF Larger
  <2>2. m.sim[i + 1].now = HistoryRow(h, i - 1)
    BY <2>1 DEF SimTruth
  <2>3. (i - 1) + 1 = i
    OBVIOUS
  <2>4. \A p \in Connected : m.sim[i + 1].now[p] = h[p][i]
    BY <2>2, <2>3, ConnectedAssumption DEF HistoryRow
  <2> QED BY <2>4
<1> QED
  BY <1>1, <1>2 DEF PressedLog

LEMMA LogsArePressed ==
  ASSUME OrderInv, Truth, NEW n \in Connected
  PROVE  Logs[n] = PressedLog(pressed, rollback[n].lastConfirm)
BY PlayedIsPressed, TruthFacts, SimFacts DEF Logs, Played

LEMMA LogOfFrames ==
  ASSUME NEW h, NEW k \in Int, k >= -1
  PROVE  /\ Len(PressedLog(h, k)) = Larger(k, 0)
         /\ k < 0 => PressedLog(h, k + 1) = PressedLog(h, k)
         /\ k >= 0 => PressedLog(h, k + 1)
                        = Append(PressedLog(h, k), [p \in Connected |-> h[p][k + 1]])
<1> DEFINE row(i) == [p \in Connected |-> h[p][i]]
           S == {row(i) : i \in Nat}
           log == PressedLog(h, k)
<1>1. Larger(k, 0) \in Nat
  BY DEF Larger
<1>2. log \in [1 .. Larger(k, 0) -> S]
  BY <1>1 DEF PressedLog
<1>3. log \in Seq(S) /\ Len(log) = Larger(k, 0)
  BY <1>1, <1>2, FunctionIsSeq
<1>4. k < 0 => PressedLog(h, k + 1) = log
  BY DEF PressedLog, Larger
<1>5. ASSUME k >= 0 PROVE PressedLog(h, k + 1) = Append(log, row(k + 1))
  <2>1. /\ log = [i \in 1 .. k |-> row(i)]
        /\ PressedLog(h, k + 1) = [i \in 1 .. k + 1 |-> row(i)]
    BY <1>5 DEF PressedLog, Larger
  <2>2. Len(log) = k
    BY <1>3, <1>5 DEF Larger
  <2> HIDE DEF log, row
  <2>3. Append(log, row(k + 1))
          = [i \in 1 .. k + 1 |-> IF i = k + 1 THEN row(k + 1) ELSE log[i]]
    BY <1>3, <1>5, <2>2
  <2>4. \A i \in 1 .. k + 1 :
          row(i) = IF i = k + 1 THEN row(k + 1) ELSE log[i]
    BY <1>5, <2>1
  <2> QED
    BY <2>1, <2>3, <2>4
<1> QED
  BY <1>3, <1>4, <1>5

LEMMA LogGrows ==
  ASSUME NEW g, NEW h, Extends(g, h), NEW k \in Int,
         \A p \in Connected : Len(h[p]) \in Nat /\ k < Len(h[p])
  PROVE  PressedLog(g, k) = PressedLog(h, k)
<1>1. ASSUME NEW i \in 1 .. Larger(k, 0), NEW p \in Connected
      PROVE  g[p][i] = h[p][i]
  <2>1. i \in 1 .. Len(h[p])
    BY DEF Larger
  <2> QED
    BY <2>1 DEF Extends
<1> QED
  BY <1>1 DEF PressedLog

\* A step that confirms nothing changes no log, whatever is pressed in it.
LEMMA LogsKept ==
  ASSUME OrderInv, Truth, OrderInv', Truth', [Next]_vars, NEW k \in Connected,
         rollback'[k].lastConfirm = rollback[k].lastConfirm
  PROVE  Logs'[k] = Logs[k]
<1> DEFINE c == rollback[k].lastConfirm
<1>1. /\ c \in Int /\ c >= -1
      /\ \A p \in Connected : Len(pressed[p]) \in Nat /\ c < Len(pressed[p])
  BY SimFacts, OrderImpliesPlayed, OrderFacts DEF ConfirmedWasPlayed
<1>2. Extends(pressed', pressed)
  BY StepGrows DEF PressedGrows
<1>3. Logs[k] = PressedLog(pressed, c)
  BY LogsArePressed
<1>4. SimTruth(rollback'[k], pressed')
  BY DEF Truth, PeerTruth
<1>5. Logs'[k] = PressedLog(pressed', rollback'[k].lastConfirm)
  BY <1>1, <1>4, PlayedIsPressed DEF Logs, Played
<1> QED
  BY <1>1, <1>2, <1>3, <1>5, LogGrows

LEMMA LogsSame ==
  ASSUME \A k \in Connected : Logs'[k] = Logs[k] PROVE Logs' = Logs
BY DEF Logs

LEMMA PressImplements ==
  ASSUME OrderInv, Truth, OrderInv', Truth', NEW n \in Connected, Step(n),
         ~ConfirmStep(n)
  PROVE  [Log!Next]_Log!logVars
<1>1. [Next]_vars
  BY DEF Next
<1>2. Logs' = Logs
  BY <1>1, ManagerStep, LogsKept, LogsSame DEF SameGame
<1>3. CASE UNCHANGED pressed
  BY <1>2, <1>3 DEF Log!logVars, Logs
<1>4. ASSUME NEW input \in Input, BeginTick(n, input)
      PROVE  Log!Next
  <2>1. pressed' = [pressed EXCEPT ![n] = Append(@, input)]
    BY <1>4 DEF BeginTick
  <2> QED
    BY <1>2, <2>1 DEF Log!Next, Log!Press, Logs
<1> QED
  BY <1>3, <1>4 DEF Step, ConfirmStep, ImportInput, RefuseConfirm, EndTick,
     GameOverRollback, EndGameOverRollback, ShowEndScreen

LEMMA ConfirmImplements ==
  ASSUME OrderInv, Truth, OrderInv', Truth', NEW n \in Connected, ConfirmStep(n)
  PROVE  [Log!Next]_Log!logVars
<1> DEFINE k == rollback[n].lastConfirm
           row == [p \in Connected |-> pressed[p][k + 1]]
<1>1. [Next]_vars
  BY DEF Next, Step, ConfirmStep
<1>2. /\ \A j \in Connected \ {n} : rollback'[j] = rollback[j]
      /\ rollback'[n].lastConfirm = k + 1
  BY ConfirmStepConfirms DEF Confirms
<1>3. UNCHANGED pressed
  BY DEF ConfirmStep, ImportConfirm, ValidateFrame
<1>4. \A j \in Connected \ {n} : Logs'[j] = Logs[j]
  BY <1>1, <1>2, LogsKept
<1>5. k \in Int /\ k >= -1
  BY SimFacts
<1>6. Logs[n] = PressedLog(pressed, k) /\ Logs'[n] = PressedLog(pressed, k + 1)
  <2>1. SimTruth(rollback'[n], pressed')
    BY DEF Truth, PeerTruth
  <2>2. Logs'[n] = PressedLog(pressed', rollback'[n].lastConfirm)
    BY <1>2, <1>5, <2>1, PlayedIsPressed DEF Logs, Played
  <2> QED
    BY <1>2, <1>3, <2>2, LogsArePressed
<1>7. CASE k < 0
  <2>1. Logs' = Logs
    BY <1>4, <1>5, <1>6, <1>7, LogOfFrames, LogsSame
  <2> QED
    BY <1>3, <2>1 DEF Log!logVars, Logs
<1>8. CASE k >= 0
  <2>1. /\ Len(Logs[n]) = k /\ Logs'[n] = Append(Logs[n], row)
    BY <1>5, <1>6, <1>8, LogOfFrames DEF Larger
  <2>2. \A p \in Connected : Len(pressed[p]) >= k + 1
    <3>1. \A p \in Connected : /\ Len(pressed[p]) \in Nat
                               /\ k < Len(pressed[p])
      BY OrderFacts, OrderImpliesPlayed DEF ConfirmedWasPlayed
    <3> QED BY <1>5, <3>1
  <2>3. Logs' = [Logs EXCEPT ![n] = Append(@, row)]
    <3>1. DOMAIN Logs = Connected /\ Logs' = [j \in Connected |-> Logs'[j]]
      BY DEF Logs
    <3>2. \A j \in Connected : Logs'[j] = [Logs EXCEPT ![n] = Append(@, row)][j]
      BY <1>4, <2>1, <3>1
    <3> HIDE DEF row
    <3> QED
      BY <3>1, <3>2
  <2>4. Log!Play(n)
    BY <1>3, <2>1, <2>2, <2>3 DEF Log!Play, Log!Complete, Log!NextFrame, Logs
  <2>5. n = Master \/ Log!Follow(n)
    <3> SUFFICES ASSUME n # Master PROVE Log!Follow(n)
      OBVIOUS
    <3>1. Len(Logs[Master]) = Larger(rollback[Master].lastConfirm, 0)
      BY LogsArePressed, LogOfFrames, SimFacts, MasterAssumption
    <3>2. rollback'[Master] = rollback[Master]
      BY <1>2, MasterAssumption
    <3>3. k + 1 <= rollback[Master].lastConfirm /\ rollback[Master].lastConfirm \in Int
      <4>1. rollback'[n].lastConfirm <= rollback'[Master].lastConfirm
        BY DEF OrderInv, PeerInv, ConfirmedInTime
      <4> QED
        BY <1>2, <3>2, <4>1, SimFacts, MasterAssumption
    <3>4. Len(Logs[n]) < Len(Logs[Master])
      BY <1>5, <2>1, <3>1, <3>3 DEF Larger
    <3> QED
      BY <2>4, <3>4 DEF Log!Follow, Logs
  <2> QED
    BY <2>4, <2>5 DEF Log!Next, Log!Lead
<1> QED
  BY <1>5, <1>7, <1>8

LEMMA StepImplements ==
  ASSUME TruthInv, TruthInv', [Next]_vars, ~truncated'
  PROVE  [Log!Next]_Log!logVars
<1>1. OrderInv /\ Truth /\ OrderInv' /\ Truth'
  BY CutStaysCut DEF TruthInv
<1>2. CASE UNCHANGED vars
  BY <1>2 DEF vars, gameVars, netVars, Log!logVars, Played
<1>3. CASE Next
  BY <1>1, <1>3, PressImplements, ConfirmImplements DEF Next
<1> QED
  BY <1>2, <1>3

LEMMA InitImplements == Init => Log!Init
<1> SUFFICES ASSUME Init PROVE Log!Init
  OBVIOUS
<1>1. \A n \in Connected : rollback[n].sim = << >>
  BY DEF Init, InitManager
<1>2. \A n \in Connected : Played(n) = << >>
  <2>1. Len(<< >>) = 0
    BY EmptySeq
  <2> QED
    BY <1>1, <2>1 DEF Played, Larger
<1> QED
  BY <1>2 DEF Init, Log!Init

\* While no packet is cut, the protocol implements the agreed log: every peer
\* plays rows of really pressed inputs, each once and all in the same order,
\* the master first.  No step of a peer does anything else to them, whatever
\* packets are lost, and whoever leaves or computes something different.
THEOREM LogImplemented == Spec /\ []~truncated => ImplementsAgreedLog
<1>1. TruthInv /\ TruthInv' /\ [Next]_vars /\ ~truncated'
        => [Log!Next]_Log!logVars
  BY StepImplements
<1> QED
  BY <1>1, InitImplements, TruthAlways, PTL DEF Spec, ImplementsAgreedLog, Log!Spec

-----------------------------------------------------------------------------
(* The game on the master's display: between two ticks it is what ticking   *)
(* its rows from the first frame on gives, because every input that changes *)
(* a row under a displayed frame sets the manager dirty, and a dirty        *)
(* manager is rolled back before the next tick.                             *)

\* The game ticked on the first c rows of m, and what a display that is
\* current may show: after a rollback frame 0 has been ticked twice.
Ticks(m, c) == [i \in 1 .. c |-> TickOf(m, i - 1, TRUE)]
Shown(g, m, c) ==
  \/ g = Ticks(m, c)
  \/ c > 0 /\ g = <<TickOf(m, 0, TRUE)>> \o Ticks(m, c)

\* A function that repeats its value from each number to the next is constant.
LEMMA Repeats ==
  ASSUME NEW a \in Int, NEW b \in Int, NEW f,
         \A j \in a + 1 .. b : f[j] = f[j - 1]
  PROVE  \A j \in a .. b : f[j] = f[a]
<1> DEFINE S == {k \in Nat : a + k <= b /\ f[a + k] # f[a]}
<1>1. \A k \in Nat : a + k <= b => f[a + k] = f[a]
  <2> SUFFICES ASSUME S # {} PROVE FALSE
    OBVIOUS
  <2>1. PICK k \in S : \A y \in S : k <= y
    BY Smallest
  <2>2. k \in Nat /\ a + k <= b /\ f[a + k] # f[a] /\ k # 0
    BY <2>1
  <2>3. k - 1 \in Nat /\ k - 1 \notin S
    BY <2>1, <2>2
  <2>4. f[a + (k - 1)] = f[a]
    BY <2>2, <2>3
  <2>5. a + k \in a + 1 .. b /\ (a + k) - 1 = a + (k - 1)
    BY <2>2
  <2>6. f[a + k] = f[a + (k - 1)]
    BY <2>5
  <2> QED
    BY <2>2, <2>4, <2>6
<1>2. ASSUME NEW j \in a .. b PROVE f[j] = f[a]
  <2>1. PICK k \in Nat : j = a + k
    <3>1. j - a \in Nat /\ j = a + (j - a)
      OBVIOUS
    <3> QED BY <3>1
  <2> QED
    BY <1>1, <2>1
<1> QED BY <1>2

-----------------------------------------------------------------------------
(* A packet that contradicts nothing changes nothing.                       *)

\* Every frame that such a packet brings is the one predicted.
LEMMA PacketAsPredicted ==
  ASSUME NEW m, SoundManager(m), NEW pkt \in InputPacket,
         m.inputs # << >>, ~Mispredicted(m, pkt),
         pkt.frame >= m.lastReceived[pkt.player], FirstFrame(pkt) >= 0,
         FirstFrame(pkt) <= m.lastReceived[pkt.player] + 1,
         Replicates(m, pkt.player)
  PROVE  \A f \in FirstUsed(m, pkt) .. pkt.frame :
           PacketInput(pkt, f) = Predicted(m, pkt.player)
<1> DEFINE p == pkt.player
           r == m.lastReceived[p]
           first == FirstUsed(m, pkt)
           size == Len(m.inputs)
<1>1. /\ p \in Player /\ pkt.frame \in Nat /\ FirstFrame(pkt) \in Int
      /\ r \in Int /\ r >= -1 /\ r < size /\ size \in Nat /\ size > 0
      /\ FirstFrame(pkt) <= pkt.frame
  <2>1. p \in Connected /\ pkt.frame \in Nat /\ pkt.inputs \in Seq(Input) \ {<< >>}
    BY DEF InputPacket
  <2>2. Len(pkt.inputs) \in Nat \ {0}
    BY <2>1, EmptySeq, LenProperties
  <2>3. m.inputs \in Seq(Row) /\ size \in Nat /\ r \in Int /\ r >= -1 /\ r < size
    BY <2>1, ManagerShape, ConnectedAssumption
  <2>4. size > 0
    BY <2>3, EmptySeq
  <2> QED
    BY <2>1, <2>2, <2>3, <2>4, ConnectedAssumption DEF FirstFrame
<1>2. /\ first \in {r, r + 1} /\ first >= 0 /\ first <= pkt.frame
      /\ first \in Int
  BY <1>1 DEF FirstUsed, Larger
<1>3. \A f \in first .. pkt.frame : HeldInput(m, pkt, f) = PacketInput(pkt, f)
  BY DEF Mispredicted
<1>4. \A f \in r + 1 .. size - 1 : m.inputs[f + 1][p] = Predicted(m, p)
  BY DEF Replicates
<1>5. r >= 0 => m.inputs[r + 1][p] = Predicted(m, p)
  BY <1>1 DEF Predicted
<1> HIDE DEF p, r, first, size
<1>6. PacketInput(pkt, first) = Predicted(m, p)
  <2>1. PacketInput(pkt, first) = InputAt(m, p, first)
    BY <1>2, <1>3 DEF HeldInput, first, p
  <2>2. InputAt(m, p, first) = m.inputs[IF first >= size THEN size ELSE first + 1][p]
    BY DEF InputAt, size
  <2>3. CASE first = r
    BY <1>1, <1>2, <1>5, <2>1, <2>2, <2>3
  <2>4. CASE first = r + 1 /\ r + 1 < size
    <3>1. r + 1 \in r + 1 .. size - 1
      BY <1>1, <2>4
    <3> QED
      BY <1>1, <1>4, <2>1, <2>2, <2>4, <3>1
  <2>5. CASE first = r + 1 /\ r + 1 = size
    BY <1>1, <1>5, <2>1, <2>2, <2>5
  <2> QED
    BY <1>1, <1>2, <2>3, <2>4, <2>5
<1>7. ASSUME NEW f \in first + 1 .. pkt.frame
      PROVE  PacketInput(pkt, f) = PacketInput(pkt, f - 1)
  <2>1. HeldInput(m, pkt, f) = PacketInput(pkt, f) /\ f # first
    BY <1>1, <1>2, <1>3
  <2>2. CASE f = r + 1 /\ f < size
    <3>1. first = r /\ r >= 0 /\ f - 1 = first
      BY <1>1, <1>2, <2>2
    <3>2. HeldInput(m, pkt, f) = m.inputs[f + 1][p]
      BY <1>1, <2>1, <2>2 DEF HeldInput, InputAt, first, p, r, size
    <3>3. f \in r + 1 .. size - 1
      BY <1>1, <2>2
    <3> QED
      BY <1>4, <1>6, <2>1, <3>1, <3>2, <3>3
  <2>3. CASE ~(f = r + 1 /\ f < size)
    BY <2>1, <2>3 DEF HeldInput, first, p, r, size
  <2> QED BY <2>2, <2>3
<1>8. \A f \in first .. pkt.frame : PacketInput(pkt, f) = PacketInput(pkt, first)
  <2> DEFINE g == [f \in first .. pkt.frame |-> PacketInput(pkt, f)]
  <2>1. \A f \in first + 1 .. pkt.frame : g[f] = g[f - 1]
    BY <1>1, <1>2, <1>7
  <2>2. \A f \in first .. pkt.frame : g[f] = g[first]
    <3>1. first \in Int /\ pkt.frame \in Int
      BY <1>1, <1>2
    <3> HIDE DEF g
    <3> QED BY <2>1, <3>1, Repeats
  <2>3. first \in first .. pkt.frame
    BY <1>1, <1>2
  <2> QED
    BY <2>2, <2>3
<1> QED
  BY <1>6, <1>8 DEF first, p

LEMMA TrueGuessKeepsRows ==
  ASSUME NEW m, SoundManager(m), NEW pkt \in InputPacket,
         ~Mispredicted(m, pkt), FirstFrame(pkt) >= 0,
         FirstFrame(pkt) <= m.lastReceived[pkt.player] + 1,
         Replicates(m, pkt.player)
  PROVE  \A i \in 1 .. Len(m.inputs) : SetInputs(m, pkt).inputs[i] = m.inputs[i]
<1> DEFINE p == pkt.player
           r == m.lastReceived[p]
           u == SetInputs(m, pkt)
           first == FirstUsed(m, pkt)
<1>1. CASE pkt.frame < r
  BY <1>1 DEF SetInputs
<1>2. ASSUME ~(pkt.frame < r), NEW i \in 1 .. Len(m.inputs)
      PROVE  u.inputs[i] = m.inputs[i]
  <2>1. /\ p \in Player /\ p \in Connected /\ pkt.frame \in Nat
        /\ r \in Int /\ r >= -1 /\ Len(m.inputs) \in Nat
        /\ m.inputs[i] \in Row /\ FirstFrame(pkt) \in Int
        /\ FirstFrame(pkt) <= pkt.frame
    <3>1. p \in Connected /\ pkt.frame \in Nat /\ pkt.inputs \in Seq(Input) \ {<< >>}
      BY DEF InputPacket
    <3>2. Len(pkt.inputs) \in Nat \ {0}
      BY <3>1, EmptySeq, LenProperties
    <3>3. Len(m.inputs) \in Nat /\ r \in Int /\ r >= -1 /\ m.inputs[i] \in Row
      BY <3>1, ManagerShape, ConnectedAssumption
    <3> QED
      BY <3>1, <3>2, <3>3, ConnectedAssumption DEF FirstFrame
  <2>2. m.inputs # << >> /\ pkt.frame >= r
    BY <1>2, <2>1, EmptySeq
  <2>3. \A f \in first .. pkt.frame : PacketInput(pkt, f) = Predicted(m, p)
    BY <2>2, PacketAsPredicted
  <2>4. \A q \in Player : u.inputs[i][q] =
          IF q = p /\ i - 1 \in first .. pkt.frame THEN PacketInput(pkt, i - 1)
          ELSE IF q = p /\ r < pkt.frame /\ i - 1 > pkt.frame
          THEN PacketInput(pkt, pkt.frame) ELSE m.inputs[i][q]
    <3>1. i \in 1 .. Larger(Len(m.inputs), pkt.frame + 1)
      BY <2>1 DEF Larger
    <3>2. \A q \in Player : GrownAt(m, i, q) = m.inputs[i][q]
      BY <2>1 DEF GrownAt
    <3> QED
      BY <2>2, <3>1, <3>2, SetInputsCells
  <2>5. u.inputs[i] \in Row
    <3>1. SoundManager(u) /\ Len(u.inputs) >= Len(m.inputs)
      BY SetInputsSound
    <3>2. Len(u.inputs) \in Nat /\ \A j \in 1 .. Len(u.inputs) : u.inputs[j] \in Row
      BY <3>1, ManagerShape
    <3> HIDE DEF u
    <3> QED
      BY <2>1, <3>1, <3>2
  <2>6. first \in {r, r + 1} /\ first <= pkt.frame /\ first >= 0
    BY <2>1, <2>2 DEF FirstUsed, Larger
  <2>7. i - 1 >= r /\ i - 1 >= 0 => m.inputs[i][p] = Predicted(m, p)
    <3>1. CASE i - 1 = r
      BY <2>1, <3>1 DEF Predicted
    <3>2. CASE i - 1 > r
      <4>1. i - 1 \in r + 1 .. Len(m.inputs) - 1 /\ (i - 1) + 1 = i
        BY <2>1, <3>2
      <4> QED
        BY <4>1 DEF Replicates
    <3> QED
      BY <2>1, <3>1, <3>2
  <2> HIDE DEF u, first, r, p
  <2>8. \A q \in Player : u.inputs[i][q] = m.inputs[i][q]
    <3>1. u.inputs[i][p] = m.inputs[i][p]
      <4>1. CASE i - 1 \in first .. pkt.frame
        BY <2>1, <2>3, <2>4, <2>6, <2>7, <4>1
      <4>2. CASE i - 1 > pkt.frame /\ r < pkt.frame
        <5>1. pkt.frame \in first .. pkt.frame
          BY <2>1, <2>6
        <5> QED
          BY <2>1, <2>3, <2>4, <2>6, <2>7, <4>2, <5>1
      <4>3. CASE ~(i - 1 \in first .. pkt.frame) /\ ~(i - 1 > pkt.frame /\ r < pkt.frame)
        BY <2>1, <2>4, <4>3
      <4> QED BY <4>1, <4>2, <4>3
    <3>2. \A q \in Player \ {p} : u.inputs[i][q] = m.inputs[i][q]
      BY <2>4
    <3> QED BY <3>1, <3>2
  <2> QED
    BY <2>1, <2>5, <2>8 DEF Row, u
<1> QED
  BY <1>1, <1>2

-----------------------------------------------------------------------------
(* A replay shows the rows; rows that stay keep what is shown.              *)

LEMMA TicksType ==
  ASSUME NEW m, SoundManager(m), NEW c \in Nat, c <= Len(m.inputs)
  PROVE  Ticks(m, c) \in Seq(GameTick) /\ Len(Ticks(m, c)) = c
<1>1. Len(m.inputs) \in Nat
  BY ManagerShape
<1>2. ASSUME NEW i \in 1 .. c PROVE TickOf(m, i - 1, TRUE) \in GameTick
  <2>1. i - 1 \in Nat /\ i - 1 < Len(m.inputs)
    BY <1>1
  <2> QED
    BY <2>1, TickType
<1> QED
  BY <1>2, FunctionIsSeq DEF Ticks

LEMMA TicksKept ==
  ASSUME NEW m, NEW u, Len(m.inputs) \in Nat, Len(u.inputs) \in Nat,
         NEW c \in Nat, c <= Len(m.inputs), c <= Len(u.inputs),
         \A i \in 1 .. c : u.inputs[i] = m.inputs[i]
  PROVE  \A g : Shown(g, m, c) => Shown(g, u, c)
<1>1. ASSUME NEW f \in Nat, f < c PROVE TickOf(u, f, TRUE) = TickOf(m, f, TRUE)
  <2>1. RowAt(u, f) = RowAt(m, f)
    <3>1. f + 1 \in 1 .. c /\ ~(f > Len(m.inputs)) /\ ~(f > Len(u.inputs))
      BY <1>1
    <3> QED
      BY <3>1 DEF RowAt
  <2>2. f > 0 => RowAt(u, f - 1) = RowAt(m, f - 1)
    <3> SUFFICES ASSUME f > 0 PROVE RowAt(u, f - 1) = RowAt(m, f - 1)
      OBVIOUS
    <3>1. (f - 1) + 1 \in 1 .. c /\ ~(f - 1 > Len(m.inputs)) /\ ~(f - 1 > Len(u.inputs))
      BY <1>1
    <3> QED
      BY <3>1 DEF RowAt
  <2> QED
    BY <2>1, <2>2 DEF TickOf
<1>2. Ticks(u, c) = Ticks(m, c)
  <2>1. \A i \in 1 .. c : i - 1 \in Nat /\ i - 1 < c
    OBVIOUS
  <2> QED
    BY <1>1, <2>1 DEF Ticks
<1>3. c > 0 => TickOf(u, 0, TRUE) = TickOf(m, 0, TRUE)
  BY <1>1
<1> QED
  BY <1>2, <1>3 DEF Shown

\* After a tick one more frame is shown.
LEMMA AppendShown ==
  ASSUME NEW m, SoundManager(m), NEW c \in Nat, c < Len(m.inputs), NEW g,
         Shown(g, m, c)
  PROVE  Shown(Append(g, TickOf(m, c, TRUE)), m, c + 1)
<1> DEFINE t == TickOf(m, c, TRUE)
           first == TickOf(m, 0, TRUE)
<1>1. Len(m.inputs) \in Nat /\ c + 1 \in Nat /\ c + 1 <= Len(m.inputs)
  BY ManagerShape
<1>2. /\ Ticks(m, c) \in Seq(GameTick) /\ Len(Ticks(m, c)) = c
      /\ Ticks(m, c + 1) \in Seq(GameTick) /\ Len(Ticks(m, c + 1)) = c + 1
      /\ t \in GameTick /\ first \in GameTick
  <2>1. Ticks(m, c) \in Seq(GameTick) /\ Len(Ticks(m, c)) = c
    <3>1. c <= Len(m.inputs)
      BY <1>1
    <3> QED BY <3>1, TicksType
  <2>2. Ticks(m, c + 1) \in Seq(GameTick) /\ Len(Ticks(m, c + 1)) = c + 1
    BY <1>1, TicksType
  <2>3. t \in GameTick
    BY TickType
  <2>4. first \in GameTick
    <3>1. 0 \in Nat /\ 0 < Len(m.inputs)
      BY <1>1
    <3> QED BY <3>1, TickType
  <2> QED BY <2>1, <2>2, <2>3, <2>4
<1>3. /\ \A i \in 1 .. c : Ticks(m, c + 1)[i] = Ticks(m, c)[i]
      /\ Ticks(m, c + 1)[c + 1] = t
  <2>1. c + 1 \in 1 .. c + 1 /\ (c + 1) - 1 = c /\ \A i \in 1 .. c : i \in 1 .. c + 1
    OBVIOUS
  <2> QED
    BY <2>1 DEF Ticks
<1> HIDE DEF t, first
<1>4. Append(Ticks(m, c), t) = Ticks(m, c + 1)
  <2> DEFINE a == Append(Ticks(m, c), t)
  <2>1. /\ a \in Seq(GameTick) /\ Len(a) = c + 1 /\ a[c + 1] = t
        /\ \A i \in 1 .. c : a[i] = Ticks(m, c)[i]
    BY <1>2, AppendProperties
  <2> HIDE DEF a
  <2>2. \A i \in 1 .. c + 1 : a[i] = Ticks(m, c + 1)[i]
    BY <1>3, <2>1
  <2> QED
    BY <1>2, <2>1, <2>2, SeqEqual DEF a
<1>5. CASE g = Ticks(m, c)
  BY <1>4, <1>5 DEF Shown, t
<1>6. CASE c > 0 /\ g = <<first>> \o Ticks(m, c)
  <2>1. Append(<<first>> \o Ticks(m, c), t) = <<first>> \o Append(Ticks(m, c), t)
    <3> DEFINE a == Append(<<first>> \o Ticks(m, c), t)
               b == <<first>> \o Append(Ticks(m, c), t)
    <3>1. /\ a \in Seq(GameTick) /\ b \in Seq(GameTick)
          /\ Len(a) = c + 2 /\ Len(b) = c + 2
      BY <1>2
    <3>2. \A i \in 1 .. c + 2 : a[i] = b[i]
      BY <1>2
    <3> HIDE DEF a, b
    <3>3. a = b
      BY <3>1, <3>2, SeqEqual
    <3> QED
      BY <3>3 DEF a, b
  <2>2. c + 1 > 0 /\ Append(g, t) = <<first>> \o Ticks(m, c + 1)
    BY <1>1, <1>4, <1>6, <2>1
  <2> QED
    BY <2>2 DEF Shown, t, first
<1>7. g = Ticks(m, c) \/ (c > 0 /\ g = <<first>> \o Ticks(m, c))
  BY DEF Shown, first
<1> QED
  BY <1>5, <1>6, <1>7

\* A replay shows the rows held: the confirmed game was ticked on the rows of
\* the confirmed frames, frame 0 twice, and the rest is ticked now.
LEMMA ReplayShown ==
  ASSUME NEW m, SoundManager(m), NEW h, SimTruth(m, h),
         \A i \in DOMAIN m.sim : m.sim[i].exact,
         \A f \in 0 .. m.lastConfirm : m.inputs[f + 1] = HistoryRow(h, f),
         NEW c \in Nat, c <= Len(m.inputs), m.lastConfirm <= c,
         m.lastConfirm >= 0 => c >= 1
  PROVE  Shown(Replay(m, c), m, c)
<1> DEFINE k    == m.lastConfirm
           open == FirstOpen(m)
           rest == [i \in 1 .. Larger(c - open, 0) |-> TickOf(m, open + i - 1, TRUE)]
           first == TickOf(m, 0, TRUE)
<1>1. /\ k \in Int /\ k >= -1 /\ Len(m.inputs) \in Nat /\ m.sim \in Seq(GameTick)
      /\ Len(m.sim) = k + 1 /\ DOMAIN m.sim = 1 .. k + 1
  BY ManagerShape, LenProperties DEF SimTruth
<1>2. Ticks(m, c) \in Seq(GameTick) /\ Len(Ticks(m, c)) = c
  BY TicksType
<1>3. open \in Nat /\ open = (IF k >= 0 THEN k ELSE 0) /\ open <= c
  BY <1>1 DEF FirstOpen, Larger
<1>4. rest \in Seq(GameTick) /\ Len(rest) = c - open
      /\ \A i \in 1 .. c - open : rest[i] = TickOf(m, open + i - 1, TRUE)
  <2>1. c - open \in Nat /\ Larger(c - open, 0) = c - open
    BY <1>3 DEF Larger
  <2>2. ASSUME NEW i \in 1 .. c - open PROVE TickOf(m, open + i - 1, TRUE) \in GameTick
    <3>1. open + i - 1 \in Nat /\ open + i - 1 < Len(m.inputs)
      BY <1>1, <1>3
    <3> QED BY <3>1, TickType
  <2> HIDE DEF open
  <2>3. rest \in [1 .. c - open -> GameTick]
    BY <2>1, <2>2
  <2> QED
    BY <2>1, <2>3, FunctionIsSeq
<1>5. ASSUME NEW i \in 1 .. k + 1
      PROVE  m.sim[i] = TickOf(m, IF i >= 2 THEN i - 2 ELSE 0, TRUE)
  <2> DEFINE f == IF i >= 2 THEN i - 2 ELSE 0
             tick == TickOf(m, f, TRUE)
  <2>1. /\ f \in Nat /\ f <= k /\ f = Larger(i - 2, 0) /\ f < Len(m.inputs) /\ k >= 0
        /\ f > 0 => f - 1 \in 0 .. k /\ f - 1 < Len(m.inputs)
    <3>1. k < Len(m.inputs)
      BY ManagerShape
    <3> QED
      BY <1>1, <3>1 DEF Larger
  <2>2. /\ m.sim[i].now = HistoryRow(h, f)
        /\ m.sim[i].prev = IF f > 0 THEN HistoryRow(h, f - 1) ELSE NeutralRow
    BY <2>1 DEF SimTruth
  <2>3. m.sim[i] \in GameTick /\ m.sim[i].exact = TRUE
    <3>1. m.sim[i] \in GameTick /\ m.sim[i].exact
      BY <1>1, ElementOfSeq
    <3>2. m.sim[i].exact \in BOOLEAN
      BY <3>1 DEF GameTick
    <3> QED BY <3>1, <3>2
  <2> HIDE DEF f
  <2>4. RowAt(m, f) = HistoryRow(h, f)
    <3>1. f \in 0 .. k /\ ~(f > Len(m.inputs))
      BY <1>1, <2>1
    <3> QED
      BY <3>1 DEF RowAt
  <2>5. f > 0 => RowAt(m, f - 1) = HistoryRow(h, f - 1)
    <3> SUFFICES ASSUME f > 0 PROVE RowAt(m, f - 1) = HistoryRow(h, f - 1)
      OBVIOUS
    <3>1. f - 1 \in 0 .. k /\ ~(f - 1 > Len(m.inputs))
      BY <1>1, <2>1
    <3> QED
      BY <3>1 DEF RowAt
  <2>6. /\ tick.now = m.sim[i].now /\ tick.exact = m.sim[i].exact
        /\ tick.prev = m.sim[i].prev
    BY <2>2, <2>3, <2>4, <2>5 DEF TickOf
  <2>7. tick \in GameTick
    BY <2>1, TickType
  <2> QED
    BY <2>3, <2>6, <2>7, TickEqual DEF f
<1>6. \A i \in 1 .. c : Ticks(m, c)[i] = TickOf(m, i - 1, TRUE)
  BY DEF Ticks
<1>7. Replay(m, c) = m.sim \o rest
  BY DEF Replay
<1> HIDE DEF k, open, rest
<1>8. /\ m.sim \o rest \in Seq(GameTick) /\ Len(m.sim \o rest) = k + 1 + c - open
      /\ \A i \in 1 .. k + 1 + c - open : (m.sim \o rest)[i] =
           IF i <= k + 1 THEN m.sim[i] ELSE rest[i - (k + 1)]
  <2>1. /\ m.sim \o rest \in Seq(GameTick)
        /\ Len(m.sim \o rest) = Len(m.sim) + Len(rest)
        /\ \A i \in 1 .. Len(m.sim) + Len(rest) : (m.sim \o rest)[i] =
             IF i <= Len(m.sim) THEN m.sim[i] ELSE rest[i - Len(m.sim)]
    <3>1. m.sim \in Seq(GameTick) /\ rest \in Seq(GameTick)
      BY <1>1, <1>4
    <3> QED BY <3>1, ConcatProperties
  <2>2. Len(m.sim) + Len(rest) = k + 1 + c - open
    BY <1>1, <1>3, <1>4
  <2> QED BY <1>1, <2>1, <2>2
<1>9. CASE k = -1
  <2>1. \A i \in 1 .. c : (m.sim \o rest)[i] = Ticks(m, c)[i]
    <3> SUFFICES ASSUME NEW i \in 1 .. c PROVE (m.sim \o rest)[i] = Ticks(m, c)[i]
      OBVIOUS
    <3>1. open = 0 /\ i \in 1 .. k + 1 + c - open /\ ~(i <= k + 1)
          /\ i - (k + 1) = i /\ i \in 1 .. c - open /\ open + i - 1 = i - 1
      BY <1>3, <1>9
    <3> QED
      BY <1>4, <1>6, <1>8, <3>1
  <2>2. Len(m.sim \o rest) = c
    BY <1>3, <1>8, <1>9
  <2>3. m.sim \o rest = Ticks(m, c)
    BY <1>2, <1>8, <2>1, <2>2, SeqEqual
  <2> QED
    BY <1>7, <2>3 DEF Shown
<1>10. CASE k >= 0
  <2> DEFINE s == <<first>> \o Ticks(m, c)
  <2>1. open = k /\ c >= 1
    BY <1>3, <1>10 DEF k
  <2>2. first \in GameTick
    <3>1. 0 \in Nat /\ 0 < Len(m.inputs)
      BY <1>1, <2>1
    <3> QED BY <3>1, TickType
  <2> HIDE DEF first
  <2>3. /\ s \in Seq(GameTick) /\ Len(s) = c + 1 /\ s[1] = first
        /\ \A i \in 2 .. c + 1 : s[i] = Ticks(m, c)[i - 1]
    BY <1>2, <2>2
  <2> HIDE DEF s
  <2>4. \A i \in 1 .. c + 1 : s[i] = TickOf(m, IF i >= 2 THEN i - 2 ELSE 0, TRUE)
    <3> SUFFICES ASSUME NEW i \in 1 .. c + 1
                 PROVE  s[i] = TickOf(m, IF i >= 2 THEN i - 2 ELSE 0, TRUE)
      OBVIOUS
    <3>1. CASE i = 1
      <4>1. ~(i >= 2) /\ s[i] = first
        BY <2>3, <3>1
      <4> QED
        BY <4>1 DEF first
    <3>2. CASE i >= 2
      <4>1. i \in 2 .. c + 1 /\ i - 1 \in 1 .. c /\ (i - 1) - 1 = i - 2
        BY <3>2
      <4>2. s[i] = Ticks(m, c)[i - 1]
        BY <2>3, <4>1
      <4>3. Ticks(m, c)[i - 1] = TickOf(m, i - 2, TRUE)
        BY <1>6, <4>1
      <4>4. TickOf(m, IF i >= 2 THEN i - 2 ELSE 0, TRUE) = TickOf(m, i - 2, TRUE)
        BY <3>2
      <4> QED
        BY <4>2, <4>3, <4>4
    <3>3. i = 1 \/ i >= 2
      OBVIOUS
    <3> QED BY <3>1, <3>2, <3>3
  <2>5. \A i \in 1 .. c + 1 : (m.sim \o rest)[i] = s[i]
    <3> SUFFICES ASSUME NEW i \in 1 .. c + 1 PROVE (m.sim \o rest)[i] = s[i]
      OBVIOUS
    <3>0. i \in 1 .. k + 1 + c - open
      BY <1>1, <2>1
    <3>1. CASE i <= k + 1
      <4>1. i \in 1 .. k + 1
        BY <3>1
      <4> QED
        BY <1>5, <1>8, <2>4, <3>0, <3>1, <4>1
    <3>2. CASE ~(i <= k + 1)
      <4>1. i - (k + 1) \in 1 .. c - open /\ open + (i - (k + 1)) - 1 = i - 2 /\ i >= 2
        BY <1>1, <1>10, <2>1, <3>2
      <4> QED
        BY <1>4, <1>8, <2>4, <3>0, <3>2, <4>1
    <3> QED BY <3>1, <3>2
  <2>6. Len(m.sim \o rest) = c + 1
    BY <1>1, <1>8, <2>1
  <2>7. m.sim \o rest = s
    BY <1>8, <2>3, <2>5, <2>6, SeqEqual
  <2>8. c > 0
    BY <2>1
  <2> QED
    BY <1>7, <2>7, <2>8 DEF Shown, s, first
<1> QED
  BY <1>1, <1>9, <1>10

-----------------------------------------------------------------------------
(* The master: between two ticks nothing is left to roll back, and unless a *)
(* rollback is due its display shows the rows it holds.                     *)

DisplayInv ==
  /\ pc[Master] # "abort"
  /\ pc[Master] \in {"play", "over", "done"} => ~rollback[Master].isDirty
  /\ rollback[Master].lastConfirm >= 0 => rollback[Master].lastReceived[Master] >= 1
  /\ ~rollback[Master].isDirty =>
       Shown(gameSim[Master], rollback[Master], currentFrame[Master])

Quiet == PeaceInv /\ ~truncated

LEMMA QuietFacts ==
  ASSUME Quiet, Diverging = {}
  PROVE  /\ OrderInv /\ Truth /\ Master \in Connected
         /\ \A i \in DOMAIN rollback[Master].sim : rollback[Master].sim[i].exact
         /\ SoundManager(rollback[Master]) /\ Len(rollback[Master].inputs) \in Nat
         /\ currentFrame[Master] \in Nat
         /\ currentFrame[Master] <= Len(rollback[Master].inputs)
         /\ rollback[Master].lastConfirm \in Int
         /\ rollback[Master].lastConfirm <= currentFrame[Master]
         /\ rollback[Master].lastReceived[Master] <= currentFrame[Master]
<1>1. OrderInv /\ Truth /\ Master \in Connected
  BY MasterAssumption DEF Quiet, PeaceInv, CauseInv, TruthInv
<1>2. \A i \in DOMAIN rollback[Master].sim : rollback[Master].sim[i].exact
  BY <1>1 DEF Quiet, PeaceInv, ExactInv
<1>3. /\ SoundManager(rollback[Master]) /\ Len(rollback[Master].inputs) \in Nat
      /\ currentFrame[Master] \in Nat
      /\ currentFrame[Master] <= Len(rollback[Master].inputs)
  BY <1>1, PeerFacts DEF OrderInv
<1>4. /\ rollback[Master].lastConfirm \in Int
      /\ rollback[Master].lastConfirm < Len(pressed[Master])
      /\ rollback[Master].lastReceived[Master] = Len(pressed[Master]) - 1
      /\ Len(pressed[Master]) = currentFrame[Master] + (IF inTick[Master] THEN 1 ELSE 0)
  BY <1>1, SimFacts, TruthFacts, OrderFacts DEF ConfirmedInTime, PressedInTime
<1> QED
  BY <1>1, <1>2, <1>3, <1>4

\* A rollback shows the rows held.
LEMMA MasterReplays ==
  ASSUME Quiet, Diverging = {}, DisplayInv
  PROVE  Shown(Rolled(Master), rollback[Master], currentFrame[Master])
<1> DEFINE m == rollback[Master]
           c == currentFrame[Master]
<1>1. /\ OrderInv /\ Truth /\ Master \in Connected
      /\ \A i \in DOMAIN m.sim : m.sim[i].exact
      /\ SoundManager(m) /\ Len(m.inputs) \in Nat /\ c \in Nat
      /\ c <= Len(m.inputs) /\ m.lastConfirm \in Int /\ m.lastConfirm <= c
      /\ m.lastReceived[Master] <= c
  BY QuietFacts
<1>2. m.lastConfirm >= 0 => c >= 1
  <2>1. m.lastReceived[Master] \in Int
    BY <1>1, ManagerShape, ConnectedAssumption
  <2> QED
    BY <1>1, <2>1 DEF DisplayInv
<1>3. ASSUME NEW f \in 0 .. m.lastConfirm
      PROVE  m.inputs[f + 1] = HistoryRow(pressed, f)
  <2>1. f \in Nat /\ f < Len(m.inputs)
    BY <1>1, ManagerShape
  <2>2. UnusedNeutral(m) /\ \A p \in Connected : m.inputs[f + 1][p] = pressed[p][f + 1]
    BY <1>1, TruthFacts DEF RowsTruth, PlayerTruth, TrueTo
  <2> QED
    BY <1>1, <2>1, <2>2, TrueRow
<1>4. SimTruth(m, pressed)
  BY <1>1, TruthFacts
<1>5. Shown(Replay(m, c), m, c)
  BY <1>1, <1>2, <1>3, <1>4, ReplayShown
<1>6. CASE RollsBack(Master)
  BY <1>5, <1>6 DEF Rolled
<1>7. CASE ~RollsBack(Master)
  BY <1>7 DEF Rolled, RollsBack, DisplayInv
<1> QED
  BY <1>6, <1>7

-----------------------------------------------------------------------------
(* One lemma per action of the master, one for the others.                  *)

LEMMA BeginTickShows ==
  ASSUME Quiet, Quiet', Diverging = {}, DisplayInv,
         NEW input \in Input, BeginTick(Master, input)
  PROVE  DisplayInv'
<1> DEFINE m == rollback[Master]
           c == currentFrame[Master]
           u == SetInput(m, Master, input, c)
<1>1. /\ OrderInv /\ Truth /\ Master \in Connected /\ SoundManager(m)
      /\ Len(m.inputs) \in Nat /\ c \in Nat /\ c <= Len(m.inputs)
  BY QuietFacts
<1>2. /\ rollback'[Master] = u /\ pc'[Master] = "import"
      /\ UNCHANGED <<currentFrame, gameSim>>
  BY <1>1 DEF BeginTick, OrderInv, IndexInv, TypeOK
<1>3. /\ u.isDirty = m.isDirty /\ u.lastConfirm = m.lastConfirm
      /\ u.lastReceived[Master] = Larger(m.lastReceived[Master], c)
      /\ m.lastReceived[Master] \in Int
  <2>1. u.isDirty = m.isDirty
    BY <1>1, SetInputCells
  <2>2. /\ u.lastReceived
             = [m.lastReceived EXCEPT ![Master] = Larger(m.lastReceived[Master], c)]
        /\ u.lastConfirm = m.lastConfirm
    BY <1>1, SetInputEffect
  <2>3. /\ Master \in Player /\ m.lastReceived \in [Player -> FrameOrNone]
        /\ m.lastReceived[Master] \in Int
    BY <1>1, ManagerShape, ConnectedAssumption
  <2> HIDE DEF u
  <2> QED
    BY <2>1, <2>2, <2>3
<1>4. /\ Len(u.inputs) = Larger(Len(m.inputs), c + 1)
      /\ \A i \in 1 .. c : u.inputs[i] = m.inputs[i]
  <2>1. /\ Len(u.inputs) = Larger(Len(m.inputs), c + 1) /\ SoundManager(u)
    BY <1>1, SetInputSound
  <2>2. ASSUME NEW i \in 1 .. c PROVE u.inputs[i] = m.inputs[i]
    <3>1. i \in 1 .. Larger(Len(m.inputs), c + 1) /\ i \in 1 .. Len(m.inputs)
          /\ i # c + 1 /\ ~(i > c + 1)
      BY <1>1 DEF Larger
    <3>2. \A q \in Player : u.inputs[i][q] = m.inputs[i][q]
      <4>1. \A q \in Player : u.inputs[i][q] = GrownAt(m, i, q)
        BY <1>1, <3>1, SetInputCells
      <4> QED
        BY <3>1, <4>1 DEF GrownAt
    <3>3. m.inputs[i] \in Row /\ u.inputs[i] \in Row
      <4>1. \A j \in 1 .. Len(m.inputs) : m.inputs[j] \in Row
        BY <1>1, ManagerShape
      <4>2. \A j \in 1 .. Len(u.inputs) : u.inputs[j] \in Row
        BY <2>1, ManagerShape
      <4> HIDE DEF u
      <4> QED
        BY <2>1, <3>1, <4>1, <4>2
    <3> HIDE DEF u
    <3> QED
      BY <3>2, <3>3 DEF Row
  <2> QED BY <2>1, <2>2
<1> HIDE DEF u
<1>5. \A g : Shown(g, m, c) => Shown(g, u, c)
  <2>1. Len(u.inputs) \in Nat /\ c <= Len(u.inputs)
    BY <1>1, <1>4 DEF Larger
  <2> QED
    BY <1>1, <1>4, <2>1, TicksKept
<1>6. Larger(m.lastReceived[Master], c) >= m.lastReceived[Master]
  BY <1>1, <1>3 DEF Larger
<1>7. rollback'[Master].lastConfirm >= 0 => rollback'[Master].lastReceived[Master] >= 1
  <2>1. Larger(m.lastReceived[Master], c) \in Int
    BY <1>1, <1>3 DEF Larger
  <2> QED
    BY <1>2, <1>3, <1>6, <2>1 DEF DisplayInv
<1>8. ~rollback'[Master].isDirty =>
        Shown(gameSim'[Master], rollback'[Master], currentFrame'[Master])
  BY <1>2, <1>3, <1>5 DEF DisplayInv
<1> QED
  BY <1>2, <1>7, <1>8 DEF DisplayInv

LEMMA ImportInputShows ==
  ASSUME Quiet, Quiet', Diverging = {}, DisplayInv,
         NEW pkt \in inputNet, ImportInput(Master, pkt)
  PROVE  DisplayInv'
<1> DEFINE m == rollback[Master]
           c == currentFrame[Master]
           p == pkt.player
           u == SetInputs(m, pkt)
<1>1. /\ OrderInv /\ Truth /\ Master \in Connected /\ SoundManager(m)
      /\ Len(m.inputs) \in Nat /\ c \in Nat /\ c <= Len(m.inputs)
  BY QuietFacts
<1>2. /\ pkt \in InputPacket /\ p \in Connected /\ p # Master
      /\ FirstFrame(pkt) \in Int /\ FirstFrame(pkt) >= 0
      /\ FirstFrame(pkt) <= m.lastReceived[p] + 1
      /\ Replicates(m, p)
  <2>1. pkt \in InputPacket /\ p # Master
    BY <1>1 DEF OrderInv, IndexInv, TypeOK, ImportInput
  <2>2. p \in Connected /\ pkt.frame \in Nat /\ pkt.inputs \in Seq(Input)
    BY <2>1 DEF InputPacket
  <2>3. FirstFrame(pkt) \in Int
    BY <2>2, LenProperties DEF FirstFrame
  <2>4. FirstFrame(pkt) >= 0 /\ FirstFrame(pkt) <= FirstOpen(m)
    BY <1>1 DEF Truth, PacketsTruth, TruePacket
  <2>5. FirstOpen(m) \in Nat /\ FirstOpen(m) <= m.lastReceived[p] + 1
    BY <1>1, <2>2, OpenWithinRows
  <2>6. m.lastReceived[p] \in Int
    BY <1>1, <2>2, ManagerShape, ConnectedAssumption
  <2>7. Replicates(m, p)
    BY <1>1, <2>2, TruthFacts DEF PlayerTruth
  <2> QED
    BY <2>1, <2>2, <2>3, <2>4, <2>5, <2>6, <2>7
<1>3. /\ rollback'[Master] = u /\ pc' = pc /\ pc[Master] = "import"
      /\ UNCHANGED <<currentFrame, gameSim>>
  <2>1. pc'[Master] # "gap"
    BY MasterAssumption DEF Quiet, PeaceInv, CauseInv, TruthInv, Truth, PeerTruth
  <2> QED
    BY <1>1, <2>1 DEF ImportInput, OrderInv, IndexInv, TypeOK
<1>4. /\ u.lastConfirm = m.lastConfirm
      /\ u.lastReceived[Master] = m.lastReceived[Master]
  <2>1. Master \in Player /\ m.lastReceived \in [Player -> FrameOrNone]
    BY <1>1, ManagerShape, ConnectedAssumption
  <2>2. /\ u.lastConfirm = m.lastConfirm
        /\ u.lastReceived
             = [m.lastReceived EXCEPT ![p] = Larger(m.lastReceived[p], pkt.frame)]
    BY <1>1, <1>2, SetInputsEffect
  <2> HIDE DEF u
  <2> QED
    BY <1>2, <2>1, <2>2
<1>5. ASSUME ~u.isDirty PROVE ~m.isDirty /\ \A g : Shown(g, m, c) => Shown(g, u, c)
  <2>1. CASE pkt.frame < m.lastReceived[p]
    BY <1>5, <2>1 DEF SetInputs
  <2>2. CASE ~(pkt.frame < m.lastReceived[p])
    <3>1. pkt.frame >= m.lastReceived[p]
      <4>1. pkt.frame \in Int /\ m.lastReceived[p] \in Int
        BY <1>1, <1>2, ManagerShape, ConnectedAssumption DEF InputPacket
      <4> QED BY <2>2, <4>1
    <3>2. ~m.isDirty /\ ~Mispredicted(m, pkt)
      BY <1>1, <1>2, <1>5, <3>1, SetInputsCells
    <3>3. \A i \in 1 .. Len(m.inputs) : u.inputs[i] = m.inputs[i]
      BY <1>1, <1>2, <3>2, TrueGuessKeepsRows
    <3>4. Len(u.inputs) \in Nat /\ Len(u.inputs) >= Len(m.inputs)
      BY <1>1, <1>2, SetInputsSound, ManagerShape
    <3> HIDE DEF u
    <3>5. /\ c <= Len(u.inputs) /\ \A i \in 1 .. c : u.inputs[i] = m.inputs[i]
      BY <1>1, <3>3, <3>4
    <3>6. \A g : Shown(g, m, c) => Shown(g, u, c)
      BY <1>1, <3>4, <3>5, TicksKept
    <3> QED
      BY <3>2, <3>6
  <2> QED BY <2>1, <2>2
<1> HIDE DEF u
<1> QED
  BY <1>3, <1>4, <1>5 DEF DisplayInv

LEMMA ValidateFrameShows ==
  ASSUME Quiet, Quiet', Diverging = {}, DisplayInv,
         NEW exact \in Exactness(Master), ValidateFrame(Master, exact)
  PROVE  DisplayInv'
<1> DEFINE m == rollback[Master]
           u == ConfirmLastFrame(m, exact)
<1>1. /\ OrderInv /\ Master \in Connected /\ SoundManager(m)
      /\ Len(m.inputs) \in Nat /\ m.lastConfirm \in Int
      /\ currentFrame[Master] \in Nat /\ currentFrame[Master] <= Len(m.inputs)
  BY QuietFacts
<1>2. /\ rollback'[Master] = u /\ pc'[Master] = "validate"
      /\ UNCHANGED <<currentFrame, gameSim>>
      /\ AllReceivedAfter(m, FirstOpen(m))
  BY <1>1 DEF ValidateFrame, CanValidate, OrderInv, IndexInv, TypeOK
<1>3. /\ u.inputs = m.inputs /\ u.lastReceived = m.lastReceived
      /\ u.isDirty = m.isDirty
  BY <1>1, ConfirmEffect DEF SoundManager, ConfirmLastFrame, Manager
<1>4. m.lastReceived[Master] >= 1
  <2>1. FirstOpen(m) \in Nat /\ m.lastReceived[Master] \in Int
    BY <1>1, FirstOpenType, ManagerShape, ConnectedAssumption
  <2>2. m.lastReceived[Master] > FirstOpen(m)
    BY <1>1, <1>2 DEF AllReceivedAfter
  <2> QED BY <2>1, <2>2
<1> HIDE DEF u
<1>5. \A g : Shown(g, m, currentFrame[Master]) => Shown(g, u, currentFrame[Master])
  BY <1>1, <1>3, TicksKept
<1> QED
  BY <1>2, <1>3, <1>4, <1>5 DEF DisplayInv

\* What the end of RollbackUpdate leaves of the master's manager.
LEMMA MasterCleaned ==
  ASSUME Quiet, Diverging = {}, DisplayInv
  PROVE  LET m == rollback[Master]
             u == Cleaned(Master)
         IN  /\ ~u.isDirty /\ u.inputs = m.inputs
             /\ u.lastReceived = m.lastReceived /\ u.lastConfirm = m.lastConfirm
<1>1. rollback[Master] \in Manager
  BY QuietFacts DEF SoundManager
<1> QED
  BY <1>1 DEF Cleaned, RollsBack, Manager, DisplayInv

LEMMA CleanedShows ==
  ASSUME Quiet, Diverging = {}, DisplayInv, NEW c \in Nat, NEW g,
         c <= Len(rollback[Master].inputs), Shown(g, rollback[Master], c)
  PROVE  Shown(g, Cleaned(Master), c)
<1>1. Len(rollback[Master].inputs) \in Nat
  BY QuietFacts
<1>2. Cleaned(Master).inputs = rollback[Master].inputs
  BY MasterCleaned
<1> QED
  BY <1>1, <1>2, TicksKept

LEMMA EndTickShows ==
  ASSUME Quiet, Quiet', Diverging = {}, DisplayInv, EndTick(Master)
  PROVE  DisplayInv'
<1> DEFINE m == rollback[Master]
           c == currentFrame[Master]
           u == Cleaned(Master)
           g == Append(Rolled(Master), TickOf(m, c, TRUE))
<1>1. /\ OrderInv /\ Master \in Connected /\ SoundManager(m)
      /\ Len(m.inputs) \in Nat /\ c \in Nat
  BY QuietFacts
<1>2. /\ rollback'[Master] = u /\ pc'[Master] = "play" /\ inTick[Master]
      /\ currentFrame'[Master] = c + 1 /\ gameSim'[Master] = g
  BY <1>1 DEF EndTick, OrderInv, IndexInv, TypeOK
<1>3. c < Len(m.inputs)
  BY <1>1, <1>2, PeerFacts DEF OrderInv
<1>4. Shown(g, m, c + 1)
  <2>1. Shown(Rolled(Master), m, c)
    BY MasterReplays
  <2> QED
    BY <1>1, <1>3, <2>1, AppendShown
<1>5. Shown(g, u, c + 1)
  <2>1. c + 1 \in Nat /\ c + 1 <= Len(m.inputs)
    BY <1>1, <1>3
  <2> HIDE DEF g
  <2> QED
    BY <1>4, <2>1, CleanedShows
<1>6. /\ ~u.isDirty /\ u.lastReceived = m.lastReceived
      /\ u.lastConfirm = m.lastConfirm
  BY MasterCleaned
<1> HIDE DEF u, g
<1> QED
  BY <1>2, <1>5, <1>6 DEF DisplayInv

LEMMA EndGameOverRollbackShows ==
  ASSUME Quiet, Quiet', Diverging = {}, DisplayInv, EndGameOverRollback(Master)
  PROVE  DisplayInv'
<1> DEFINE m == rollback[Master]
           c == currentFrame[Master]
           u == Cleaned(Master)
           g == Rolled(Master)
<1>1. /\ OrderInv /\ Master \in Connected /\ c \in Nat /\ c <= Len(m.inputs)
  BY QuietFacts
<1>2. /\ rollback'[Master] = u /\ pc'[Master] \in {"over", "done"}
      /\ currentFrame'[Master] = c /\ gameSim'[Master] = g
  BY <1>1 DEF EndGameOverRollback, AfterGameOver, OrderInv, IndexInv, TypeOK
<1>3. Shown(g, u, c)
  BY <1>1, MasterReplays, CleanedShows
<1>4. /\ ~u.isDirty /\ u.lastReceived = m.lastReceived
      /\ u.lastConfirm = m.lastConfirm
  BY MasterCleaned
<1> HIDE DEF u, g
<1> QED
  BY <1>2, <1>3, <1>4 DEF DisplayInv

LEMMA GameOverShows ==
  ASSUME Quiet, Diverging = {}, DisplayInv,
         GameOverRollback(Master) \/ ShowEndScreen(Master)
  PROVE  DisplayInv'
<1>1. OrderInv /\ Master \in Connected
  BY QuietFacts
<1>2. /\ UNCHANGED <<rollback, gameSim, currentFrame>>
      /\ pc[Master] \in {"play", "over"}
      /\ pc'[Master] \in {"import", "over", "done"}
  BY <1>1 DEF GameOverRollback, ShowEndScreen, AfterGameOver, OrderInv, IndexInv, TypeOK
<1> QED
  BY <1>2 DEF DisplayInv

LEMMA OthersShow ==
  ASSUME OrderInv, DisplayInv, NEW n \in Connected, n # Master, Step(n)
  PROVE  DisplayInv'
<1>1. rollback'[Master] = rollback[Master]
  BY ManagerStep, MasterAssumption
<1>2. /\ pc'[Master] = pc[Master] /\ currentFrame'[Master] = currentFrame[Master]
      /\ gameSim'[Master] = gameSim[Master]
  <2>1. /\ pc \in [Connected -> PC] /\ currentFrame \in [Connected -> Nat]
        /\ gameSim \in [Connected -> Seq(GameTick)] /\ Master \in Connected
    BY MasterAssumption DEF OrderInv, IndexInv, TypeOK
  <2>2. /\ UNCHANGED pc \/ \E x : pc' = [pc EXCEPT ![n] = x]
        /\ UNCHANGED currentFrame \/ \E x : currentFrame' = [currentFrame EXCEPT ![n] = x]
        /\ UNCHANGED gameSim \/ \E x : gameSim' = [gameSim EXCEPT ![n] = x]
    <3>1. CASE EndTick(n)
      BY <3>1 DEF EndTick
    <3>2. CASE EndGameOverRollback(n)
      BY <3>2 DEF EndGameOverRollback
    <3>3. CASE \E pkt \in inputNet : ImportInput(n, pkt)
      BY <3>3 DEF ImportInput
    <3>4. CASE \E exact \in Exactness(n) : ImportConfirm(n, exact)
      BY <3>4 DEF ImportConfirm
    <3>5. CASE \E exact \in Exactness(n) : ValidateFrame(n, exact)
      BY <3>5 DEF ValidateFrame
    <3>6. CASE \E input \in Input : BeginTick(n, input)
      BY <3>6 DEF BeginTick
    <3>7. CASE RefuseConfirm(n)
      BY <3>7 DEF RefuseConfirm
    <3>8. CASE GameOverRollback(n) \/ ShowEndScreen(n)
      BY <3>8 DEF GameOverRollback, ShowEndScreen
    <3> QED
      BY <3>1, <3>2, <3>3, <3>4, <3>5, <3>6, <3>7, <3>8 DEF Step
  <2> QED
    BY <2>1, <2>2
<1> QED
  BY <1>1, <1>2 DEF DisplayInv

-----------------------------------------------------------------------------
LEMMA DisplayKept ==
  ASSUME Quiet, Quiet', Diverging = {}, DisplayInv, [Next]_vars
  PROVE  DisplayInv'
<1>1. OrderInv /\ Master \in Connected
  BY QuietFacts
<1>2. CASE UNCHANGED vars
  BY <1>2 DEF vars, gameVars, DisplayInv
<1>3. ASSUME NEW n \in Connected, Step(n) PROVE DisplayInv'
  <2>1. CASE n # Master
    BY <1>1, <1>3, <2>1, OthersShow
  <2>2. CASE n = Master
    <3>1. ~RefuseConfirm(Master)
      <4> SUFFICES ASSUME RefuseConfirm(Master) PROVE FALSE
        OBVIOUS
      <4>1. hasDesync'[Master]
        BY <1>1 DEF RefuseConfirm, ExitGame, OrderInv, IndexInv, TypeOK
      <4>2. ~hasDesync'[Master]
        BY <1>1 DEF Quiet, PeaceInv, CauseInv, ExactInv, NoFalseAlarm
      <4> QED BY <4>1, <4>2
    <3>2. \A exact \in Exactness(Master) : ~ImportConfirm(Master, exact)
      BY <1>1, ImportEffect
    <3> QED
      BY <1>3, <2>2, <3>1, <3>2, BeginTickShows, ImportInputShows,
         ValidateFrameShows, EndTickShows, EndGameOverRollbackShows, GameOverShows
         DEF Step
  <2> QED BY <2>1, <2>2
<1> QED
  BY <1>2, <1>3 DEF Next

LEMMA InitDisplay == Init => DisplayInv
<1> SUFFICES ASSUME Init PROVE DisplayInv
  OBVIOUS
<1>1. /\ pc[Master] = "play" /\ rollback[Master] = InitManager
      /\ gameSim[Master] = << >> /\ currentFrame[Master] = 0
  BY MasterAssumption DEF Init
<1>2. InitManager.isDirty = FALSE /\ InitManager.lastConfirm = -1
  BY DEF InitManager
<1>3. Ticks(InitManager, 0) = << >>
  <2>1. Len(InitManager.inputs) = 0 /\ SoundManager(InitManager)
    BY <1>1, InitIndex, PeerFacts, MasterAssumption, EmptySeq DEF InitManager
  <2> QED
    BY <2>1, TicksType, EmptySeq
<1> QED
  BY <1>1, <1>2, <1>3 DEF DisplayInv, Shown

LEMMA DisplayAlways ==
  ASSUME Diverging = {} PROVE Spec => [](PeaceInv /\ (~truncated => DisplayInv))
<1> DEFINE J == PeaceInv /\ (~truncated => DisplayInv)
<1>1. Init => J
  BY InitDisplay, InitCause, InitExact DEF PeaceInv
<1>2. J /\ [Next]_vars => J'
  <2> SUFFICES ASSUME J, [Next]_vars PROVE J'
    OBVIOUS
  <2>1. OrderInv
    BY DEF PeaceInv, CauseInv, AgreeInv
  <2>2. PeaceInv'
    BY <2>1, CauseKept, ExactKept DEF PeaceInv
  <2>3. ASSUME ~truncated' PROVE DisplayInv'
    <3>1. ~truncated
      BY <2>1, <2>3, CutStaysCut
    <3>2. Quiet /\ Quiet'
      BY <2>2, <2>3, <3>1 DEF Quiet
    <3> QED
      BY <3>1, <3>2, DisplayKept
  <2> QED BY <2>2, <2>3
<1> QED
  BY <1>1, <1>2, PTL DEF Spec

LEMMA ShownIsCurrent ==
  ASSUME currentFrame[Master] \in Nat,
         Shown(gameSim[Master], rollback[Master], currentFrame[Master])
  PROVE  MasterDisplayCurrent
<1> DEFINE m == rollback[Master]
           c == currentFrame[Master]
<1> SUFFICES ASSUME Ticked(Master) PROVE DisplayIsCurrent(Master)
  BY DEF MasterDisplayCurrent
<1>1. OnceEach(Master) = Ticks(m, c)
  BY DEF OnceEach, Ticks
<1>2. Head(OnceEach(Master)) = TickOf(m, 0, TRUE)
  <2>1. Head(OnceEach(Master)) = OnceEach(Master)[1]
    OBVIOUS
  <2>2. 1 \in 1 .. c /\ 1 - 1 = 0
    BY DEF Ticked
  <2> QED
    BY <2>1, <2>2 DEF OnceEach
<1> QED
  BY <1>1, <1>2 DEF Shown, DisplayIsCurrent

\* Between two ticks the game on the master's display is the game on the rows
\* it holds: whatever an input packet corrects under a frame that was already
\* displayed has been rolled back (RollbackUpdate, "rollback if needed").
\* For machines that compute alike, as long as no packet is cut.
THEOREM MasterDisplayCurrentAlways ==
  ASSUME Diverging = {} PROVE Spec => [](~truncated => MasterDisplayCurrent)
<1>1. PeaceInv /\ (~truncated => DisplayInv) => (~truncated => MasterDisplayCurrent)
  <2> SUFFICES ASSUME PeaceInv, ~truncated, DisplayInv PROVE MasterDisplayCurrent
    OBVIOUS
  <2>1. currentFrame[Master] \in Nat
    BY QuietFacts DEF Quiet
  <2>2. CASE pc[Master] = "play"
    BY <2>1, <2>2, ShownIsCurrent DEF DisplayInv
  <2>3. CASE pc[Master] # "play"
    BY <2>3 DEF MasterDisplayCurrent, Ticked
  <2> QED BY <2>2, <2>3
<1> QED
  BY <1>1, DisplayAlways, PTL
=============================================================================
