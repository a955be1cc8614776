---------------------------- MODULE Services_proofs ----------------------------
(***************************************************************************)
(* Safety of the machines around a game: the table of systems, the way of  *)
(* a packet, the desync database, loading and the countdown.  Proved for   *)
(* any number of systems, packets, rows, games and textures and any times. *)
(***************************************************************************)
EXTENDS MCServices, FiniteSetTheorems, SequenceTheorems, TLAPS

-----------------------------------------------------------------------------
(* The table of systems. *)

\* The first free slot is the slot of nobody.
LEMMA FirstFreeSlot ==
  ASSUME RegistryTypeOK, FreeSlots # {}
  PROVE  FirstFree \in 1 .. Len(slots) /\ slots[FirstFree] = Null
<1>1. FreeSlots \subseteq Nat
  BY DEF FreeSlots
<1>2. PICK i \in FreeSlots : \A j \in FreeSlots : <<j, i>> \notin OpToRel(<, Nat)
  BY <1>1, NatLessThanWellFounded, WFMin
<1>3. \A j \in FreeSlots : ~(j < i)
  BY <1>1, <1>2 DEF OpToRel
<1>4. \E k \in FreeSlots : \A j \in FreeSlots : k <= j
  <2>1. \A j \in FreeSlots : i <= j
    BY <1>1, <1>3
  <2> QED
    BY <1>2, <2>1
<1>5. FirstFree \in FreeSlots
  BY <1>4 DEF FirstFree
<1> QED
  BY <1>5 DEF FreeSlots

\* There are n numbers from 1 to n.
LEMMA FirstNumbers ==
  ASSUME NEW n \in Nat
  PROVE  IsFiniteSet(1 .. n) /\ Cardinality(1 .. n) = n
<1>1. 1 \in Int /\ n \in Int
  OBVIOUS
<1>2. IsFiniteSet(1 .. n) /\ Cardinality(1 .. n) = IF 1 > n THEN 0 ELSE n - 1 + 1
  BY <1>1, FS_Interval
<1> QED
  BY <1>2

\* With no free slot every slot has a system of its own, so that there are no
\* more slots than systems: there is room for one that has no slot.
LEMMA RoomForOneMore ==
  ASSUME RegistryTypeOK, OwnSlot, FreeSlots = {}, NEW x \in Systems \ alive
  PROVE  Len(slots) + 1 <= Reserved
<1> DEFINE S == 1 .. Len(slots)
           f == [i \in S |-> slots[i]]
<1>1. Len(slots) \in Nat
  BY LenProperties DEF RegistryTypeOK
<1>2. \A i \in S : slots[i] \in alive /\ index[slots[i]] = i
  BY DEF FreeSlots, OwnSlot
<1>3. f \in Injection(S, alive)
  BY <1>2 DEF Injection, IsInjective
<1>4. /\ IsFiniteSet(Systems) /\ Cardinality(Systems) <= Reserved
      /\ alive \in SUBSET Systems /\ Reserved \in Nat
  BY RegistryAssumption DEF RegistryTypeOK
<1>5. IsFiniteSet(alive)
  BY <1>4, FS_Subset
<1>6. Cardinality(S) <= Cardinality(alive)
  BY <1>3, <1>5, FS_Injection
<1>7. Cardinality(S) = Len(slots)
  BY <1>1, FirstNumbers
<1>8. Cardinality(alive \cup {x}) = Cardinality(alive) + 1
  BY <1>5, FS_AddElement
<1>9. Cardinality(alive \cup {x}) <= Cardinality(Systems)
  BY <1>4, FS_Subset
<1>10. Cardinality(alive) \in Nat /\ Cardinality(Systems) \in Nat
  BY <1>4, <1>5, FS_CardinalityType
<1> HIDE DEF S
<1> QED
  BY <1>1, <1>4, <1>6, <1>7, <1>8, <1>9, <1>10

LEMMA RegistryInitially == RegistryInit => RegistrySound
BY RegistryAssumption, EmptySeq
   DEF RegistryInit, RegistrySound, RegistryTypeOK, OwnSlot, NeverMoves, UpdatesAll

\* A new system takes the place of nobody.
LEMMA AddKeeps ==
  ASSUME RegistrySound, NEW x \in Systems, AddSystem(x)
  PROVE  RegistrySound'
<1> DEFINE k == IF FreeSlots # {} THEN FirstFree ELSE Len(slots) + 1
<1>1. /\ RegistryTypeOK /\ OwnSlot /\ NeverMoves /\ UpdatesAll
      /\ x \notin alive /\ x \in Systems \cup {Null} /\ x # Null
      /\ Len(slots) \in Nat
  BY RegistryAssumption, LenProperties DEF RegistrySound, AddSystem, RegistryTypeOK
<1>2. /\ slots' \in Seq(Systems \cup {Null}) /\ Len(slots') \in Nat
      /\ k \in 1 .. Len(slots') /\ slots'[k] = x
      /\ Len(slots) <= Len(slots') /\ Len(slots') <= Reserved
      /\ \A i \in 1 .. Len(slots') : i # k => i \in 1 .. Len(slots) /\ slots'[i] = slots[i]
      /\ \A i \in 1 .. Len(slots) : slots[i] # Null => i # k
      /\ index' = [index EXCEPT ![x] = k]
  <2>1. CASE FreeSlots # {}
    <3>1. k \in 1 .. Len(slots) /\ slots[k] = Null
      BY <1>1, <2>1, FirstFreeSlot
    <3>2. slots' = [slots EXCEPT ![k] = x] /\ index' = [index EXCEPT ![x] = k]
      BY <2>1 DEF AddSystem
    <3> HIDE DEF k
    <3>3. /\ slots' \in Seq(Systems \cup {Null}) /\ Len(slots') = Len(slots)
          /\ \A j \in 1 .. Len(slots) : slots'[j] = IF j = k THEN x ELSE slots[j]
      BY <1>1, <3>1, <3>2, ExceptSeq DEF RegistryTypeOK
    <3> QED
      BY <1>1, <3>1, <3>2, <3>3 DEF NeverMoves
  <2>2. CASE FreeSlots = {}
    <3>1. /\ slots' = Append(slots, x) /\ k = Len(slots) + 1
          /\ index' = [index EXCEPT ![x] = k]
      BY <2>2 DEF AddSystem
    <3>2. Len(slots) + 1 <= Reserved
      BY <1>1, <2>2, RoomForOneMore
    <3>3. /\ slots' \in Seq(Systems \cup {Null}) /\ Len(slots') = Len(slots) + 1
          /\ slots'[Len(slots) + 1] = x
          /\ \A i \in 1 .. Len(slots) : slots'[i] = slots[i]
      BY <1>1, <3>1, AppendProperties DEF RegistryTypeOK
    <3> HIDE DEF k
    <3> QED
      BY <1>1, <3>1, <3>2, <3>3
  <2> QED
    BY <2>1, <2>2
<1>3. /\ index' \in [Systems -> Nat] /\ index'[x] = k
      /\ \A y \in Systems \ {x} : index'[y] = index[y]
  BY <1>1, <1>2 DEF RegistryTypeOK
<1>4. /\ alive' = alive \cup {x} /\ at' = at /\ end' = end
      /\ stays' = stays /\ updated' = updated
  BY DEF AddSystem, pass
<1> HIDE DEF k
<1>5. RegistryTypeOK'
  BY <1>1, <1>2, <1>3, <1>4 DEF RegistryTypeOK
<1>6. OwnSlot'
  <2>1. \A y \in alive' : index'[y] \in 1 .. Len(slots') /\ slots'[index'[y]] = y
    <3> SUFFICES ASSUME NEW y \in alive', y # x
                 PROVE  index'[y] \in 1 .. Len(slots') /\ slots'[index'[y]] = y
      BY <1>2, <1>3
    <3>1. /\ y \in alive /\ index'[y] = index[y] /\ y # Null
          /\ index[y] \in 1 .. Len(slots) /\ slots[index[y]] = y
      BY <1>1, <1>3, <1>4, RegistryAssumption DEF OwnSlot, RegistryTypeOK
    <3>2. index[y] # k /\ index[y] \in 1 .. Len(slots')
      BY <1>1, <1>2, <3>1
    <3> QED
      BY <1>2, <3>1, <3>2
  <2>2. \A i \in 1 .. Len(slots') :
           slots'[i] # Null => slots'[i] \in alive' /\ index'[slots'[i]] = i
    BY <1>1, <1>2, <1>3, <1>4 DEF OwnSlot, RegistryTypeOK
  <2> QED
    BY <2>1, <2>2 DEF OwnSlot
<1>7. NeverMoves' /\ UpdatesAll'
  BY <1>1, <1>2, <1>3, <1>4 DEF NeverMoves, UpdatesAll, RegistryTypeOK
<1> QED
  BY <1>5, <1>6, <1>7 DEF RegistrySound

\* A system that goes clears its own slot.
LEMMA RemoveKeeps ==
  ASSUME RegistrySound, NEW x \in Systems, RemoveSystem(x)
  PROVE  RegistrySound'
<1>1. /\ RegistryTypeOK /\ OwnSlot /\ NeverMoves /\ UpdatesAll /\ x \in alive
      /\ index[x] \in 1 .. Len(slots) /\ slots[index[x]] = x /\ Len(slots) \in Nat
  BY LenProperties DEF RegistrySound, RemoveSystem, RegistryTypeOK, OwnSlot
<1>2. /\ slots' \in Seq(Systems \cup {Null}) /\ Len(slots') = Len(slots)
      /\ \A j \in 1 .. Len(slots) : slots'[j] = IF j = index[x] THEN Null ELSE slots[j]
  BY <1>1, ExceptSeq DEF RegistryTypeOK, RemoveSystem, Without
<1>3. /\ alive' = alive \ {x} /\ index' = index /\ at' = at /\ end' = end
      /\ stays' = stays \ {x} /\ updated' = updated \ {x}
  BY DEF RemoveSystem, pass
<1>4. RegistryTypeOK'
  BY <1>1, <1>2, <1>3 DEF RegistryTypeOK
<1>5. OwnSlot'
  BY <1>1, <1>2, <1>3 DEF OwnSlot, RegistryTypeOK
<1>6. NeverMoves' /\ UpdatesAll'
  BY <1>1, <1>2, <1>3 DEF NeverMoves, UpdatesAll
<1> QED
  BY <1>4, <1>5, <1>6 DEF RegistrySound

\* The system in the slot is the only one whose index the loop reaches.
LEMMA VisitKeeps ==
  ASSUME RegistrySound, Visit
  PROVE  RegistrySound'
<1>1. /\ RegistryTypeOK /\ OwnSlot /\ NeverMoves /\ UpdatesAll
      /\ at # 0 /\ at < end /\ at' = at + 1 /\ end' = end
      /\ slots' = slots /\ index' = index /\ alive' = alive /\ stays' = stays
      /\ Len(slots) \in Nat
  BY LenProperties DEF RegistrySound, RegistryTypeOK, Visit, NextSlot, table
<1>2. /\ at \in 1 .. Len(slots) /\ end \in Nat
      /\ updated' = IF slots[at] = Null THEN updated ELSE updated \cup {slots[at]}
  BY <1>1 DEF RegistryTypeOK, Visit
<1>3. RegistryTypeOK'
  BY <1>1, <1>2 DEF RegistryTypeOK, OwnSlot
<1>4. UpdatesAll'
  <2> SUFFICES ASSUME NEW y \in stays
               PROVE  y \in updated' <=> index[y] < at + 1
    BY <1>1 DEF UpdatesAll
  <2>1. /\ y \in Systems /\ y \in alive /\ index[y] \in Nat /\ slots[index[y]] = y
        /\ y # Null /\ (y \in updated <=> index[y] < at)
    BY <1>1, RegistryAssumption DEF RegistryTypeOK, OwnSlot, UpdatesAll
  <2>2. index[y] = at <=> slots[at] = y
    BY <1>1, <1>2, <2>1 DEF OwnSlot
  <2>3. y \in updated' <=> y \in updated \/ slots[at] = y
    BY <1>2, <2>1
  <2> QED
    BY <1>2, <2>1, <2>2, <2>3
<1> QED
  BY <1>1, <1>3, <1>4 DEF RegistrySound, OwnSlot, NeverMoves

LEMMA RegistryStep == RegistrySound /\ [RegistryNext]_registryVars => RegistrySound'
<1> SUFFICES ASSUME RegistrySound, [RegistryNext]_registryVars
             PROVE  RegistrySound'
  OBVIOUS
<1>0. RegistryTypeOK /\ OwnSlot /\ NeverMoves /\ UpdatesAll /\ Len(slots) \in Nat
  BY LenProperties DEF RegistrySound, RegistryTypeOK
<1>1. ASSUME NEW x \in Systems, AddSystem(x) PROVE RegistrySound'
  BY <1>1, AddKeeps
<1>2. ASSUME NEW x \in Systems, RemoveSystem(x) PROVE RegistrySound'
  BY <1>2, RemoveKeeps
<1>3. CASE BeginPass
  <2>1. /\ at' = 1 /\ end' = Len(slots) + 1 /\ stays' = alive /\ updated' = {}
        /\ slots' = slots /\ index' = index /\ alive' = alive
    BY <1>3 DEF BeginPass, table
  <2>2. RegistryTypeOK'
    BY <1>0, <2>1 DEF RegistryTypeOK
  <2>3. UpdatesAll'
    BY <1>0, <2>1 DEF UpdatesAll, OwnSlot
  <2> QED
    BY <1>0, <2>1, <2>2, <2>3 DEF RegistrySound, OwnSlot, NeverMoves
<1>4. CASE Visit
  BY <1>4, VisitKeeps
<1>5. CASE EndPass
  BY <1>0, <1>5
     DEF EndPass, RegistrySound, RegistryTypeOK, OwnSlot, NeverMoves, UpdatesAll, table
<1>6. CASE UNCHANGED registryVars
  BY <1>0, <1>6
     DEF registryVars, RegistrySound, RegistryTypeOK, OwnSlot, NeverMoves, UpdatesAll
<1> QED
  BY <1>1, <1>2, <1>3, <1>4, <1>5, <1>6 DEF RegistryNext

\* The main loop finds every system in the slot it remembers, updates each once in a
\* pass, and the vector never outgrows what was reserved (engine.cpp:71-129), for any
\* number of systems: the four parts are inductive together.
THEOREM RegistrySoundAlways == RegistrySpec => []RegistrySound
BY RegistryInitially, RegistryStep, PTL DEF RegistrySpec

-----------------------------------------------------------------------------
(* The table stands for a set of systems. *)

\* The systems in the table are those that were added and not removed.
LEMMA TableIsAlive ==
  ASSUME RegistrySound
  PROVE  {slots[i] : i \in 1 .. Len(slots)} \ {Null} = alive
<1>1. \A x \in alive : x # Null
  BY RegistryAssumption DEF RegistrySound, RegistryTypeOK
<1> QED
  BY <1>1 DEF RegistrySound, OwnSlot

\* The same of the next state.
LEMMA TableIsAliveNext ==
  ASSUME RegistrySound'
  PROVE  {slots'[i] : i \in 1 .. Len(slots')} \ {Null} = alive'
<1>1. \A x \in alive' : x # Null
  BY RegistryAssumption DEF RegistrySound, RegistryTypeOK
<1> QED
  BY <1>1 DEF RegistrySound, OwnSlot

LEMMA SetStep ==
  ASSUME RegistrySound, RegistrySound', [RegistryNext]_registryVars
  PROVE  [Set!Next]_({slots[i] : i \in 1 .. Len(slots)} \ {Null})
<1> DEFINE held == {slots[i] : i \in 1 .. Len(slots)} \ {Null}
<1>1. held = alive /\ held' = alive'
  BY TableIsAlive, TableIsAliveNext
<1>2. \/ \E x \in Systems : x \notin alive /\ alive' = alive \cup {x}
      \/ \E x \in Systems : x \in alive /\ alive' = alive \ {x}
      \/ alive' = alive
  BY DEF RegistryNext, AddSystem, RemoveSystem, BeginPass, Visit, EndPass, registryVars
<1> HIDE DEF held
<1>3. \/ \E x \in Systems : x \notin held /\ held' = held \cup {x}
      \/ \E x \in Systems : x \in held /\ held' = held \ {x}
      \/ held' = held
  BY <1>1, <1>2
<1> QED
  BY <1>3 DEF held, Set!Next, Set!Add, Set!Remove

\* The table with its reused slots and remembered indices implements the set of systems
\* that AddSystem and RemoveSystem promise.
THEOREM SetImplemented == RegistrySpec => ImplementsSet
<1>1. RegistryInit => Set!Init
  BY DEF RegistryInit, Set!Init
<1> QED
  BY <1>1, RegistrySoundAlways, SetStep, PTL DEF RegistrySpec, ImplementsSet, Set!Spec

-----------------------------------------------------------------------------
(* The way of a packet. *)

\* What is left of a sequence after its first n elements.
LEMMA FromFacts ==
  ASSUME NEW S, NEW s \in Seq(S), NEW n \in 0 .. Len(s)
  PROVE  /\ From(s, n) \in Seq(S)
         /\ Len(From(s, n)) = Len(s) - n
         /\ \A i \in 1 .. Len(s) - n : From(s, n)[i] = s[n + i]
<1>1. Len(s) \in Nat /\ \A i \in n + 1 .. Len(s) : s[i] \in S
  BY LenProperties
<1> QED
  BY <1>1, SubSeqProperties DEF From

LEMMA FromEnds ==
  ASSUME NEW S, NEW s \in Seq(S)
  PROVE  From(s, 0) = s /\ From(s, Len(s)) = <<>>
<1>1. Len(s) \in Nat
  BY LenProperties
<1> QED
  BY <1>1, SubSeqFull, SubSeqEmpty DEF From

LEMMA FromNext ==
  ASSUME NEW S, NEW s \in Seq(S), NEW n \in Nat, n < Len(s)
  PROVE  s[n + 1] \in S /\ From(s, n) = <<s[n + 1]>> \o From(s, n + 1)
<1>1. Len(s) \in Nat /\ n + 1 \in 1 .. Len(s)
  BY LenProperties
<1>2. SubSeq(s, n + 1, Len(s)) = <<s[n + 1]>> \o SubSeq(s, (n + 1) + 1, Len(s))
  BY <1>1, SubSeqRecursiveFirst
<1> QED
  BY <1>1, <1>2, ElementOfSeq DEF From

LEMMA FromAppend ==
  ASSUME NEW S, NEW s \in Seq(S), NEW x \in S, NEW n \in 0 .. Len(s)
  PROVE  From(Append(s, x), n) = From(s, n) \o <<x>>
<1> DEFINE a == Append(s, x)
           u == From(s, n)
           v == From(a, n)
<1>1. /\ a \in Seq(S) /\ Len(a) = Len(s) + 1 /\ Len(s) \in Nat
      /\ \A i \in 1 .. Len(s) : a[i] = s[i]
      /\ a[Len(s) + 1] = x
  BY AppendProperties, LenProperties
<1>2. /\ u \in Seq(S) /\ Len(u) = Len(s) - n
      /\ \A i \in 1 .. Len(s) - n : u[i] = s[n + i]
  BY FromFacts
<1> HIDE DEF a
<1>n. n \in 0 .. Len(a)
  BY <1>1
<1>3. /\ v \in Seq(S) /\ Len(v) = Len(a) - n
      /\ \A i \in 1 .. Len(a) - n : v[i] = a[n + i]
  BY <1>1, <1>n, FromFacts
<1>4. <<x>> \in Seq(S) /\ Len(<<x>>) = 1 /\ <<x>>[1] = x
  OBVIOUS
<1> HIDE DEF u, v
<1>5. /\ u \o <<x>> \in Seq(S) /\ Len(u \o <<x>>) = Len(u) + 1
      /\ \A i \in 1 .. Len(u) + 1 :
            (u \o <<x>>)[i] = IF i <= Len(u) THEN u[i] ELSE <<x>>[i - Len(u)]
  BY <1>2, <1>4, ConcatProperties
<1>6. Len(v) = Len(u \o <<x>>)
  BY <1>1, <1>2, <1>3, <1>5
<1>7. ASSUME NEW i \in 1 .. Len(v) PROVE v[i] = (u \o <<x>>)[i]
  <2>1. i \in 1 .. Len(s) - n + 1 /\ i \in Int
    BY <1>1, <1>3
  <2>2. CASE i <= Len(s) - n
    <3>1. i \in 1 .. Len(s) - n /\ n + i \in 1 .. Len(s) /\ i \in 1 .. Len(a) - n
      BY <1>1, <2>1, <2>2
    <3> QED
      BY <1>1, <1>2, <1>3, <1>5, <3>1
  <2>3. CASE ~(i <= Len(s) - n)
    <3>1. /\ i = Len(u) + 1 /\ n + i = Len(s) + 1 /\ i \in 1 .. Len(a) - n
          /\ i - Len(u) = 1 /\ Len(u) \in Nat
      BY <1>1, <1>2, <2>1, <2>3
    <3>2. (u \o <<x>>)[i] = <<x>>[i - Len(u)]
      BY <1>5, <3>1
    <3> QED
      BY <1>1, <1>3, <1>4, <3>1, <3>2
  <2> QED
    BY <2>2, <2>3
<1>8. v = u \o <<x>>
  BY <1>3, <1>5, <1>6, <1>7, SeqEqual
<1> QED
  BY <1>8 DEF a, u, v

\* Taking the first element off and putting it back.
LEMMA HeadOff ==
  ASSUME NEW S, NEW s \in Seq(S), s # <<>>
  PROVE  s = <<Head(s)>> \o Tail(s)
<1>1. Len(s) \in Nat \ {0} /\ Head(s) = s[1]
  BY EmptySeq
<1>2. From(s, 0) = s /\ s[0 + 1] = s[1]
  BY FromEnds
<1>3. From(s, 0) = <<s[0 + 1]>> \o From(s, 0 + 1)
  BY <1>1, FromNext
<1>4. Tail(s) = From(s, 0 + 1)
  BY TailIsSubSeq DEF From
<1> QED
  BY <1>1, <1>2, <1>3, <1>4

LEMMA TailOff ==
  ASSUME NEW S, NEW x \in S, NEW s \in Seq(S)
  PROVE  <<x>> \o s # <<>> /\ Tail(<<x>> \o s) = s
<1> DEFINE t == <<x>> \o s
<1>1. /\ <<x>> \in Seq(S) /\ Len(<<x>>) = 1 /\ Len(s) \in Nat
  BY LenProperties
<1>2. /\ t \in Seq(S) /\ Len(t) = 1 + Len(s)
      /\ \A i \in 1 .. 1 + Len(s) : t[i] = IF i <= 1 THEN <<x>>[i] ELSE s[i - 1]
  BY <1>1, ConcatProperties
<1> HIDE DEF t
<1>3. t # <<>>
  BY <1>1, <1>2, EmptySeq
<1>4. /\ Tail(t) \in Seq(S) /\ Len(Tail(t)) = Len(s)
      /\ \A i \in 1 .. Len(s) : Tail(t)[i] = t[i + 1]
  BY <1>1, <1>2, <1>3, HeadTailProperties
<1>5. \A i \in 1 .. Len(s) : Tail(t)[i] = s[i]
  BY <1>1, <1>2, <1>4
<1>6. Tail(t) = s
  BY <1>4, <1>5, SeqEqual
<1> QED
  BY <1>3, <1>6 DEF t

\* One sequence after another, in any grouping.
Joined(s, t) == s \o t

LEMMA JoinedType ==
  ASSUME NEW S, NEW s \in Seq(S), NEW t \in Seq(S)
  PROVE  Joined(s, t) \in Seq(S)
BY ConcatProperties DEF Joined

LEMMA JoinedRegroup ==
  ASSUME NEW S, NEW s \in Seq(S), NEW t \in Seq(S), NEW u \in Seq(S)
  PROVE  Joined(Joined(s, t), u) = Joined(s, Joined(t, u))
BY ConcatAssociative DEF Joined

LEMMA TasksInitially == TasksInit => TasksTypeOK
<1> SUFFICES ASSUME TasksInit PROVE TasksTypeOK
  OBVIOUS
<1>1. Len(tasks) = 0 /\ Len(returned) = 0
  BY DEF TasksInit
<1>2. \A S : <<>> \in Seq(S)
  BY EmptySeq
<1>3. /\ tasks \in Seq(1 .. sent) /\ wire \in Seq(1 .. sent) /\ last \in Seq(1 .. sent)
      /\ returned \in Seq(1 .. sent) /\ got \in Seq(1 .. sent)
  BY <1>2 DEF TasksInit
<1>4. sent \in 0 .. MaxSent /\ done \in 0 .. 0 /\ imported \in 0 .. 0
  BY TasksAssumption DEF TasksInit
<1> QED
  BY <1>1, <1>3, <1>4 DEF TasksInit, TasksTypeOK, MutexFree

LEMMA TasksStep == TasksTypeOK /\ [TasksNext]_tasksVars => TasksTypeOK'
<1> SUFFICES ASSUME TasksTypeOK, [TasksNext]_tasksVars
             PROVE  TasksTypeOK'
  OBVIOUS
<1>0. /\ Len(tasks) \in Nat /\ Len(returned) \in Nat /\ sent \in Nat /\ MaxSent \in Nat
      /\ done \in Nat /\ imported \in Nat
  BY TasksAssumption, LenProperties DEF TasksTypeOK
<1>1. CASE Send
  <2>1. /\ sent' = sent + 1 /\ sent' \in 0 .. MaxSent /\ 1 .. sent \subseteq 1 .. sent'
        /\ sent' \in 1 .. sent'
    BY <1>0, <1>1 DEF Send
  <2>2. /\ tasks \in Seq(1 .. sent') /\ wire \in Seq(1 .. sent') /\ last \in Seq(1 .. sent')
        /\ returned \in Seq(1 .. sent') /\ got \in Seq(1 .. sent')
    BY <2>1, SeqMonotonic DEF TasksTypeOK
  <2>3. tasks' \in Seq(1 .. sent') /\ Len(tasks') = Len(tasks) + 1
    BY <1>1, <2>1, <2>2, AppendProperties DEF Send
  <2> QED
    BY <1>0, <1>1, <2>1, <2>2, <2>3 DEF Send, TasksTypeOK, MutexFree, receiver
<1>2. CASE LockTasks
  BY <1>2 DEF LockTasks, TasksTypeOK, MutexFree, receiver
<1>3. CASE RunTask
  <2>1. /\ wire' \in Seq(1 .. sent) /\ done' = done + 1 /\ netPc = "run"
        /\ done < Len(tasks)
    BY <1>0, <1>3, ElementOfSeq, AppendProperties, SMTT(30) DEF RunTask, TasksTypeOK
  <2> QED
    BY <1>0, <1>3, <2>1 DEF RunTask, TasksTypeOK, MutexFree, receiver
<1>4. CASE TasksRun
  BY <1>4 DEF TasksRun, TasksTypeOK, MutexFree, receiver
<1>5. CASE EndTasks
  <2>1. tasks' \in Seq(1 .. sent) /\ Len(tasks') = 0
    BY <1>5, EmptySeq DEF EndTasks, Cleared
  <2> QED
    BY <1>0, <1>5, <2>1 DEF EndTasks, TasksTypeOK, MutexFree, receiver
<1>6. CASE End
  BY <1>6 DEF End, TasksTypeOK, MutexFree, receiver
<1>7. CASE LeaveLoop
  BY <1>7 DEF LeaveLoop, TasksTypeOK, MutexFree, receiver
<1>8. CASE Arrive
  <2>1. last' \in Seq(1 .. sent) /\ wire' \in Seq(1 .. sent)
    BY <1>8, HeadTailProperties, AppendProperties DEF Arrive, TasksTypeOK
  <2> QED
    BY <1>8, <2>1 DEF Arrive, TasksTypeOK, MutexFree, sender
<1>9. CASE Swap
  <2>1. last' \in Seq(1 .. sent) /\ returned' = last /\ imported' = 0 /\ Len(last) \in Nat
    BY <1>9, EmptySeq, LenProperties DEF Swap, Emptied, Taken, Restart, TasksTypeOK
  <2> QED
    BY <1>9, <2>1 DEF Swap, TasksTypeOK, MutexFree, sender
<1>10. CASE Import
  <2>1. got' \in Seq(1 .. sent) /\ imported' = imported + 1 /\ imported < Len(returned)
    BY <1>0, <1>10, ElementOfSeq, AppendProperties, SMTT(30) DEF Import, TasksTypeOK
  <2> QED
    BY <1>0, <1>10, <2>1 DEF Import, TasksTypeOK, MutexFree, sender
<1>11. CASE UNCHANGED tasksVars
  BY <1>11 DEF tasksVars, TasksTypeOK, MutexFree
<1> QED
  BY <1>1, <1>2, <1>3, <1>4, <1>5, <1>6, <1>7, <1>8, <1>9, <1>10, <1>11
     DEF TasksNext, NetworkThread, MainThread

\* The two threads of the sender keep the number of tasks run within the queue, and the
\* receiver the number of packets read within its mailbox, for any number of packets.
THEOREM TasksTypeCorrect == TasksSpec => []TasksTypeOK
BY TasksInitially, TasksStep, PTL DEF TasksSpec

\* The four stretches of the way, of the packets sent.
LEMMA StretchesAreSequences ==
  ASSUME TasksTypeOK, NEW S, 1 .. sent \subseteq S
  PROVE  /\ From(returned, imported) \in Seq(S) /\ last \in Seq(S)
         /\ wire \in Seq(S) /\ From(tasks, done) \in Seq(S)
         /\ tasks \in Seq(S) /\ returned \in Seq(S)
<1>1. tasks \in Seq(S) /\ returned \in Seq(S) /\ last \in Seq(S) /\ wire \in Seq(S)
  BY SeqMonotonic DEF TasksTypeOK
<1>2. done \in 0 .. Len(tasks) /\ imported \in 0 .. Len(returned)
  BY DEF TasksTypeOK
<1> QED
  BY <1>1, <1>2, FromFacts

\* A packet enters the way at its end and leaves it at its front; all other steps of the
\* threads move it along and change nothing.
LEMMA FifoStep ==
  ASSUME TasksTypeOK, [TasksNext]_tasksVars
  PROVE  [Channel!Next]_<<sent, Pending>>
<1> DEFINE S == 1 .. sent + 1
           R == From(returned, imported)
           T == From(tasks, done)
<1>0. /\ Len(tasks) \in Nat /\ Len(returned) \in Nat /\ sent \in Nat
      /\ done \in Nat /\ imported \in Nat /\ sent + 1 \in S /\ 1 .. sent \subseteq S
      /\ done \in 0 .. Len(tasks)
  BY LenProperties DEF TasksTypeOK
<1> HIDE DEF S
<1>s. /\ R \in Seq(S) /\ last \in Seq(S) /\ wire \in Seq(S) /\ T \in Seq(S)
      /\ tasks \in Seq(S) /\ returned \in Seq(S)
  BY <1>0, StretchesAreSequences
<1>i. ASSUME NEW s \in Seq(S), NEW t \in Seq(S)
      PROVE  Joined(s, t) \in Seq(S)
  BY JoinedType
<1>k. ASSUME NEW s \in Seq(S), NEW t \in Seq(S), NEW u \in Seq(S)
      PROVE  Joined(Joined(s, t), u) = Joined(s, Joined(t, u))
  BY JoinedRegroup
<1>j. /\ \A s, t \in Seq(S) : Joined(s, t) \in Seq(S)
      /\ \A s, t, u \in Seq(S) : Joined(Joined(s, t), u) = Joined(s, Joined(t, u))
  BY <1>i, <1>k
<1>p. Pending = Joined(Joined(Joined(R, last), wire), T)
  BY DEF Pending, Joined
<1>q. Pending' = Joined(Joined(Joined(From(returned', imported'), last'), wire'), From(tasks', done'))
  BY DEF Pending, Joined
<1> HIDE DEF R, T
<1>1. CASE Send
  <2> DEFINE x == <<sent + 1>>
  <2>s. tasks' = Append(tasks, sent + 1) /\ done' = done
    BY <1>1 DEF Send
  <2>a. From(Append(tasks, sent + 1), done) = From(tasks, done) \o <<sent + 1>>
    BY <1>0, <1>s, FromAppend
  <2>1. From(tasks', done') = Joined(T, x)
    BY <2>s, <2>a DEF T, Joined
  <2>2. x \in Seq(S)
    BY <1>0
  <2>3. Append(Pending, sent + 1) = Joined(Pending, x)
    <3>1. Pending \in Seq(S)
      BY <1>s, <1>j, <1>p
    <3> QED
      BY <1>0, <3>1, AppendIsConcat DEF Joined
  <2>4. /\ From(returned', imported') = R /\ last' = last /\ wire' = wire
        /\ sent' = sent + 1
    BY <1>1 DEF Send, receiver, R
  <2> HIDE DEF x
  <2>5. Joined(R, last) \in Seq(S) /\ Joined(Joined(R, last), wire) \in Seq(S)
    BY <1>s, <1>j
  <2>6. Joined(Joined(Joined(Joined(R, last), wire), T), x)
          = Joined(Joined(Joined(R, last), wire), Joined(T, x))
    BY <1>s, <1>j, <2>2, <2>5
  <2>7. Pending' = Joined(Pending, x)
    BY <1>p, <1>q, <2>1, <2>4, <2>6
  <2> QED
    BY <2>3, <2>4, <2>7 DEF Channel!Next, Channel!Send
<1>2. CASE RunTask
  <2> DEFINE t == <<tasks[done + 1]>>
             U == From(tasks, done + 1)
  <2>0. done \in Nat /\ done < Len(tasks)
    BY <1>0, <1>2 DEF RunTask
  <2>a. tasks[done + 1] \in S /\ From(tasks, done) = <<tasks[done + 1]>> \o From(tasks, done + 1)
    BY <1>s, <2>0, FromNext
  <2>1. T = Joined(t, U) /\ tasks[done + 1] \in S /\ t \in Seq(S)
    BY <2>a DEF T, Joined
  <2>2. U \in Seq(S)
    <3>1. done + 1 \in 0 .. Len(tasks)
      BY <1>0, <1>2 DEF RunTask
    <3> QED
      BY <1>s, <3>1, FromFacts
  <2>3. wire' = Joined(wire, t)
    BY <1>2, <1>s, <2>1, AppendIsConcat DEF RunTask, Joined
  <2>4. /\ From(returned', imported') = R /\ last' = last /\ From(tasks', done') = U
        /\ sent' = sent
    BY <1>2 DEF RunTask, receiver, R
  <2> HIDE DEF t, U
  <2>5. Joined(R, last) \in Seq(S) /\ Joined(Joined(R, last), wire) \in Seq(S)
    BY <1>s, <1>j
  <2>6. Joined(Joined(R, last), Joined(wire, t)) = Joined(Joined(Joined(R, last), wire), t)
    BY <1>s, <1>j, <2>1, <2>5
  <2>7. Joined(Joined(Joined(Joined(R, last), wire), t), U)
          = Joined(Joined(Joined(R, last), wire), Joined(t, U))
    BY <1>j, <2>1, <2>2, <2>5
  <2>8. Pending' = Pending
    BY <1>p, <1>q, <2>1, <2>3, <2>4, <2>6, <2>7
  <2> QED
    BY <2>4, <2>8
<1>3. CASE EndTasks
  <2>1. T = <<>> /\ From(tasks', done') = <<>>
    <3>1. <<>> \in Seq(S) /\ Len(<<>>) = 0
      BY EmptySeq
    <3>2. done = Len(tasks) /\ tasks' = <<>> /\ done' = 0
      BY <1>3 DEF EndTasks, Cleared, TasksTypeOK
    <3>3. T = <<>>
      BY <1>s, <3>2, FromEnds DEF T
    <3>4. From(tasks', done') = <<>>
      BY <3>1, <3>2, FromEnds
    <3> QED
      BY <3>3, <3>4
  <2> QED
    BY <1>3, <1>p, <1>q, <2>1 DEF EndTasks, receiver, R
<1>4. CASE Arrive
  <2> DEFINE h == <<Head(wire)>>
             W == Tail(wire)
  <2>1. wire = Joined(h, W) /\ Head(wire) \in S /\ W \in Seq(S) /\ h \in Seq(S)
    BY <1>4, <1>s, HeadOff, HeadTailProperties DEF Arrive, Joined
  <2>2. last' = Joined(last, h)
    BY <1>4, <1>s, <2>1, AppendIsConcat DEF Arrive, Joined
  <2>3. /\ From(returned', imported') = R /\ wire' = W /\ From(tasks', done') = T
        /\ sent' = sent
    BY <1>4 DEF Arrive, sender, R, T
  <2> HIDE DEF h, W
  <2>4. Joined(R, last) \in Seq(S)
    BY <1>s, <1>j
  <2>5. Joined(R, Joined(last, h)) = Joined(Joined(R, last), h)
    BY <1>s, <1>j, <2>1
  <2>6. Joined(Joined(Joined(R, last), h), W) = Joined(Joined(R, last), Joined(h, W))
    BY <1>j, <2>1, <2>4
  <2>7. Pending' = Pending
    BY <1>p, <1>q, <2>1, <2>2, <2>3, <2>5, <2>6
  <2> QED
    BY <2>3, <2>7
<1>5. CASE Swap
  <2>s. /\ imported = Len(returned) /\ last' = <<>> /\ returned' = last /\ imported' = 0
        /\ wire' = wire /\ tasks' = tasks /\ done' = done /\ sent' = sent
    BY <1>5 DEF Swap, Emptied, Taken, Restart, sender
  <2>r. R = <<>>
    BY <1>s, <2>s, FromEnds DEF R
  <2>l. From(returned', imported') = last
    BY <1>s, <2>s, FromEnds
  <2>t. From(tasks', done') = T
    BY <2>s DEF T
  <2>2. Joined(<<>>, last) = last /\ Joined(last, <<>>) = last
    BY <1>s, ConcatEmptySeq DEF Joined
  <2>3. Pending' = Pending /\ sent' = sent
    BY <1>p, <1>q, <2>s, <2>r, <2>l, <2>t, <2>2
  <2> QED
    BY <2>3
<1>6. CASE Import
  <2> DEFINE x == <<returned[imported + 1]>>
             V == From(returned, imported + 1)
             rest == Joined(Joined(Joined(V, last), wire), T)
  <2>0. imported \in Nat /\ imported < Len(returned)
    BY <1>0, <1>6 DEF Import
  <2>a. /\ returned[imported + 1] \in S
        /\ From(returned, imported) = <<returned[imported + 1]>> \o From(returned, imported + 1)
    BY <1>s, <2>0, FromNext
  <2>1. returned[imported + 1] \in S /\ R = Joined(x, V) /\ x \in Seq(S)
    BY <2>a DEF R, Joined
  <2>2. V \in Seq(S)
    <3>1. imported + 1 \in 0 .. Len(returned)
      BY <1>0, <1>6 DEF Import
    <3> QED
      BY <1>s, <3>1, FromFacts
  <2>3. Pending' = rest /\ sent' = sent
    BY <1>6, <1>q DEF Import, sender, T
  <2>h. \A s \in Seq(S) : Joined(x, s) # <<>> /\ Tail(Joined(x, s)) = s
    BY <2>1, TailOff DEF Joined
  <2> HIDE DEF x, V
  <2>4. /\ Joined(V, last) \in Seq(S) /\ Joined(Joined(V, last), wire) \in Seq(S)
        /\ rest \in Seq(S)
    BY <1>s, <1>j, <2>2
  <2>5. Joined(Joined(x, V), last) = Joined(x, Joined(V, last))
    BY <1>s, <1>j, <2>1, <2>2
  <2>6. Joined(Joined(x, Joined(V, last)), wire) = Joined(x, Joined(Joined(V, last), wire))
    BY <1>s, <1>j, <2>1, <2>4
  <2>7. Joined(Joined(x, Joined(Joined(V, last), wire)), T) = Joined(x, rest)
    BY <1>s, <1>j, <2>1, <2>4
  <2>8. Pending = Joined(x, rest)
    BY <1>p, <2>1, <2>5, <2>6, <2>7
  <2> HIDE DEF rest
  <2>9. Pending # <<>> /\ Tail(Pending) = Pending'
    BY <2>3, <2>4, <2>8, <2>h
  <2> QED
    BY <2>3, <2>9 DEF Channel!Next, Channel!Import
<1>7. CASE LockTasks \/ TasksRun \/ End \/ LeaveLoop \/ UNCHANGED tasksVars
  BY <1>7 DEF LockTasks, TasksRun, End, LeaveLoop, tasksVars, receiver, Pending
<1> QED
  BY <1>1, <1>2, <1>3, <1>4, <1>5, <1>6, <1>7 DEF TasksNext, NetworkThread, MainThread

\* The queue of tasks, the wire and both mailboxes together are one queue that loses,
\* repeats and reorders nothing, for any number of packets and every interleaving.
THEOREM FifoImplemented == TasksSpec => ImplementsFifo
<1>1. TasksInit => Channel!Init
  <2>1. <<>> \in Seq(Nat) /\ Len(<<>>) = 0
    BY EmptySeq
  <2>2. From(<<>>, 0) = <<>> /\ <<>> \o <<>> = <<>>
    BY <2>1, FromEnds, ConcatEmptySeq
  <2> QED
    BY <2>2 DEF TasksInit, Channel!Init, Pending
<1>2. TasksTypeOK /\ [TasksNext]_tasksVars => [Channel!Next]_(Channel!vars)
  BY FifoStep DEF Channel!vars
<1> QED
  BY <1>1, <1>2, TasksTypeCorrect, PTL DEF TasksSpec, ImplementsFifo, Channel!Spec

-----------------------------------------------------------------------------
(* The desync database. *)

\* What is written and what waits to be are together the rows added, in order.
Numbered ==
  /\ Len(stored) + Len(queue) = rows
  /\ \A i \in 1 .. Len(stored) : stored[i].row = i
  /\ \A i \in 1 .. Len(queue) : queue[i] = Len(stored) + i

\* The job that opens the file of a game is there once, before its tables are.
OpensOnce ==
  /\ \A i, j \in 1 .. Len(jobs) :
        jobs[i] = <<"open", game>> /\ jobs[j] = <<"open", game>> => i = j
  /\ \A i \in 1 .. Len(jobs) :
        jobs[i] = <<"open", game>> => ~opened /\ workerPc # "creating"
  /\ workerPc = "creating" => ~opened /\ db = game /\ game # 0

\* A worker that is not at the tables finds them in the file it writes to.
WithTables ==
  /\ workerPc \notin {"creating", "gone"} => db \in tables \cup {0}
  /\ TablesFirst

\* The flags say that the job runs only when it does, and the rows of the queue
\* have somebody to write them, but for those added after the job's last look.
Served ==
  /\ Running => workerPc \in {"look", "ending", "gone"}
  /\ workerPc = "ending" => Len(queue) <= blind
  /\ \/ mainPc \in {"wake", "reset"}
     \/ workerPc \in {"gone", "look"}
     \/ \E i \in 1 .. Len(jobs) : jobs[i][1] = "run"
     \/ Len(queue) <= blind

DbInv == /\ DbTypeOK /\ (mainPc # "out" => game # 0)
         /\ Numbered /\ OpensOnce /\ WithTables /\ Served

LEMMA DbInitially == DbInit => DbInv
<1> SUFFICES ASSUME DbInit PROVE DbInv
  OBVIOUS
<1>1. Len(queue) = 0 /\ Len(stored) = 0 /\ Len(jobs) = 0
  BY DEF DbInit
<1>2. \A S : <<>> \in Seq(S)
  BY EmptySeq
<1>3. /\ queue \in Seq(1 .. rows) /\ jobs \in Seq({"open", "run"} \X (1 .. game))
      /\ stored \in Seq([row : 1 .. rows, db : 0 .. game])
  BY <1>2 DEF DbInit
<1>4. /\ game \in 0 .. MaxGames /\ db \in 0 .. game /\ rows \in 0 .. MaxRows
      /\ blind \in 0 .. rows /\ Len(queue) <= Capacity /\ tables \subseteq 1 .. game
  BY <1>1, DbAssumption DEF DbInit
<1>5. DbTypeOK
  BY <1>3, <1>4 DEF DbInit, DbTypeOK
<1> QED
  BY <1>1, <1>5
     DEF DbInit, DbInv, Numbered, OpensOnce, WithTables, TablesFirst, Served, Running

\* The sequences of the database and their elements.
LEMMA DbFacts ==
  ASSUME DbInv
  PROVE  /\ Len(queue) \in Nat /\ Len(stored) \in Nat /\ Len(jobs) \in Nat
         /\ game \in Nat /\ rows \in Nat /\ blind \in Nat /\ db \in Nat
         /\ MaxRows \in Nat /\ MaxGames \in Nat /\ Capacity \in Nat
         /\ \A i \in 1 .. Len(jobs) : /\ jobs[i] \in {"open", "run"} \X (1 .. game)
                                      /\ jobs[i] = <<jobs[i][1], jobs[i][2]>>
                                      /\ jobs[i][2] <= game
         /\ \A i \in 1 .. Len(stored) : stored[i] \in [row : 1 .. rows, db : 0 .. game]
         /\ \A i \in 1 .. Len(queue) : queue[i] \in 1 .. rows
<1>1. /\ queue \in Seq(1 .. rows) /\ jobs \in Seq({"open", "run"} \X (1 .. game))
      /\ stored \in Seq([row : 1 .. rows, db : 0 .. game])
      /\ game \in Nat /\ rows \in Nat /\ blind \in Nat /\ db \in Nat
      /\ MaxRows \in Nat /\ MaxGames \in Nat /\ Capacity \in Nat
  BY DbAssumption DEF DbInv, DbTypeOK
<1>2. \A i \in 1 .. Len(jobs) : jobs[i] \in {"open", "run"} \X (1 .. game)
  BY <1>1, ElementOfSeq
<1>3. \A i \in 1 .. Len(stored) : stored[i] \in [row : 1 .. rows, db : 0 .. game]
  BY <1>1, ElementOfSeq
<1>4. \A i \in 1 .. Len(queue) : queue[i] \in 1 .. rows
  BY <1>1, ElementOfSeq
<1>5. Len(queue) \in Nat /\ Len(stored) \in Nat /\ Len(jobs) \in Nat
  BY <1>1, LenProperties
<1> QED
  BY <1>1, <1>2, <1>3, <1>4, <1>5

\* A new game: the job that opens its file is the only one of that game.
LEMMA OpenDatabaseKeeps ==
  ASSUME DbInv, OpenDatabase
  PROVE  DbInv'
<1>0. /\ game' = game + 1 /\ game \in Nat /\ game + 1 <= MaxGames
      /\ mainPc' = "game" /\ rows' = rows /\ queue' = queue /\ db' = db
      /\ tables' = tables /\ stored' = stored /\ blind' = blind
      /\ started' = FALSE /\ finished' = FALSE /\ opened' = FALSE
      /\ workerPc' \in {"idle", "gone"} /\ (workerPc' = "idle" => workerPc = "idle")
      /\ Len(jobs) \in Nat /\ rows \in Nat /\ db \in Nat /\ mainPc = "out"
  BY DbFacts DEF OpenDatabase, DbInv, DbTypeOK
<1>1. <<"open", game + 1>> \in {"open", "run"} \X (1 .. game + 1)
  BY <1>0
<1>2. jobs \in Seq({"open", "run"} \X (1 .. game + 1))
  <2>1. {"open", "run"} \X (1 .. game) \subseteq {"open", "run"} \X (1 .. game + 1)
    BY <1>0
  <2> QED
    BY <2>1, SeqMonotonic DEF DbInv, DbTypeOK
<1>3. /\ jobs' \in Seq({"open", "run"} \X (1 .. game'))
      /\ Len(jobs') = Len(jobs) + 1
      /\ \A i \in 1 .. Len(jobs) : jobs'[i] = jobs[i]
      /\ jobs'[Len(jobs) + 1] = <<"open", game + 1>>
  BY <1>0, <1>1, <1>2, AppendProperties DEF OpenDatabase
<1>4. stored \in Seq([row : 1 .. rows, db : 0 .. game + 1])
  <2>1. 0 .. game \subseteq 0 .. game + 1
    BY <1>0
  <2>2. [row : 1 .. rows, db : 0 .. game] \subseteq [row : 1 .. rows, db : 0 .. game + 1]
    BY <2>1
  <2>3. stored \in Seq([row : 1 .. rows, db : 0 .. game])
    BY DEF DbInv, DbTypeOK
  <2> QED
    BY <2>2, <2>3, SeqMonotonic
<1>5. DbTypeOK' /\ (mainPc' # "out" => game' # 0)
  <2>1. /\ game' \in 0 .. MaxGames /\ db' \in 0 .. game' /\ tables' \subseteq 1 .. game'
        /\ game' # 0
    BY <1>0, DbAssumption DEF DbInv, DbTypeOK
  <2> QED
    BY <1>0, <1>3, <1>4, <2>1 DEF DbInv, DbTypeOK
<1>6. Numbered'
  BY <1>0 DEF DbInv, Numbered
<1>7. OpensOnce'
  <2>1. ASSUME NEW i \in 1 .. Len(jobs) PROVE jobs'[i] # <<"open", game + 1>>
    <3>1. jobs[i] = <<jobs[i][1], jobs[i][2]>> /\ jobs[i][2] <= game
      BY DbFacts
    <3>2. jobs[i][2] # game + 1
      <4>1. jobs[i][2] \in 1 .. game
        BY DbFacts
      <4> QED
        BY <1>0, <4>1
    <3> QED
      BY <1>3, <3>1, <3>2
  <2>2. ASSUME NEW i \in 1 .. Len(jobs'), jobs'[i] = <<"open", game'>>
        PROVE  i = Len(jobs) + 1
    BY <1>0, <1>3, <2>1, <2>2
  <2> QED
    BY <1>0, <2>2 DEF OpensOnce
<1>8. WithTables'
  BY <1>0 DEF DbInv, WithTables, TablesFirst
<1>9. Served'
  <2>1. ASSUME NEW i \in 1 .. Len(jobs), jobs[i][1] = "run"
        PROVE  \E j \in 1 .. Len(jobs') : jobs'[j][1] = "run"
    BY <1>0, <1>3, <2>1
  <2>2. workerPc = "look" => workerPc' = "gone"
    BY DEF OpenDatabase
  <2>3. workerPc = "gone" => workerPc' = "gone"
    BY DEF OpenDatabase
  <2> QED
    BY <1>0, <2>1, <2>2, <2>3 DEF DbInv, Served, Running
<1> QED
  BY <1>5, <1>6, <1>7, <1>8, <1>9 DEF DbInv

\* A new row: RunQueries looks after it next.
LEMMA AddRowKeeps ==
  ASSUME DbInv, Add
  PROVE  DbInv'
<1>0. /\ game' = game /\ jobs' = jobs /\ workerPc' = workerPc /\ db' = db
      /\ started' = started /\ finished' = finished /\ opened' = opened
      /\ tables' = tables /\ stored' = stored /\ mainPc = "game" /\ mainPc' = "wake"
      /\ rows' = rows + 1 /\ rows < MaxRows /\ Len(queue) < Capacity
      /\ blind' = IF workerPc = "ending" THEN blind + 1 ELSE blind
      /\ rows \in Nat /\ blind \in 0 .. rows /\ Len(queue) \in Nat /\ Len(stored) \in Nat
      /\ MaxRows \in Nat /\ Capacity \in Nat
  BY DbFacts DEF Add, HasRoom, flags, DbInv, DbTypeOK
<1>1. 1 .. rows \subseteq 1 .. rows + 1 /\ rows + 1 \in 1 .. rows + 1
  BY <1>0
<1>2. queue \in Seq(1 .. rows + 1)
  BY <1>1, SeqMonotonic DEF DbInv, DbTypeOK
<1>3. /\ queue' \in Seq(1 .. rows') /\ Len(queue') = Len(queue) + 1
      /\ \A i \in 1 .. Len(queue) : queue'[i] = queue[i]
      /\ queue'[Len(queue) + 1] = rows + 1
  BY <1>0, <1>1, <1>2, AppendProperties DEF Add
<1>4. stored \in Seq([row : 1 .. rows + 1, db : 0 .. game])
  <2>1. [row : 1 .. rows, db : 0 .. game] \subseteq [row : 1 .. rows + 1, db : 0 .. game]
    BY <1>1
  <2>2. stored \in Seq([row : 1 .. rows, db : 0 .. game])
    BY DEF DbInv, DbTypeOK
  <2> QED
    BY <2>1, <2>2, SeqMonotonic
<1>5. DbTypeOK'
  <2>1. rows' \in 0 .. MaxRows /\ blind' \in 0 .. rows' /\ Len(queue') <= Capacity
    BY <1>0, <1>3
  <2> QED
    BY <1>0, <1>3, <1>4, <2>1 DEF DbInv, DbTypeOK
<1>6. Numbered'
  <2>1. Len(stored) + Len(queue) = rows
    BY DEF DbInv, Numbered
  <2>2. ASSUME NEW i \in 1 .. Len(queue') PROVE queue'[i] = Len(stored) + i
    <3>1. CASE i = Len(queue) + 1
      BY <1>0, <1>3, <2>1, <3>1
    <3>2. CASE i # Len(queue) + 1
      <4>1. i \in 1 .. Len(queue)
        BY <1>0, <1>3, <3>2
      <4> QED
        BY <1>3, <4>1 DEF DbInv, Numbered
    <3> QED
      BY <3>1, <3>2
  <2> QED
    BY <1>0, <1>3, <2>1, <2>2 DEF DbInv, Numbered
<1>7. OpensOnce' /\ WithTables' /\ (mainPc' # "out" => game' # 0)
  BY <1>0 DEF DbInv, OpensOnce, WithTables, TablesFirst
<1>8. Served'
  BY <1>0, <1>3 DEF DbInv, Served, Running
<1> QED
  BY <1>5, <1>6, <1>7, <1>8 DEF DbInv

\* The game schedules the job, whether it is scheduled or not.
LEMMA ScheduleKeeps ==
  ASSUME DbInv, ResetAndSchedule
  PROVE  DbInv'
<1>0. /\ game' = game /\ workerPc' = workerPc /\ db' = db /\ rows' = rows /\ queue' = queue
      /\ started' = FALSE /\ finished' = FALSE /\ opened' = opened /\ blind' = blind
      /\ tables' = tables /\ stored' = stored /\ mainPc = "reset" /\ mainPc' = "game"
      /\ Len(jobs) \in Nat /\ game \in Nat /\ game # 0
  BY DbFacts DEF ResetAndSchedule, DbInv
<1>1. <<"run", game>> \in {"open", "run"} \X (1 .. game)
  BY <1>0
<1>2. /\ jobs' \in Seq({"open", "run"} \X (1 .. game))
      /\ Len(jobs') = Len(jobs) + 1
      /\ \A i \in 1 .. Len(jobs) : jobs'[i] = jobs[i]
      /\ jobs'[Len(jobs) + 1] = <<"run", game>>
  BY <1>1, AppendProperties DEF ResetAndSchedule, DbInv, DbTypeOK
<1>3. DbTypeOK' /\ Numbered' /\ WithTables' /\ game' # 0
  BY <1>0, <1>2 DEF DbInv, DbTypeOK, Numbered, WithTables, TablesFirst
<1>4. OpensOnce'
  <2>1. ASSUME NEW i \in 1 .. Len(jobs'), jobs'[i] = <<"open", game'>>
        PROVE  i \in 1 .. Len(jobs) /\ jobs[i] = <<"open", game>>
    <3>1. i # Len(jobs) + 1
      BY <1>0, <1>2, <2>1
    <3> QED
      BY <1>0, <1>2, <2>1, <3>1
  <2> QED
    BY <1>0, <2>1 DEF DbInv, OpensOnce
<1>5. Served'
  <2>1. \E i \in 1 .. Len(jobs') : jobs'[i][1] = "run"
    BY <1>0, <1>2
  <2> QED
    BY <1>0, <2>1 DEF DbInv, Served, Running
<1> QED
  BY <1>3, <1>4, <1>5 DEF DbInv

\* The worker takes a job, or comes to its end with one that is no longer there.
LEMMA TakeKeeps ==
  ASSUME DbInv, Take
  PROVE  DbInv'
<1>0. /\ game' = game /\ rows' = rows /\ queue' = queue /\ mainPc' = mainPc
      /\ finished' = finished /\ opened' = opened /\ blind' = blind
      /\ tables' = tables /\ stored' = stored /\ workerPc = "idle" /\ jobs # <<>>
      /\ Len(jobs) \in Nat /\ game \in Nat
  BY DbFacts DEF Take, WorkerFree, DbInv
<1>1. /\ jobs' \in Seq({"open", "run"} \X (1 .. game)) /\ Len(jobs') = Len(jobs) - 1
      /\ \A i \in 1 .. Len(jobs') : jobs'[i] = jobs[i + 1]
      /\ Head(jobs) = jobs[1] /\ Len(jobs) >= 1
  BY <1>0, HeadTailProperties, EmptySeq DEF Take, DbInv, DbTypeOK
<1>2. \A i \in 1 .. Len(jobs') : i + 1 \in 1 .. Len(jobs) /\ jobs'[i] = jobs[i + 1]
  BY <1>0, <1>1
<1>3. /\ jobs[1] = <<jobs[1][1], jobs[1][2]>> /\ jobs[1][1] \in {"open", "run"}
      /\ jobs[1][2] \in 1 .. game
  BY <1>0, <1>1, DbFacts
<1>4. \/ /\ jobs[1][2] # game /\ workerPc' = "gone" /\ started' = started /\ db' = db
      \/ /\ jobs[1] = <<"open", game>> /\ workerPc' = "creating"
         /\ db' = game /\ started' = started /\ game # 0
      \/ /\ jobs[1] = <<"run", game>> /\ workerPc' = "look" /\ started' = TRUE /\ db' = db
  BY <1>0, <1>1, <1>3 DEF Take
<1>5. DbTypeOK' /\ (mainPc' # "out" => game' # 0) /\ Numbered'
  <2>1. (mainPc' # "out" => game' # 0) /\ Numbered'
    BY <1>0 DEF DbInv, Numbered
  <2>2. started' \in BOOLEAN
    BY <1>4 DEF DbInv, DbTypeOK
  <2>3. db' \in 0 .. game
    BY <1>0, <1>4 DEF DbInv, DbTypeOK
  <2>4. workerPc' \in {"gone", "creating", "look"}
    BY <1>4
  <2> QED
    BY <1>0, <1>1, <2>1, <2>2, <2>3, <2>4 DEF DbInv, DbTypeOK
<1>6. OpensOnce'
  <2>1. ASSUME NEW i \in 1 .. Len(jobs'), jobs'[i] = <<"open", game>>
        PROVE  /\ i + 1 \in 1 .. Len(jobs) /\ jobs[i + 1] = <<"open", game>>
               /\ ~opened /\ jobs[1] # <<"open", game>>
    <3>1. i + 1 \in 1 .. Len(jobs) /\ jobs[i + 1] = <<"open", game>> /\ i + 1 # 1
      BY <1>0, <1>1, <1>2, <2>1
    <3>2. 1 \in 1 .. Len(jobs)
      BY <1>0, <1>1
    <3> QED
      BY <3>1, <3>2 DEF DbInv, OpensOnce
  <2>2. ASSUME NEW i \in 1 .. Len(jobs'), NEW j \in 1 .. Len(jobs'),
               jobs'[i] = <<"open", game>>, jobs'[j] = <<"open", game>>
        PROVE  i = j
    <3>1. i + 1 = j + 1
      BY <2>1, <2>2 DEF DbInv, OpensOnce
    <3> QED
      BY <1>0, <1>1, <3>1
  <2>3. \A i \in 1 .. Len(jobs') :
           jobs'[i] = <<"open", game>> => ~opened /\ workerPc' # "creating"
    BY <1>4, <2>1
  <2>4. workerPc' = "creating" => ~opened /\ db' = game /\ game # 0
    <3>1. 1 \in 1 .. Len(jobs)
      BY <1>0, <1>1
    <3> QED
      BY <1>4, <3>1 DEF DbInv, OpensOnce
  <2> QED
    BY <1>0, <2>2, <2>3, <2>4 DEF OpensOnce
<1>7. WithTables'
  BY <1>0, <1>4 DEF DbInv, WithTables, TablesFirst
<1>8. Served'
  <2>1. CASE workerPc' = "creating"
    <3>1. jobs[1] = <<"open", game>> /\ started' = started
      BY <1>4, <2>1
    <3>2. ASSUME NEW i \in 1 .. Len(jobs), jobs[i][1] = "run"
          PROVE  \E j \in 1 .. Len(jobs') : jobs'[j][1] = "run"
      <4>1. i # 1 /\ i - 1 \in 1 .. Len(jobs')
        BY <1>0, <1>1, <3>1, <3>2
      <4>2. jobs'[i - 1] = jobs[i]
        BY <1>1, <4>1
      <4> QED
        BY <3>2, <4>1, <4>2
    <3> QED
      BY <1>0, <2>1, <3>1, <3>2 DEF DbInv, Served, Running
  <2>2. CASE workerPc' \in {"gone", "look"}
    BY <2>2 DEF Served
  <2> QED
    BY <1>4, <2>1, <2>2
<1> QED
  BY <1>5, <1>6, <1>7, <1>8 DEF DbInv

\* The oldest row of the queue is the next one of the file.
LEMMA RunQueryKeeps ==
  ASSUME DbInv, RunQuery
  PROVE  DbInv'
<1>0. /\ game' = game /\ rows' = rows /\ mainPc' = mainPc /\ jobs' = jobs
      /\ workerPc' = workerPc /\ workerPc = "look" /\ db' = db /\ blind' = blind
      /\ started' = started /\ finished' = finished /\ opened' = opened
      /\ tables' = tables /\ queue # <<>> /\ db \in tables \cup {0} /\ db \in 0 .. game
      /\ Len(queue) \in Nat /\ Len(stored) \in Nat /\ rows \in Nat /\ Capacity \in Nat
  BY DbFacts DEF RunQuery, flags, DbInv, DbTypeOK, WithTables
<1>1. /\ queue' \in Seq(1 .. rows) /\ Len(queue') = Len(queue) - 1
      /\ \A i \in 1 .. Len(queue') : queue'[i] = queue[i + 1]
      /\ Head(queue) = queue[1] /\ queue[1] \in 1 .. rows /\ Len(queue) >= 1
  BY <1>0, HeadTailProperties, EmptySeq DEF RunQuery, QueueAfter, DbInv, DbTypeOK
<1>2. queue[1] = Len(stored) + 1
  BY <1>0, <1>1 DEF DbInv, Numbered
<1> DEFINE new == [row |-> queue[1], db |-> db]
<1>3. new \in [row : 1 .. rows, db : 0 .. game] /\ new.row = Len(stored) + 1 /\ new.db = db
  BY <1>0, <1>1, <1>2
<1>n. stored' = Append(stored, new)
  BY <1>1 DEF RunQuery
<1> HIDE DEF new
<1>4. /\ stored' \in Seq([row : 1 .. rows, db : 0 .. game]) /\ Len(stored') = Len(stored) + 1
      /\ \A i \in 1 .. Len(stored) : stored'[i] = stored[i]
      /\ stored'[Len(stored) + 1] = new
  BY <1>3, <1>n, AppendProperties DEF DbInv, DbTypeOK
<1>5. DbTypeOK' /\ (mainPc' # "out" => game' # 0)
  <2>1. Len(queue') <= Capacity
    BY <1>0, <1>1 DEF DbInv, DbTypeOK
  <2> QED
    BY <1>0, <1>1, <1>4, <2>1 DEF DbInv, DbTypeOK
<1>6. Numbered'
  <2>n. Len(stored) + Len(queue) = rows
    BY DEF DbInv, Numbered
  <2>1. Len(stored') + Len(queue') = rows'
    <3>1. /\ Len(queue') = Len(queue) - 1 /\ Len(stored') = Len(stored) + 1 /\ rows' = rows
          /\ Len(queue) \in Nat /\ Len(stored) \in Nat /\ rows \in Nat
      BY <1>0, <1>1, <1>4
    <3> QED
      BY <2>n, <3>1
  <2>2. ASSUME NEW i \in 1 .. Len(stored') PROVE stored'[i].row = i
    <3>1. CASE i = Len(stored) + 1
      BY <1>3, <1>4, <3>1
    <3>2. CASE i # Len(stored) + 1
      <4>1. i \in 1 .. Len(stored)
        BY <1>0, <1>4, <3>2
      <4> QED
        BY <1>4, <4>1 DEF DbInv, Numbered
    <3> QED
      BY <3>1, <3>2
  <2>3. ASSUME NEW i \in 1 .. Len(queue') PROVE queue'[i] = Len(stored') + i
    <3>1. i + 1 \in 1 .. Len(queue) /\ queue'[i] = queue[i + 1] /\ i \in Int
      BY <1>0, <1>1
    <3>2. queue[i + 1] = Len(stored) + (i + 1)
      BY <3>1 DEF DbInv, Numbered
    <3> QED
      BY <1>0, <1>4, <3>1, <3>2
  <2> QED
    BY <2>1, <2>2, <2>3 DEF Numbered
<1>7. OpensOnce'
  BY <1>0 DEF DbInv, OpensOnce
<1>8. WithTables'
  <2>1. ASSUME NEW i \in 1 .. Len(stored') PROVE stored'[i].db \in tables' \cup {0}
    BY <1>0, <1>3, <1>4 DEF DbInv, WithTables, TablesFirst
  <2> QED
    BY <1>0, <2>1 DEF WithTables, TablesFirst
<1>9. Served'
  BY <1>0 DEF DbInv, Served, Running
<1> QED
  BY <1>5, <1>6, <1>7, <1>8, <1>9 DEF DbInv

LEMMA DbStep == DbInv /\ [DbNext]_dbVars => DbInv'
<1> SUFFICES ASSUME DbInv, [DbNext]_dbVars PROVE DbInv'
  OBVIOUS
<1> USE DEF DbInv, DbTypeOK, Numbered, OpensOnce, WithTables, TablesFirst, Served, Running
<1>1. CASE OpenDatabase
  BY <1>1, OpenDatabaseKeeps
<1>2. CASE Add
  BY <1>2, AddRowKeeps
<1>3. CASE Wake
  BY <1>3 DEF Wake, MayRun, flags
<1>4. CASE ResetAndSchedule
  BY <1>4, ScheduleKeeps
<1>5. CASE CloseDatabase
  BY <1>5 DEF CloseDatabase, flags
<1>6. CASE Join
  BY <1>6 DEF Join, flags
<1>7. CASE CloseFile
  <2>1. /\ game' = game /\ rows' = rows /\ jobs' = jobs /\ stored' = stored
        /\ started' = started /\ finished' = finished /\ opened' = opened
        /\ tables' = tables /\ queue' = queue
        /\ workerPc' = workerPc /\ blind' = blind /\ mainPc = "closing" /\ mainPc' = "out"
        /\ db' \in {0, db} /\ (~opened => db' = db)
    BY <1>7 DEF CloseFile, flags
  <2>2. DbTypeOK'
    BY <2>1, DbFacts
  <2>3. OpensOnce' /\ WithTables'
    BY <2>1
  <2> QED
    BY <2>1, <2>2, <2>3
<1>8. CASE Take
  BY <1>8, TakeKeeps
<1>9. CASE CreateTables
  <2>1. /\ game' = game /\ mainPc' = mainPc /\ rows' = rows /\ queue' = queue /\ jobs' = jobs
        /\ started' = started /\ finished' = finished /\ db' = db /\ stored' = stored
        /\ blind' = blind /\ workerPc = "creating" /\ workerPc' = "idle"
        /\ tables' = tables \cup {db} /\ opened' = TRUE
    BY <1>9 DEF CreateTables
  <2>2. db = game /\ game \in 0 .. MaxGames /\ game # 0 /\ MaxGames \in Nat
    BY <2>1, DbAssumption
  <2>3. db \in 1 .. game
    BY <2>2
  <2>4. DbTypeOK'
    BY <2>1, <2>3, DbFacts
  <2>5. OpensOnce'
    BY <2>1
  <2>6. WithTables'
    BY <2>1
  <2>7. Numbered'
    BY <2>1
  <2>8. Served'
    BY <2>1
  <2> QED
    BY <2>1, <2>4, <2>5, <2>6, <2>7, <2>8
<1>10. CASE RunQuery
  BY <1>10, RunQueryKeeps
<1>11. CASE FindEmpty
  <2>1. /\ game' = game /\ rows' = rows /\ jobs' = jobs /\ stored' = stored
        /\ started' = started /\ finished' = finished /\ opened' = opened
        /\ tables' = tables /\ queue' = queue
        /\ mainPc' = mainPc /\ db' = db /\ workerPc = "look" /\ workerPc' = "ending"
        /\ blind' = 0 /\ Len(queue) = 0 /\ Len(queue') = 0
    BY <1>11 DEF FindEmpty, flags
  <2>2. DbTypeOK'
    BY <2>1, DbFacts
  <2>3. OpensOnce' /\ WithTables'
    BY <2>1
  <2>4. Len(queue') <= blind'
    BY <2>1
  <2>5. Served'
    BY <2>1, <2>4
  <2> QED
    BY <2>1, <2>2, <2>3, <2>5
<1>12. CASE EndJob
  BY <1>12 DEF EndJob
<1>13. CASE UNCHANGED dbVars
  BY <1>13 DEF dbVars
<1> QED
  BY <1>1, <1>2, <1>3, <1>4, <1>5, <1>6, <1>7, <1>8, <1>9, <1>10, <1>11, <1>12, <1>13
     DEF DbNext

\* Rows are written once each, in order and into the tables of a file, and left to the
\* job only when it will find them, for any number of rows and games and any queue,
\* though the job is scheduled again and again and its flags are reset while it runs.
THEOREM DbSoundAlways == DbSpec => []DbSound
<1>1. DbInv => DbSound
  <2> SUFFICES ASSUME DbInv PROVE DbSound
    OBVIOUS
  <2>1. jobs = <<>> => Len(jobs) = 0
    OBVIOUS
  <2>2. LostOnlyAtTheEnd
    BY <2>1 DEF DbInv, Served, LostOnlyAtTheEnd
  <2> QED
    BY <2>2 DEF DbInv, DbSound, StoredInOrder, Numbered, WithTables
<1> QED
  BY <1>1, DbInitially, DbStep, PTL DEF DbSpec

-----------------------------------------------------------------------------
(* The countdown. *)

IntroTime == Minimum(0, Second - Latency) .. (Intro + Second)

PeerGame == [begun : BOOLEAN, intro : IntroTime, timer : 0 .. Period,
             frame : 0 .. Period, total : 0 .. Period + 1]

Chain == [at : {"nowhere", "to_master", "to_follower", "setting"},
          answer : {0, 1}, age : 0 .. Latency]

\* The frames of a game and those that are left are never more than it has.
Fits(g) == g.frame + g.timer <= Period

\* The master has counted down once: until then it has not played, and since then the
\* frames it has played and those that are left make a game.
CountedOnce(g) ==
  /\ g.frame = g.total
  /\ g.total + g.timer = IF Over(g.intro) THEN Period ELSE 0

IntroInv ==
  /\ peerGame \in [Peers -> PeerGame] /\ chain \in [Chains -> Chain] /\ pingTimer \in 1 .. Second
  /\ \A p \in Peers : Fits(peerGame[p])
  /\ CountedOnce(peerGame["master"])
  /\ AnswersAfterStart

\* The times of the countdown, as numbers.
LEMMA IntroTimes ==
  /\ Intro \in Nat /\ Intro > 0 /\ Second \in Nat /\ Second > 0
  /\ Period \in Nat /\ Period > 0 /\ Latency \in Nat /\ Latency > 0
  /\ Minimum(0, Second - Latency) \in Int
  /\ Minimum(0, Second - Latency) <= 0 /\ Minimum(0, Second - Latency) <= Second - Latency
BY IntroAssumption DEF Minimum

LEMMA IntroInitially == IntroInit => IntroInv
<1> SUFFICES ASSUME IntroInit PROVE IntroInv
  OBVIOUS
<1>1. NewGame \in PeerGame /\ NoPing \in Chain
  BY IntroTimes DEF NewGame, NoPing, PeerGame, IntroTime, Chain
<1>2. Fits(NewGame) /\ CountedOnce(NewGame)
  BY IntroTimes DEF NewGame, Fits, CountedOnce, Over
<1>3. \A c \in Chains : chain[c].answer = 0
  BY DEF IntroInit, NoPing
<1>4. pingTimer \in 1 .. Second
  BY IntroTimes DEF IntroInit
<1> QED
  BY <1>1, <1>2, <1>3, <1>4 DEF IntroInit, IntroInv, AnswersAfterStart, Peers

\* A frame of the main loop, of any peer: the countdown never goes up.
LEMMA UpdateKeeps ==
  ASSUME NEW g \in PeerGame, Fits(g)
  PROVE  /\ Update(g) \in PeerGame /\ Fits(Update(g))
         /\ Over(g.intro) => Over(Update(g).intro)
         /\ CountedOnce(g) => CountedOnce(Update(g))
<1> DEFINE counted == IF Over(g.intro) THEN g ELSE CountDown(g)
<1>1. /\ g.begun \in BOOLEAN /\ g.intro \in IntroTime /\ g.intro \in Int
      /\ g.timer \in 0 .. Period /\ g.frame \in 0 .. Period /\ g.total \in 0 .. Period + 1
      /\ g.frame + g.timer <= Period
      /\ Period \in Nat
  BY IntroTimes DEF PeerGame, Fits, IntroTime
<1>2. /\ counted \in PeerGame /\ Fits(counted)
      /\ Over(g.intro) => Over(counted.intro)
      /\ CountedOnce(g) => CountedOnce(counted)
  <2>1. CASE Over(g.intro)
    BY <2>1
  <2>2. CASE ~Over(g.intro)
    <3> DEFINE left == g.intro - 1
    <3>1. left \in IntroTime /\ left \in Int
      BY <1>1, <2>2, IntroTimes DEF IntroTime, Over
    <3>2. CASE Over(left)
      <4>1. counted = [g EXCEPT !.intro = left, !.frame = 0, !.timer = Period]
        BY <2>2, <3>2 DEF CountDown
      <4>2. /\ counted \in PeerGame /\ counted.intro = left /\ counted.frame = 0
            /\ counted.timer = Period /\ counted.total = g.total
        <5>1. 0 \in 0 .. Period /\ Period \in 0 .. Period
          BY <1>1
        <5> QED
          BY <3>1, <4>1, <5>1 DEF PeerGame
      <4> HIDE DEF counted
      <4> QED
        BY <1>1, <2>2, <3>2, <4>2 DEF Fits, CountedOnce
    <3>3. CASE ~Over(left)
      <4>1. counted = [g EXCEPT !.intro = left]
        BY <2>2, <3>3 DEF CountDown
      <4>2. /\ counted \in PeerGame /\ counted.intro = left /\ counted.frame = g.frame
            /\ counted.timer = g.timer /\ counted.total = g.total
        BY <1>1, <3>1, <4>1 DEF PeerGame
      <4> HIDE DEF counted
      <4> QED
        BY <1>1, <2>2, <3>3, <4>2 DEF Fits, CountedOnce
    <3> QED
      BY <3>2, <3>3
  <2> QED
    BY <2>1, <2>2
<1>3. Update(g) = IF ~g.begun THEN g
                  ELSE IF Over(counted.intro) /\ ~Over(counted.timer) THEN Play(counted)
                  ELSE counted
  BY DEF Update
<1> HIDE DEF counted
<1>4. CASE ~g.begun \/ ~(Over(counted.intro) /\ ~Over(counted.timer))
  BY <1>2, <1>3, <1>4
<1>5. CASE g.begun /\ Over(counted.intro) /\ ~Over(counted.timer)
  <2> DEFINE played == Play(counted)
  <2>1. Update(g) = played
    BY <1>3, <1>5
  <2>2. /\ counted.timer \in 0 .. Period /\ counted.frame \in 0 .. Period
        /\ counted.total \in 0 .. Period + 1 /\ counted.frame + counted.timer <= Period
        /\ counted.timer > 0
    BY <1>1, <1>2, <1>5 DEF PeerGame, Fits, Over
  <2>3. /\ counted.timer - 1 \in 0 .. Period /\ counted.frame + 1 \in 0 .. Period
        /\ Minimum(counted.total + 1, Period + 1) \in 0 .. Period + 1
    BY <1>1, <2>2 DEF Minimum
  <2>4. /\ played \in PeerGame /\ played.timer = counted.timer - 1
        /\ played.frame = counted.frame + 1 /\ played.intro = counted.intro
        /\ played.total = Minimum(counted.total + 1, Period + 1)
    BY <1>2, <2>3 DEF Play, PeerGame
  <2> HIDE DEF played
  <2>5. Fits(played)
    BY <1>1, <2>2, <2>4 DEF Fits
  <2>6. CountedOnce(counted) => CountedOnce(played)
    BY <1>1, <1>5, <2>2, <2>4 DEF CountedOnce, Minimum
  <2> QED
    BY <1>2, <1>5, <2>1, <2>4, <2>5, <2>6
<1> QED
  BY <1>4, <1>5

\* A frame of both programs.
LEMMA IntroFrameKeeps ==
  ASSUME IntroInv, IntroFrame
  PROVE  IntroInv'
<1>1. /\ peerGame \in [Peers -> PeerGame] /\ chain \in [Chains -> Chain]
      /\ pingTimer \in 1 .. Second /\ AnswersAfterStart
      /\ Second \in Nat /\ Second > 0 /\ Latency \in Nat
  BY IntroTimes DEF IntroInv
<1>2. \A p \in Peers : /\ peerGame[p] \in PeerGame /\ Fits(peerGame[p])
                       /\ peerGame'[p] = Update(peerGame[p])
  BY <1>1 DEF IntroInv, IntroFrame
<1>3. peerGame' \in [Peers -> PeerGame] /\ \A p \in Peers : Fits(peerGame'[p])
  <2>1. \A p \in Peers : Update(peerGame[p]) \in PeerGame /\ Fits(Update(peerGame[p]))
    BY <1>2, UpdateKeeps
  <2> QED
    BY <1>2, <2>1 DEF IntroFrame
<1>4. /\ CountedOnce(peerGame'["master"])
      /\ Over(peerGame["master"].intro) => Over(peerGame'["master"].intro)
  <2>1. "master" \in Peers /\ CountedOnce(peerGame["master"])
    BY DEF Peers, IntroInv
  <2> QED
    BY <1>2, <2>1, UpdateKeeps
<1>5. pingTimer' \in 1 .. Second
  BY <1>1 DEF IntroFrame, PingsNow
<1>6. chain' \in [Chains -> Chain] /\ \A c \in Chains : chain'[c].answer \in {0, chain[c].answer}
  <2>1. ASSUME NEW c \in Chains
        PROVE  /\ Older(c) \in Chain /\ Older(c).answer = chain[c].answer
               /\ Ping \in Chain /\ Ping.answer = 0
    <3>1. chain[c] \in Chain /\ chain[c].age \in 0 .. Latency /\ chain[c].age < Latency
      BY <1>1 DEF IntroFrame, Chain
    <3>2. chain[c].age + 1 \in 0 .. Latency
      BY <1>1, <3>1
    <3> QED
      BY <1>1, <3>1, <3>2 DEF Older, Ping, Chain
  <2>2. \/ chain' = [c \in Chains |-> Older(c)]
        \/ \E new : chain' = [c \in Chains |-> IF c = new THEN Ping ELSE Older(c)]
    BY DEF IntroFrame
  <2> QED
    BY <2>1, <2>2
<1>7. AnswersAfterStart'
  BY <1>1, <1>4, <1>6 DEF AnswersAfterStart
<1> QED
  BY <1>3, <1>4, <1>5, <1>6, <1>7 DEF IntroInv

\* A message is answered, heard or lost: only a master that has started answers 1, and
\* what a follower hears sets the countdown of the follower.
LEMMA MessageKeeps ==
  ASSUME IntroInv, NEW c \in Chains, Deliver(c) \/ Lose(c)
  PROVE  IntroInv'
<1>1. /\ peerGame \in [Peers -> PeerGame] /\ chain \in [Chains -> Chain] /\ chain[c] \in Chain
      /\ pingTimer' = pingTimer /\ AnswersAfterStart
      /\ Latency \in Nat /\ Latency > 0
  BY IntroTimes DEF IntroInv, Deliver, MasterAnswers, FollowerHears, FollowerSets, Lose
<1>2. Ping \in Chain /\ NoPing \in Chain /\ Ping.answer = 0 /\ NoPing.answer = 0
  BY <1>1 DEF Ping, NoPing, Chain
<1>3. CASE MasterAnswers(c)
  <2> DEFINE answer == [at |-> "to_follower", answer |-> GetIntroRemainingTime, age |-> 0]
  <2>1. answer \in Chain
    BY <1>1 DEF GetIntroRemainingTime, Chain
  <2>2. answer.answer = 1 => Over(peerGame["master"].intro)
    BY DEF GetIntroRemainingTime
  <2>3. chain' = [chain EXCEPT ![c] = answer] /\ peerGame' = peerGame
    BY <1>3 DEF MasterAnswers
  <2> HIDE DEF answer
  <2> QED
    BY <1>1, <2>1, <2>2, <2>3 DEF IntroInv, AnswersAfterStart
<1>4. CASE FollowerHears(c)
  <2> DEFINE heard == IF chain[c].answer = 1 /\ Counting("follower")
                      THEN [chain[c] EXCEPT !.at = "setting", !.age = 0] ELSE Ping
  <2>1. chain' = [chain EXCEPT ![c] = heard] /\ peerGame' = peerGame
    BY <1>4 DEF FollowerHears
  <2>2. heard \in Chain
    <3>1. 0 \in 0 .. Latency
      BY <1>1
    <3>2. [chain[c] EXCEPT !.at = "setting", !.age = 0] \in Chain
      BY <1>1, <3>1 DEF Chain
    <3> QED
      BY <1>2, <3>2
  <2>3. heard.answer = 1 => chain[c].answer = 1
    BY <1>1, <1>2 DEF Chain
  <2> HIDE DEF heard
  <2> QED
    BY <1>1, <2>1, <2>2, <2>3 DEF IntroInv, AnswersAfterStart
<1>5. CASE FollowerSets(c)
  <2>1. PICK half \in 0 .. Latency :
           peerGame' = [peerGame EXCEPT !["follower"].intro = Second - half]
    BY <1>5 DEF FollowerSets
  <2>2. Second - half \in IntroTime
    BY IntroTimes DEF IntroTime
  <2>3. peerGame["follower"] \in PeerGame /\ "follower" \in Peers /\ "master" \in Peers
    BY <1>1 DEF Peers
  <2> DEFINE g == [peerGame["follower"] EXCEPT !.intro = Second - half]
  <2>4. g \in PeerGame /\ g.frame = peerGame["follower"].frame /\ g.timer = peerGame["follower"].timer
    BY <2>2, <2>3 DEF PeerGame
  <2>5. peerGame' = [peerGame EXCEPT !["follower"] = g]
    BY <2>1
  <2> HIDE DEF g
  <2>6. peerGame' \in [Peers -> PeerGame] /\ \A p \in Peers : Fits(peerGame'[p])
    BY <1>1, <2>3, <2>4, <2>5 DEF IntroInv, Fits
  <2>7. peerGame'["master"] = peerGame["master"]
    BY <1>1, <2>3, <2>5
  <2>8. chain' = [chain EXCEPT ![c] = Ping]
    BY <1>5 DEF FollowerSets
  <2> QED
    BY <1>1, <1>2, <2>6, <2>7, <2>8 DEF IntroInv, AnswersAfterStart
<1>6. CASE Lose(c)
  BY <1>1, <1>2, <1>6 DEF Lose, IntroInv, AnswersAfterStart
<1> QED
  BY <1>3, <1>4, <1>5, <1>6 DEF Deliver

LEMMA IntroStep == IntroInv /\ [IntroNext]_introVars => IntroInv'
<1> SUFFICES ASSUME IntroInv, [IntroNext]_introVars PROVE IntroInv'
  OBVIOUS
<1>1. CASE IntroFrame
  BY <1>1, IntroFrameKeeps
<1>2. ASSUME NEW p \in Peers, Begin(p) PROVE IntroInv'
  <2> DEFINE g == [peerGame[p] EXCEPT !.begun = TRUE]
  <2>1. /\ g \in PeerGame /\ g.frame = peerGame[p].frame /\ g.timer = peerGame[p].timer
        /\ g.intro = peerGame[p].intro /\ g.total = peerGame[p].total
    BY DEF IntroInv, PeerGame
  <2>2. peerGame' = [peerGame EXCEPT ![p] = g] /\ chain' = chain /\ pingTimer' = pingTimer
    BY <1>2 DEF Begin
  <2> HIDE DEF g
  <2>3. peerGame' \in [Peers -> PeerGame] /\ \A q \in Peers : Fits(peerGame'[q])
    BY <2>1, <2>2 DEF IntroInv, Fits
  <2>4. /\ peerGame'["master"].frame = peerGame["master"].frame
        /\ peerGame'["master"].timer = peerGame["master"].timer
        /\ peerGame'["master"].intro = peerGame["master"].intro
        /\ peerGame'["master"].total = peerGame["master"].total
    BY <2>1, <2>2 DEF IntroInv, Peers
  <2> QED
    BY <2>2, <2>3, <2>4 DEF IntroInv, CountedOnce, AnswersAfterStart
<1>3. ASSUME NEW c \in Chains, Deliver(c) \/ Lose(c) PROVE IntroInv'
  BY <1>3, MessageKeeps
<1>4. CASE UNCHANGED introVars
  BY <1>4 DEF introVars, IntroInv, AnswersAfterStart
<1> QED
  BY <1>1, <1>2, <1>3, <1>4 DEF IntroNext

\* The master counts down and plays once, and an answer sets the countdown of a follower
\* only after the master has started (client.cpp:157-189), for any times, any latency and
\* any number of pings under way, lost or not.
THEOREM IntroSoundAlways == IntroSpec => []IntroSound
<1>1. IntroInv => IntroSound
  <2> SUFFICES ASSUME IntroInv PROVE IntroSound
    OBVIOUS
  <2>1. \A p \in Peers : peerGame[p] \in PeerGame
    BY DEF IntroInv
  <2>2. \A c \in Chains : chain[c] \in Chain
    BY DEF IntroInv
  <2>3. IntroTypeOK
    BY <2>1, <2>2 DEF IntroInv, IntroTypeOK, PeerGame, IntroTime, Chain
  <2>4. MasterPlaysOnce
    <3>1. "master" \in Peers
      BY DEF Peers
    <3>2. /\ peerGame["master"].timer \in 0 .. Period /\ peerGame["master"].total \in 0 .. Period + 1
          /\ Period \in Nat
      BY <2>1, <3>1, IntroTimes DEF PeerGame
    <3> QED
      BY <3>2 DEF IntroInv, CountedOnce, MasterPlaysOnce
  <2> QED
    BY <2>3, <2>4 DEF IntroInv, IntroSound
<1> QED
  BY <1>1, IntroInitially, IntroStep, PTL DEF IntroSpec

-----------------------------------------------------------------------------
(* Loading. *)

\* The skeletons are numbered from 1 to 27.
LEMMA SkeletonNumbers == Skeletons = 1 .. 27 /\ Cardinality(Skeletons) = 27
<1>1. Folder \in Seq(Nat) /\ Len(Folder) = 27
  BY DEF Folder
<1>2. Skeletons = 1 .. 27
  BY <1>1, LenProperties DEF Skeletons
<1>3. \A n \in Nat : Cardinality(1 .. n) = n
  BY FirstNumbers
<1> QED
  BY <1>2, <1>3

LEMMA Folders ==
  ASSUME NEW i \in 1 .. 27
  PROVE  /\ i = 1 => Folder[i] = 1
         /\ i = 2 => Folder[i] = 2
         /\ i \in 3 .. 6 => Folder[i] = 3
         /\ i \in 7 .. 10 => Folder[i] = 4
         /\ i = 11 => Folder[i] = 5
         /\ i = 12 => Folder[i] = 6
         /\ i = 13 => Folder[i] = 7
         /\ i >= 14 => Folder[i] = 8
<1>1. /\ Folder[1] = 1 /\ Folder[2] = 2 /\ Folder[3] = 3 /\ Folder[4] = 3 /\ Folder[5] = 3
      /\ Folder[6] = 3 /\ Folder[7] = 4 /\ Folder[8] = 4 /\ Folder[9] = 4 /\ Folder[10] = 4
      /\ Folder[11] = 5 /\ Folder[12] = 6 /\ Folder[13] = 7
  BY DEF Folder
<1>2. /\ Folder[14] = 8 /\ Folder[15] = 8 /\ Folder[16] = 8 /\ Folder[17] = 8 /\ Folder[18] = 8
      /\ Folder[19] = 8 /\ Folder[20] = 8 /\ Folder[21] = 8 /\ Folder[22] = 8 /\ Folder[23] = 8
      /\ Folder[24] = 8 /\ Folder[25] = 8 /\ Folder[26] = 8 /\ Folder[27] = 8
  BY DEF Folder
<1>3. i >= 14 => i \in {14, 15, 16, 17, 18, 19, 20, 21, 22, 23, 24, 25, 26, 27}
  OBVIOUS
<1>4. i \in 3 .. 6 => i \in {3, 4, 5, 6}
  OBVIOUS
<1>5. i \in 7 .. 10 => i \in {7, 8, 9, 10}
  OBVIOUS
<1>6. i >= 14 => Folder[i] = 8
  BY <1>2, <1>3
<1> QED
  BY <1>1, <1>4, <1>5, <1>6

\* The atlas the loop has got to when it makes a skeleton is the one of its folder.
LEMMA FolderReached ==
  ASSUME NEW i \in Skeletons
  PROVE  AtlasFor(i) = Folder[i]
<1> USE DEF AtlasFor
<1>0. i \in 1 .. 27
  BY SkeletonNumbers
<1>1. Passed(i) = {k \in 1 .. 27 : k \notin {3, 4, 5, 7, 8, 9} /\ k < i}
  BY SkeletonNumbers DEF Passed
<1>2. \A S, x : IsFiniteSet(S) /\ x \notin S =>
                IsFiniteSet(S \cup {x}) /\ Cardinality(S \cup {x}) = Cardinality(S) + 1
  BY FS_AddElement
<1> DEFINE c1 == {1}       c2 == {1, 2}        c3 == {1, 2, 6}
           c4 == {1, 2, 6, 10}                 c5 == {1, 2, 6, 10, 11}
           c6 == {1, 2, 6, 10, 11, 12}         c7 == {1, 2, 6, 10, 11, 12, 13}
<1>3. IsFiniteSet({}) /\ Cardinality({}) = 0
  BY FS_EmptySet
<1>4. IsFiniteSet(c1) /\ Cardinality(c1) = 1
  BY FS_Singleton
<1>5. IsFiniteSet(c2) /\ Cardinality(c2) = 2
  <2>1. c2 = c1 \cup {2} /\ 2 \notin c1
    OBVIOUS
  <2> QED
    BY <1>2, <1>4, <2>1
<1>6. IsFiniteSet(c3) /\ Cardinality(c3) = 3
  <2>1. c3 = c2 \cup {6} /\ 6 \notin c2
    OBVIOUS
  <2> QED
    BY <1>2, <1>5, <2>1
<1>7. IsFiniteSet(c4) /\ Cardinality(c4) = 4
  <2>1. c4 = c3 \cup {10} /\ 10 \notin c3
    OBVIOUS
  <2> QED
    BY <1>2, <1>6, <2>1
<1>8. IsFiniteSet(c5) /\ Cardinality(c5) = 5
  <2>1. c5 = c4 \cup {11} /\ 11 \notin c4
    OBVIOUS
  <2> QED
    BY <1>2, <1>7, <2>1
<1>9. IsFiniteSet(c6) /\ Cardinality(c6) = 6
  <2>1. c6 = c5 \cup {12} /\ 12 \notin c5
    OBVIOUS
  <2> QED
    BY <1>2, <1>8, <2>1
<1>10. IsFiniteSet(c7) /\ Cardinality(c7) = 7
  <2>1. c7 = c6 \cup {13} /\ 13 \notin c6
    OBVIOUS
  <2> QED
    BY <1>2, <1>9, <2>1
<1>11. CASE i = 1
  <2>1. Passed(i) = {}
    BY <1>1, <1>11
  <2> QED
    BY <1>3, <1>11, <1>0, <2>1, Folders DEF Smaller
<1>12. CASE i = 2
  <2>1. Passed(i) = c1
    BY <1>1, <1>12
  <2> QED
    BY <1>4, <1>12, <1>0, <2>1, Folders DEF Smaller
<1>13. CASE i \in 3 .. 6
  <2>1. Passed(i) = c2
    BY <1>1, <1>13
  <2> QED
    BY <1>5, <1>13, <1>0, <2>1, Folders DEF Smaller
<1>14. CASE i \in 7 .. 10
  <2>1. Passed(i) = c3
    BY <1>1, <1>14
  <2> QED
    BY <1>6, <1>14, <1>0, <2>1, Folders DEF Smaller
<1>15. CASE i = 11
  <2>1. Passed(i) = c4
    BY <1>1, <1>15
  <2> QED
    BY <1>7, <1>15, <1>0, <2>1, Folders DEF Smaller
<1>16. CASE i = 12
  <2>1. Passed(i) = c5
    BY <1>1, <1>16
  <2> QED
    BY <1>8, <1>16, <1>0, <2>1, Folders DEF Smaller
<1>17. CASE i = 13
  <2>1. Passed(i) = c6
    BY <1>1, <1>17
  <2> QED
    BY <1>9, <1>17, <1>0, <2>1, Folders DEF Smaller
<1>18. CASE i >= 14
  <2>1. c7 \subseteq Passed(i)
    BY <1>0, <1>1, <1>18
  <2>2. IsFiniteSet(Passed(i))
    <3>1. Passed(i) \in SUBSET (1 .. 27)
      BY <1>1
    <3>2. IsFiniteSet(1 .. 27)
      <4>1. \A n \in Nat : IsFiniteSet(1 .. n)
        BY FirstNumbers
      <4> QED
        BY <4>1
    <3> QED
      BY <3>1, <3>2, FS_Subset
  <2>3. 7 <= Cardinality(Passed(i)) /\ Cardinality(Passed(i)) \in Nat
    BY <1>10, <2>1, <2>2, FS_Subset, FS_CardinalityType
  <2> QED
    BY <1>0, <1>18, <2>3, Folders DEF Smaller
<1> QED
  BY <1>0, <1>11, <1>12, <1>13, <1>14, <1>15, <1>16, <1>17, <1>18

\* The images of which a texture can be made.
Makeable == Sound("texture", Sound("pixels", Textures))

\* Textures, atlases and skeletons are made in order and none is passed over; an image is
\* freed with its texture, if one can be made of it; an atlas has the page of its own
\* number unless an atlas before it had none.
TexturesInOrder ==
  /\ \A i \in textures \cup freed : i <= published
  /\ \A i \in textures, j \in Textures : j < i /\ j \in Makeable => j \in textures

FreedWithTexture ==
  /\ \A i \in freed : i \in textures \/ broken = <<"pixels", i>>
  /\ heap # "sound" => broken \in {"pixels"} \X Textures

PagesInOrder ==
  \E k \in 0 .. 8 :
     /\ DOMAIN page = 1 .. k
     /\ pages <= k
     /\ (\A a \in 1 .. k : page[a] # 0) => pages = k
     /\ \A a \in 1 .. k : a \in Sound("atlas", Atlases) => page[a] # 0

SkeletonsInOrder ==
  \E k \in 0 .. 27 :
     /\ DOMAIN atlasOf = 1 .. k
     /\ k # 0 => DOMAIN page = Atlases
     /\ data \subseteq 1 .. k
     /\ \A i \in Sound("skeleton", 1 .. k) : page[Folder[i]] # 0 => i \in data

LoaderInv == /\ LoaderTypeOK /\ TexturesInOrder /\ FreedWithTexture
             /\ PagesInOrder /\ OwnTexture
             /\ SkeletonsInOrder /\ OwnAtlas

LEMMA LoaderInitially == LoaderInit => LoaderInv
<1> SUFFICES ASSUME LoaderInit PROVE LoaderInv
  OBVIOUS
<1>1. DOMAIN page = {} /\ DOMAIN atlasOf = {} /\ 1 .. 0 = {}
  BY DEF LoaderInit, None
<1>2. LoaderTypeOK
  <2>1. made \in 0 .. (Plain + 8) /\ published \in {made, made - 1} /\ pages \in 0 .. 8
    BY LoaderAssumption DEF LoaderInit
  <2> QED
    BY <1>1, <2>1 DEF LoaderInit, LoaderTypeOK
<1>3. PagesInOrder
  <2>1. DOMAIN page = 1 .. 0 /\ pages = 0 /\ 0 \in 0 .. 8
    BY <1>1 DEF LoaderInit
  <2> QED
    BY <2>1 DEF PagesInOrder
<1>4. SkeletonsInOrder
  <2>1. DOMAIN atlasOf = 1 .. 0 /\ data = {} /\ Sound("skeleton", 1 .. 0) = {} /\ 0 \in 0 .. 27
    BY <1>1 DEF LoaderInit, Sound
  <2> QED
    BY <2>1 DEF SkeletonsInOrder
<1> QED
  BY <1>1, <1>2, <1>3, <1>4 DEF LoaderInit, LoaderInv, TexturesInOrder, FreedWithTexture,
                                      OwnTexture, OwnAtlas

\* The job only gets further.
LEMMA JobKeeps ==
  ASSUME LoaderInv, Job
  PROVE  LoaderInv'
<1>1. /\ broken' = broken /\ textures' = textures /\ freed' = freed /\ heap' = heap
      /\ pages' = pages /\ page' = page /\ atlasOf' = atlasOf /\ data' = data
  BY DEF Job, MakeSurface, Publish, LoadBanks, images, spine
<1>2. /\ made' \in 0 .. (Plain + 8) /\ published' \in {made', made' - 1} /\ fmod' \in BOOLEAN
      /\ published <= published' /\ published \in Int /\ published' \in Int
  <2>0. /\ made \in 0 .. (Plain + 8) /\ published \in {made, made - 1} /\ fmod \in BOOLEAN
        /\ made \in Int /\ published \in Int /\ Plain \in Nat
    BY LoaderAssumption DEF LoaderInv, LoaderTypeOK
  <2>1. CASE MakeSurface
    BY <2>0, <2>1, LoaderAssumption DEF MakeSurface, LoaderInv, LoaderTypeOK
  <2>2. CASE Publish
    BY <2>0, <2>2 DEF Publish, Publishes, LoaderInv, LoaderTypeOK
  <2>3. CASE LoadBanks
    BY <2>0, <2>3 DEF LoadBanks, LoaderInv, LoaderTypeOK
  <2> QED
    BY <2>1, <2>2, <2>3 DEF Job
<1>3. LoaderTypeOK'
  BY <1>1, <1>2 DEF LoaderInv, LoaderTypeOK
<1>4. TexturesInOrder'
  <2>1. \A i \in textures \cup freed : i \in Int /\ i <= published
    BY LoaderAssumption DEF LoaderInv, LoaderTypeOK, Textures, TexturesInOrder
  <2> QED
    BY <1>1, <1>2, <2>1 DEF LoaderInv, TexturesInOrder, Makeable, Sound
<1> QED
  BY <1>1, <1>3, <1>4
     DEF LoaderInv, FreedWithTexture, PagesInOrder, OwnTexture, SkeletonsInOrder, OwnAtlas, Sound

LEMMA TexturesKeep ==
  ASSUME LoaderInv, NEW n \in Textures, UpdateTexturesLoad(n)
  PROVE  LoaderInv'
<1> DEFINE t == (1 .. n) \ textures
<1>1. /\ broken' = broken /\ made' = made /\ published' = published /\ fmod' = fmod
      /\ pages' = pages /\ page' = page /\ atlasOf' = atlasOf /\ data' = data
      /\ textures' = textures \cup Sound("texture", Sound("pixels", t)) /\ n <= published
      /\ freed' = freed \cup Sound("texture", t)
      /\ heap' \in IF freed \cap t = {} THEN {heap} ELSE {"damaged", "aborted"}
      /\ n \in 1 .. Plain + 8 /\ published \in Int /\ Plain \in Nat
  BY LoaderAssumption
     DEF UpdateTexturesLoad, Tried, Reached, job, spine, Textures, LoaderInv, LoaderTypeOK
<1>2. 1 .. n \subseteq Textures
  <2>1. published <= Plain + 8
    BY LoaderAssumption DEF LoaderInv, LoaderTypeOK
  <2> QED
    BY <1>1, <2>1 DEF Textures
<1>3. textures' \subseteq Textures /\ freed' \subseteq Textures
  BY <1>1, <1>2 DEF Sound, LoaderInv, LoaderTypeOK
<1>4. TexturesInOrder'
  <2>1. ASSUME NEW i \in textures' \cup freed' PROVE i <= published
    BY <1>1, <2>1 DEF Sound, LoaderInv, TexturesInOrder
  <2>2. ASSUME NEW i \in textures', NEW j \in Textures, j < i, j \in Makeable
        PROVE  j \in textures'
    <3>1. CASE i \in textures
      BY <1>1, <2>2, <3>1 DEF LoaderInv, TexturesInOrder
    <3>2. CASE i \in 1 .. n
      <4>1. j \in 1 .. n
        BY <1>1, <2>2, <3>2 DEF Textures
      <4> QED
        BY <1>1, <2>2, <4>1 DEF Makeable, Sound
    <3> QED
      BY <1>1, <2>2, <3>1, <3>2 DEF Sound
  <2>3. Makeable' = Makeable
    BY <1>1 DEF Makeable, Sound
  <2> QED
    BY <1>1, <2>1, <2>2, <2>3 DEF TexturesInOrder
<1>5. FreedWithTexture'
  <2>1. ASSUME NEW i \in freed' PROVE i \in textures' \/ broken = <<"pixels", i>>
    <3>1. CASE i \in freed
      BY <1>1, <3>1 DEF LoaderInv, FreedWithTexture
    <3>2. CASE i \in Sound("texture", t)
      BY <1>1, <3>2 DEF Sound
    <3> QED
      BY <1>1, <2>1, <3>1, <3>2
  <2>2. heap' # "sound" => broken \in {"pixels"} \X Textures
    <3>1. CASE freed \cap t = {}
      BY <1>1, <3>1 DEF LoaderInv, FreedWithTexture
    <3>2. CASE freed \cap t # {}
      <4>1. PICK i \in freed : i \notin textures
        BY <3>2
      <4>2. broken = <<"pixels", i>> /\ i \in Textures
        BY <4>1 DEF LoaderInv, LoaderTypeOK, FreedWithTexture
      <4> QED
        BY <4>2
    <3> QED
      BY <3>1, <3>2
  <2> QED
    BY <1>1, <2>1, <2>2 DEF FreedWithTexture
<1>6. LoaderTypeOK'
  <2>1. heap' \in {"sound", "damaged", "aborted"}
    BY <1>1 DEF LoaderInv, LoaderTypeOK
  <2> QED
    BY <1>1, <1>3, <2>1 DEF LoaderInv, LoaderTypeOK
<1> QED
  BY <1>1, <1>4, <1>5, <1>6
     DEF LoaderInv, PagesInOrder, OwnTexture, SkeletonsInOrder, OwnAtlas, Sound

\* The next atlas takes the next page, which has its number if all before it had one.
LEMMA AtlasKeeps ==
  ASSUME LoaderInv, LoadAtlas
  PROVE  LoaderInv'
<1>1. PICK k \in 0 .. 8 : /\ DOMAIN page = 1 .. k
                          /\ pages <= k
                          /\ (\A a \in 1 .. k : page[a] # 0) => pages = k
                          /\ \A a \in 1 .. k : a \in Sound("atlas", Atlases) => page[a] # 0
  BY DEF LoaderInv, PagesInOrder
<1>2. Cardinality(DOMAIN page) = k
  <2>1. Cardinality(1 .. k) = IF 1 > k THEN 0 ELSE k - 1 + 1
    BY FS_Interval
  <2> QED
    BY <1>1, <2>1
<1> DEFINE reads == k + 1 \in Sound("atlas", Atlases)
<1>3. /\ broken' = broken /\ made' = made /\ published' = published /\ fmod' = fmod
      /\ textures' = textures /\ freed' = freed /\ heap' = heap
      /\ atlasOf' = atlasOf /\ data' = data
      /\ k + 1 \in 1 .. 8
      /\ page' = [b \in 1 .. k \cup {k + 1} |->
                    IF b # k + 1 THEN page[b] ELSE IF reads THEN pages + 1 ELSE 0]
      /\ pages' = IF reads THEN pages + 1 ELSE pages
  BY <1>1, <1>2 DEF LoadAtlas, NextPage, job, images, Atlases
<1>4. 1 .. k \cup {k + 1} = 1 .. k + 1 /\ pages \in Nat /\ k + 1 \in 0 .. 8
  BY <1>1, <1>3 DEF LoaderInv, LoaderTypeOK
<1> HIDE DEF reads
<1>5. /\ DOMAIN page' = 1 .. k + 1
      /\ \A b \in 1 .. k : page'[b] = page[b]
      /\ page'[k + 1] = IF reads THEN pages + 1 ELSE 0
  BY <1>3, <1>4
<1>6. PagesInOrder'
  <2>1. pages' <= k + 1
    BY <1>1, <1>3, <1>4
  <2>2. (\A a \in 1 .. k + 1 : page'[a] # 0) => pages' = k + 1
    <3> SUFFICES ASSUME \A a \in 1 .. k + 1 : page'[a] # 0 PROVE pages' = k + 1
      OBVIOUS
    <3>1. k + 1 \in 1 .. k + 1 /\ \A a \in 1 .. k : a \in 1 .. k + 1
      BY <1>1
    <3>2. reads /\ \A a \in 1 .. k : page[a] # 0
      BY <1>5, <3>1
    <3> QED
      BY <1>1, <1>3, <3>2
  <2>3. ASSUME NEW a \in 1 .. k + 1, a \in Sound("atlas", Atlases) PROVE page'[a] # 0
    <3>1. CASE a \in 1 .. k
      BY <1>1, <1>5, <2>3, <3>1
    <3>2. CASE a = k + 1
      BY <1>4, <1>5, <2>3, <3>2 DEF reads
    <3> QED
      BY <1>1, <2>3, <3>1, <3>2
  <2>4. Sound("atlas", Atlases)' = Sound("atlas", Atlases)
    BY <1>3 DEF Sound
  <2> QED
    BY <1>4, <1>5, <2>1, <2>2, <2>3, <2>4 DEF PagesInOrder
<1>7. OwnTexture'
  <2> SUFFICES ASSUME NEW a \in 1 .. k + 1, page'[a] \notin {0, a}
               PROVE  \E b \in 1 .. k + 1 : b < a /\ page'[b] = 0
    BY <1>5 DEF OwnTexture
  <2>1. CASE a \in 1 .. k
    <3>1. PICK b \in 1 .. k : b < a /\ page[b] = 0
      BY <1>1, <1>5, <2>1 DEF LoaderInv, OwnTexture
    <3>2. b \in 1 .. k + 1 /\ page'[b] = 0
      BY <1>1, <1>5, <3>1
    <3> QED
      BY <3>1, <3>2
  <2>2. CASE a = k + 1
    <3>1. page'[a] = pages + 1 /\ pages # k
      BY <1>5, <2>2
    <3>2. PICK b \in 1 .. k : page[b] = 0
      BY <1>1, <3>1
    <3>3. b \in 1 .. k + 1 /\ b < a /\ page'[b] = 0
      BY <1>1, <1>5, <2>2, <3>2
    <3> QED
      BY <3>3
  <2> QED
    BY <1>1, <2>1, <2>2
<1>8. SkeletonsInOrder'
  <2>1. PICK l \in 0 .. 27 : /\ DOMAIN atlasOf = 1 .. l
                             /\ l # 0 => DOMAIN page = Atlases
                             /\ data \subseteq 1 .. l
    BY DEF LoaderInv, SkeletonsInOrder
  <2>2. l = 0
    <3>1. DOMAIN page # 1 .. 8
      <4>1. k + 1 \notin 1 .. k /\ k + 1 \in 1 .. 8
        BY <1>3
      <4> QED
        BY <1>1, <4>1
    <3> QED
      BY <2>1, <3>1 DEF Atlases
  <2>3. 0 \in 0 .. 27 /\ 1 .. 0 = {}
    OBVIOUS
  <2> QED
    BY <1>3, <2>1, <2>2, <2>3 DEF SkeletonsInOrder, Sound
<1>9. LoaderTypeOK'
  <2>1. pages' \in 0 .. 8 /\ DOMAIN page' \subseteq Atlases
    BY <1>1, <1>3, <1>4, <1>5 DEF Atlases
  <2> QED
    BY <1>3, <2>1 DEF LoaderInv, LoaderTypeOK
<1> QED
  BY <1>3, <1>6, <1>7, <1>8, <1>9 DEF LoaderInv, TexturesInOrder, FreedWithTexture,
                                      Makeable, OwnAtlas, Sound

\* The next skeleton is made of the atlas of its folder.
LEMMA SkeletonKeeps ==
  ASSUME LoaderInv, LoadSkeleton
  PROVE  LoaderInv'
<1>1. PICK k \in 0 .. 27 : /\ DOMAIN atlasOf = 1 .. k
                           /\ k # 0 => DOMAIN page = Atlases
                           /\ data \subseteq 1 .. k
                           /\ \A i \in Sound("skeleton", 1 .. k) : page[Folder[i]] # 0 => i \in data
  BY DEF LoaderInv, SkeletonsInOrder
<1>2. PICK i \in Skeletons \ Made :
         /\ \A j \in Skeletons \ Made : i <= j
         /\ atlasOf' = [j \in DOMAIN atlasOf \cup {i} |-> IF j = i THEN AtlasFor(i) ELSE atlasOf[j]]
         /\ data' = IF Readable(i) THEN data \cup {i} ELSE data
  BY DEF LoadSkeleton
<1>3. i = k + 1 /\ i \in 1 .. 27 /\ i \in Skeletons
  <2>1. Skeletons \ Made = {j \in 1 .. 27 : j > k}
    <3>1. Skeletons = 1 .. 27 /\ Made = 1 .. k
      BY <1>1, SkeletonNumbers DEF Made
    <3>2. (1 .. 27) \ (1 .. k) = {j \in 1 .. 27 : j > k}
      OBVIOUS
    <3> QED
      BY <3>1, <3>2
  <2>2. i \in 1 .. 27 /\ i > k /\ k + 1 \in 1 .. 27 /\ k + 1 > k
    BY <1>1, <1>2, <2>1
  <2>3. i <= k + 1
    BY <1>2, <2>1, <2>2
  <2> QED
    BY <1>1, <1>2, <2>2, <2>3
<1>4. atlasOf' = [j \in 1 .. k \cup {k + 1} |-> IF j = k + 1 THEN Folder[i] ELSE atlasOf[j]]
  BY <1>1, <1>2, <1>3, FolderReached
<1>5. 1 .. k \cup {k + 1} = 1 .. k + 1 /\ k + 1 \in 0 .. 27
  BY <1>1, <1>3
<1>6. /\ broken' = broken /\ made' = made /\ published' = published /\ fmod' = fmod
      /\ textures' = textures /\ freed' = freed /\ heap' = heap
      /\ pages' = pages /\ page' = page /\ DOMAIN page = Atlases
  BY DEF LoadSkeleton, job, images
<1>7. /\ data' \subseteq 1 .. k + 1
      /\ \A j \in Sound("skeleton", 1 .. k + 1) : page[Folder[j]] # 0 => j \in data'
  <2>1. data \subseteq data' /\ data' \subseteq data \cup {k + 1}
    BY <1>2, <1>3
  <2>2. data' \subseteq 1 .. k + 1
    BY <1>1, <1>5, <2>1
  <2>3. ASSUME NEW j \in Sound("skeleton", 1 .. k + 1), page[Folder[j]] # 0
        PROVE  j \in data'
    <3>1. CASE j \in 1 .. k
      BY <1>1, <2>1, <2>3, <3>1 DEF Sound
    <3>2. CASE j = i
      <4>1. Readable(i)
        BY <1>3, <2>3, <3>2, FolderReached DEF Readable, Sound
      <4> QED
        BY <1>2, <3>2, <4>1
    <3> QED
      BY <1>3, <1>5, <2>3, <3>1, <3>2 DEF Sound
  <2> QED
    BY <2>2, <2>3
<1>8. SkeletonsInOrder'
  <2>1. /\ DOMAIN atlasOf' = 1 .. k + 1
        /\ Sound("skeleton", 1 .. k + 1)' = Sound("skeleton", 1 .. k + 1)
    BY <1>4, <1>5, <1>6 DEF Sound
  <2> QED
    BY <1>5, <1>6, <1>7, <2>1 DEF SkeletonsInOrder
<1>9. OwnAtlas'
  <2>1. \A j \in 1 .. k : atlasOf[j] = Folder[j]
    BY <1>1 DEF LoaderInv, OwnAtlas
  <2> QED
    BY <1>1, <1>3, <1>4, <2>1 DEF OwnAtlas
<1>10. LoaderTypeOK'
  <2>1. DOMAIN atlasOf' \subseteq Skeletons /\ data' \subseteq DOMAIN atlasOf'
    <3>1. DOMAIN atlasOf' = 1 .. k + 1
      BY <1>4, <1>5
    <3>2. 1 .. k + 1 \subseteq 1 .. 27
      BY <1>5
    <3> QED
      BY <1>7, <3>1, <3>2, SkeletonNumbers
  <2> QED
    BY <1>6, <2>1 DEF LoaderInv, LoaderTypeOK
<1> QED
  BY <1>6, <1>8, <1>9, <1>10
     DEF LoaderInv, TexturesInOrder, FreedWithTexture, Makeable, PagesInOrder, OwnTexture, Sound

LEMMA LoaderStep == LoaderInv /\ [LoaderNext]_loaderVars => LoaderInv'
<1> SUFFICES ASSUME LoaderInv, [LoaderNext]_loaderVars PROVE LoaderInv'
  OBVIOUS
<1>1. CASE Job
  BY <1>1, JobKeeps
<1>2. ASSUME NEW n \in Textures, UpdateTexturesLoad(n) PROVE LoaderInv'
  BY <1>2, TexturesKeep
<1>3. CASE LoadAtlas
  BY <1>3, AtlasKeeps
<1>4. CASE LoadSkeleton
  BY <1>4, SkeletonKeeps
<1>5. CASE UNCHANGED loaderVars
  <2>1. Makeable' = Makeable
    BY <1>5 DEF loaderVars, Makeable, Sound
  <2> QED
    BY <1>5, <2>1 DEF loaderVars, LoaderInv, LoaderTypeOK, TexturesInOrder, FreedWithTexture,
                      PagesInOrder, OwnTexture, SkeletonsInOrder, OwnAtlas, Sound
<1> QED
  BY <1>1, <1>2, <1>3, <1>4, <1>5 DEF LoaderNext, LoadFrame

\* Looking at the last texture, atlas and skeleton is enough to know that all are there
\* that can be, a broken atlas costing its own skeletons and no others; every skeleton and
\* atlas is made of what belongs to it, and no image is freed twice unless no texture can
\* be made of it (texture_manager.cpp:174-215, spine_manager.cpp:135-242), for any number
\* of textures, whichever file is broken and wherever the frames run out of time.
THEOREM LoaderSoundAlways == LoaderSpec => []LoaderSound
<1>1. LoaderInv => LoaderSound
  <2> SUFFICES ASSUME LoaderInv PROVE LoaderSound
    OBVIOUS
  <2>1. AfterTheSurface
    <3>1. \A i \in textures \cup freed : i \in Int /\ i <= published
      BY LoaderAssumption DEF LoaderInv, LoaderTypeOK, Textures, TexturesInOrder
    <3>2. published <= made /\ made \in Int /\ published \in Int
      BY LoaderAssumption DEF LoaderInv, LoaderTypeOK
    <3> QED
      BY <3>1, <3>2 DEF AfterTheSurface
  <2>2. IsTexturesLoaded => Makeable \subseteq textures
    <3> SUFFICES ASSUME Plain + 8 \in textures, NEW j \in Makeable
                 PROVE  j \in textures
      BY DEF IsTexturesLoaded
    <3>1. j \in Textures /\ (j < Plain + 8 \/ j = Plain + 8)
      BY LoaderAssumption DEF Makeable, Sound, Textures
    <3> QED
      BY <3>1 DEF LoaderInv, TexturesInOrder
  <2>3. IsSpineLoaded =>
           /\ DOMAIN page = Atlases
           /\ {i \in Sound("skeleton", Skeletons) : Folder[i] \in Sound("atlas", Atlases)} \subseteq data
    <3> SUFFICES ASSUME 8 \in DOMAIN page, 27 \in data
                 PROVE  /\ DOMAIN page = Atlases
                        /\ \A i \in Sound("skeleton", Skeletons) :
                              Folder[i] \in Sound("atlas", Atlases) => i \in data
      BY SkeletonNumbers DEF IsSpineLoaded
    <3>1. PICK k \in 0 .. 8 : /\ DOMAIN page = 1 .. k
                              /\ \A a \in 1 .. k : a \in Sound("atlas", Atlases) => page[a] # 0
      BY DEF LoaderInv, PagesInOrder
    <3>2. k = 8
      BY <3>1
    <3>3. PICK l \in 0 .. 27 :
             /\ data \subseteq 1 .. l
             /\ \A i \in Sound("skeleton", 1 .. l) : page[Folder[i]] # 0 => i \in data
      BY DEF LoaderInv, SkeletonsInOrder
    <3>4. l = 27
      BY <3>3
    <3>5. \A a \in Sound("atlas", Atlases) : page[a] # 0
      BY <3>1, <3>2 DEF Atlases, Sound
    <3> QED
      BY <3>1, <3>2, <3>3, <3>4, <3>5, SkeletonNumbers DEF Atlases
  <2>4. FreedOnce
    BY DEF LoaderInv, FreedWithTexture, FreedOnce
  <2> QED
    BY <2>1, <2>2, <2>3, <2>4 DEF LoaderInv, LoaderSound, LastIsAll, Makeable
<1> QED
  BY <1>1, LoaderInitially, LoaderStep, PTL DEF LoaderSpec

-----------------------------------------------------------------------------
(* Side by side: a behaviour of the composition is one of each machine. *)

LEMMA PartsStep ==
  ASSUME [Next]_vars
  PROVE  /\ [RegistryNext]_registryVars /\ [LoaderNext]_loaderVars /\ [DbNext]_dbVars
         /\ [TasksNext]_tasksVars /\ [IntroNext]_introVars
BY DEF Next, vars, OfRegistry, OfLoader, OfDb, OfTasks, OfIntro

LEMMA Parts == Spec => RegistrySpec /\ LoaderSpec /\ DbSpec /\ TasksSpec /\ IntroSpec
<1>1. Init => RegistryInit /\ LoaderInit /\ DbInit /\ TasksInit /\ IntroInit
  BY DEF Init
<1> QED
  BY <1>1, PartsStep, PTL DEF Spec, RegistrySpec, LoaderSpec, DbSpec, TasksSpec, IntroSpec

\* The queues of the packets and the countdowns are sound together, in the composition
\* that is model-checked and for every value of its constants.
THEOREM NetworkSoundAlways == Spec => []NetworkSound
BY Parts, TasksTypeCorrect, IntroSoundAlways, PTL DEF NetworkSound
=============================================================================
