------------------------------ MODULE Registry ------------------------------
(***************************************************************************)
(* The table of systems of the engine (engine.cpp:11-129): a vector whose   *)
(* slots are reused, each system knowing the index of its slot.  The main   *)
(* loop goes through the vector while the systems it updates construct and  *)
(* end others (splash.cpp:104-127, game_manager.cpp:137-143), and so does   *)
(* EndEngine while every system removes itself.  The tables of GUI, draw    *)
(* and event interfaces work the same way.  Slots are counted from 1.       *)
(***************************************************************************)
EXTENDS Naturals, Sequences, FiniteSets

CONSTANTS Systems,   \* the systems that may exist
          Null,      \* nullptr
          Reserved   \* systems_.reserve (10)

ASSUME RegistryAssumption == /\ Null \notin Systems /\ IsFiniteSet(Systems)
                             /\ Reserved \in Nat /\ Cardinality(Systems) <= Reserved

VARIABLES slots,    \* systems_
          index,    \* systemIndex_ of each system, 0 before the first SetSystemIndex
          at, end,  \* the pass of the loop: the slot it is at and the end of it, 0 outside
          alive,    \* history: the systems added and not removed
          stays,    \* history: those that have been so since the pass began
          updated   \* history: those of them the pass has updated

table == <<slots, index>>
pass == <<at, end>>
registryVars == <<slots, index, at, end, alive, stays, updated>>

RegistryInit == /\ slots = <<>> /\ index = [x \in Systems |-> 0] /\ at = 0 /\ end = 0
                /\ alive = {} /\ stays = {} /\ updated = {}

-----------------------------------------------------------------------------
\* Mutant: slots are not reused.
FreeSlots_None == {}

\* The slots that a removed system has left.
FreeSlots == {i \in 1..Len(slots) : slots[i] = Null}

\* Mutant: the first slot is taken as it is.
FirstFree_Front == 1

FirstFree == CHOOSE i \in FreeSlots : \A j \in FreeSlots : i <= j

\* Systems are added by constructors, outside a pass or in the update of another system.
AddSystem(x) ==
    /\ x \notin alive
    /\ IF FreeSlots # {}
       THEN /\ slots' = [slots EXCEPT ![FirstFree] = x]
            /\ index' = [index EXCEPT ![x] = FirstFree]
       ELSE /\ slots' = Append(slots, x)
            /\ index' = [index EXCEPT ![x] = Len(slots) + 1]
    /\ alive' = alive \cup {x}
    /\ UNCHANGED <<pass, stays, updated>>

\* Mutant: the systems behind move up.
Without_Erased(x) == SubSeq(slots, 1, index[x] - 1) \o SubSeq(slots, index[x] + 1, Len(slots))

Without(x) == [slots EXCEPT ![index[x]] = Null]

\* Every system removes itself once, when it is ended.
RemoveSystem(x) ==
    /\ x \in alive
    /\ slots' = Without(x)
    /\ alive' = alive \ {x} /\ stays' = stays \ {x} /\ updated' = updated \ {x}
    /\ UNCHANGED <<index, pass>>

\* A pass of RunEngine or EndEngine: the end of the vector is taken at its start.
BeginPass == /\ at = 0
             /\ at' = 1 /\ end' = Len(slots) + 1
             /\ stays' = alive /\ updated' = {}
             /\ UNCHANGED <<table, alive>>

\* Mutant: an empty slot ends the pass.
NextSlot_Breaks(i) == IF slots[i] = Null THEN end ELSE i + 1

NextSlot(i) == i + 1

\* The system in the slot is updated, an empty slot is passed over.
Visit == /\ at # 0 /\ at < end
         /\ updated' = IF slots[at] = Null THEN updated ELSE updated \cup {slots[at]}
         /\ at' = NextSlot(at)
         /\ UNCHANGED <<table, end, alive, stays>>

EndPass == /\ at # 0 /\ at = end
           /\ at' = 0 /\ end' = 0
           /\ UNCHANGED <<table, alive, stays, updated>>

RegistryNext == \/ \E x \in Systems : AddSystem(x) \/ RemoveSystem(x)
                \/ BeginPass \/ Visit \/ EndPass

RegistrySpec == RegistryInit /\ [][RegistryNext]_registryVars

-----------------------------------------------------------------------------
RegistryTypeOK == /\ slots \in Seq(Systems \cup {Null})
                  /\ index \in [Systems -> Nat]
                  /\ at \in Nat /\ end \in Nat
                  /\ at = 0 => end = 0
                  /\ at # 0 => at <= end /\ end <= Len(slots) + 1
                  /\ alive \subseteq Systems /\ stays \subseteq alive /\ updated \subseteq alive

\* A system that was added and not removed is in the slot it remembers, so that removing
\* it never clears the slot of another; every other slot is empty (engine.cpp:126).
OwnSlot == /\ \A x \in alive : index[x] \in 1..Len(slots) /\ slots[index[x]] = x
           /\ \A i \in 1..Len(slots) : slots[i] # Null => slots[i] \in alive /\ index[slots[i]] = i

\* The vector is never longer than what was reserved when it was empty: no push_back in
\* the middle of a pass moves it away from under the loop (engine.cpp:109, 92).
NeverMoves == Len(slots) <= Reserved

\* A pass updates every system that is there from its start to its end, and none twice.
UpdatesAll == at # 0 => \A x \in stays : (x \in updated <=> index[x] < at)

\* The loop finds every system in its place, however the table changes under it.
RegistrySound == RegistryTypeOK /\ OwnSlot /\ NeverMoves /\ UpdatesAll

\* The table stands for a set of systems.
Set == INSTANCE SystemSet WITH systems <- {slots[i] : i \in 1..Len(slots)} \ {Null}
ImplementsSet == Set!Spec
=============================================================================
