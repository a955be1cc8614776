----------------------------- MODULE SystemSet ------------------------------
(***************************************************************************)
(* What the engine promises to its systems: AddSystem and RemoveSystem      *)
(* change a set, one system at a time, and touch no other system.           *)
(***************************************************************************)
CONSTANT Systems
VARIABLE systems

Init == systems = {}

Add(x) == x \notin systems /\ systems' = systems \cup {x}

Remove(x) == x \in systems /\ systems' = systems \ {x}

Next == \E x \in Systems : Add(x) \/ Remove(x)

Spec == Init /\ [][Next]_systems
=============================================================================
