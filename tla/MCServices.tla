----------------------------- MODULE MCServices -----------------------------
(***************************************************************************)
(* The machines around a game, side by side: the table of systems           *)
(* (Registry), loading (Loader), the database of rows (DesyncDb), the way   *)
(* of a packet (NetworkTasks) and the countdown (IntroSync).  They share no *)
(* state.  A behaviour is one of them, the others stay as they begin.       *)
(***************************************************************************)
EXTENDS Registry, Loader, DesyncDb, NetworkTasks, IntroSync

VARIABLE part

vars == <<part, registryVars, loaderVars, dbVars, tasksVars, introVars>>

\* Which file is broken matters to loading only.
Init == /\ part \in {"registry", "loader", "db", "tasks", "intro"}
        /\ RegistryInit /\ LoaderInit /\ DbInit /\ TasksInit /\ IntroInit
        /\ part # "loader" => broken = <<"none", 1>>

OfRegistry(A) == part = "registry" /\ A /\ UNCHANGED <<part, loaderVars, dbVars, tasksVars, introVars>>
OfLoader(A) == part = "loader" /\ A /\ UNCHANGED <<part, registryVars, dbVars, tasksVars, introVars>>
OfDb(A) == part = "db" /\ A /\ UNCHANGED <<part, registryVars, loaderVars, tasksVars, introVars>>
OfTasks(A) == part = "tasks" /\ A /\ UNCHANGED <<part, registryVars, loaderVars, dbVars, introVars>>
OfIntro(A) == part = "intro" /\ A /\ UNCHANGED <<part, registryVars, loaderVars, dbVars, tasksVars>>

Next == \/ OfRegistry(RegistryNext) \/ OfLoader(LoaderNext) \/ OfDb(DbNext)
        \/ OfTasks(TasksNext) \/ OfIntro(IntroNext)

Spec == Init /\ [][Next]_vars

\* The worker and the main loop go on, and a frame has time for something now and then.
LoaderFair == WF_vars(OfLoader(Job)) /\ WF_vars(OfLoader(LoadFrame))

\* Both loops go on (engine.cpp:71, client.cpp:401) and reliable events arrive.
TasksFair == /\ WF_vars(OfTasks(NetworkThread))
             /\ WF_vars(OfTasks(Arrive))
             /\ WF_vars(OfTasks(MainThread))

\* Time passes, however many messages come (a frame waits for those that are due), the
\* network threads run, the start event arrives.
IntroFair == /\ SF_vars(OfIntro(IntroFrame))
             /\ \A p \in Peers : WF_vars(OfIntro(Begin(p)))
             /\ \A c \in Chains : WF_vars(OfIntro(Deliver(c)))

FairSpec == Spec /\ LoaderFair /\ TasksFair /\ IntroFair

\* The queues hold what was sent, and the countdown of nobody is moved ahead of the
\* master's (client.cpp:157-189).
NetworkSound == TasksTypeOK /\ IntroSound
=============================================================================
