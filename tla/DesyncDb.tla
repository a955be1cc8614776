------------------------------ MODULE DesyncDb ------------------------------
(***************************************************************************)
(* The desync database (utils/game_db.cpp), built with ENABLE_DESYNC_DEBUG: *)
(* the game adds rows to a bounded queue and schedules a job that writes    *)
(* them, unless it is running; one worker runs the jobs in the order in     *)
(* which they were scheduled.  The job itself and its flags belong to a     *)
(* library of which the code uses HasStarted, IsDone, Reset and Join.       *)
(***************************************************************************)
EXTENDS Naturals, Sequences

CONSTANTS MaxRows,   \* bound: rows added
          MaxGames,  \* bound: games played
          Capacity   \* of the queue (50)

ASSUME DbAssumption == MaxRows \in Nat /\ MaxGames \in Nat /\ Capacity \in Nat \ {0}

VARIABLES game,      \* number of the game, 0 before the first
          mainPc,    \* control point of the game: "out", "game", "wake", "reset", "join", "closing"
          rows,      \* rows added so far, numbered over all games
          queue,     \* queries
          jobs,      \* the worker's queue: <<kind, game>>
          workerPc,  \* control point of the worker: "idle", "creating", "look", "ending", "gone"
          started, finished,  \* flags of runQueriesJob_
          opened,    \* openJob_ is done
          db,        \* the game whose file db_ is open, 0 for nullptr
          tables,    \* games whose tables exist
          stored,    \* rows written: [row, game of the file, 0 for a failed query]
          blind      \* history: rows added between the last look of a job and its end

dbVars == <<game, mainPc, rows, queue, jobs, workerPc, started, finished, opened, db, tables,
            stored, blind>>
flags == <<started, finished, opened>>

DbInit == /\ game = 0 /\ mainPc = "out" /\ rows = 0 /\ queue = <<>> /\ jobs = <<>>
          /\ workerPc = "idle" /\ started = FALSE /\ finished = FALSE /\ opened = FALSE
          /\ db = 0 /\ tables = {} /\ stored = <<>> /\ blind = 0

Running == started /\ ~finished

-----------------------------------------------------------------------------
\* GameManager::Begin: new jobs replace those of the last game; one that runs is destroyed,
\* which is taken for the end of the worker.
OpenDatabase ==
    /\ mainPc = "out" /\ game < MaxGames
    /\ game' = game + 1 /\ mainPc' = "game"
    /\ jobs' = Append(jobs, <<"open", game + 1>>)
    /\ started' = FALSE /\ finished' = FALSE /\ opened' = FALSE
    /\ workerPc' = IF workerPc = "idle" THEN "idle" ELSE "gone"
    /\ UNCHANGED <<rows, queue, db, tables, stored, blind>>

\* Mutant: the queue takes one more than it holds.
HasRoom_OneMore == Len(queue) <= Capacity

HasRoom == Len(queue) < Capacity

\* AddConfirmFrame, AddLocalInput, AddRemoteInput: nothing without a database; push waits
\* while the queue is full.
Add == /\ mainPc = "game" /\ db # 0 /\ rows < MaxRows /\ HasRoom
       /\ rows' = rows + 1 /\ queue' = Append(queue, rows + 1) 
       /\ blind' = IF workerPc = "ending" THEN blind + 1 ELSE blind
       /\ mainPc' = "wake"
       /\ UNCHANGED <<game, jobs, workerPc, flags, db, tables, stored>>

\* Mutant: a job that was started once is never scheduled again.
MayRun_Once == started

\* RunQueries leaves a running job alone.
MayRun == Running

\* RunQueries looks at the flags.
Wake == /\ mainPc = "wake"
        /\ mainPc' = IF MayRun THEN "game" ELSE "reset"
        /\ UNCHANGED <<game, rows, queue, jobs, workerPc, flags, db, tables, stored, blind>>

\* RunQueries schedules the job, also one that is scheduled and has not started.
ResetAndSchedule ==
    /\ mainPc = "reset" /\ mainPc' = "game"
    /\ started' = FALSE /\ finished' = FALSE
    /\ jobs' = Append(jobs, <<"run", game>>)
    /\ UNCHANGED <<game, rows, queue, workerPc, opened, db, tables, stored, blind>>

\* CloseDatabase: a running job is waited for.
CloseDatabase ==
    /\ mainPc = "game"
    /\ mainPc' = CASE db = 0 -> "out" [] db # 0 /\ Running -> "join" [] OTHER -> "closing"
    /\ UNCHANGED <<game, rows, queue, jobs, workerPc, flags, db, tables, stored, blind>>

Join == /\ mainPc = "join" /\ finished
        /\ mainPc' = "closing"
        /\ UNCHANGED <<game, rows, queue, jobs, workerPc, flags, db, tables, stored, blind>>

CloseFile == /\ mainPc = "closing" /\ mainPc' = "out"
             /\ db' = IF opened THEN 0 ELSE db
             /\ UNCHANGED <<game, rows, queue, jobs, workerPc, flags, tables, stored, blind>>

-----------------------------------------------------------------------------
\* Mutant: there are two workers.
WorkerFree_TwoWorkers == workerPc \in {"idle", "creating"}

\* The only worker has nothing to do.
WorkerFree == workerPc = "idle"

\* The worker takes a job; one of an earlier game was destroyed, likewise.
Take == /\ WorkerFree /\ jobs # <<>> /\ jobs' = Tail(jobs)
        /\ IF Head(jobs)[2] # game THEN workerPc' = "gone" /\ UNCHANGED <<started, db>>
           ELSE IF Head(jobs)[1] = "open"
           THEN workerPc' = "creating" /\ db' = game /\ UNCHANGED started
           ELSE workerPc' = "look" /\ started' = TRUE /\ UNCHANGED db
        /\ UNCHANGED <<game, mainPc, rows, queue, finished, opened, tables, stored, blind>>

\* The open job creates the tables in the file it opened.
CreateTables == /\ workerPc = "creating" /\ workerPc' = "idle"
                /\ tables' = tables \cup {db} /\ opened' = TRUE
                /\ UNCHANGED <<game, mainPc, rows, queue, jobs, started, finished, db, stored, blind>>

\* Mutant: a row that was written stays in the queue.
QueueAfter_Kept == queue
QueueAfter == Tail(queue)

\* The job writes the oldest row, or finds none.
RunQuery == /\ workerPc = "look" /\ queue # <<>>
            /\ stored' = Append(stored, [row |-> Head(queue), db |-> db])
            /\ queue' = QueueAfter
            /\ UNCHANGED <<game, mainPc, rows, jobs, workerPc, flags, db, tables, blind>>

FindEmpty == /\ workerPc = "look" /\ queue = <<>>
             /\ workerPc' = "ending" /\ blind' = 0
             /\ UNCHANGED <<game, mainPc, rows, queue, jobs, flags, db, tables, stored>>

EndJob == /\ workerPc = "ending" /\ workerPc' = "idle"
          /\ finished' = TRUE
          /\ UNCHANGED <<game, mainPc, rows, queue, jobs, started, opened, db, tables, stored, blind>>

DbNext == OpenDatabase \/ Add \/ Wake \/ ResetAndSchedule \/ CloseDatabase \/ Join \/ CloseFile
          \/ Take \/ CreateTables \/ RunQuery \/ FindEmpty \/ EndJob

DbSpec == DbInit /\ [][DbNext]_dbVars

-----------------------------------------------------------------------------
DbTypeOK == /\ game \in 0..MaxGames /\ db \in 0..game /\ tables \subseteq 1..game
            /\ mainPc \in {"out", "game", "wake", "reset", "join", "closing"}
            /\ workerPc \in {"idle", "creating", "look", "ending", "gone"}
            /\ rows \in 0..MaxRows /\ queue \in Seq(1..rows) /\ Len(queue) <= Capacity
            /\ jobs \in Seq({"open", "run"} \X (1..game))
            /\ {started, finished, opened} \subseteq BOOLEAN
            /\ stored \in Seq([row : 1..rows, db : 0..game]) /\ blind \in 0..rows

\* Rows are written once each and in the order added, over all games, though the job may
\* be scheduled many times over and its flags reset while it runs.
StoredInOrder == \A i \in 1..Len(stored) : stored[i].row = i

\* Rows are written to a file that has its tables, though the game adds them as soon as
\* the file is open: there is one worker for both jobs.
TablesFirst == \A i \in 1..Len(stored) : stored[i].db \in tables \cup {0}

\* The job is left alone only when it is about to find the rows itself, save for those
\* added after its last look at the queue: no others wait with nobody to write them.
LostOnlyAtTheEnd ==
    mainPc = "game" /\ workerPc = "idle" /\ jobs = <<>> => Len(queue) <= blind

\* What the job writes is what the game added, into the tables it made.
DbSound == DbTypeOK /\ StoredInOrder /\ TablesFirst /\ LostOnlyAtTheEnd

\* "Register states in sqlite3 for debug" (CMakeLists.txt:13), "please send splash_p{}.db
\* to the developers" (game_manager.cpp:445): a game that is over has all its rows in the file.
\* The code does not keep it: it does not wait for a job that is scheduled and has not started.
RowsKept ==
    mainPc = "out" /\ workerPc = "idle" /\ jobs = <<>>
        => Len(stored) = rows /\ \A i \in 1..Len(stored) : stored[i].db # 0
=============================================================================
