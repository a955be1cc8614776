---------------------------- MODULE NetworkTasks ----------------------------
(***************************************************************************)
(* The way of a packet from the game of one peer to the game of another:    *)
(* the main thread of the sender queues a task (client.cpp:438-461, 498),   *)
(* its network thread runs the tasks (397-425), the network thread of the   *)
(* receiver pushes what arrives to a mailbox (201-221), which its main      *)
(* thread swaps with the one it read in the last frame and then reads       *)
(* without a lock (463-492).  One stream of packets of one kind: the tasks  *)
(* are shared by all kinds, each kind has its own pair of vectors.  Both     *)
(* peers are in the game, so that the receiver keeps what arrives.          *)
(***************************************************************************)
EXTENDS Naturals, Sequences

CONSTANT MaxSent  \* bound: packets sent

ASSUME TasksAssumption == MaxSent \in Nat

VARIABLES sent,      \* packets sent by the game, numbered from 1
          tasks,     \* networkTasks_
          done,      \* tasks run in this pass
          netPc,     \* control point of the sender's network thread
          running,   \* isRunning_ of the sender
          wire,      \* Photon and the network
          last,      \* lastReceived...Packets_ of the receiver
          returned,  \* returned...Packets_
          imported,  \* packets of returned that the frame has read
          over,      \* the receiver has left RollbackUpdate for good
          got        \* history: the packets the receiver's game has read

sender == <<sent, tasks, done, netPc, running>>
receiver == <<last, returned, imported, over, got>>
tasksVars == <<sent, tasks, done, netPc, running, wire, last, returned, imported, over, got>>

TasksInit == /\ sent = 0 /\ tasks = <<>> /\ done = 0 /\ netPc = "loop" /\ running = TRUE
             /\ wire = <<>>
             /\ last = <<>> /\ returned = <<>> /\ imported = 0 /\ over = FALSE /\ got = <<>>

From(seq, n) == SubSeq(seq, n + 1, Len(seq))

-----------------------------------------------------------------------------
\* Mutant: a task is queued while the network thread runs and clears the others.
MutexFree_Always == TRUE

\* networkTasksMutex_ is free: the network thread holds it while it runs the tasks.
MutexFree == netPc \notin {"run", "clear"}

\* The game sends a packet.
Send == /\ MutexFree /\ running /\ sent < MaxSent
        /\ sent' = sent + 1
        /\ tasks' = Append(tasks, sent + 1)
        /\ UNCHANGED <<done, netPc, running, wire, receiver>>

\* The network thread takes the lock for its next pass.
LockTasks == /\ netPc = "loop" /\ running
             /\ netPc' = "run"
             /\ UNCHANGED <<sent, tasks, done, running, wire, receiver>>

RunTask == /\ netPc = "run" /\ done < Len(tasks)
           /\ done' = done + 1
           /\ wire' = Append(wire, tasks[done + 1])
           /\ UNCHANGED <<sent, tasks, netPc, running, receiver>>

Cleared == <<>>

\* All of them have run.
TasksRun == /\ netPc = "run" /\ done = Len(tasks)
            /\ netPc' = "clear"
            /\ UNCHANGED <<sent, tasks, done, running, wire, receiver>>

\* The tasks are cleared, the lock is given back and Photon is serviced.
EndTasks == /\ netPc = "clear"
            /\ tasks' = Cleared /\ done' = 0 /\ netPc' = "loop"
            /\ UNCHANGED <<sent, running, wire, receiver>>

\* NetworkSystem::End: what is queued and not yet run is never sent.
End == /\ running /\ running' = FALSE
       /\ UNCHANGED <<sent, tasks, done, netPc, wire, receiver>>

LeaveLoop == /\ netPc = "loop" /\ ~running
             /\ netPc' = "ended"
             /\ UNCHANGED <<sent, tasks, done, running, wire, receiver>>

-----------------------------------------------------------------------------
\* A packet arrives and is pushed to the mailbox under its mutex.
Arrive == /\ wire # <<>>
          /\ last' = Append(last, Head(wire))
          /\ wire' = Tail(wire)
          /\ UNCHANGED <<sender, returned, imported, over, got>>

\* Mutant: the mailbox is cleared before it is swapped.
Taken_Cleared == <<>>

\* The vectors after the swap: the mailbox empty, the other one what it held.
Emptied == <<>>
Taken == last

\* Mutant: the next span starts where the last one was left.
Restart_Not == imported
Restart == 0

\* The next frame takes the mailbox, after it has read all of the last one.
Swap == /\ ~over /\ imported = Len(returned)
        /\ last' = Emptied /\ returned' = Taken /\ imported' = Restart
        /\ UNCHANGED <<sender, wire, over, got>>

\* A packet is read; one that is refused ends the game and the rest is never read.
Import == /\ ~over /\ imported < Len(returned)
          /\ imported' = imported + 1
          /\ got' = Append(got, returned[imported + 1])
          /\ over' \in BOOLEAN
          /\ UNCHANGED <<sender, wire, last, returned>>

NetworkThread == LockTasks \/ RunTask \/ TasksRun \/ EndTasks \/ LeaveLoop
MainThread == Swap \/ Import

TasksNext == Send \/ NetworkThread \/ End \/ Arrive \/ MainThread

TasksSpec == TasksInit /\ [][TasksNext]_tasksVars

-----------------------------------------------------------------------------
TasksTypeOK == /\ sent \in 0..MaxSent /\ running \in BOOLEAN /\ over \in BOOLEAN
               /\ netPc \in {"loop", "run", "clear", "ended"}
               /\ tasks \in Seq(1..sent) /\ wire \in Seq(1..sent)
               /\ last \in Seq(1..sent) /\ returned \in Seq(1..sent) /\ got \in Seq(1..sent)
               /\ done \in 0..Len(tasks) /\ imported \in 0..Len(returned)
               /\ MutexFree => done = 0
               /\ netPc = "clear" => done = Len(tasks)

\* What is on its way, the oldest first.
Pending == From(returned, imported) \o last \o wire \o From(tasks, done)

\* Through the task queue and both mailboxes reliable packets reach the other game once
\* each and in order, whatever the four threads do when: none is lost by a swap, a clear
\* or a push in between.
Channel == INSTANCE Fifo WITH chan <- Pending
ImplementsFifo == Channel!Spec

\* What was sent is read by the other game, unless one of them ends.
EverythingArrives ==
    \A n \in 1..MaxSent : sent = n ~> (\E i \in 1..Len(got) : got[i] = n) \/ over \/ ~running
=============================================================================
