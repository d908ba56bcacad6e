---------------------------- MODULE SessionQueue ----------------------------
(***************************************************************************)
(* One Session of penguinTrace: the queue of commands the server thread    *)
(* fills and the worker thread that drains it (penguintrace/Session.cpp).  *)
(*                                                                         *)
(* Two threads touch this state.  The caller (the server thread, which is  *)
(* sequential) enqueues commands, asks for a stop, marks the session for   *)
(* removal and finally cleans it up.  The worker runs processTaskQueue.    *)
(* Every section under threadMutex or stopMutex is one action; everything  *)
(* the worker does between two sections is open to the caller, and so is   *)
(* the read of taskQueue.empty() it makes with no lock held.               *)
(*                                                                         *)
(* Commands are numbered in the order they are accepted.  While a command  *)
(* runs its slot stays at the front of the queue, moved from: that is what *)
(* makes pendingCommands() true until it has finished.                     *)
(***************************************************************************)
EXTENDS Naturals, Sequences

CONSTANTS
  MaxCommands,  \* how many commands the caller enqueues at most
  MayThrow      \* whether a command may end with an Exception

ASSUME SessionQueueAssumption ==
  /\ MaxCommands \in Nat
  /\ MayThrow \in BOOLEAN

VARIABLES
  queue,             \* taskQueue: the numbers of the commands in it
  taskQueueRunning,  \* set by enqueueCommand, reset by cleanup
  thread,            \* the session owns a (joinable) worker thread
  pendingStop,
  pendingRemove,
  task,              \* the command the worker has taken, or NoTask
  run,               \* the worker's local variable run
  worker,            \* where the worker is in processTaskQueueImpl
  caller,            \* where the caller is: idle, in cleanup(), or done
  shutdown,          \* shutdownCallback was called: the server will stop
  \* History variables, read by no guard
  accepted,          \* how many commands were enqueued
  ran,               \* the commands the worker took, in order
  seenEmpty,         \* value of accepted when the worker last saw no command
  ranAtCleanup       \* Len(ran) when cleanup() reset taskQueueRunning

callerVars == <<taskQueueRunning, thread, caller, ranAtCleanup>>
vars == <<queue, taskQueueRunning, thread, pendingStop, pendingRemove, task,
          run, worker, caller, shutdown, accepted, ran, seenEmpty,
          ranAtCleanup>>

NoTask == 0
Command == 1..MaxCommands

WorkerState == {"none",    \* not started yet
                "fetch",   \* at the top of the loop
                "run",     \* executing task->run()
                "pop",     \* before the second section under threadMutex
                "check",   \* before the unlocked read of taskQueue.empty()
                "stop",    \* before the section under stopMutex
                "exited"}
CallerState == {"idle", "join", "gone"}

Init ==
  /\ queue = <<>>
  /\ taskQueueRunning = FALSE
  /\ thread = FALSE
  /\ pendingStop = FALSE
  /\ pendingRemove = FALSE
  /\ task = NoTask
  /\ run = FALSE
  /\ worker = "none"
  /\ caller = "idle"
  /\ shutdown = FALSE
  /\ accepted = 0
  /\ ran = <<>>
  /\ seenEmpty = 0
  /\ ranAtCleanup = 0

-----------------------------------------------------------------------------
(* The caller *)

\* What is pushed: the command, numbered as it is accepted (mutated: the
\* pointer was moved from before it is pushed, and its slot holds no command).
EmptySlot == NoTask
NextNumber == accepted + 1

\* The worker that enqueueCommand starts will find taskQueueRunning set
\* (mutated: the assignment is forgotten).
NotMarked == taskQueueRunning
MarkedRunning == TRUE

\* enqueueCommand: starts a worker unless one is running, and pushes.
EnqueueCommand ==
  /\ caller = "idle"
  /\ accepted < MaxCommands
  /\ accepted' = accepted + 1
  /\ queue' = Append(queue, NextNumber)
  /\ \/ /\ ~thread \/ ~taskQueueRunning
        /\ thread' = TRUE
        /\ taskQueueRunning' = MarkedRunning
        /\ worker' = "fetch"
        /\ run' = TRUE
     \/ /\ thread /\ taskQueueRunning
        /\ UNCHANGED <<thread, taskQueueRunning, worker, run>>
  /\ UNCHANGED <<pendingStop, pendingRemove, task, caller, shutdown, ran,
                 seenEmpty, ranAtCleanup>>

\* enqueueStop.  The session is created with its lock held, and the response
\* builder that created it enqueues its first command before it lets go: by the
\* time another request reaches the session it has a worker.
EnqueueStop ==
  /\ caller = "idle"
  /\ thread
  /\ pendingStop' = TRUE
  /\ UNCHANGED <<queue, callerVars, pendingRemove, task, run, worker,
                 shutdown, accepted, ran, seenEmpty>>

\* setRemove, which sessionState calls once it has reported compile failures.
SetRemove ==
  /\ caller = "idle"
  /\ thread
  /\ pendingRemove' = TRUE
  /\ UNCHANGED <<queue, callerVars, pendingStop, task, run, worker,
                 shutdown, accepted, ran, seenEmpty>>

\* cleanup, up to the join: the worker is told to leave its loop.
CleanupBegin ==
  /\ caller = "idle"
  /\ taskQueueRunning' = FALSE
  /\ caller' = "join"
  /\ ranAtCleanup' = Len(ran)
  /\ UNCHANGED <<queue, thread, pendingStop, pendingRemove, task, run, worker,
                 shutdown, accepted, ran, seenEmpty>>

\* cleanup, from the return of join: nobody else uses the queue any more.
CleanupEnd ==
  /\ caller = "join"
  /\ thread => worker = "exited"
  /\ thread' = FALSE
  /\ queue' = <<>>
  /\ pendingRemove' = TRUE
  /\ caller' = "gone"
  /\ UNCHANGED <<taskQueueRunning, pendingStop, task, run, worker, shutdown,
                 accepted, ran, seenEmpty, ranAtCleanup>>

-----------------------------------------------------------------------------
(* The worker *)

\* What taking the front command leaves in the queue: its slot, moved from
\* (mutated: the slot is popped at once).
SlotPopped == Tail(queue)
SlotKept == queue

\* Takes the command at the front out of its slot, and leaves the slot.
Fetch ==
  /\ worker = "fetch"
  /\ \/ /\ queue # <<>>
        /\ task' = Head(queue)
        /\ ran' = Append(ran, Head(queue))
        /\ queue' = SlotKept
        /\ worker' = "run"
     \/ /\ queue = <<>>
        /\ task' = NoTask
        /\ worker' = "pop"
        /\ UNCHANGED <<queue, ran>>
  /\ UNCHANGED <<callerVars, pendingStop, pendingRemove, run, shutdown,
                 accepted, seenEmpty>>

\* task->run() returns.
RunTask ==
  /\ worker = "run"
  /\ worker' = "pop"
  /\ UNCHANGED <<queue, callerVars, pendingStop, pendingRemove, task, run,
                 shutdown, accepted, ran, seenEmpty>>

\* task->run() throws: the server is told to stop, the thread ends, and the
\* slot of the command stays in the queue.
Throw ==
  /\ MayThrow
  /\ worker = "run"
  /\ shutdown' = TRUE
  /\ task' = NoTask
  /\ worker' = "exited"
  /\ UNCHANGED <<queue, callerVars, pendingStop, pendingRemove, run, accepted,
                 ran, seenEmpty>>

\* The value of run after a command (mutated: the flag is not read again).
StaleRun == run
FreshRun == taskQueueRunning

\* Drops the slot of the finished command and reads taskQueueRunning.
Pop ==
  /\ worker = "pop"
  /\ queue' = IF task # NoTask THEN Tail(queue) ELSE queue
  /\ task' = NoTask
  /\ run' = FreshRun
  /\ worker' = "check"
  /\ UNCHANGED <<callerVars, pendingStop, pendingRemove, shutdown, accepted,
                 ran, seenEmpty>>

\* Back to the loop condition.
LoopOrExit == worker' = IF run THEN "fetch" ELSE "exited"

\* taskQueue.empty() (mutated: a stop is looked for after every command).
EmptyOrNot == TRUE
QueueEmpty == queue = <<>>

\* The read of taskQueue.empty(), with no lock held.
CheckEmpty ==
  /\ worker = "check"
  /\ \/ /\ QueueEmpty
        /\ worker' = "stop"
        /\ seenEmpty' = accepted
     \/ /\ ~QueueEmpty
        /\ LoopOrExit
        /\ UNCHANGED seenEmpty
  /\ UNCHANGED <<queue, callerVars, pendingStop, pendingRemove, task, run,
                 shutdown, accepted, ran>>

\* pendingRemove after a stop (mutated: the assignment is forgotten).
NotMarkedByStop == pendingRemove
MarkedByStop == TRUE

\* The section under stopMutex.  If a stop is pending the queue is cleared
\* under threadMutex, whatever was enqueued since it was seen empty.
CheckStop ==
  /\ worker = "stop"
  /\ \/ /\ pendingStop
        /\ queue' = <<>>
        /\ pendingRemove' = MarkedByStop
        /\ run' = FALSE
        /\ worker' = "exited"
     \/ /\ ~pendingStop
        /\ LoopOrExit
        /\ UNCHANGED <<queue, pendingRemove, run>>
  /\ UNCHANGED <<callerVars, pendingStop, task, shutdown, accepted, ran,
                 seenEmpty>>

-----------------------------------------------------------------------------
Caller == EnqueueCommand \/ EnqueueStop \/ SetRemove \/ CleanupBegin
            \/ CleanupEnd
Worker == Fetch \/ RunTask \/ Throw \/ Pop \/ CheckEmpty \/ CheckStop

Next == Caller \/ Worker

Spec == Init /\ [][Next]_vars

(* The operating system runs the worker, no command runs for ever, and a   *)
(* join returns once the thread it waits for has ended.  Nothing obliges   *)
(* the caller to enqueue, stop or clean up.                                *)
FairSpec == Spec /\ WF_vars(Worker) /\ WF_vars(CleanupEnd)
=============================================================================
