------------------------- MODULE SessionQueueProps -------------------------
(***************************************************************************)
(* The properties of one session's command queue (see SessionQueue).       *)
(***************************************************************************)
EXTENDS SessionQueue

\* The range of every variable.
FlagTypes ==
  /\ taskQueueRunning \in BOOLEAN
  /\ thread \in BOOLEAN
  /\ pendingStop \in BOOLEAN
  /\ pendingRemove \in BOOLEAN
  /\ run \in BOOLEAN
  /\ shutdown \in BOOLEAN

ValueTypes ==
  /\ queue \in Seq(Command)
  /\ task \in Command \union {NoTask}
  /\ worker \in WorkerState
  /\ caller \in CallerState
  /\ accepted \in 0..MaxCommands
  /\ ran \in Seq(Command)
  /\ seenEmpty \in 0..MaxCommands
  /\ ranAtCleanup \in Nat

\* Type correctness.
TypeOK == FlagTypes /\ ValueTypes

(* pendingCommands() stays true while a command is running, although the   *)
(* worker has already taken it: the responses that read the debugger's     *)
(* state rely on it, they hold no lock against the worker.                 *)
RunningIsPending == task # NoTask => queue # <<>> /\ task = Head(queue)

(* enqueueCommand destroys the thread object it finds when the worker was  *)
(* told to stop.  That ends the program if the thread was not joined; it   *)
(* never happens, a session in use has a thread exactly when its task      *)
(* queue is running.                                                       *)
RunningIffThread == caller = "idle" => (thread <=> taskQueueRunning)

(* The worker clears the queue when it stops, on the strength of an        *)
(* unlocked read that found it empty.  Every command accepted before that  *)
(* read has run: only later ones can be lost.                              *)
StopDropsOnlyLater ==
  worker = "stop" => /\ Len(ran) = seenEmpty
                     /\ \A i \in 1..Len(queue) : queue[i] > seenEmpty

(* cleanup() tells the worker to leave its loop, but the worker may have   *)
(* read the flag already: it starts one more command at most.              *)
OneMoreAfterCleanup == caller # "idle" => Len(ran) <= ranAtCleanup + 1

(* A stop takes effect: the session is marked for removal, or an exception *)
(* is already stopping the server.  The worker looks for a stop only when  *)
(* it finds the queue empty, so a caller who goes on enqueuing can put it  *)
(* off for ever: the property is about callers who eventually enqueue      *)
(* nothing more.  In a run, where MaxCommands bounds them, they all do.    *)
StopTakesEffect ==
  <>[][accepted' = accepted]_accepted
    => (pendingStop ~> (pendingRemove \/ shutdown))

(* cleanup() returns: the worker it joins leaves its loop.                 *)
CleanupReturns == (caller = "join") ~> (caller = "gone")

(* The session keeps the promise of CommandQueue: a command is running as  *)
(* long as the worker holds it, and the queue is closed once the worker    *)
(* has ended or the session was cleaned up.                                *)
CQ == INSTANCE CommandQueue WITH
        busy <- task # NoTask,
        closed <- worker = "exited" \/ caller = "gone"

KeepsQueuePromise == CQ!FairSpec
=============================================================================
