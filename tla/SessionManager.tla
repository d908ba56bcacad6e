--------------------------- MODULE SessionManager ---------------------------
(***************************************************************************)
(* The debug server as its threads see it: the server thread that answers  *)
(* requests one after the other, the main thread that watches the keyboard *)
(* and one worker thread per session, against the SessionManager, the      *)
(* SessionWrapper a response builder holds, and the commands of            *)
(* SessionCmd.cpp.                                                         *)
(*                                                                         *)
(* Two kinds of lock matter here.  sessionMutex protects the map of        *)
(* sessions and is held while a session is cleaned up, join of its worker  *)
(* included; each session has a lock of its own, which lockSession takes   *)
(* while it holds sessionMutex.  threadMutex and stopMutex protect short   *)
(* sections that take no other lock: each is one action (SessionQueue      *)
(* models one session at that grain).                                      *)
(*                                                                         *)
(* A member of Session is a Session object: created once, destroyed once.  *)
(* Names are not modelled: in multiple session mode IdGenerator gives each *)
(* object a name of its own, in single session mode all have the same.     *)
(***************************************************************************)
EXTENDS Naturals, Sequences

CONSTANTS
  Session,         \* the Session objects that may be created
  Server, Main,    \* the server thread and the main thread
  Nobody,          \* no thread, no session or no command
  SingleSession,   \* Config C_SINGLE_SESSION
  MaxQueue,        \* a client asks for no step while this many are queued
  PatientClient,   \* nobody compiles while a session has commands pending
  MayThrow,        \* a command may end with an Exception
  MayQuit,         \* the operator may press q or send SIGINT
  MayKill          \* the operator may press k

ASSUME SessionManagerAssumption ==
  /\ Server # Main
  /\ {Server, Main, Nobody} \cap Session = {}
  /\ Nobody \notin {Server, Main, "compile", "parse", "step"}
  /\ MaxQueue \in Nat
  /\ {SingleSession, PatientClient, MayThrow, MayQuit, MayKill} \subseteq BOOLEAN

VARIABLES
  \* SessionManager
  sessions,          \* the sessions in the map: objects not destroyed
  born,              \* the sessions ever created
  sessionMutex,      \* the thread that holds it
  sessionLock,       \* for each session, the thread that holds its lock
  \* Session
  taskQueue, taskQueueRunning, thread, pendingStop, pendingRemove,
  failures,          \* compileFailures is not empty
  stepper,           \* setStepper was called
  \* processTaskQueueImpl, for each session: where, task, run
  worker, task, run,
  \* Server and main threads: where, and how far in cleaning sessions up
  pc, cleaning,
  \* The request the server thread is answering, the session its wrapper holds
  kind, target, wrapper,
  running,           \* WebServer::running
  fault              \* what ended the program, if anything

managerVars == <<sessions, born, sessionMutex, sessionLock>>
sessionVars == <<taskQueue, taskQueueRunning, thread, pendingStop,
                 pendingRemove, failures, stepper>>
workerVars == <<worker, task, run>>
requestVars == <<kind, target, wrapper>>
threadVars == <<pc, cleaning>>
vars == <<managerVars, sessionVars, workerVars, requestVars, threadVars,
          running, fault>>

Thread == Session \union {Server, Main}   \* a session stands for its worker
Cleaner == {Server, Main}
Command == {"compile",  \* CompileCmd and UploadCmd
            "parse",    \* ParseCmd
            "step"}     \* StepCmd and StdinCmd
Kind == {"create",      \* compile and upload requests
         "stateAll", "stateStep",
         "step",        \* step and stdin requests
         "stop"}

Init ==
  /\ sessions = {} /\ born = {}
  /\ sessionMutex = Nobody
  /\ sessionLock = [s \in Session |-> Nobody]
  /\ taskQueue = [s \in Session |-> <<>>]
  /\ taskQueueRunning = [s \in Session |-> FALSE]
  /\ thread = [s \in Session |-> FALSE]
  /\ pendingStop = [s \in Session |-> FALSE]
  /\ pendingRemove = [s \in Session |-> FALSE]
  /\ failures = [s \in Session |-> FALSE]
  /\ stepper = [s \in Session |-> FALSE]
  /\ worker = [s \in Session |-> "none"]
  /\ task = [s \in Session |-> Nobody]
  /\ run = [s \in Session |-> FALSE]
  /\ pc = [t \in Cleaner |-> IF t = Server THEN "loop" ELSE "idle"]
  /\ cleaning = [t \in Cleaner |-> [why |-> "finished", todo |-> {},
                                    now |-> Nobody]]
  /\ kind = "none" /\ target = Nobody /\ wrapper = Nobody
  /\ running = TRUE
  /\ fault = "none"

-----------------------------------------------------------------------------
(* Helpers *)

\* A fault ends the program: every action moves a thread, or asks for this.
Alive == fault = "none"

\* The server or the main thread goes on to a place of its code.
GoTo(t, place) == Alive /\ pc' = [pc EXCEPT ![t] = place]

\* The worker of s goes from a place of its code to the next.
WorkAt(s, here, there) ==
  /\ Alive
  /\ worker[s] = here
  /\ worker' = [worker EXCEPT ![s] = there]

\* The response is written and the request forgotten.
Responded ==
  /\ GoTo(Server, "serve")
  /\ kind' = "none" /\ target' = Nobody /\ wrapper' = Nobody

\* The sessions a request that names s finds in the map.
Found(s) == IF SingleSession THEN sessions ELSE sessions \cap {s}

\* The lock of s is released; a mutant forgets to.
KeptLocked(s) == sessionLock
Unlocked(s) == [sessionLock EXCEPT ![s] = Nobody]

\* What enqueueCommand pushes.  In a mutant the pointer was moved from before.
MovedFrom(c) == Nobody
Pushed(c) == c

\* enqueueCommand on s.  Resetting a thread that was not joined ends the
\* program.
Enqueue(s, c) ==
  /\ taskQueue' = [taskQueue EXCEPT ![s] = Append(@, Pushed(c))]
  /\ \/ /\ thread[s] /\ taskQueueRunning[s]
        /\ UNCHANGED <<thread, taskQueueRunning, worker, run, fault>>
     \/ /\ ~thread[s]
        /\ thread' = [thread EXCEPT ![s] = TRUE]
        /\ taskQueueRunning' = [taskQueueRunning EXCEPT ![s] = TRUE]
        /\ worker' = [worker EXCEPT ![s] = "fetch"]
        /\ run' = [run EXCEPT ![s] = TRUE]
        /\ UNCHANGED fault
     \/ /\ thread[s] /\ ~taskQueueRunning[s]
        /\ fault' = "terminate"
        /\ UNCHANGED <<thread, taskQueueRunning, worker, run>>
  /\ UNCHANGED <<pendingStop, pendingRemove, failures, stepper, task>>

-----------------------------------------------------------------------------
(* Cleaning sessions up, under sessionMutex: by the server thread in        *)
(* cleanFinishedSessions, in createSession and when it ends, and by the     *)
(* main thread when k is pressed.                                           *)

\* toRemove.  Mutants: stop alone is enough; the worker must have been told to
\* end.
ToRemoveOrStop(s) == pendingRemove[s] \/ pendingStop[s]
ToRemoveUnlessRunning(s) == pendingRemove[s] /\ ~taskQueueRunning[s]
ToRemove(s) == pendingRemove[s]

StartCleaning(t, why, which) ==
  /\ cleaning' = [cleaning EXCEPT ![t] = [why |-> why, todo |-> which,
                                          now |-> Nobody]]
  /\ GoTo(t, "clean")

\* cleanSession: cleanup() resets the flag and joins the worker.
CleanSession(t) ==
  /\ pc[t] = "clean"
  /\ \E s \in cleaning[t].todo :
       /\ taskQueueRunning' = [taskQueueRunning EXCEPT ![s] = FALSE]
       /\ cleaning' = [cleaning EXCEPT ![t].now = s]
  /\ GoTo(t, "join")
  /\ UNCHANGED <<managerVars, taskQueue, thread, pendingStop, pendingRemove,
                 failures, stepper, workerVars, requestVars, running, fault>>

\* The sessions left in the map once s is clean: endAllSessions clears the
\* map only after it has cleaned all of them.  A mutant always clears it.
NoneRemaining(t, s) == {}
Remaining(t, s) ==
  IF cleaning[t].why = "end" THEN sessions ELSE sessions \ {s}

\* What join waits for.  A mutant detaches the worker.
Detached(s) == TRUE
Ended(s) == thread[s] => worker[s] = "exited"

\* The worker has ended: the rest of cleanup, and the session is destroyed.
Joined(t) ==
  /\ pc[t] = "join"
  /\ LET s == cleaning[t].now IN
     /\ Ended(s)
     /\ thread' = [thread EXCEPT ![s] = FALSE]
     /\ taskQueue' = [taskQueue EXCEPT ![s] = <<>>]
     /\ pendingRemove' = [pendingRemove EXCEPT ![s] = TRUE]
     /\ sessions' = Remaining(t, s)
     /\ cleaning' = [cleaning EXCEPT ![t].todo = @ \ {s}, ![t].now = Nobody]
  /\ GoTo(t, "clean")
  /\ UNCHANGED <<born, sessionMutex, sessionLock, taskQueueRunning,
                 pendingStop, failures, stepper, workerVars, requestVars,
                 running, fault>>

\* Where a thread goes once everything is clean.
AfterCleaning(t) ==
  IF t = Main THEN "idle"
  ELSE CASE cleaning[t].why = "finished" -> "serve"
         [] cleaning[t].why = "replace" -> "insert"
         [] cleaning[t].why = "end" -> "stopped"

\* All are clean.  Clearing the map destroys a session that was given a new
\* worker in the meantime, which ends the program.  createSession goes on
\* with sessionMutex held.
Cleaned(t) ==
  /\ pc[t] = "clean"
  /\ cleaning[t].todo = {}
  /\ sessions' = IF cleaning[t].why = "end" THEN {} ELSE sessions
  /\ fault' = IF cleaning[t].why = "end" /\ \E s \in sessions : thread[s]
              THEN "terminate" ELSE fault
  /\ sessionMutex' = IF cleaning[t].why = "replace" THEN t ELSE Nobody
  /\ GoTo(t, AfterCleaning(t))
  /\ UNCHANGED <<born, sessionLock, sessionVars, workerVars, requestVars,
                 cleaning, running>>

-----------------------------------------------------------------------------
(* The server thread: WebServer::run and the response builders *)

\* The top of the loop: cleanFinishedSessions.
CleanFinished ==
  /\ pc[Server] = "loop"
  /\ running
  /\ sessionMutex = Nobody
  /\ sessionMutex' = Server
  /\ StartCleaning(Server, "finished", {s \in sessions : ToRemove(s)})
  /\ UNCHANGED <<sessions, born, sessionLock, sessionVars, workerVars,
                 requestVars, running, fault>>

\* The server was stopped: endAllSessions.
EndAll ==
  /\ pc[Server] = "loop"
  /\ ~running
  /\ sessionMutex = Nobody
  /\ sessionMutex' = Server
  /\ StartCleaning(Server, "end", sessions)
  /\ UNCHANGED <<sessions, born, sessionLock, sessionVars, workerVars,
                 requestVars, running, fault>>

\* The request queue is empty.
NoRequest ==
  /\ pc[Server] = "serve"
  /\ GoTo(Server, "loop")
  /\ UNCHANGED <<managerVars, sessionVars, workerVars, requestVars, cleaning,
                 running, fault>>

\* A request is taken from the request queue.
TakeRequest(k, s) ==
  /\ pc[Server] = "serve"
  /\ k = "create" =>
       /\ s \notin born
       /\ PatientClient => \A x \in sessions : taskQueue[x] = <<>>
  /\ k = "step" => \A x \in Found(s) : Len(taskQueue[x]) < MaxQueue
  /\ kind' = k
  /\ target' = s
  /\ GoTo(Server, IF k = "create" THEN "create" ELSE "lock")
  /\ UNCHANGED <<managerVars, sessionVars, workerVars, wrapper, cleaning,
                 running, fault>>

\* No temporary file could be made: the wrapper is an invalid one, no session
\* is created and nothing enqueued, and the answer says so.
NoTempFile ==
  /\ pc[Server] = "create"
  /\ Responded
  /\ UNCHANGED <<managerVars, sessionVars, workerVars, cleaning, running,
                 fault>>

\* createSession.  In single session mode it first cleans up the session
\* there is.
CreateSession ==
  /\ pc[Server] = "create"
  /\ sessionMutex = Nobody
  /\ sessionMutex' = Server
  /\ \/ /\ SingleSession /\ sessions # {}
        /\ StartCleaning(Server, "replace", sessions)
     \/ /\ ~(SingleSession /\ sessions # {})
        /\ GoTo(Server, "insert")
        /\ UNCHANGED cleaning
  /\ UNCHANGED <<sessions, born, sessionLock, sessionVars, workerVars,
                 requestVars, running, fault>>

\* createSession, continued: the new session comes with its lock held.
InsertSession ==
  /\ pc[Server] = "insert"
  /\ sessions' = sessions \union {target}
  /\ born' = born \union {target}
  /\ sessionLock' = [sessionLock EXCEPT ![target] = Server]
  /\ sessionMutex' = Nobody
  /\ wrapper' = target
  /\ GoTo(Server, "compile")
  /\ UNCHANGED <<sessionVars, workerVars, kind, target, cleaning, running,
                 fault>>

\* lockSession, for a name the map does not hold: an invalid wrapper.
NotFound ==
  /\ pc[Server] = "lock"
  /\ sessionMutex = Nobody
  /\ Found(target) = {}
  /\ Responded
  /\ UNCHANGED <<managerVars, sessionVars, workerVars, cleaning, running,
                 fault>>

\* lockSession: the session is looked up under sessionMutex...
FindSession ==
  /\ pc[Server] = "lock"
  /\ sessionMutex = Nobody
  /\ target' \in Found(target)
  /\ sessionMutex' = Server
  /\ GoTo(Server, "wait")
  /\ UNCHANGED <<sessions, born, sessionLock, sessionVars, workerVars, kind,
                 wrapper, cleaning, running, fault>>

\* ... which is held until its lock is free.
LockSession ==
  /\ pc[Server] = "wait"
  /\ sessionLock[target] = Nobody
  /\ sessionLock' = [sessionLock EXCEPT ![target] = Server]
  /\ sessionMutex' = Nobody
  /\ wrapper' = target
  /\ GoTo(Server, "handle")
  /\ UNCHANGED <<sessions, born, sessionVars, workerVars, kind, target,
                 cleaning, running, fault>>

\* The places where a response builder uses the session of its wrapper.
Handling == {"compile", "parse", "handle", "retry", "read", "release"}

\* The session was destroyed under the wrapper: it is used all the same.
UseDangling ==
  /\ Alive
  /\ pc[Server] \in Handling
  /\ wrapper \notin sessions
  /\ fault' = "dangling"
  /\ UNCHANGED <<managerVars, sessionVars, workerVars, requestVars,
                 threadVars, running>>

\* What every step of a response builder that uses its session has in common.
Handle(here, there) ==
  /\ pc[Server] = here
  /\ wrapper \in sessions
  /\ GoTo(Server, there)
  /\ UNCHANGED <<managerVars, requestVars, cleaning, running>>

\* Compile and upload requests put two commands in the new session.
EnqueueCompile == Handle("compile", "parse") /\ Enqueue(wrapper, "compile")
EnqueueParse == Handle("parse", "release") /\ Enqueue(wrapper, "parse")

HandleStep ==
  /\ kind = "step"
  /\ Handle("handle", "release")
  /\ \/ /\ stepper[wrapper]
        /\ Enqueue(wrapper, "step")
     \/ /\ ~stepper[wrapper]
        /\ UNCHANGED <<sessionVars, workerVars, fault>>

HandleStop ==
  /\ kind = "stop"
  /\ Handle("handle", "release")
  /\ pendingStop' = [pendingStop EXCEPT ![wrapper] = TRUE]
  /\ UNCHANGED <<taskQueue, taskQueueRunning, thread, pendingRemove, failures,
                 stepper, workerVars, fault>>

\* pendingCommands().  A state request is answered with no state while commands
\* are pending, and a step state needs a stepper.  A mutant does not count the
\* command that is running.
RetryIfMore == Len(taskQueue[wrapper]) > 1
Retry == taskQueue[wrapper] # <<>>
NoStepState == kind = "stateStep" /\ ~stepper[wrapper]

NoState ==
  /\ kind \in {"stateAll", "stateStep"}
  /\ Handle("handle", "retry")
  /\ Retry \/ NoStepState
  /\ UNCHANGED <<sessionVars, workerVars, fault>>

\* pendingCommands() is read once more, only to tell the client whether to
\* retry: the worker may have popped its last command since (WebUI models what
\* a page makes of the answer).
TellRetry ==
  /\ Handle("retry", "release")
  /\ UNCHANGED <<sessionVars, workerVars, fault>>

BeginState ==
  /\ kind \in {"stateAll", "stateStep"}
  /\ Handle("handle", "read")
  /\ ~(Retry \/ NoStepState)
  /\ UNCHANGED <<sessionVars, workerVars, fault>>

\* sessionState reports the failures, which empties them, and marks the
\* session for removal; without failures it reads the stepper, which is a
\* null dereference if there is none.  stepState reads the stepper.
ReadState ==
  /\ Handle("read", "release")
  /\ \/ /\ kind = "stateAll" /\ failures[wrapper]
        /\ failures' = [failures EXCEPT ![wrapper] = FALSE]
        /\ pendingRemove' = [pendingRemove EXCEPT ![wrapper] = TRUE]
        /\ UNCHANGED fault
     \/ /\ ~(kind = "stateAll" /\ failures[wrapper])
        /\ fault' = IF stepper[wrapper] THEN fault ELSE "null stepper"
        /\ UNCHANGED <<failures, pendingRemove>>
  /\ UNCHANGED <<taskQueue, taskQueueRunning, thread, pendingStop, stepper,
                 workerVars>>

\* The wrapper goes out of scope: the lock of the session is released.
Release ==
  /\ pc[Server] = "release"
  /\ wrapper \in sessions
  /\ sessionLock' = Unlocked(wrapper)
  /\ Responded
  /\ UNCHANGED <<sessions, born, sessionMutex, sessionVars, workerVars,
                 cleaning, running, fault>>

-----------------------------------------------------------------------------
(* The main thread: PenguinTrace::run *)

\* q, or SIGINT: WebServer::stop.
Quit ==
  /\ Alive
  /\ MayQuit
  /\ running
  /\ running' = FALSE
  /\ UNCHANGED <<managerVars, sessionVars, workerVars, requestVars,
                 threadVars, fault>>

\* k: endAllSessions, while the server thread goes on.  The key loop goes by
\* PenguinTrace's own running, which runServer resets once the server thread
\* is done: after q there may still be a k.  (One pressed as that happens finds
\* no session.)
Kill ==
  /\ MayKill
  /\ pc[Server] # "stopped"
  /\ pc[Main] = "idle"
  /\ sessionMutex = Nobody
  /\ sessionMutex' = Main
  /\ StartCleaning(Main, "end", sessions)
  /\ UNCHANGED <<sessions, born, sessionLock, sessionVars, workerVars,
                 requestVars, running, fault>>

-----------------------------------------------------------------------------
(* The worker of session s: Session::processTaskQueueImpl and the commands *)

Fetch(s) ==
  /\ WorkAt(s, "fetch", IF taskQueue[s] = <<>> THEN "pop" ELSE "run")
  /\ task' = [task EXCEPT
               ![s] = IF taskQueue[s] = <<>> THEN Nobody ELSE Head(taskQueue[s])]
  /\ UNCHANGED <<managerVars, sessionVars, run, requestVars, threadVars,
                 running, fault>>

\* CompileCmd or UploadCmd: failures of an earlier run are dropped, those of
\* this one are kept.
Compile(s) ==
  /\ task[s] = "compile"
  /\ WorkAt(s, "run", "pop")
  /\ \E f \in BOOLEAN : failures' = [failures EXCEPT ![s] = f]
  /\ UNCHANGED <<managerVars, taskQueue, taskQueueRunning, thread,
                 pendingStop, pendingRemove, stepper, task, run, requestVars,
                 threadVars, running, fault>>

\* StepCmd or StdinCmd, on the stepper the request saw.
Step(s) ==
  /\ task[s] = "step"
  /\ WorkAt(s, "run", "pop")
  /\ UNCHANGED <<managerVars, sessionVars, task, run, requestVars, threadVars,
                 running, fault>>

\* ParseCmd looks its session up by name; if it is not there it dereferences
\* a null session.
ParseFind(s) ==
  /\ task[s] = "parse"
  /\ sessionMutex = Nobody
  /\ WorkAt(s, "run", "wait")
  /\ sessionMutex' = IF s \in sessions THEN s ELSE Nobody
  /\ fault' = IF s \in sessions THEN fault ELSE "null session"
  /\ UNCHANGED <<sessions, born, sessionLock, sessionVars, task, run,
                 requestVars, threadVars, running>>

ParseLock(s) ==
  /\ sessionLock[s] = Nobody
  /\ WorkAt(s, "wait", "parse")
  /\ sessionLock' = [sessionLock EXCEPT ![s] = s]
  /\ sessionMutex' = Nobody
  /\ UNCHANGED <<sessions, born, sessionVars, task, run, requestVars,
                 threadVars, running, fault>>

\* After a failed compilation, or when the executable cannot be parsed, or
\* when the stepper cannot be started, a failure is added; an executable
\* without the source section gets a failure and a stepper.  In a mutant one
\* way to fail adds no failure.
OutcomeForgotten(s) == {<<failures[s], FALSE>>, <<FALSE, TRUE>>}
ParseOutcome(s) ==
  IF failures[s] THEN {<<TRUE, FALSE>>}
  ELSE {<<TRUE, FALSE>>, <<FALSE, TRUE>>, <<TRUE, TRUE>>}

ParseRun(s) ==
  /\ WorkAt(s, "parse", "pop")
  /\ \E o \in ParseOutcome(s) :
       /\ failures' = [failures EXCEPT ![s] = o[1]]
       /\ stepper' = [stepper EXCEPT ![s] = o[2]]
  /\ sessionLock' = Unlocked(s)
  /\ UNCHANGED <<sessions, born, sessionMutex, taskQueue, taskQueueRunning,
                 thread, pendingStop, pendingRemove, task, run, requestVars,
                 threadVars, running, fault>>

\* An Exception: the shutdown callback stops the server and the worker ends.
\* Leaving ParseCmd releases the session's lock.
Throw(s) ==
  /\ MayThrow
  /\ worker[s] \in {"run", "parse"}
  /\ WorkAt(s, worker[s], "exited")
  /\ task' = [task EXCEPT ![s] = Nobody]
  /\ running' = FALSE
  /\ sessionLock' = [sessionLock EXCEPT ![s] = IF @ = s THEN Nobody ELSE @]
  /\ UNCHANGED <<sessions, born, sessionMutex, sessionVars, run, requestVars,
                 threadVars, fault>>

Pop(s) ==
  /\ WorkAt(s, "pop", "check")
  /\ taskQueue' = [taskQueue EXCEPT
                    ![s] = IF task[s] = Nobody THEN @ ELSE SubSeq(@, 2, Len(@))]
  /\ task' = [task EXCEPT ![s] = Nobody]
  /\ run' = [run EXCEPT ![s] = taskQueueRunning[s]]
  /\ UNCHANGED <<managerVars, taskQueueRunning, thread, pendingStop,
                 pendingRemove, failures, stepper, requestVars, threadVars,
                 running, fault>>

LoopOrExit(s) == IF run[s] THEN "fetch" ELSE "exited"

CheckEmpty(s) ==
  /\ WorkAt(s, "check", IF taskQueue[s] = <<>> THEN "stop" ELSE LoopOrExit(s))
  /\ UNCHANGED <<managerVars, sessionVars, task, run, requestVars, threadVars,
                 running, fault>>

CheckStop(s) ==
  /\ \/ /\ pendingStop[s]
        /\ WorkAt(s, "stop", "exited")
        /\ run' = [run EXCEPT ![s] = FALSE]
        /\ taskQueue' = [taskQueue EXCEPT ![s] = <<>>]
        /\ pendingRemove' = [pendingRemove EXCEPT ![s] = TRUE]
     \/ /\ ~pendingStop[s]
        /\ WorkAt(s, "stop", LoopOrExit(s))
        /\ UNCHANGED <<run, taskQueue, pendingRemove>>
  /\ UNCHANGED <<managerVars, taskQueueRunning, thread, pendingStop, failures,
                 stepper, task, requestVars, threadVars, running, fault>>

-----------------------------------------------------------------------------
Worker(s) == Fetch(s) \/ Compile(s) \/ Step(s) \/ ParseFind(s) \/ ParseLock(s)
               \/ ParseRun(s) \/ Throw(s) \/ Pop(s) \/ CheckEmpty(s)
               \/ CheckStop(s)

Clean(t) == CleanSession(t) \/ Joined(t) \/ Cleaned(t)

\* What the server thread does once it has a request, or at its loop's top.
Answer == CleanFinished \/ EndAll \/ NoTempFile \/ CreateSession \/ InsertSession
            \/ NotFound \/ FindSession \/ LockSession \/ UseDangling
            \/ EnqueueCompile \/ EnqueueParse \/ HandleStep \/ HandleStop
            \/ NoState \/ TellRetry \/ BeginState \/ ReadState \/ Release

Request == \E k \in Kind, s \in Session : TakeRequest(k, s)

Operator == Quit \/ Kill

Next ==
  \/ \E t \in Cleaner : Clean(t)
  \/ Answer
  \/ NoRequest
  \/ Request
  \/ Operator
  \/ \E s \in Session : Worker(s)

Spec == Init /\ [][Next]_vars

(* Every thread is scheduled and every command ends.  A worker that keeps   *)
(* asking for sessionMutex gets it: the server thread sleeps or waits for   *)
(* a socket between its turns with it.  The clients do not keep the request *)
(* queue filled for ever: the server thread returns to its loop's top.      *)
Fairness ==
  /\ WF_vars(Answer \/ Clean(Server))
  /\ WF_vars(Clean(Main))
  /\ SF_vars(NoRequest)
  /\ \A s \in Session :
       /\ WF_vars(Worker(s))
       /\ SF_vars(ParseFind(s))

FairSpec == Spec /\ Fairness
=============================================================================
