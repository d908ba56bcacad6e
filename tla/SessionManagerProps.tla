------------------------ MODULE SessionManagerProps ------------------------
(***************************************************************************)
(* The properties of the debug server's threads (see SessionManager).      *)
(***************************************************************************)
EXTENDS SessionManager

Places == {"loop", "serve", "clean", "join", "create", "insert", "lock",
           "wait", "stopped"} \union Handling

CleaningState == [why : {"finished", "replace", "end"}, todo : SUBSET Session,
                  now : Session \union {Nobody}]

ManagerTypes ==
  /\ sessions \subseteq born /\ born \subseteq Session
  /\ sessionMutex \in Thread \union {Nobody}
  /\ sessionLock \in [Session -> Session \union {Server, Nobody}]

SessionTypes ==
  /\ taskQueue \in [Session -> Seq(Command)]
  /\ {taskQueueRunning, thread, pendingStop, pendingRemove, failures, stepper}
       \subseteq [Session -> BOOLEAN]

WorkerTypes ==
  /\ worker \in [Session -> {"none", "fetch", "run", "wait", "parse", "pop",
                             "check", "stop", "exited"}]
  /\ task \in [Session -> Command \union {Nobody}]
  /\ run \in [Session -> BOOLEAN]

ThreadTypes ==
  /\ DOMAIN pc = Cleaner
  /\ pc[Server] \in Places /\ pc[Main] \in {"idle", "clean", "join"}
  /\ cleaning \in [Cleaner -> CleaningState]

RequestTypes ==
  /\ kind \in Kind \union {"none"}
  /\ target \in Session \union {Nobody}
  /\ wrapper \in Session \union {Nobody}
  /\ running \in BOOLEAN
  /\ fault \in {"none", "terminate", "dangling", "null stepper",
                "null session"}

\* The range of every variable.
TypeOK == ManagerTypes /\ SessionTypes /\ WorkerTypes /\ ThreadTypes /\ RequestTypes

\* The worker of s is inside a command.
Executing(s) == worker[s] \in {"run", "wait", "parse"}

(* The responses that read the debugger's state hold the session's lock,   *)
(* which no StepCmd takes; they rely on pendingCommands() alone.  It is    *)
(* enough: while they read, the worker executes nothing.                   *)
StateReadAlone == pc[Server] = "read" => ~Executing(wrapper)

(* cleanFinishedSessions joins workers with sessionMutex held, the mutex   *)
(* ParseCmd needs.  A session marked for removal has no ParseCmd left to   *)
(* run, so the join always returns.                                        *)
FinishedNeverParses ==
  pc[Server] = "join" /\ cleaning[Server].why # "end" =>
    task[cleaning[Server].now] # "parse"

(* lockSession waits for a session's lock with sessionMutex held.  Whoever  *)
(* has that lock is past the point where it needs sessionMutex, so the two  *)
(* locks never wait for each other.                                         *)
LocksNest ==
  /\ pc[Server] = "wait" =>
       /\ sessionMutex = Server
       /\ sessionLock[target] = Nobody
            \/ \E s \in Session : sessionLock[target] = s /\ worker[s] = "parse"
  /\ \A s \in Session : worker[s] = "wait" =>
       /\ sessionMutex = s
       /\ sessionLock[s] = Nobody
            \/ (sessionLock[s] = Server /\ pc[Server] \in Handling)

(* ParseCmd finds its session: the branch that would dereference a null    *)
(* session is never taken, not even when the sessions are killed.          *)
ParseFindsSession == fault # "null session"

(* A session that answers a state request has something to show, failures  *)
(* or a stepper, unless it is already marked for removal.                  *)
SettledHasResult ==
  pc[Server] = "read" /\ kind = "stateAll" =>
    failures[wrapper] \/ stepper[wrapper] \/ pendingRemove[wrapper]

(* A request the server thread has taken does not wait for ever for the    *)
(* two locks: it is answered.  (That the thread comes to take requests at  *)
(* all, past the join of cleanFinishedSessions, is FinishedNeverParses'    *)
(* matter.)                                                                *)
RequestsAnswered ==
  (pc[Server] \in {"create", "lock"}) ~>
     (pc[Server] = "serve" \/ fault # "none")

(* A stopped session goes away once nobody steps it any more: stop is only *)
(* looked at when the queue is found empty, and steps keep it filled.      *)
StopRemoves ==
  <>[](kind # "step") =>
    \A s \in Session :
      (s \in sessions /\ pendingStop[s]) ~> (s \notin sessions \/ fault # "none")

(* A compilation is eventually settled: with failures or a stepper to show, *)
(* or because the session is gone.                                         *)
CompileSettles ==
  \A s \in Session :
    (s \in sessions) ~> (failures[s] \/ stepper[s] \/ s \notin sessions
                           \/ fault # "none")

(* The operator's q and Ctrl-C shut the server down.                       *)
ShutdownCompletes == ~running ~> (pc[Server] = "stopped" \/ fault # "none")

(* Killing the sessions leaves the server running.                         *)
KillIsSafe == fault \notin {"dangling", "terminate"}

(* A client may reconnect to the session it knows and ask for its state.   *)
ReconnectIsSafe == fault # "null stepper"
=============================================================================
