------------------------ MODULE SessionManagerProofs ------------------------
(***************************************************************************)
(* Proofs about the threads of the debug server, for any set of sessions,  *)
(* both session modes and whatever clients, commands and the operator may  *)
(* do: the safety properties of SessionManagerProps.                       *)
(***************************************************************************)
EXTENDS SessionManagerProps, SequenceTheorems, TLAPS

-----------------------------------------------------------------------------
(* The inductive invariant.  LocksNest and the others speak of one place of *)
(* the code each; what makes them true is who owns which lock, where each   *)
(* worker stands with its queue, and what is left to be done for a session. *)

\* The threads that clean up are in the middle of it.
Cleans(t) == pc[t] \in {"clean", "join"}

\* What a place of the code knows of the request.
Placed ==
  /\ pc[Server] \in {"create", "insert"} => target \in Session \ born
  /\ Cleans(Server) /\ cleaning[Server].why = "replace" => target \in Session \ born
  /\ pc[Server] \in {"lock", "wait"} => target \in Session
  /\ pc[Server] = "wait" => target \in sessions
  /\ pc[Server] \in Handling => wrapper \in born
  /\ \A t \in Cleaner : pc[t] = "join" => cleaning[t].now \in cleaning[t].todo
  /\ \A t \in Cleaner : Cleans(t) => cleaning[t].todo \subseteq sessions
  /\ Cleans(Main) => cleaning[Main].why = "end"

\* Each place of the code that needs sessionMutex has it, and no other.
MutexHeld ==
  /\ sessionMutex = Server <=> Cleans(Server) \/ pc[Server] \in {"insert", "wait"}
  /\ sessionMutex = Main <=> Cleans(Main)
  /\ \A s \in Session : sessionMutex = s <=> worker[s] = "wait"

\* A session's lock is the response builder's or its own worker's.
LocksHeld ==
  \A s \in Session :
    /\ sessionLock[s] \in {Nobody, Server, s}
    /\ sessionLock[s] = Server <=> pc[Server] \in Handling /\ wrapper = s
    /\ sessionLock[s] = s <=> worker[s] = "parse"

\* A Session object is empty before it is created.
Unborn ==
  \A s \in Session \ born :
    /\ taskQueue[s] = <<>> /\ ~thread[s]
    /\ ~pendingStop[s] /\ ~pendingRemove[s]
    /\ worker[s] = "none"

\* A worker that has not ended belongs to a session that is not destroyed, so
\* that a ParseCmd finds it.
Living ==
  /\ fault # "null session"
  /\ \A s \in Session : worker[s] \notin {"none", "exited"} => thread[s]
  /\ Alive => \A s \in Session : thread[s] => s \in sessions

\* A worker's command is at the front of the queue until it is popped.
Holding ==
  \A s \in Session :
    /\ worker[s] \in {"run", "wait", "parse"} => task[s] # Nobody
    /\ worker[s] \in {"wait", "parse"} => task[s] = "parse"
    /\ task[s] # Nobody => /\ worker[s] \in {"run", "wait", "parse", "pop"}
                           /\ taskQueue[s] # <<>>
                           /\ task[s] = Head(taskQueue[s])

\* State is read only of a session without commands.
Idle == pc[Server] = "read" => taskQueue[wrapper] = <<>>

Queued(s, c) == \E i \in 1..Len(taskQueue[s]) : taskQueue[s][i] = c

\* A session that is being created: its two commands are not all queued.
Creating(s) == pc[Server] \in {"compile", "parse"} /\ wrapper = s

\* CompileCmd is the first command of a session, and ParseCmd is behind it.
CompileFirst ==
  /\ \A s \in Session : \A i \in 1..Len(taskQueue[s]) :
       taskQueue[s][i] = "compile" => i = 1
  /\ \A s \in Session :
       Queued(s, "compile") => Queued(s, "parse") \/ (Creating(s) /\ pc[Server] = "parse")
  /\ pc[Server] = "compile" => taskQueue[wrapper] = <<>>

HasResult(s) == failures[s] \/ stepper[s] \/ pendingRemove[s]

\* ParseCmd has left a result, or is still to come.
ResultComes ==
  /\ \A s \in born : HasResult(s) \/ Queued(s, "parse") \/ Creating(s)
  /\ \A s \in Session : worker[s] = "pop" /\ task[s] = "parse" => HasResult(s)

SafeInv ==
  /\ TypeOK /\ Placed /\ MutexHeld /\ LocksHeld /\ Unborn /\ Living /\ Holding
  /\ Idle /\ CompileFirst /\ ResultComes

\* A session is not stopped, or marked for removal, while it is created, and
\* is marked only when it has no ParseCmd left; the exception is a session
\* that the operator has killed.
RemovedLater ==
  /\ \A s \in Session : Creating(s) => ~pendingStop[s]
  /\ fault = "none" /\ pc[Main] = "idle" =>
       \A s \in sessions : pendingRemove[s] => ~Creating(s) /\ ~Queued(s, "parse")

\* What cleaning up a session that is finished, or replaced, relies on.
Finished ==
  /\ Cleans(Server) /\ cleaning[Server].why = "finished" =>
       \A s \in cleaning[Server].todo : pendingRemove[s]
  /\ \/ pc[Server] = "create"
     \/ Cleans(Server) /\ cleaning[Server].why = "replace"
     => (PatientClient => \A s \in sessions : taskQueue[s] = <<>>)
  /\ cleaning[Server].why = "replace" => SingleSession
  /\ Cleans(Server) => Alive

RemovalInv == SafeInv /\ RemovedLater /\ Finished

\* Without the operator's k, only the server thread resets a worker's flag, and
\* joins it before it does anything else.
Unkilled ==
  /\ pc[Main] = "idle"
  /\ fault \notin {"dangling", "terminate"}
  /\ pc[Server] \in Handling => wrapper \in sessions
  /\ \A s \in Session : thread[s] /\ ~taskQueueRunning[s] =>
       pc[Server] = "join" /\ cleaning[Server].now = s
  /\ Cleans(Server) /\ cleaning[Server].why = "end" =>
       \A s \in sessions \ cleaning[Server].todo : ~thread[s]

UnkilledInv == SafeInv /\ Unkilled

-----------------------------------------------------------------------------
(* Facts that most steps need.                                               *)

(* What removing the first element of a sequence leaves.                     *)
LEMMA RestFacts ==
  ASSUME NEW S, NEW q \in Seq(S), q # <<>>
  PROVE  /\ SubSeq(q, 2, Len(q)) \in Seq(S)
         /\ Len(SubSeq(q, 2, Len(q))) = Len(q) - 1
         /\ \A i \in 1..(Len(q) - 1) : SubSeq(q, 2, Len(q))[i] = q[i + 1]
<1>1. Len(q) \in Nat /\ Len(q) >= 1 /\ \A i \in 1..Len(q) : q[i] \in S
  OBVIOUS
<1>2. /\ SubSeq(q, 2, Len(q)) \in Seq(S)
      /\ Len(SubSeq(q, 2, Len(q))) = IF 2 <= Len(q) THEN Len(q) - 2 + 1 ELSE 0
      /\ \A i \in 1..(Len(q) - 2 + 1) : SubSeq(q, 2, Len(q))[i] = q[2 + i - 1]
  BY <1>1, SubSeqProperties
<1>3. ASSUME NEW i \in 1..(Len(q) - 1)
      PROVE  i \in 1..(Len(q) - 2 + 1) /\ 2 + i - 1 = i + 1
  BY <1>1
<1>4. ASSUME NEW i \in 1..(Len(q) - 1)
      PROVE  SubSeq(q, 2, Len(q))[i] = q[i + 1]
  BY <1>2, <1>3
<1>5. Len(SubSeq(q, 2, Len(q))) = Len(q) - 1
  <2>1. CASE Len(q) = 1
    BY <1>2, <2>1
  <2>2. CASE Len(q) >= 2
    <3>1. Len(SubSeq(q, 2, Len(q))) = Len(q) - 2 + 1
      BY <1>1, <1>2, <2>2
    <3> QED
      BY <1>1, <3>1
  <2> QED
    BY <1>1, <2>1, <2>2
<1> QED
  BY <1>2, <1>4, <1>5

\* The server thread stays out of the creation of a session, or where it is.
SamePlace ==
  \/ pc'[Server] = pc[Server] /\ wrapper' = wrapper
  \/ {pc[Server], pc'[Server]} \cap {"compile", "parse"} = {}

(* A step that leaves the queues alone, and creates no session, leaves the   *)
(* order of commands alone.                                                  *)
LEMMA SameQueues ==
  ASSUME CompileFirst, taskQueue' = taskQueue, SamePlace
  PROVE  CompileFirst'
  BY DEF CompileFirst, Queued, Creating, SamePlace

(* If it takes no result away either, every session still has one or a       *)
(* ParseCmd to come.                                                         *)
LEMMA SameResults ==
  ASSUME ResultComes, taskQueue' = taskQueue, born' = born, SamePlace,
         \A s \in born \union Session : HasResult(s) => HasResult(s)',
         \A s \in Session : worker'[s] = "pop" /\ task'[s] = "parse" =>
           (worker[s] = "pop" /\ task[s] = "parse") \/ HasResult(s)'
  PROVE  ResultComes'
  BY DEF ResultComes, Queued, Creating, SamePlace

-----------------------------------------------------------------------------
(* The steps.                                                                *)


LEMMA CleanSessionSafe ==
  ASSUME SafeInv, NEW t \in Cleaner, CleanSession(t)
  PROVE  SafeInv'
<1> USE SessionManagerAssumption DEF SafeInv, CleanSession, GoTo, Alive,
    managerVars, workerVars, requestVars
<1>1. ManagerTypes'
  BY DEF TypeOK, ManagerTypes
<1>2. SessionTypes'
  BY DEF TypeOK, SessionTypes, ThreadTypes, CleaningState
<1>3. WorkerTypes'
  BY DEF TypeOK, WorkerTypes
<1>4. ThreadTypes'
  <2>1. PICK s \in cleaning[t].todo : cleaning' = [cleaning EXCEPT ![t].now = s]
    OBVIOUS
  <2>2. cleaning[t] \in CleaningState
    BY DEF TypeOK, ThreadTypes
  <2>3. [cleaning[t] EXCEPT !.now = s] \in CleaningState
    BY <2>1, <2>2 DEF CleaningState
  <2>4. cleaning' = [cleaning EXCEPT ![t] = [cleaning[t] EXCEPT !.now = s]]
    BY <2>1
  <2> QED
    BY <2>3, <2>4 DEF TypeOK, ThreadTypes, Places, Cleaner
<1>5. RequestTypes'
  BY DEF TypeOK, RequestTypes
<1>6. (Placed /\ MutexHeld /\ LocksHeld)'
  BY DEF TypeOK, ThreadTypes, Handling, Placed, Cleans, MutexHeld, LocksHeld
<1>7. (Unborn /\ Living /\ Holding /\ Idle)'
  BY DEF Unborn, Living, Holding, Idle
<1>8. CompileFirst'
  BY SameQueues DEF SamePlace
<1>9. ResultComes'
  BY SameResults DEF SamePlace, HasResult
<1> QED
  BY <1>1, <1>2, <1>3, <1>4, <1>5, <1>6, <1>7, <1>8, <1>9 DEF TypeOK

(* The joined worker has ended, so its queue is never touched again. *)
LEMMA JoinedSafe ==
  ASSUME SafeInv, NEW t \in Cleaner, Joined(t)
  PROVE  SafeInv'
<1> USE SessionManagerAssumption DEF SafeInv, Joined, GoTo, Alive, Ended,
    Remaining, workerVars, requestVars
<1>1. ManagerTypes'
  BY DEF TypeOK, ManagerTypes
<1>2. SessionTypes'
  BY DEF TypeOK, ThreadTypes, CleaningState, Placed
<1>3. WorkerTypes'
  BY DEF TypeOK, WorkerTypes
<1>4. ThreadTypes'
  <2> DEFINE next == [cleaning[t] EXCEPT !.todo = @ \ {cleaning[t].now}, !.now = Nobody]
  <2>1. cleaning[t] \in CleaningState /\ cleaning \in [Cleaner -> CleaningState]
    BY DEF TypeOK, ThreadTypes
  <2>2. next \in CleaningState
    BY <2>1 DEF CleaningState
  <2>3. cleaning' = [cleaning EXCEPT ![t] = next]
    BY <2>1
  <2>4. /\ DOMAIN pc' = Cleaner
        /\ pc'[Server] \in Places /\ pc'[Main] \in {"idle", "clean", "join"}
    BY DEF TypeOK, ThreadTypes, Places
  <2> HIDE DEF next
  <2>5. cleaning' \in [Cleaner -> CleaningState]
    BY <2>1, <2>2, <2>3
  <2> QED
    BY <2>4, <2>5 DEF ThreadTypes
<1>5. RequestTypes'
  BY DEF TypeOK, RequestTypes
<1>6. (Placed /\ MutexHeld /\ LocksHeld)'
  BY DEF TypeOK, ThreadTypes, CleaningState, Placed
<1>7. (Unborn /\ Living /\ Holding /\ Idle)'
  BY DEF TypeOK, ThreadTypes, CleaningState, Unborn, Living, Holding, Idle
<1>8. CompileFirst'
  <2>1. cleaning[t].now \in Session
    BY DEF Placed, Cleans, TypeOK, ManagerTypes
  <2>2. taskQueue'[cleaning[t].now] = <<>>
    BY <2>1 DEF TypeOK, SessionTypes
  <2>3. \A s \in Session \ {cleaning[t].now} : taskQueue'[s] = taskQueue[s]
    BY <2>1
  <2>4. SamePlace
    BY DEF SamePlace
  <2>5. \A i \in 1..Len(<<>>) : FALSE
    OBVIOUS
  <2> HIDE DEF Joined
  <2>6. \A s \in Session : \A i \in 1..Len(taskQueue'[s]) :
          taskQueue'[s][i] = "compile" => i = 1
    BY <2>2, <2>3, <2>5 DEF CompileFirst
  <2>7. ASSUME NEW s \in Session, Queued(s, "compile")'
        PROVE  Queued(s, "parse")' \/ (Creating(s) /\ pc[Server] = "parse")'
    <3> HIDE DEF SafeInv
    <3>1. s # cleaning[t].now
      BY <2>2, <2>5, <2>7 DEF Queued
    <3>2. taskQueue'[s] = taskQueue[s]
      BY <2>3, <3>1
    <3>3. Queued(s, "compile")
      BY <2>7, <3>2 DEF Queued
    <3>4. Queued(s, "parse") \/ (Creating(s) /\ pc[Server] = "parse")
      BY <3>3 DEF SafeInv, CompileFirst
    <3>5. Queued(s, "parse") => Queued(s, "parse")'
      BY <3>2 DEF Queued
    <3>6. Creating(s) /\ pc[Server] = "parse" => (Creating(s) /\ pc[Server] = "parse")'
      BY <2>4 DEF SamePlace, Creating
    <3> QED
      BY <3>4, <3>5, <3>6
  <2>8. pc'[Server] = "compile" => taskQueue'[wrapper'] = <<>>
    BY <2>2, <2>3, <2>4 DEF CompileFirst, SamePlace, Placed, Handling, TypeOK,
       ManagerTypes
  <2> QED
    BY <2>6, <2>7, <2>8 DEF CompileFirst
<1>9. ResultComes'
  BY DEF TypeOK, SessionTypes, ResultComes, HasResult, Queued, Creating
<1> QED
  BY <1>1, <1>2, <1>3, <1>4, <1>5, <1>6, <1>7, <1>8, <1>9 DEF TypeOK

(* The sweep's end gives sessionMutex back and goes on with the request. *)
LEMMA CleanedSafe ==
  ASSUME SafeInv, NEW t \in Cleaner, Cleaned(t)
  PROVE  SafeInv'
<1> USE SessionManagerAssumption DEF SafeInv, Cleaned, GoTo, Alive,
    AfterCleaning, sessionVars, workerVars, requestVars
<1>1. (ManagerTypes /\ SessionTypes /\ WorkerTypes /\ ThreadTypes /\ RequestTypes)'
  BY DEF TypeOK, ManagerTypes, SessionTypes, WorkerTypes, ThreadTypes,
     RequestTypes, CleaningState, Places, Thread, Cleaner
<1>2. (Placed /\ MutexHeld /\ LocksHeld)'
  BY DEF TypeOK, ThreadTypes, CleaningState, Handling, Cleaner, Placed, Cleans,
     MutexHeld, LocksHeld
<1>3. (Unborn /\ Living /\ Holding /\ Idle)'
  BY DEF TypeOK, ThreadTypes, CleaningState, Unborn, Living, Holding, Idle
<1>4. CompileFirst'
  BY SameQueues DEF SamePlace
<1>5. ResultComes'
  BY SameResults DEF SamePlace, HasResult
<1> QED
  BY <1>1, <1>2, <1>3, <1>4, <1>5 DEF TypeOK

(* The sweep of the server loop starts with sessionMutex and what is to go. *)
LEMMA CleanFinishedSafe ==
  ASSUME SafeInv, CleanFinished
  PROVE  SafeInv'
<1> USE SessionManagerAssumption DEF SafeInv, CleanFinished, GoTo, Alive,
    StartCleaning, ToRemove, sessionVars, workerVars, requestVars
<1>1. (ManagerTypes /\ SessionTypes /\ WorkerTypes /\ ThreadTypes /\ RequestTypes)'
  BY DEF TypeOK, ManagerTypes, SessionTypes, WorkerTypes, ThreadTypes,
     RequestTypes, CleaningState, Places, Thread, Cleaner
<1>2. (Placed /\ MutexHeld /\ LocksHeld)'
  BY DEF TypeOK, ThreadTypes, Handling, Cleaner, Placed, Cleans, MutexHeld,
     LocksHeld
<1>3. (Unborn /\ Living /\ Holding /\ Idle)'
  BY DEF Unborn, Living, Holding, Idle
<1>4. CompileFirst'
  BY SameQueues DEF SamePlace
<1>5. ResultComes'
  BY SameResults DEF SamePlace, HasResult
<1> QED
  BY <1>1, <1>2, <1>3, <1>4, <1>5 DEF TypeOK

(* The server's last sweep starts with sessionMutex and every session. *)
LEMMA EndAllSafe ==
  ASSUME SafeInv, EndAll
  PROVE  SafeInv'
<1> USE SessionManagerAssumption DEF SafeInv, EndAll, GoTo, Alive,
    StartCleaning, sessionVars, workerVars, requestVars
<1>1. (ManagerTypes /\ SessionTypes /\ WorkerTypes /\ ThreadTypes /\ RequestTypes)'
  BY DEF TypeOK, ManagerTypes, SessionTypes, WorkerTypes, ThreadTypes,
     RequestTypes, CleaningState, Places, Thread, Cleaner
<1>2. (Placed /\ MutexHeld /\ LocksHeld)'
  BY DEF TypeOK, ThreadTypes, Handling, Cleaner, Placed, Cleans, MutexHeld,
     LocksHeld
<1>3. (Unborn /\ Living /\ Holding /\ Idle)'
  BY DEF Unborn, Living, Holding, Idle
<1>4. CompileFirst'
  BY SameQueues DEF SamePlace
<1>5. ResultComes'
  BY SameResults DEF SamePlace, HasResult
<1> QED
  BY <1>1, <1>2, <1>3, <1>4, <1>5 DEF TypeOK

(* The loop without a request changes no lock. *)
LEMMA NoRequestSafe ==
  ASSUME SafeInv, NoRequest
  PROVE  SafeInv'
<1> USE SessionManagerAssumption DEF SafeInv, NoRequest, GoTo, Alive,
    managerVars, sessionVars, workerVars, requestVars
<1>1. (ManagerTypes /\ SessionTypes /\ WorkerTypes /\ ThreadTypes /\ RequestTypes)'
  BY DEF TypeOK, ManagerTypes, SessionTypes, WorkerTypes, ThreadTypes,
     RequestTypes, Places
<1>2. (Placed /\ MutexHeld /\ LocksHeld)'
  BY DEF Handling, Placed, Cleans, MutexHeld, LocksHeld
<1>3. (Unborn /\ Living /\ Holding /\ Idle)'
  BY DEF Unborn, Living, Holding, Idle
<1>4. CompileFirst'
  BY SameQueues DEF SamePlace
<1>5. ResultComes'
  BY SameResults DEF SamePlace, HasResult
<1> QED
  BY <1>1, <1>2, <1>3, <1>4, <1>5 DEF TypeOK

(* The request taken names a session or none. *)
LEMMA TakeRequestSafe ==
  ASSUME SafeInv, NEW k \in Kind, NEW s \in Session, TakeRequest(k, s)
  PROVE  SafeInv'
<1> USE SessionManagerAssumption DEF SafeInv, TakeRequest, GoTo, Alive, Found,
    managerVars, sessionVars, workerVars
<1>1. (ManagerTypes /\ SessionTypes /\ WorkerTypes /\ ThreadTypes /\ RequestTypes)'
  BY DEF TypeOK, ManagerTypes, SessionTypes, WorkerTypes, ThreadTypes,
     RequestTypes, Places
<1>2. (Placed /\ MutexHeld /\ LocksHeld)'
  BY DEF Handling, Placed, Cleans, MutexHeld, LocksHeld
<1>3. (Unborn /\ Living /\ Holding /\ Idle)'
  BY DEF Unborn, Living, Holding, Idle
<1>4. CompileFirst'
  BY SameQueues DEF SamePlace
<1>5. ResultComes'
  BY SameResults DEF SamePlace, HasResult
<1> QED
  BY <1>1, <1>2, <1>3, <1>4, <1>5 DEF TypeOK

(* The new session has nothing queued and no thread. *)
LEMMA CreateSessionSafe ==
  ASSUME SafeInv, CreateSession
  PROVE  SafeInv'
<1> USE SessionManagerAssumption DEF SafeInv, Cleaner
<1>1. /\ pc[Server] = "create" /\ pc'[Server] \in {"clean", "insert"}
      /\ DOMAIN pc' = Cleaner /\ pc'[Main] = pc[Main]
      /\ sessionMutex = Nobody /\ sessionMutex' = Server
      /\ UNCHANGED <<sessions, born, sessionLock, sessionVars, workerVars, requestVars,
                     running, fault>>
  BY DEF CreateSession, StartCleaning, GoTo, TypeOK, ThreadTypes
<1>2. /\ cleaning' \in [Cleaner -> CleaningState]
      /\ cleaning'[Main] = cleaning[Main]
      /\ pc'[Server] = "clean" => cleaning'[Server].todo = sessions
  <2>1. cleaning \in [Cleaner -> CleaningState] /\ DOMAIN pc = Cleaner
    BY DEF TypeOK, ThreadTypes
  <2>2. CASE SingleSession /\ sessions # {}
    <3> DEFINE all == [why |-> "replace", todo |-> sessions, now |-> Nobody]
    <3>1. all \in CleaningState /\ all.todo = sessions
      BY DEF CleaningState, TypeOK, ManagerTypes
    <3>2. cleaning' = [cleaning EXCEPT ![Server] = all]
      BY <2>2 DEF CreateSession, StartCleaning
    <3> QED
      BY <2>1, <3>1, <3>2
  <2>3. CASE ~(SingleSession /\ sessions # {})
    BY <2>1, <2>3 DEF CreateSession, GoTo
  <2> QED
    BY <2>2, <2>3
<1>3. TypeOK'
  BY <1>1, <1>2 DEF TypeOK, ManagerTypes, SessionTypes, WorkerTypes,
     ThreadTypes, RequestTypes, Places, Thread, sessionVars, workerVars,
     requestVars
<1>4. (Placed /\ MutexHeld /\ LocksHeld)'
  BY <1>1, <1>2 DEF Placed, Cleans, MutexHeld, LocksHeld, Handling, workerVars,
     requestVars
<1>5. (Unborn /\ Living /\ Holding /\ Idle)'
  BY <1>1 DEF Unborn, Living, Holding, Idle, Alive, sessionVars, workerVars
<1>6. SamePlace /\ taskQueue' = taskQueue
  BY <1>1 DEF SamePlace, sessionVars
<1>7. (CompileFirst /\ ResultComes)'
  BY <1>1, <1>6, SameQueues, SameResults DEF HasResult, sessionVars, workerVars
<1> QED
  BY <1>3, <1>4, <1>5, <1>7

(* The session is in the map, and its thread is joinable, once inserted. *)
LEMMA InsertSessionSafe ==
  ASSUME SafeInv, InsertSession
  PROVE  SafeInv'
<1> USE SessionManagerAssumption DEF SafeInv, InsertSession, GoTo, Alive,
    sessionVars, workerVars
<1>1. ManagerTypes'
  BY DEF TypeOK, ManagerTypes, Placed
<1>2. SessionTypes'
  BY DEF TypeOK, SessionTypes
<1>3. WorkerTypes'
  BY DEF TypeOK, WorkerTypes
<1>4. ThreadTypes'
  BY DEF TypeOK, ThreadTypes, Places, Handling
<1>5. RequestTypes'
  BY DEF TypeOK, RequestTypes
<1>6. Placed'
  BY DEF TypeOK, ThreadTypes, Cleaner, Placed, Cleans
<1>7. MutexHeld'
  BY DEF TypeOK, ThreadTypes, Cleaner, MutexHeld, Cleans
<1>8. LocksHeld'
  <2>1. target \in Session /\ worker[target] = "none"
    BY DEF Placed, Unborn
  <2>2. \A s \in Session : sessionLock[s] # Server
    BY DEF LocksHeld, Handling
  <2> QED
    BY <2>1, <2>2 DEF LocksHeld, TypeOK, ManagerTypes, ThreadTypes, Handling,
       Cleaner
<1>9. (Unborn /\ Living /\ Holding /\ Idle)'
  BY DEF Unborn, Living, Holding, Idle
<1>10. CompileFirst'
  <2>1. taskQueue[target] = <<>>
    BY DEF Placed, Unborn
  <2>2. \A s \in Session : Queued(s, "compile") => Queued(s, "parse")
    BY DEF CompileFirst
  <2>3. \A s \in Session : \A c \in Command : Queued(s, c)' <=> Queued(s, c)
    BY DEF Queued
  <2> QED
    BY <2>1, <2>2, <2>3 DEF CompileFirst, Command
<1>11. ResultComes'
  BY DEF TypeOK, ThreadTypes, Cleaner, ResultComes, HasResult, Queued, Creating
<1> QED
  BY <1>1, <1>2, <1>3, <1>4, <1>5, <1>6, <1>7, <1>8, <1>9, <1>10, <1>11
     DEF TypeOK

(* An unknown name ends the request. *)
LEMMA NotFoundSafe ==
  ASSUME SafeInv, NotFound
  PROVE  SafeInv'
<1> USE SessionManagerAssumption DEF SafeInv, NotFound, GoTo, Alive, Responded,
    Found, managerVars, sessionVars, workerVars
<1>1. (ManagerTypes /\ SessionTypes /\ WorkerTypes /\ ThreadTypes /\ RequestTypes)'
  BY DEF TypeOK, ManagerTypes, SessionTypes, WorkerTypes, ThreadTypes,
     RequestTypes, Places
<1>2. (Placed /\ MutexHeld /\ LocksHeld)'
  BY DEF TypeOK, ThreadTypes, Handling, Cleaner, Placed, Cleans, MutexHeld,
     LocksHeld
<1>3. (Unborn /\ Living /\ Holding /\ Idle)'
  BY DEF Unborn, Living, Holding, Idle
<1>4. CompileFirst'
  BY SameQueues DEF SamePlace
<1>5. ResultComes'
  BY SameResults DEF SamePlace, HasResult
<1> QED
  BY <1>1, <1>2, <1>3, <1>4, <1>5 DEF TypeOK

(* Without a temporary file nothing is created. *)
LEMMA NoTempFileSafe ==
  ASSUME SafeInv, NoTempFile
  PROVE  SafeInv'
<1> USE SessionManagerAssumption DEF SafeInv, NoTempFile, GoTo, Alive, Responded,
    Found, managerVars, sessionVars, workerVars
<1>1. (ManagerTypes /\ SessionTypes /\ WorkerTypes /\ ThreadTypes /\ RequestTypes)'
  BY DEF TypeOK, ManagerTypes, SessionTypes, WorkerTypes, ThreadTypes,
     RequestTypes, Places
<1>2. (Placed /\ MutexHeld /\ LocksHeld)'
  BY DEF TypeOK, ThreadTypes, Handling, Cleaner, Placed, Cleans, MutexHeld,
     LocksHeld
<1>3. (Unborn /\ Living /\ Holding /\ Idle)'
  BY DEF Unborn, Living, Holding, Idle
<1>4. CompileFirst'
  BY SameQueues DEF SamePlace
<1>5. ResultComes'
  BY SameResults DEF SamePlace, HasResult
<1> QED
  BY <1>1, <1>2, <1>3, <1>4, <1>5 DEF TypeOK

(* The session found is one of the map's. *)
LEMMA FindSessionSafe ==
  ASSUME SafeInv, FindSession
  PROVE  SafeInv'
<1> USE SessionManagerAssumption DEF SafeInv, FindSession, GoTo, Alive, Found,
    sessionVars, workerVars
<1>1. (ManagerTypes /\ SessionTypes /\ WorkerTypes /\ ThreadTypes /\ RequestTypes)'
  BY DEF TypeOK, ManagerTypes, SessionTypes, WorkerTypes, ThreadTypes,
     RequestTypes, Places, Thread
<1>2. (Placed /\ MutexHeld /\ LocksHeld)'
  BY DEF TypeOK, ManagerTypes, ThreadTypes, Handling, Cleaner, Placed, Cleans,
     MutexHeld, LocksHeld
<1>3. (Unborn /\ Living /\ Holding /\ Idle)'
  BY DEF Unborn, Living, Holding, Idle
<1>4. CompileFirst'
  BY SameQueues DEF SamePlace
<1>5. ResultComes'
  BY SameResults DEF SamePlace, HasResult
<1> QED
  BY <1>1, <1>2, <1>3, <1>4, <1>5 DEF TypeOK

(* The session's lock is taken before sessionMutex is given back. *)
LEMMA LockSessionSafe ==
  ASSUME SafeInv, LockSession
  PROVE  SafeInv'
<1> USE SessionManagerAssumption DEF SafeInv, LockSession, GoTo, Alive,
    sessionVars, workerVars
<1>1. (ManagerTypes /\ SessionTypes /\ WorkerTypes /\ ThreadTypes /\ RequestTypes)'
  BY DEF TypeOK, ManagerTypes, SessionTypes, WorkerTypes, ThreadTypes,
     RequestTypes, Places, Handling, Cleaner
<1>2. (Placed /\ MutexHeld /\ LocksHeld)'
  BY DEF TypeOK, ManagerTypes, ThreadTypes, Handling, Cleaner, Placed, Cleans,
     MutexHeld, LocksHeld
<1>3. (Unborn /\ Living /\ Holding /\ Idle)'
  BY DEF Unborn, Living, Holding, Idle
<1>4. CompileFirst'
  BY SameQueues DEF SamePlace
<1>5. ResultComes'
  BY SameResults DEF SamePlace, HasResult
<1> QED
  BY <1>1, <1>2, <1>3, <1>4, <1>5 DEF TypeOK

(* A use of a session that is gone changes the fault only. *)
LEMMA UseDanglingSafe ==
  ASSUME SafeInv, UseDangling
  PROVE  SafeInv'
<1> USE SessionManagerAssumption DEF SafeInv, UseDangling, Alive, managerVars,
    sessionVars, workerVars, requestVars, threadVars
<1>1. (ManagerTypes /\ SessionTypes /\ WorkerTypes /\ ThreadTypes /\ RequestTypes)'
  BY DEF TypeOK, ManagerTypes, SessionTypes, WorkerTypes, ThreadTypes,
     RequestTypes
<1>2. (Placed /\ MutexHeld /\ LocksHeld)'
  BY DEF Placed, Cleans, MutexHeld, LocksHeld
<1>3. (Unborn /\ Living /\ Holding /\ Idle)'
  BY DEF Unborn, Living, Holding, Idle
<1>4. CompileFirst'
  BY SameQueues DEF SamePlace
<1>5. ResultComes'
  BY SameResults DEF SamePlace, HasResult
<1> QED
  BY <1>1, <1>2, <1>3, <1>4, <1>5 DEF TypeOK

(* A response builder puts a command in the queue of its session.            *)
LEMMA EnqueueSafe ==
  ASSUME SafeInv, NEW here, NEW there, NEW c \in Command,
         Handle(here, there), Enqueue(wrapper, c),
         \/ here = "compile" /\ there = "parse" /\ c = "compile"
         \/ here = "parse" /\ there = "release" /\ c = "parse"
         \/ here = "handle" /\ there = "release" /\ c = "step"
  PROVE  SafeInv'
<1> USE SessionManagerAssumption DEF SafeInv
<1> DEFINE s == wrapper
<1>1. /\ s \in Session /\ s \in born /\ s \in sessions /\ Alive
      /\ pc[Server] = here /\ pc'[Server] = there /\ pc'[Main] = pc[Main]
      /\ DOMAIN pc' = Cleaner /\ here \in Handling /\ there \in Handling \ {"read"}
  BY DEF Handle, GoTo, Handling, TypeOK, ManagerTypes, ThreadTypes, Cleaner
<1>2. UNCHANGED <<sessions, born, sessionMutex, sessionLock, kind, target, wrapper,
                  cleaning, running, pendingStop, pendingRemove, failures, stepper, task>>
  BY DEF Handle, Enqueue, Pushed, managerVars, requestVars
<1>3. /\ taskQueue' \in [Session -> Seq(Command)]
      /\ \A x \in Session \ {s} : taskQueue'[x] = taskQueue[x]
      /\ taskQueue'[s] = Append(taskQueue[s], c)
  BY <1>1 DEF Enqueue, Pushed, TypeOK, SessionTypes
<1>4. /\ taskQueue[s] \in Seq(Command)
      /\ Len(taskQueue'[s]) = Len(taskQueue[s]) + 1
      /\ \A i \in 1..Len(taskQueue[s]) : taskQueue'[s][i] = taskQueue[s][i]
      /\ taskQueue'[s][Len(taskQueue[s]) + 1] = c
      /\ Len(taskQueue[s]) \in Nat
  BY <1>1, <1>3 DEF TypeOK, SessionTypes
<1>5. /\ worker' \in [Session -> {"none", "fetch", "run", "wait", "parse", "pop",
                                  "check", "stop", "exited"}]
      /\ run' \in [Session -> BOOLEAN]
      /\ {taskQueueRunning', thread'} \subseteq [Session -> BOOLEAN]
      /\ fault' \in {fault, "terminate"}
      /\ \A x \in Session \ {s} : worker'[x] = worker[x] /\ thread'[x] = thread[x]
      /\ thread'[s]
      /\ \/ worker'[s] = worker[s]
         \/ worker[s] \in {"none", "exited"} /\ worker'[s] = "fetch"
  <2>1. worker \in [Session -> {"none", "fetch", "run", "wait", "parse", "pop",
                                "check", "stop", "exited"}] /\ run \in [Session -> BOOLEAN]
    BY DEF TypeOK, WorkerTypes
  <2>2. {taskQueueRunning, thread} \subseteq [Session -> BOOLEAN]
    BY DEF TypeOK, SessionTypes
  <2>3. CASE thread[s]
    BY <1>1, <2>1, <2>2, <2>3 DEF Enqueue, Pushed
  <2>4. CASE ~thread[s]
    <3>1. worker[s] \in {"none", "exited"}
      BY <1>1, <2>4 DEF Living
    <3>2. /\ thread' = [thread EXCEPT ![s] = TRUE]
          /\ taskQueueRunning' = [taskQueueRunning EXCEPT ![s] = TRUE]
          /\ worker' = [worker EXCEPT ![s] = "fetch"]
          /\ run' = [run EXCEPT ![s] = TRUE]
          /\ fault' = fault
      BY <2>4 DEF Enqueue, Pushed
    <3> QED
      BY <1>1, <2>1, <2>2, <3>1, <3>2
  <2> QED
    BY <2>3, <2>4
<1>15. s' = s
  BY <1>2
<1> HIDE DEF s
<1>6. TypeOK'
  <2>1. (ManagerTypes /\ RequestTypes)'
    BY <1>2, <1>5 DEF TypeOK, ManagerTypes, RequestTypes
  <2>2. SessionTypes'
    BY <1>2, <1>3, <1>5 DEF TypeOK, SessionTypes
  <2>3. WorkerTypes'
    BY <1>2, <1>5 DEF TypeOK, WorkerTypes
  <2>4. ThreadTypes'
    BY <1>1, <1>2 DEF TypeOK, ThreadTypes, Places
  <2> QED
    BY <2>1, <2>2, <2>3, <2>4 DEF TypeOK
<1>7. (Placed /\ Idle)'
  BY <1>1, <1>2, Cleaner = {Server, Main} DEF Placed, Idle, Cleans, Cleaner
<1>8. MutexHeld'
  BY <1>1, <1>2, <1>5 DEF MutexHeld, Cleans
<1>9. LocksHeld'
  BY <1>1, <1>2, <1>5 DEF LocksHeld
<1>10. Unborn'
  BY <1>1, <1>2, <1>3, <1>5 DEF Unborn
<1>11. Living'
  BY <1>1, <1>2, <1>5 DEF Living
<1>12. Holding'
  <2>1. taskQueue[s] # <<>> => Head(taskQueue'[s]) = Head(taskQueue[s])
    BY <1>3, <1>4
  <2>2. taskQueue'[s] # <<>>
    BY <1>3, <1>4
  <2> SUFFICES ASSUME NEW x \in Session
               PROVE  /\ worker'[x] \in {"run", "wait", "parse"} => task'[x] # Nobody
                      /\ worker'[x] \in {"wait", "parse"} => task'[x] = "parse"
                      /\ task'[x] # Nobody =>
                           /\ worker'[x] \in {"run", "wait", "parse", "pop"}
                           /\ taskQueue'[x] # <<>>
                           /\ task'[x] = Head(taskQueue'[x])
    BY DEF Holding
  <2>3. CASE x = s
    BY <1>2, <1>5, <2>1, <2>2, <2>3 DEF Holding
  <2>4. CASE x # s
    BY <1>2, <1>3, <1>5, <2>4 DEF Holding
  <2> QED
    BY <2>3, <2>4
<1>13. CompileFirst'
  <2>1. \A x \in Session : Queued(x, "parse") => Queued(x, "parse")'
    BY <1>3, <1>4 DEF Queued
  <2>2. c = "parse" => Queued(s, "parse")'
    <3>1. Len(taskQueue[s]) + 1 \in 1..Len(taskQueue'[s])
      BY <1>4
    <3> QED
      BY <1>4, <1>15, <3>1 DEF Queued
  <2>3. c = "compile" => taskQueue[s] = <<>>
    BY <1>1 DEF CompileFirst, s
  <2>4. ASSUME NEW x \in Session, NEW i \in 1..Len(taskQueue'[x]),
               taskQueue'[x][i] = "compile"
        PROVE  i = 1
    <3>1. CASE x = s
      BY <1>4, <2>3, <2>4, <3>1 DEF CompileFirst
    <3>2. CASE x # s
      BY <1>3, <2>4, <3>2 DEF CompileFirst
    <3> QED
      BY <3>1, <3>2
  <2>5. \A x \in Session \ {s} : Queued(x, "compile")' => Queued(x, "compile")
    BY <1>3 DEF Queued
  <2>6. Queued(s, "compile")' => Queued(s, "compile") \/ c = "compile"
    <3>1. \A i \in 1..Len(taskQueue'[s]) :
            i \in 1..Len(taskQueue[s]) \/ i = Len(taskQueue[s]) + 1
      BY <1>4
    <3> QED
      BY <1>4, <1>15, <3>1 DEF Queued
  <2>7. ASSUME NEW x \in Session, Queued(x, "compile")'
        PROVE  Queued(x, "parse")' \/ (Creating(x) /\ pc[Server] = "parse")'
    BY <1>1, <1>2, <2>1, <2>2, <2>5, <2>6, <2>7 DEF CompileFirst, Creating, s
  <2> QED
    BY <1>1, <2>4, <2>7 DEF CompileFirst
<1>14. ResultComes'
  <2>1. \A x \in Session : Queued(x, "parse") => Queued(x, "parse")'
    BY <1>3, <1>4 DEF Queued
  <2>2. c = "parse" => Queued(s, "parse")'
    <3>1. Len(taskQueue[s]) + 1 \in 1..Len(taskQueue'[s])
      BY <1>4
    <3> QED
      BY <1>4, <1>15, <3>1 DEF Queued
  <2>3. \A x \in Session : Creating(x) => Creating(x)' \/ Queued(x, "parse")'
    BY <1>1, <1>2, <2>2 DEF Creating, s
  <2>4. \A x \in Session : HasResult(x)' <=> HasResult(x)
    BY <1>2 DEF HasResult
  <2> QED
    BY <1>2, <1>5, <2>1, <2>3, <2>4 DEF ResultComes, TypeOK, ManagerTypes
<1> QED
  BY <1>6, <1>7, <1>8, <1>9, <1>10, <1>11, <1>12, <1>13, <1>14

(* A response builder goes on without a change to its session.               *)
LEMMA HandleSafe ==
  ASSUME SafeInv, NEW here \in {"handle", "retry"}, NEW there \in {"retry", "read", "release"},
         Handle(here, there),
         there = "read" => taskQueue[wrapper] = <<>>,
         UNCHANGED <<sessionVars, workerVars, fault>>
  PROVE  SafeInv'
<1> USE SessionManagerAssumption DEF SafeInv, Handle, GoTo, sessionVars,
    workerVars, managerVars, requestVars
<1>1. TypeOK'
  BY DEF TypeOK, ManagerTypes, SessionTypes, WorkerTypes, ThreadTypes,
     RequestTypes, Places, Handling, Cleaner
<1>2. (Placed /\ MutexHeld /\ LocksHeld)'
  BY DEF Handling, Cleaner, Placed, MutexHeld, LocksHeld, Cleans
<1>3. (Unborn /\ Living /\ Holding /\ Idle)'
  BY DEF TypeOK, ThreadTypes, Cleaner, Unborn, Living, Holding, Idle
<1>4. SamePlace
  BY DEF SamePlace, Cleaner
<1>5. CompileFirst'
  BY <1>4, SameQueues
<1>6. ResultComes'
  BY <1>4, SameResults DEF HasResult
<1> QED
  BY <1>1, <1>2, <1>3, <1>5, <1>6

(* compile is queued once, by the request that made the session. *)
LEMMA EnqueueCompileSafe == ASSUME SafeInv, EnqueueCompile PROVE SafeInv'
  BY EnqueueSafe DEF EnqueueCompile, Command

(* parse is queued behind compile, by the same request. *)
LEMMA EnqueueParseSafe == ASSUME SafeInv, EnqueueParse PROVE SafeInv'
  BY EnqueueSafe DEF EnqueueParse, Command

(* A step command is queued only in a session that is ready. *)
LEMMA HandleStepSafe == ASSUME SafeInv, HandleStep PROVE SafeInv'
<1>1. CASE stepper[wrapper]
  BY <1>1, EnqueueSafe DEF HandleStep, Command
<1>2. CASE ~stepper[wrapper]
  BY <1>2, HandleSafe DEF HandleStep
<1> QED
  BY <1>1, <1>2

(* pendingStop is set for good. *)
LEMMA HandleStopSafe ==
  ASSUME SafeInv, HandleStop
  PROVE  SafeInv'
<1> USE SessionManagerAssumption DEF SafeInv, HandleStop, GoTo, Alive, Handle,
    managerVars, workerVars, requestVars
<1>1. (ManagerTypes /\ SessionTypes /\ WorkerTypes /\ ThreadTypes /\ RequestTypes)'
  BY DEF TypeOK, ManagerTypes, SessionTypes, WorkerTypes, ThreadTypes,
     RequestTypes, Places, Handling
<1>2. (Placed /\ MutexHeld /\ LocksHeld)'
  BY DEF Handling, Placed, Cleans, MutexHeld, LocksHeld
<1>3. (Unborn /\ Living /\ Holding /\ Idle)'
  BY DEF TypeOK, ManagerTypes, Unborn, Living, Holding, Idle
<1>4. CompileFirst'
  BY SameQueues DEF SamePlace
<1>5. ResultComes'
  BY SameResults DEF SamePlace, HasResult
<1> QED
  BY <1>1, <1>2, <1>3, <1>4, <1>5 DEF TypeOK

(* The builder answers without a state while commands are pending. *)
LEMMA NoStateSafe == ASSUME SafeInv, NoState PROVE SafeInv'
  BY HandleSafe DEF NoState

(* The second look at the queue changes nothing. *)
LEMMA TellRetrySafe == ASSUME SafeInv, TellRetry PROVE SafeInv'
  BY HandleSafe DEF TellRetry

(* The builder goes on only with an empty queue, under its lock. *)
LEMMA BeginStateSafe == ASSUME SafeInv, BeginState PROVE SafeInv'
  BY HandleSafe DEF BeginState, Retry

(* The builder reads the state with no command in the queue. *)
LEMMA ReadStateSafe ==
  ASSUME SafeInv, ReadState
  PROVE  SafeInv'
<1> USE SessionManagerAssumption DEF SafeInv, ReadState, GoTo, Alive, Handle,
    managerVars, workerVars, requestVars
<1>1. ManagerTypes'
  BY DEF TypeOK, ManagerTypes
<1>2. SessionTypes'
  <2>1. wrapper \in Session
    BY DEF TypeOK, ManagerTypes
  <2>2. {failures', pendingRemove'} \subseteq [Session -> BOOLEAN]
    BY <2>1 DEF TypeOK, SessionTypes
  <2> HIDE DEF ReadState
  <2>3. UNCHANGED <<taskQueue, taskQueueRunning, thread, pendingStop, stepper>>
    BY DEF ReadState
  <2> QED
    BY <2>2, <2>3 DEF TypeOK, SessionTypes
<1>3. WorkerTypes'
  BY DEF TypeOK, WorkerTypes
<1>4. ThreadTypes'
  BY DEF TypeOK, ThreadTypes, Places, Handling, Cleaner
<1>5. RequestTypes'
  BY DEF TypeOK, RequestTypes
<1>6. (Placed /\ MutexHeld /\ LocksHeld)'
  BY DEF TypeOK, ThreadTypes, Handling, Cleaner, Placed, Cleans, MutexHeld,
     LocksHeld
<1>7. Unborn'
  <2>1. wrapper \in born
    BY DEF Placed, Handling
  <2> QED
    BY <2>1 DEF Unborn, TypeOK, SessionTypes
<1>8. Living'
  BY DEF Living
<1>9. Holding'
  BY DEF Holding
<1>10. Idle'
  BY DEF Idle
<1>11. CompileFirst'
  BY SameQueues DEF TypeOK, ThreadTypes, Cleaner, SamePlace
<1>12. ResultComes'
  BY SameResults DEF TypeOK, ManagerTypes, SessionTypes, ThreadTypes, Cleaner,
     SamePlace, HasResult
<1> QED
  BY <1>1, <1>2, <1>3, <1>4, <1>5, <1>6, <1>7, <1>8, <1>9, <1>10, <1>11, <1>12
     DEF TypeOK

(* The session's lock goes back once the answer is built. *)
LEMMA ReleaseSafe ==
  ASSUME SafeInv, Release
  PROVE  SafeInv'
<1> USE SessionManagerAssumption DEF SafeInv, Release, GoTo, Alive, Responded,
    Unlocked, sessionVars, workerVars
<1>1. (ManagerTypes /\ SessionTypes /\ WorkerTypes /\ ThreadTypes /\ RequestTypes)'
  BY DEF TypeOK, ManagerTypes, SessionTypes, WorkerTypes, ThreadTypes,
     RequestTypes, Places
<1>2. (Placed /\ MutexHeld /\ LocksHeld)'
  BY DEF TypeOK, ManagerTypes, ThreadTypes, Handling, Cleaner, Placed, Cleans,
     MutexHeld, LocksHeld
<1>3. (Unborn /\ Living /\ Holding /\ Idle)'
  BY DEF Unborn, Living, Holding, Idle
<1>4. CompileFirst'
  BY SameQueues DEF SamePlace
<1>5. ResultComes'
  BY SameResults DEF SamePlace, HasResult
<1> QED
  BY <1>1, <1>2, <1>3, <1>4, <1>5 DEF TypeOK

(* WebServer::stop takes no lock. *)
LEMMA QuitSafe ==
  ASSUME SafeInv, Quit
  PROVE  SafeInv'
<1> USE SessionManagerAssumption DEF SafeInv, Quit, Alive, managerVars,
    sessionVars, workerVars, requestVars, threadVars
<1>1. ManagerTypes'
  BY DEF TypeOK, ManagerTypes
<1>2. SessionTypes'
  BY DEF TypeOK, SessionTypes
<1>3. WorkerTypes'
  BY DEF TypeOK, WorkerTypes
<1>4. ThreadTypes'
  BY DEF TypeOK, ThreadTypes
<1>5. RequestTypes'
  BY DEF TypeOK, RequestTypes
<1>6. (Placed /\ MutexHeld /\ LocksHeld)'
  BY DEF Placed, Cleans, MutexHeld, LocksHeld
<1>7. (Unborn /\ Living /\ Holding /\ Idle)'
  BY DEF Unborn, Living, Holding, Idle
<1>8. CompileFirst'
  BY SameQueues DEF SamePlace
<1>9. ResultComes'
  BY SameResults DEF SamePlace, HasResult
<1> QED
  BY <1>1, <1>2, <1>3, <1>4, <1>5, <1>6, <1>7, <1>8, <1>9 DEF TypeOK

(* The main thread's sweep waits for sessionMutex like the server's. *)
LEMMA KillSafe ==
  ASSUME SafeInv, Kill
  PROVE  SafeInv'
<1> USE SessionManagerAssumption DEF SafeInv, Kill, GoTo, Alive, StartCleaning,
    sessionVars, workerVars, requestVars
<1>1. (ManagerTypes /\ SessionTypes /\ WorkerTypes /\ ThreadTypes /\ RequestTypes)'
  BY DEF TypeOK, ManagerTypes, SessionTypes, WorkerTypes, ThreadTypes,
     RequestTypes, CleaningState, Thread, Cleaner
<1>2. (Placed /\ MutexHeld /\ LocksHeld)'
  BY DEF TypeOK, ThreadTypes, Cleaner, Placed, Cleans, MutexHeld, LocksHeld
<1>3. (Unborn /\ Living /\ Holding /\ Idle)'
  BY DEF Unborn, Living, Holding, Idle
<1>4. CompileFirst'
  BY SameQueues DEF SamePlace
<1>5. ResultComes'
  BY SameResults DEF SamePlace, HasResult
<1> QED
  BY <1>1, <1>2, <1>3, <1>4, <1>5 DEF TypeOK

(* The worker looks at the head of the queue and leaves it there. *)
LEMMA FetchSafe ==
  ASSUME SafeInv, NEW s \in Session, Fetch(s)
  PROVE  SafeInv'
<1> USE SessionManagerAssumption DEF SafeInv, Fetch, WorkAt, Alive,
    managerVars, sessionVars, requestVars, threadVars
<1>1. (ManagerTypes /\ SessionTypes /\ WorkerTypes /\ ThreadTypes /\ RequestTypes)'
  BY DEF TypeOK, ManagerTypes, SessionTypes, WorkerTypes, ThreadTypes,
     RequestTypes
<1>2. (Placed /\ MutexHeld /\ LocksHeld)'
  BY DEF Placed, Cleans, MutexHeld, LocksHeld
<1>3. Unborn'
  BY DEF Unborn
<1>4. Living'
  BY DEF Living
<1>5. Holding'
  BY DEF TypeOK, SessionTypes, WorkerTypes, Holding, Command
<1>6. Idle'
  BY DEF Idle
<1>7. CompileFirst'
  BY SameQueues DEF SamePlace
<1>8. ResultComes'
  BY SameResults DEF TypeOK, WorkerTypes, SamePlace, HasResult
<1> QED
  BY <1>1, <1>2, <1>3, <1>4, <1>5, <1>6, <1>7, <1>8 DEF TypeOK

(* A compilation leaves failures or an executable. *)
LEMMA CompileSafe ==
  ASSUME SafeInv, NEW s \in Session, Compile(s)
  PROVE  SafeInv'
<1> USE SessionManagerAssumption DEF SafeInv, Compile, WorkAt, Alive,
    managerVars, requestVars, threadVars
<1>1. (ManagerTypes /\ SessionTypes /\ WorkerTypes /\ ThreadTypes /\ RequestTypes)'
  BY DEF TypeOK, ManagerTypes, SessionTypes, WorkerTypes, ThreadTypes,
     RequestTypes
<1>2. (Placed /\ MutexHeld /\ LocksHeld)'
  BY DEF Placed, Cleans, MutexHeld, LocksHeld
<1>3. (Unborn /\ Living /\ Holding /\ Idle)'
  BY DEF Unborn, Living, Holding, Idle
<1>4. CompileFirst'
  BY SameQueues DEF SamePlace
<1>5. ResultComes'
  <2>1. Queued(s, "compile")
    <3>1. /\ taskQueue[s] \in Seq(Command) /\ taskQueue[s] # <<>>
          /\ Head(taskQueue[s]) = "compile"
      BY DEF Holding, TypeOK, SessionTypes
    <3>2. 1 \in 1..Len(taskQueue[s]) /\ taskQueue[s][1] = "compile"
      BY <3>1
    <3> QED
      BY <3>2 DEF Queued
  <2>2. Queued(s, "parse") \/ Creating(s)
    BY <2>1 DEF CompileFirst
  <2>3. \A x \in Session : Queued(x, "parse")' <=> Queued(x, "parse")
    BY DEF Queued
  <2>4. \A x \in Session : Creating(x)' <=> Creating(x)
    BY DEF Creating
  <2>5. \A x \in Session \ {s} : HasResult(x)' <=> HasResult(x)
    BY DEF HasResult
  <2>6. \A x \in Session : worker'[x] = "pop" /\ task'[x] = "parse" =>
          worker[x] = "pop" /\ task[x] = "parse" /\ x # s
    OBVIOUS
  <2> HIDE DEF Compile
  <2>7. born' = born /\ born \subseteq Session
    BY DEF Compile, TypeOK, ManagerTypes
  <2> QED
    BY <2>2, <2>3, <2>4, <2>5, <2>6, <2>7 DEF ResultComes
<1> QED
  BY <1>1, <1>2, <1>3, <1>4, <1>5 DEF TypeOK

(* A step leaves every session's result as it was. *)
LEMMA StepSafe ==
  ASSUME SafeInv, NEW s \in Session, Step(s)
  PROVE  SafeInv'
<1> USE SessionManagerAssumption DEF SafeInv, Step, WorkAt, Alive, managerVars,
    sessionVars, requestVars, threadVars
<1>1. (ManagerTypes /\ SessionTypes /\ WorkerTypes /\ ThreadTypes /\ RequestTypes)'
  BY DEF TypeOK, ManagerTypes, SessionTypes, WorkerTypes, ThreadTypes,
     RequestTypes
<1>2. (Placed /\ MutexHeld /\ LocksHeld)'
  BY DEF Placed, Cleans, MutexHeld, LocksHeld
<1>3. (Unborn /\ Living /\ Holding /\ Idle)'
  BY DEF Unborn, Living, Holding, Idle
<1>4. CompileFirst'
  BY SameQueues DEF SamePlace
<1>5. ResultComes'
  BY SameResults DEF SamePlace, HasResult
<1> QED
  BY <1>1, <1>2, <1>3, <1>4, <1>5 DEF TypeOK

(* The worker finds its own session in the map. *)
LEMMA ParseFindSafe ==
  ASSUME SafeInv, NEW s \in Session, ParseFind(s)
  PROVE  SafeInv'
<1> USE SessionManagerAssumption DEF SafeInv, ParseFind, WorkAt, Alive,
    sessionVars, requestVars, threadVars
<1>1. ManagerTypes'
  BY DEF TypeOK, ManagerTypes, Thread
<1>2. SessionTypes'
  BY DEF TypeOK, SessionTypes
<1>3. WorkerTypes'
  BY DEF TypeOK, WorkerTypes
<1>4. ThreadTypes'
  BY DEF TypeOK, ThreadTypes
<1>5. RequestTypes'
  BY DEF TypeOK, RequestTypes
<1>6. Placed'
  BY DEF Placed, Cleans
<1>7. MutexHeld'
  <2>1. s \in sessions
    BY DEF Living
  <2>2. /\ sessionMutex = Nobody /\ sessionMutex' = s /\ worker' = [worker EXCEPT ![s] = "wait"]
        /\ pc' = pc
    BY <2>1
  <2> HIDE DEF ParseFind
  <2> QED
    BY <2>2 DEF MutexHeld, Cleans, TypeOK, WorkerTypes
<1>8. LocksHeld'
  BY DEF TypeOK, WorkerTypes, LocksHeld
<1>9. (Unborn /\ Living /\ Holding /\ Idle)'
  BY DEF TypeOK, WorkerTypes, Places, Handling, Thread, Cleaner, Unborn,
     Living, Holding, Command, Idle
<1>10. CompileFirst'
  BY SameQueues DEF SamePlace
<1>11. ResultComes'
  BY SameResults DEF TypeOK, WorkerTypes, SamePlace, HasResult
<1> QED
  BY <1>1, <1>2, <1>3, <1>4, <1>5, <1>6, <1>7, <1>8, <1>9, <1>10, <1>11
     DEF TypeOK

(* The worker holds its session's lock while it parses. *)
LEMMA ParseLockSafe ==
  ASSUME SafeInv, NEW s \in Session, ParseLock(s)
  PROVE  SafeInv'
<1> USE SessionManagerAssumption DEF SafeInv, ParseLock, WorkAt, Alive,
    sessionVars, requestVars, threadVars
<1>1. (ManagerTypes /\ SessionTypes /\ WorkerTypes /\ ThreadTypes /\ RequestTypes)'
  BY DEF TypeOK, ManagerTypes, SessionTypes, WorkerTypes, ThreadTypes,
     RequestTypes
<1>2. (Placed /\ MutexHeld /\ LocksHeld)'
  BY DEF TypeOK, ManagerTypes, WorkerTypes, Placed, Cleans, MutexHeld,
     LocksHeld
<1>3. (Unborn /\ Living /\ Holding /\ Idle)'
  BY DEF Unborn, Living, Holding, Idle
<1>4. CompileFirst'
  BY SameQueues DEF SamePlace
<1>5. ResultComes'
  BY SameResults DEF SamePlace, HasResult
<1> QED
  BY <1>1, <1>2, <1>3, <1>4, <1>5 DEF TypeOK

(* A parse that succeeds leaves a stepper. *)
LEMMA ParseRunSafe ==
  ASSUME SafeInv, NEW s \in Session, ParseRun(s)
  PROVE  SafeInv'
<1> USE SessionManagerAssumption DEF SafeInv, ParseRun, WorkAt, Alive,
    Unlocked, ParseOutcome, requestVars, threadVars
<1>1. ManagerTypes'
  BY DEF TypeOK, ManagerTypes
<1>2. SessionTypes'
  <2>1. PICK o \in ParseOutcome(s) : /\ failures' = [failures EXCEPT ![s] = o[1]]
                                      /\ stepper' = [stepper EXCEPT ![s] = o[2]]
    OBVIOUS
  <2>2. o \in {<<TRUE, FALSE>>, <<FALSE, TRUE>>, <<TRUE, TRUE>>}
    BY <2>1
  <2>3. o[1] \in BOOLEAN /\ o[2] \in BOOLEAN /\ (o[1] = TRUE \/ o[2] = TRUE)
    <3>1. CASE o = <<TRUE, FALSE>>
      BY <3>1
    <3>2. CASE o = <<FALSE, TRUE>>
      BY <3>2
    <3>3. CASE o = <<TRUE, TRUE>>
      BY <3>3
    <3> QED
      BY <2>2, <3>1, <3>2, <3>3
  <2>4. {failures', stepper'} \subseteq [Session -> BOOLEAN]
    BY <2>1, <2>3 DEF TypeOK, SessionTypes
  <2>5. UNCHANGED <<taskQueue, taskQueueRunning, thread, pendingStop, pendingRemove>>
    OBVIOUS
  <2> HIDE DEF ParseRun
  <2> QED
    BY <2>4, <2>5 DEF TypeOK, SessionTypes
<1>3. WorkerTypes'
  BY DEF TypeOK, WorkerTypes
<1>4. ThreadTypes'
  BY DEF TypeOK, ThreadTypes
<1>5. RequestTypes'
  BY DEF TypeOK, RequestTypes
<1>6. (Placed /\ MutexHeld /\ LocksHeld)'
  BY DEF TypeOK, ManagerTypes, WorkerTypes, Placed, Cleans, MutexHeld,
     LocksHeld
<1>7. (Unborn /\ Living /\ Holding /\ Idle)'
  BY DEF Unborn, Living, Holding, Idle
<1>8. CompileFirst'
  BY SameQueues DEF SamePlace
<1>9. ResultComes'
  <2>1. PICK o \in ParseOutcome(s) : /\ failures' = [failures EXCEPT ![s] = o[1]]
                                      /\ stepper' = [stepper EXCEPT ![s] = o[2]]
    OBVIOUS
  <2>2. o \in {<<TRUE, FALSE>>, <<FALSE, TRUE>>, <<TRUE, TRUE>>}
    BY <2>1
  <2>3. o[1] \in BOOLEAN /\ o[2] \in BOOLEAN /\ (o[1] = TRUE \/ o[2] = TRUE)
    <3>1. CASE o = <<TRUE, FALSE>>
      BY <3>1
    <3>2. CASE o = <<FALSE, TRUE>>
      BY <3>2
    <3>3. CASE o = <<TRUE, TRUE>>
      BY <3>3
    <3> QED
      BY <2>2, <3>1, <3>2, <3>3
  <2>4. HasResult(s)'
    BY <2>1, <2>3 DEF HasResult, TypeOK, SessionTypes
  <2>5. \A x \in Session \ {s} : HasResult(x)' <=> HasResult(x)
    BY <2>1 DEF HasResult
  <2>6. /\ taskQueue' = taskQueue /\ born' = born /\ SamePlace
        /\ \A x \in Session \ {s} : worker'[x] = worker[x] /\ task'[x] = task[x]
    BY DEF SamePlace
  <2>7. born \subseteq Session
    BY DEF TypeOK, ManagerTypes
  <2> HIDE DEF ParseRun
  <2> QED
    BY <2>4, <2>5, <2>6, <2>7, SameResults
<1> QED
  BY <1>1, <1>2, <1>3, <1>4, <1>5, <1>6, <1>7, <1>8, <1>9 DEF TypeOK

(* An exception unwinds the session's lock and ends the worker. *)
LEMMA ThrowSafe ==
  ASSUME SafeInv, NEW s \in Session, Throw(s)
  PROVE  SafeInv'
<1> USE SessionManagerAssumption DEF SafeInv, Throw, WorkAt, Alive,
    sessionVars, requestVars, threadVars
<1>1. ManagerTypes'
  BY DEF TypeOK, ManagerTypes
<1>2. SessionTypes'
  BY DEF TypeOK, SessionTypes
<1>3. WorkerTypes'
  BY DEF TypeOK, WorkerTypes
<1>4. ThreadTypes'
  BY DEF TypeOK, ThreadTypes
<1>5. RequestTypes'
  BY DEF TypeOK, RequestTypes
<1>6. (Placed /\ MutexHeld /\ LocksHeld)'
  BY DEF TypeOK, ManagerTypes, WorkerTypes, Placed, Cleans, MutexHeld,
     LocksHeld
<1>7. (Unborn /\ Living /\ Holding /\ Idle)'
  BY DEF TypeOK, WorkerTypes, Unborn, Living, Holding, Idle
<1>8. CompileFirst'
  BY SameQueues DEF SamePlace
<1>9. ResultComes'
  BY SameResults DEF SamePlace, HasResult
<1> QED
  BY <1>1, <1>2, <1>3, <1>4, <1>5, <1>6, <1>7, <1>8, <1>9 DEF TypeOK

(* The command leaves the queue after its effect, not before. *)
LEMMA PopSafe ==
  ASSUME SafeInv, NEW s \in Session, Pop(s)
  PROVE  SafeInv'
<1> USE SessionManagerAssumption DEF SafeInv, Pop, WorkAt, Alive, managerVars,
    requestVars, threadVars
<1>1. (ManagerTypes /\ SessionTypes /\ WorkerTypes /\ ThreadTypes /\ RequestTypes)'
  BY DEF TypeOK, ManagerTypes, SessionTypes, WorkerTypes, ThreadTypes,
     RequestTypes
<1>2. (Placed /\ MutexHeld /\ LocksHeld)'
  BY DEF Placed, Cleans, MutexHeld, LocksHeld
<1>3. Unborn'
  <2>1. s \in born
    BY DEF Unborn
  <2> QED
    BY <2>1 DEF Unborn
<1>4. Living'
  BY DEF Living
<1>5. Holding'
  <2>1. /\ worker'[s] = "check" /\ task'[s] = Nobody
        /\ \A x \in Session \ {s} : /\ worker'[x] = worker[x] /\ task'[x] = task[x]
                                    /\ taskQueue'[x] = taskQueue[x]
    BY DEF TypeOK, WorkerTypes
  <2> HIDE DEF Pop
  <2> QED
    BY <2>1 DEF Holding
<1>6. Idle'
  <2>1. pc[Server] = "read" => wrapper \in Session
    BY DEF Placed, Handling, TypeOK, ManagerTypes
  <2>2. taskQueue[s] = <<>> => taskQueue'[s] = <<>>
    OBVIOUS
  <2>3. \A x \in Session \ {s} : taskQueue'[x] = taskQueue[x]
    OBVIOUS
  <2>4. pc' = pc /\ wrapper' = wrapper
    OBVIOUS
  <2> HIDE DEF Pop
  <2> QED
    BY <2>1, <2>2, <2>3, <2>4 DEF Idle
<1>7. CompileFirst'
  <2>1. \A x \in Session \ {s} : taskQueue'[x] = taskQueue[x]
    OBVIOUS
  <2>2. pc' = pc /\ wrapper' = wrapper
    OBVIOUS
  <2>3. CASE task[s] = Nobody
    <3>1. taskQueue' = taskQueue
      BY <2>3 DEF TypeOK, SessionTypes
    <3> QED
      BY <3>1, <2>2, SameQueues DEF SamePlace
  <2>4. CASE task[s] # Nobody
    <3>1. /\ taskQueue[s] \in Seq(Command) /\ taskQueue[s] # <<>>
          /\ taskQueue'[s] = SubSeq(taskQueue[s], 2, Len(taskQueue[s]))
      BY <2>4 DEF Holding, TypeOK, SessionTypes
    <3>2. /\ Len(taskQueue'[s]) = Len(taskQueue[s]) - 1
          /\ \A i \in 1..(Len(taskQueue[s]) - 1) : taskQueue'[s][i] = taskQueue[s][i + 1]
      BY <3>1, RestFacts
    <3>3. \A i \in 1..Len(taskQueue'[s]) : taskQueue'[s][i] # "compile"
      <4>1. Len(taskQueue[s]) \in Nat
        BY <3>1
      <4>2. ASSUME NEW i \in 1..(Len(taskQueue[s]) - 1)
            PROVE  i + 1 \in 1..Len(taskQueue[s]) /\ i + 1 # 1
        BY <4>1
      <4> QED
        BY <3>2, <4>2 DEF CompileFirst
    <3>4. pc[Server] = "compile" => wrapper # s
      BY <3>1 DEF CompileFirst
    <3>5. pc[Server] = "compile" => wrapper \in Session
      BY DEF Placed, Handling, TypeOK, ManagerTypes
    <3> HIDE DEF Pop
    <3> QED
      BY <2>1, <2>2, <3>3, <3>4, <3>5 DEF CompileFirst, Queued, Creating
  <2> QED
    BY <2>3, <2>4
<1>8. ResultComes'
  <2>1. \A x \in Session \ {s} : taskQueue'[x] = taskQueue[x] /\ worker'[x] = worker[x]
                                    /\ task'[x] = task[x]
    OBVIOUS
  <2>2. /\ born' = born /\ born \subseteq Session /\ worker'[s] = "check"
    BY DEF TypeOK, ManagerTypes, WorkerTypes
  <2>3. \A x \in Session : HasResult(x)' <=> HasResult(x)
    BY DEF HasResult
  <2>4. \A x \in Session : Creating(x)' <=> Creating(x)
    BY DEF Creating
  <2>5. Queued(s, "parse") => Queued(s, "parse")' \/ HasResult(s)
    <3>1. CASE task[s] = Nobody
      BY <3>1 DEF Queued
    <3>2. CASE task[s] # Nobody
      <4>1. /\ taskQueue[s] \in Seq(Command) /\ taskQueue[s] # <<>>
            /\ taskQueue'[s] = SubSeq(taskQueue[s], 2, Len(taskQueue[s]))
            /\ task[s] = taskQueue[s][1]
        BY <3>2 DEF Holding, TypeOK, SessionTypes
      <4>2. /\ Len(taskQueue'[s]) = Len(taskQueue[s]) - 1
            /\ \A i \in 1..(Len(taskQueue[s]) - 1) : taskQueue'[s][i] = taskQueue[s][i + 1]
        BY <4>1, RestFacts
      <4>3. Len(taskQueue[s]) \in Nat
        BY <4>1
      <4>4. task[s] = "parse" => HasResult(s)
        BY DEF ResultComes
      <4> HIDE DEF Pop
      <4>5. ASSUME NEW i \in 1..Len(taskQueue[s]), taskQueue[s][i] = "parse", i # 1
            PROVE  Queued(s, "parse")'
        <5>1. i - 1 \in 1..(Len(taskQueue[s]) - 1) /\ (i - 1) + 1 = i
          BY <4>3, <4>5
        <5> QED
          BY <5>1, <4>2, <4>5 DEF Queued
      <4> QED
        BY <4>1, <4>4, <4>5 DEF Queued
    <3> QED
      BY <3>1, <3>2
  <2>6. \A x \in Session \ {s} : Queued(x, "parse") => Queued(x, "parse")'
    BY <2>1 DEF Queued
  <2> HIDE DEF Pop
  <2>7. \A x \in Session : Queued(x, "parse") => Queued(x, "parse")' \/ HasResult(x)'
    BY <2>3, <2>5, <2>6
  <2>8. \A x \in born : HasResult(x)' \/ Queued(x, "parse")' \/ Creating(x)'
    BY <2>2, <2>3, <2>4, <2>7 DEF ResultComes
  <2>9. \A x \in Session : worker'[x] = "pop" /\ task'[x] = "parse" => HasResult(x)'
    BY <2>1, <2>2, <2>3 DEF ResultComes
  <2> QED
    BY <2>2, <2>8, <2>9 DEF ResultComes
<1> QED
  BY <1>1, <1>2, <1>3, <1>4, <1>5, <1>6, <1>7, <1>8 DEF TypeOK

(* The worker sees whether its queue is empty. *)
LEMMA CheckEmptySafe ==
  ASSUME SafeInv, NEW s \in Session, CheckEmpty(s)
  PROVE  SafeInv'
<1> USE SessionManagerAssumption DEF SafeInv, CheckEmpty, WorkAt, Alive,
    LoopOrExit, managerVars, sessionVars, requestVars, threadVars
<1>1. (ManagerTypes /\ SessionTypes /\ WorkerTypes /\ ThreadTypes /\ RequestTypes)'
  BY DEF TypeOK, ManagerTypes, SessionTypes, WorkerTypes, ThreadTypes,
     RequestTypes, Handling
<1>2. (Placed /\ MutexHeld /\ LocksHeld)'
  BY DEF Placed, Cleans, MutexHeld, LocksHeld
<1>3. (Unborn /\ Living /\ Holding /\ Idle)'
  BY DEF Unborn, Living, Holding, Idle
<1>4. CompileFirst'
  BY SameQueues DEF SamePlace
<1>5. ResultComes'
  BY SameResults DEF SamePlace, HasResult
<1> QED
  BY <1>1, <1>2, <1>3, <1>4, <1>5 DEF TypeOK

(* A worker told to stop clears its queue when it ends. *)
LEMMA CheckStopSafe ==
  ASSUME SafeInv, NEW s \in Session, CheckStop(s)
  PROVE  SafeInv'
<1> USE SessionManagerAssumption DEF SafeInv
<1>1. /\ worker[s] = "stop" /\ worker'[s] \in {"fetch", "exited"}
      /\ worker' = [worker EXCEPT ![s] = worker'[s]]
      /\ run' \in [Session -> BOOLEAN]
      /\ fault = "none"
      /\ UNCHANGED <<managerVars, taskQueueRunning, thread, pendingStop, failures, stepper,
                     task, requestVars, threadVars, running, fault>>
  BY DEF CheckStop, WorkAt, LoopOrExit, Alive, TypeOK, WorkerTypes
<1>2. /\ taskQueue' \in [Session -> Seq(Command)] /\ pendingRemove' \in [Session -> BOOLEAN]
      /\ \A x \in Session \ {s} : taskQueue'[x] = taskQueue[x] /\ pendingRemove'[x] = pendingRemove[x]
      /\ \/ taskQueue'[s] = taskQueue[s] /\ pendingRemove'[s] = pendingRemove[s]
         \/ taskQueue'[s] = <<>> /\ pendingRemove'[s]
  <2>1. taskQueue \in [Session -> Seq(Command)] /\ pendingRemove \in [Session -> BOOLEAN]
    BY DEF TypeOK, SessionTypes
  <2>2. CASE pendingStop[s]
    <3>1. <<>> \in Seq(Command)
      OBVIOUS
    <3>2. /\ taskQueue' = [taskQueue EXCEPT ![s] = <<>>]
          /\ pendingRemove' = [pendingRemove EXCEPT ![s] = TRUE]
      BY <2>2 DEF CheckStop
    <3> QED
      BY <2>1, <3>1, <3>2
  <2>3. CASE ~pendingStop[s]
    BY <2>1, <2>3 DEF CheckStop
  <2> QED
    BY <2>2, <2>3
<1>3. TypeOK'
  <2>1. (ManagerTypes /\ ThreadTypes /\ RequestTypes)'
    BY <1>1 DEF TypeOK, ManagerTypes, ThreadTypes, RequestTypes, managerVars,
       requestVars, threadVars
  <2>2. SessionTypes'
    BY <1>1, <1>2 DEF TypeOK, SessionTypes
  <2>3. WorkerTypes'
    BY <1>1 DEF TypeOK, WorkerTypes
  <2> QED
    BY <2>1, <2>2, <2>3 DEF TypeOK
<1>4. s \in born /\ task[s] = Nobody
  BY <1>1 DEF Unborn, Holding
<1>5. /\ \A x \in Session \ {s} : worker'[x] = worker[x]
      /\ \A x \in Session : worker'[x] = worker[x] \/ x = s
  BY <1>1 DEF TypeOK, WorkerTypes
<1>6. Placed'
  BY <1>1 DEF Placed, Cleans, managerVars, requestVars, threadVars
<1>7. MutexHeld' /\ LocksHeld'
  BY <1>1, <1>5 DEF MutexHeld, LocksHeld, Cleans, managerVars, requestVars,
     threadVars
<1>8. Unborn'
  BY <1>1, <1>2, <1>4, <1>5 DEF Unborn, managerVars
<1>9. Living' /\ Holding'
  BY <1>1, <1>2, <1>4, <1>5 DEF Living, Holding, Alive, managerVars
<1>10. wrapper' = wrapper /\ pc' = pc /\ born' = born /\ born \subseteq Session
  BY <1>1 DEF TypeOK, ManagerTypes, managerVars, requestVars, threadVars
<1>11. pc[Server] \in {"read", "compile"} => wrapper \in Session
  BY DEF Placed, Handling, TypeOK, ManagerTypes
<1>12. Idle'
  BY <1>2, <1>10, <1>11 DEF Idle
<1>13. \A i \in 1..Len(<<>>) : FALSE
  OBVIOUS
<1>14. CompileFirst'
  <2>1. \A x \in Session : \A i \in 1..Len(taskQueue'[x]) :
          taskQueue'[x][i] = "compile" => i = 1
    BY <1>2, <1>13 DEF CompileFirst
  <2>2. \A x \in Session : taskQueue'[x] = taskQueue[x] \/ taskQueue'[x] = <<>>
    BY <1>2
  <2>3. \A x \in Session : Queued(x, "compile")' =>
          Queued(x, "parse")' \/ (Creating(x) /\ pc[Server] = "parse")'
    BY <1>10, <1>13, <2>2 DEF CompileFirst, Queued, Creating
  <2> QED
    BY <1>10, <1>11, <2>1, <2>2, <2>3 DEF CompileFirst
<1>15. ResultComes'
  <2>1. \A x \in Session : HasResult(x) => HasResult(x)'
    BY <1>1, <1>2 DEF HasResult
  <2>2. \A x \in Session : taskQueue'[x] = taskQueue[x] \/ HasResult(x)'
    BY <1>2 DEF HasResult
  <2>3. \A x \in born : HasResult(x)' \/ Queued(x, "parse")' \/ Creating(x)'
    BY <1>10, <2>1, <2>2 DEF ResultComes, Queued, Creating
  <2> QED
    BY <1>1, <1>5, <1>10, <2>1, <2>3 DEF ResultComes
<1> QED
  BY <1>3, <1>6, <1>7, <1>8, <1>9, <1>12, <1>14, <1>15

-----------------------------------------------------------------------------
(* The safety properties.                                                    *)

(* Every initial state satisfies the invariant.                              *)
LEMMA InitSafe == Init => SafeInv
<1> SUFFICES ASSUME Init PROVE SafeInv
  OBVIOUS
<1> USE SessionManagerAssumption DEF Init, Cleaner
<1>1. TypeOK
  BY DEF TypeOK, ManagerTypes, SessionTypes, WorkerTypes, ThreadTypes,
     RequestTypes, CleaningState, Places
<1>2. Placed /\ MutexHeld /\ LocksHeld
  BY DEF Placed, MutexHeld, LocksHeld, Cleans, Handling
<1>3. Unborn /\ Living /\ Holding /\ Idle
  BY DEF Unborn, Living, Holding, Idle
<1>4. \A i \in 1..Len(<<>>) : FALSE
  OBVIOUS
<1>5. CompileFirst /\ ResultComes
  BY <1>4 DEF CompileFirst, ResultComes, Queued
<1> QED
  BY <1>1, <1>2, <1>3, <1>5 DEF SafeInv

(* A step that changes nothing keeps the invariant.                          *)
LEMMA StutterSafe == ASSUME SafeInv, UNCHANGED vars PROVE SafeInv'
<1> USE DEF vars, managerVars, sessionVars, workerVars, requestVars, threadVars
<1>1. TypeOK'
  BY DEF SafeInv, TypeOK, ManagerTypes, SessionTypes, WorkerTypes, ThreadTypes,
     RequestTypes
<1>2. (Placed /\ MutexHeld /\ LocksHeld)'
  BY DEF SafeInv, Placed, MutexHeld, LocksHeld, Cleans
<1>3. (Unborn /\ Living /\ Holding /\ Idle)'
  BY DEF SafeInv, Unborn, Living, Holding, Idle, Alive
<1>4. (CompileFirst /\ ResultComes)'
  BY DEF SafeInv, CompileFirst, ResultComes, Queued, Creating, HasResult
<1> QED
  BY <1>1, <1>2, <1>3, <1>4 DEF SafeInv

(* Every step keeps the invariant.                                           *)
LEMMA NextSafe == ASSUME SafeInv, [Next]_vars PROVE SafeInv'
<1>1. ASSUME NEW t \in Cleaner, Clean(t) PROVE SafeInv'
  BY <1>1, CleanSessionSafe, JoinedSafe, CleanedSafe DEF Clean
<1>2. CASE Answer
  BY <1>2, CleanFinishedSafe, EndAllSafe, CreateSessionSafe, InsertSessionSafe,
     NotFoundSafe, FindSessionSafe, LockSessionSafe, UseDanglingSafe,
     EnqueueCompileSafe, EnqueueParseSafe, HandleStepSafe, HandleStopSafe,
     NoStateSafe, BeginStateSafe, ReadStateSafe, ReleaseSafe, NoTempFileSafe,
     TellRetrySafe DEF Answer
<1>3. CASE NoRequest
  BY <1>3, NoRequestSafe
<1>4. CASE Request
  BY <1>4, TakeRequestSafe DEF Request
<1>5. CASE Operator
  BY <1>5, QuitSafe, KillSafe DEF Operator
<1>6. ASSUME NEW s \in Session, Worker(s) PROVE SafeInv'
  BY <1>6, FetchSafe, CompileSafe, StepSafe, ParseFindSafe, ParseLockSafe,
     ParseRunSafe, ThrowSafe, PopSafe, CheckEmptySafe, CheckStopSafe DEF Worker
<1>7. CASE UNCHANGED vars
  BY <1>7, StutterSafe
<1> QED
  BY <1>1, <1>2, <1>3, <1>4, <1>5, <1>6, <1>7 DEF Next

(* The invariant always holds.                                               *)
LEMMA SafeInvHolds == Spec => []SafeInv
  BY InitSafe, NextSafe, PTL DEF Spec

(* Every variable keeps its range: SessionManager and its threads only ever  *)
(* go to places their code has.                                              *)
THEOREM TypesHold == Spec => []TypeOK
<1>1. SafeInv => TypeOK
  BY DEF SafeInv
<1> QED
  BY <1>1, SafeInvHolds, PTL

(* Responses that read the debugger's state never run beside a command.      *)
THEOREM StateIsReadAlone == Spec => []StateReadAlone
<1>1. SafeInv => StateReadAlone
  BY DEF SafeInv, Placed, Handling, TypeOK, ManagerTypes, Holding, Idle,
     StateReadAlone, Executing
<1> QED
  BY <1>1, SafeInvHolds, PTL

(* sessionMutex and the sessions' locks never wait for each other.           *)
THEOREM LocksAreNested == Spec => []LocksNest
<1>1. SafeInv => LocksNest
  <2> SUFFICES ASSUME SafeInv PROVE LocksNest
    OBVIOUS
  <2>1. ASSUME pc[Server] = "wait"
        PROVE  /\ sessionMutex = Server
               /\ sessionLock[target] = Nobody
                    \/ \E s \in Session : sessionLock[target] = s /\ worker[s] = "parse"
    <3>1. target \in Session /\ sessionMutex = Server
      BY <2>1 DEF SafeInv, Placed, MutexHeld
    <3>2. sessionLock[target] # Server
      BY <2>1, <3>1 DEF SafeInv, LocksHeld, Handling
    <3> QED
      BY <3>1, <3>2 DEF SafeInv, LocksHeld
  <2>2. ASSUME NEW s \in Session, worker[s] = "wait"
        PROVE  /\ sessionMutex = s
               /\ sessionLock[s] = Nobody
                    \/ (sessionLock[s] = Server /\ pc[Server] \in Handling)
    BY <2>2, SessionManagerAssumption DEF SafeInv, MutexHeld, LocksHeld
  <2> QED
    BY <2>1, <2>2 DEF LocksNest
<1> QED
  BY <1>1, SafeInvHolds, PTL

(* ParseCmd finds its session in the map, even when sessions are killed.     *)
THEOREM ParseAlwaysFinds == Spec => []ParseFindsSession
<1>1. SafeInv => ParseFindsSession
  BY DEF SafeInv, Living, ParseFindsSession
<1> QED
  BY <1>1, SafeInvHolds, PTL

(* A session asked for its state has failures or a stepper to show, or is    *)
(* marked for removal.                                                       *)
THEOREM ResultWhenSettled == Spec => []SettledHasResult
<1>1. SafeInv => SettledHasResult
  <2> SUFFICES ASSUME SafeInv, pc[Server] = "read"
               PROVE  HasResult(wrapper)
    BY DEF SettledHasResult, HasResult
  <2>1. wrapper \in born /\ taskQueue[wrapper] = <<>>
    BY DEF SafeInv, Placed, Handling, Idle
  <2>2. \A i \in 1..Len(<<>>) : FALSE
    OBVIOUS
  <2> QED
    BY <2>1, <2>2 DEF SafeInv, ResultComes, Queued, Creating
<1> QED
  BY <1>1, SafeInvHolds, PTL

-----------------------------------------------------------------------------
(* Cleaning up without waiting for ParseCmd.                                 *)

(* A step that leaves the queues and marks alone, and creates no session,    *)
(* leaves it at that.                                                        *)
LEMMA SameMarks ==
  ASSUME RemovedLater, SamePlace, sessions' \subseteq sessions,
         UNCHANGED <<taskQueue, pendingStop, pendingRemove>>,
         pc'[Main] = "idle" => pc[Main] = "idle",
         fault' = "none" => fault = "none"
  PROVE  RemovedLater'
  BY DEF RemovedLater, Queued, Creating, SamePlace

(* Every step keeps what is known of sessions that are marked for removal.   *)
LEMMA NextRemovedLater ==
  ASSUME RemovalInv, Next
  PROVE  RemovedLater'
<1> USE SessionManagerAssumption DEF RemovalInv, SafeInv
<1>1. ASSUME NEW t \in Cleaner, CleanSession(t) PROVE RemovedLater'
  BY <1>1, SameMarks DEF CleanSession, SamePlace, GoTo, managerVars
<1>2. ASSUME NEW t \in Cleaner, Joined(t) PROVE RemovedLater'
  <2>1. cleaning[t].now \in Session
    BY <1>2 DEF Joined, Placed, Cleans, TypeOK, ManagerTypes
  <2>2. /\ taskQueue'[cleaning[t].now] = <<>>
        /\ \A x \in Session \ {cleaning[t].now} :
             taskQueue'[x] = taskQueue[x] /\ pendingRemove'[x] = pendingRemove[x]
    BY <1>2, <2>1 DEF Joined, TypeOK, SessionTypes
  <2>3. /\ sessions' \subseteq sessions /\ sessions \subseteq Session
        /\ UNCHANGED <<pendingStop, wrapper>> /\ fault' = fault
        /\ pc'[Server] = pc[Server] \/ {pc[Server], pc'[Server]} \cap {"compile", "parse"} = {}
        /\ pc'[Main] = "idle" => pc[Main] = "idle"
    BY <1>2 DEF Joined, Remaining, GoTo, requestVars, TypeOK, ManagerTypes
  <2>4. pc'[Main] = "idle" => pc'[Server] = "clean"
    BY <1>2 DEF Joined, GoTo, TypeOK, ThreadTypes, Cleaner
  <2>5. \A i \in 1..Len(<<>>) : FALSE
    OBVIOUS
  <2> QED
    BY <2>2, <2>3, <2>4, <2>5 DEF RemovedLater, Queued, Creating
<1>3. ASSUME NEW t \in Cleaner, Cleaned(t) PROVE RemovedLater'
  <2>1. UNCHANGED <<taskQueue, pendingStop, pendingRemove, wrapper>>
    BY <1>3 DEF Cleaned, sessionVars, requestVars
  <2>2. /\ sessions' = {} \/ (sessions' = sessions /\ cleaning[t].why # "end")
        /\ fault' = "none" => fault = "none"
    BY <1>3 DEF Cleaned
  <2>3. CASE t = Main
    <3>1. sessions' = {} /\ pc'[Server] = pc[Server]
      BY <1>3, <2>2, <2>3 DEF Cleaned, GoTo, Placed, Cleans
    <3> QED
      BY <2>1, <3>1 DEF RemovedLater, Creating
  <2>4. CASE t = Server
    <3>1. /\ pc'[Main] = pc[Main]
          /\ pc[Server] = "clean" /\ pc'[Server] \in {"serve", "insert", "stopped"}
      BY <1>3, <2>4 DEF Cleaned, GoTo, AfterCleaning, TypeOK, ThreadTypes,
         CleaningState
    <3> QED
      BY <2>1, <2>2, <3>1, SameMarks DEF SamePlace
  <2> QED
    BY <2>3, <2>4 DEF Cleaner
<1>4. ASSUME CleanFinished PROVE RemovedLater'
  BY <1>4, SameMarks DEF CleanFinished, SamePlace, GoTo, StartCleaning,
     sessionVars
<1>5. ASSUME EndAll PROVE RemovedLater'
  BY <1>5, SameMarks DEF EndAll, SamePlace, GoTo, StartCleaning, sessionVars
<1>6. ASSUME NoRequest PROVE RemovedLater'
  BY <1>6, SameMarks DEF NoRequest, SamePlace, GoTo, managerVars, sessionVars
<1>7. ASSUME NEW k \in Kind, NEW s \in Session, TakeRequest(k, s) PROVE RemovedLater'
  BY <1>7, SameMarks DEF TakeRequest, SamePlace, GoTo, managerVars, sessionVars
<1>8. ASSUME CreateSession PROVE RemovedLater'
  BY <1>8, SameMarks DEF CreateSession, SamePlace, GoTo, StartCleaning,
     sessionVars, TypeOK, ThreadTypes, Cleaner
<1>9. ASSUME InsertSession PROVE RemovedLater'
  <2>1. /\ target \in Session \ born /\ ~pendingStop[target] /\ ~pendingRemove[target]
        /\ sessions' = sessions \union {target} /\ wrapper' = target
        /\ UNCHANGED <<taskQueue, pendingStop, pendingRemove, fault>>
        /\ pc'[Main] = pc[Main]
        /\ sessions \subseteq born
    BY <1>9 DEF InsertSession, GoTo, Placed, Unborn, sessionVars, TypeOK,
       ManagerTypes
  <2> QED
    BY <2>1 DEF RemovedLater, Queued, Creating
<1>10. ASSUME NotFound PROVE RemovedLater'
  BY <1>10, SameMarks DEF NotFound, SamePlace, GoTo, Responded, managerVars,
     sessionVars
<1>11. ASSUME FindSession PROVE RemovedLater'
  BY <1>11, SameMarks DEF FindSession, SamePlace, GoTo, sessionVars
<1>12. ASSUME LockSession PROVE RemovedLater'
  BY <1>12, SameMarks DEF LockSession, SamePlace, GoTo, sessionVars
<1>13. ASSUME UseDangling PROVE RemovedLater'
  BY <1>13, SameMarks DEF UseDangling, SamePlace, managerVars, sessionVars,
     threadVars
<1>14. ASSUME EnqueueCompile PROVE RemovedLater'
  <2>1. /\ wrapper \in Session /\ wrapper' = wrapper /\ sessions \subseteq Session
        /\ pc[Server] \in {"compile", "parse"} /\ pc'[Main] = pc[Main] /\ Alive
        /\ UNCHANGED <<sessions, pendingStop, pendingRemove>>
    BY <1>14 DEF EnqueueCompile, Handle, GoTo, Enqueue, Pushed, managerVars,
       requestVars, TypeOK, ManagerTypes
  <2>2. \A x \in Session \ {wrapper} : taskQueue'[x] = taskQueue[x]
    BY <1>14, <2>1 DEF EnqueueCompile, Enqueue, Pushed
  <2> QED
    BY <2>1, <2>2 DEF RemovedLater, Queued, Creating, Alive
<1>15. ASSUME EnqueueParse PROVE RemovedLater'
  <2>1. /\ wrapper \in Session /\ wrapper' = wrapper /\ sessions \subseteq Session
        /\ pc[Server] \in {"compile", "parse"} /\ pc'[Main] = pc[Main] /\ Alive
        /\ UNCHANGED <<sessions, pendingStop, pendingRemove>>
    BY <1>15 DEF EnqueueParse, Handle, GoTo, Enqueue, Pushed, managerVars, requestVars,
       TypeOK, ManagerTypes
  <2>2. \A x \in Session \ {wrapper} : taskQueue'[x] = taskQueue[x]
    BY <1>15, <2>1 DEF EnqueueParse, Enqueue, Pushed
  <2> QED
    BY <2>1, <2>2 DEF RemovedLater, Queued, Creating, Alive
<1>16. ASSUME HandleStep PROVE RemovedLater'
  <2>1. /\ wrapper \in Session /\ wrapper' = wrapper /\ sessions \subseteq Session
        /\ pc'[Server] = "release" /\ pc'[Main] = pc[Main] /\ Alive
        /\ UNCHANGED <<sessions, pendingStop, pendingRemove>>
    BY <1>16 DEF HandleStep, Handle, GoTo, Enqueue, Pushed, managerVars, requestVars,
       sessionVars, TypeOK, ManagerTypes, ThreadTypes, Cleaner
  <2>2. \A x \in Session : Queued(x, "parse")' => Queued(x, "parse")
    <3>1. CASE ~stepper[wrapper]
      BY <1>16, <3>1 DEF HandleStep, Queued, sessionVars
    <3>2. CASE stepper[wrapper]
      <4>1. /\ taskQueue[wrapper] \in Seq(Command)
            /\ taskQueue'[wrapper] = Append(taskQueue[wrapper], "step")
            /\ \A x \in Session \ {wrapper} : taskQueue'[x] = taskQueue[x]
        BY <1>16, <2>1, <3>2 DEF HandleStep, Enqueue, Pushed, TypeOK, SessionTypes
      <4>2. "step" \in Command
        BY DEF Command
      <4>3. \A i \in 1..Len(taskQueue'[wrapper]) :
              \/ taskQueue'[wrapper][i] = "step"
              \/ i \in 1..Len(taskQueue[wrapper]) /\ taskQueue'[wrapper][i] = taskQueue[wrapper][i]
        BY <4>1, <4>2
      <4> QED
        BY <2>1, <4>1, <4>3 DEF Queued
    <3> QED
      BY <3>1, <3>2
  <2> QED
    BY <2>1, <2>2 DEF RemovedLater, Creating, Alive
<1>17. ASSUME HandleStop PROVE RemovedLater'
  <2>1. /\ pc'[Server] = "release" /\ pc'[Main] = pc[Main]
        /\ UNCHANGED <<sessions, taskQueue, pendingRemove, fault>>
    BY <1>17 DEF HandleStop, Handle, GoTo, managerVars, TypeOK, ThreadTypes,
       Cleaner
  <2> QED
    BY <2>1 DEF RemovedLater, Queued, Creating
<1>34. ASSUME NoTempFile PROVE RemovedLater'
  BY <1>34, SameMarks DEF NoTempFile, SamePlace, GoTo, Responded, managerVars,
     sessionVars
<1>35. ASSUME TellRetry PROVE RemovedLater'
  BY <1>35, SameMarks DEF TellRetry, SamePlace, GoTo, Handle, managerVars,
     sessionVars
<1>18. ASSUME NoState PROVE RemovedLater'
  BY <1>18, SameMarks DEF NoState, SamePlace, GoTo, Handle, managerVars,
     sessionVars
<1>19. ASSUME BeginState PROVE RemovedLater'
  BY <1>19, SameMarks DEF BeginState, SamePlace, GoTo, Handle, managerVars,
     sessionVars
<1>20. ASSUME ReadState PROVE RemovedLater'
  <2>1. /\ wrapper \in Session /\ taskQueue[wrapper] = <<>> /\ sessions \subseteq Session
        /\ pc'[Server] = "release" /\ pc'[Main] = pc[Main] /\ Alive
        /\ UNCHANGED <<sessions, taskQueue>>
    BY <1>20 DEF ReadState, Handle, GoTo, managerVars, Idle, TypeOK,
       ManagerTypes, ThreadTypes, Cleaner
  <2>2. \A x \in Session \ {wrapper} : pendingRemove'[x] = pendingRemove[x]
    BY <1>20, <2>1 DEF ReadState, TypeOK, SessionTypes
  <2>3. \A i \in 1..Len(<<>>) : FALSE
    OBVIOUS
  <2> QED
    BY <2>1, <2>2, <2>3 DEF RemovedLater, Queued, Creating, Alive
<1>21. ASSUME Release PROVE RemovedLater'
  BY <1>21, SameMarks DEF Release, SamePlace, GoTo, Responded, sessionVars
<1>22. ASSUME Quit PROVE RemovedLater'
  BY <1>22, SameMarks DEF Quit, SamePlace, managerVars, sessionVars, threadVars
<1>23. ASSUME Kill PROVE RemovedLater'
  BY <1>23, SameMarks DEF Kill, SamePlace, sessionVars
<1>24. ASSUME NEW s \in Session, Fetch(s) PROVE RemovedLater'
  BY <1>24, SameMarks DEF Fetch, SamePlace, managerVars, sessionVars,
     threadVars
<1>25. ASSUME NEW s \in Session, Compile(s) PROVE RemovedLater'
  BY <1>25, SameMarks DEF Compile, SamePlace, managerVars, threadVars
<1>26. ASSUME NEW s \in Session, Step(s) PROVE RemovedLater'
  BY <1>26, SameMarks DEF Step, SamePlace, managerVars, sessionVars, threadVars
<1>27. ASSUME NEW s \in Session, ParseFind(s) PROVE RemovedLater'
  BY <1>27, SameMarks DEF ParseFind, SamePlace, sessionVars, requestVars,
     threadVars
<1>28. ASSUME NEW s \in Session, ParseLock(s) PROVE RemovedLater'
  BY <1>28, SameMarks DEF ParseLock, SamePlace, sessionVars, threadVars
<1>29. ASSUME NEW s \in Session, ParseRun(s) PROVE RemovedLater'
  BY <1>29, SameMarks DEF ParseRun, SamePlace, threadVars
<1>30. ASSUME NEW s \in Session, Throw(s) PROVE RemovedLater'
  BY <1>30, SameMarks DEF Throw, SamePlace, sessionVars, threadVars
<1>31. ASSUME NEW s \in Session, Pop(s) PROVE RemovedLater'
  <2>1. UNCHANGED <<sessions, pc, wrapper, pendingStop, pendingRemove, fault>>
    BY <1>31 DEF Pop, managerVars, requestVars, threadVars
  <2>2. \A x \in Session \ {s} : taskQueue'[x] = taskQueue[x]
    BY <1>31 DEF Pop
  <2>3. Queued(s, "parse")' => Queued(s, "parse")
    <3>1. CASE task[s] = Nobody
      BY <1>31, <3>1 DEF Pop, Queued
    <3>2. CASE task[s] # Nobody
      <4>1. /\ taskQueue[s] \in Seq(Command) /\ taskQueue[s] # <<>>
            /\ taskQueue'[s] = SubSeq(taskQueue[s], 2, Len(taskQueue[s]))
        BY <1>31, <3>2 DEF Pop, Holding, TypeOK, SessionTypes
      <4>2. /\ Len(taskQueue[s]) \in Nat
            /\ Len(taskQueue'[s]) = Len(taskQueue[s]) - 1
            /\ \A i \in 1..(Len(taskQueue[s]) - 1) : taskQueue'[s][i] = taskQueue[s][i + 1]
        BY <4>1, RestFacts
      <4>3. \A i \in 1..(Len(taskQueue[s]) - 1) : i + 1 \in 1..Len(taskQueue[s])
        BY <4>2
      <4> QED
        BY <4>2, <4>3 DEF Queued
    <3> QED
      BY <3>1, <3>2
  <2>4. \A x \in Session : Queued(x, "parse")' => Queued(x, "parse")
    BY <2>2, <2>3 DEF Queued
  <2>5. sessions \subseteq Session
    BY DEF TypeOK, ManagerTypes
  <2> QED
    BY <2>1, <2>4, <2>5 DEF RemovedLater, Creating
<1>32. ASSUME NEW s \in Session, CheckEmpty(s) PROVE RemovedLater'
  BY <1>32, SameMarks DEF CheckEmpty, SamePlace, managerVars, sessionVars,
     threadVars
<1>33. ASSUME NEW s \in Session, CheckStop(s) PROVE RemovedLater'
  <2>1. UNCHANGED <<sessions, pc, wrapper, pendingStop, fault>> /\ sessions \subseteq Session
    BY <1>33 DEF CheckStop, managerVars, requestVars, threadVars, TypeOK,
       ManagerTypes
  <2>2. CASE pendingStop[s]
    <3>1. /\ ~Creating(s) /\ taskQueue'[s] = <<>>
          /\ \A x \in Session \ {s} : /\ taskQueue'[x] = taskQueue[x]
                                      /\ pendingRemove'[x] = pendingRemove[x]
      BY <1>33, <2>2 DEF CheckStop, RemovedLater, TypeOK, SessionTypes
    <3>2. \A i \in 1..Len(<<>>) : FALSE
      OBVIOUS
    <3> QED
      BY <2>1, <3>1, <3>2 DEF RemovedLater, Queued, Creating
  <2>3. CASE ~pendingStop[s]
    <3>1. UNCHANGED <<taskQueue, pendingRemove>>
      BY <1>33, <2>3 DEF CheckStop
    <3> QED
      BY <2>1, <3>1, SameMarks DEF SamePlace
  <2> QED
    BY <2>2, <2>3
<1> QED
  BY <1>1, <1>2, <1>3, <1>4, <1>5, <1>6, <1>7, <1>8, <1>9, <1>10, <1>11, <1>12,
     <1>13, <1>14, <1>15, <1>16, <1>17, <1>18, <1>19, <1>20, <1>21, <1>22,
     <1>23, <1>24, <1>25, <1>26, <1>27, <1>28, <1>29, <1>30, <1>31, <1>32,
     <1>33, <1>34, <1>35 DEF Next, Clean, Answer, Request, Operator, Worker

(* Every step keeps what cleaning sessions up relies on.                     *)
LEMMA NextFinished ==
  ASSUME RemovalInv, Next
  PROVE  Finished'
<1> USE SessionManagerAssumption DEF RemovalInv, SafeInv
<1>1. ASSUME NEW t \in Cleaner, CleanSession(t) PROVE Finished'
  BY <1>1 DEF CleanSession, Finished, Cleans, GoTo, Alive, managerVars
<1>2. ASSUME NEW t \in Cleaner, Joined(t) PROVE Finished'
  <2>1. cleaning[t].now \in Session /\ sessions \subseteq Session
    BY <1>2 DEF Joined, Placed, Cleans, TypeOK, ManagerTypes
  <2>2. /\ \A x \in Session : taskQueue'[x] = taskQueue[x] \/ taskQueue'[x] = <<>>
        /\ \A x \in Session : pendingRemove[x] => pendingRemove'[x]
    BY <1>2, <2>1 DEF Joined
  <2>3. /\ sessions' \subseteq sessions
        /\ fault' = "none"
        /\ pc[Server] = pc'[Server] \/ (pc[Server] = "join" /\ pc'[Server] = "clean")
    BY <1>2 DEF Joined, Remaining, GoTo, Alive
  <2>4. /\ cleaning'[Server].why = cleaning[Server].why
        /\ cleaning'[Server].todo \subseteq cleaning[Server].todo
    BY <1>2 DEF Joined, TypeOK, ThreadTypes, Cleaner
  <2>5. Cleans(Server) => cleaning[Server].todo \subseteq Session
    BY <2>1 DEF Placed, Cleaner
  <2>6. Cleans(Server)' => Cleans(Server)
    BY <2>3 DEF Cleans
  <2> QED
    BY <2>1, <2>2, <2>3, <2>4, <2>5, <2>6 DEF Finished, Alive
<1>3. ASSUME NEW t \in Cleaner, Cleaned(t) PROVE Finished'
  <2>1. UNCHANGED <<taskQueue, pendingRemove, cleaning>> /\ sessions' \subseteq sessions
    BY <1>3 DEF Cleaned, sessionVars
  <2>2. CASE t = Server
    <3>1. pc'[Server] \in {"serve", "insert", "stopped"}
      BY <1>3, <2>2 DEF Cleaned, GoTo, AfterCleaning, TypeOK, ThreadTypes,
         CleaningState
    <3> QED
      BY <2>1, <3>1 DEF Finished, Cleans
  <2>3. CASE t = Main
    <3>1. ~Cleans(Server) /\ pc'[Server] = pc[Server]
      BY <1>3, <2>3 DEF Cleaned, GoTo, MutexHeld, Cleans
    <3> QED
      BY <2>1, <3>1 DEF Finished, Cleans
  <2> QED
    BY <2>2, <2>3 DEF Cleaner
<1>4. ASSUME CleanFinished PROVE Finished'
  BY <1>4 DEF CleanFinished, Finished, Cleans, GoTo, Alive, StartCleaning,
     ToRemove, sessionVars, TypeOK, ThreadTypes
<1>5. ASSUME EndAll PROVE Finished'
  BY <1>5 DEF EndAll, Finished, Cleans, GoTo, Alive, StartCleaning, TypeOK,
     ThreadTypes
<1>6. ASSUME NoRequest PROVE Finished'
  BY <1>6 DEF NoRequest, Finished, Cleans, GoTo
<1>7. ASSUME NEW k \in Kind, NEW s \in Session, TakeRequest(k, s) PROVE Finished'
  BY <1>7 DEF TakeRequest, Finished, Cleans, GoTo, managerVars, sessionVars
<1>8. ASSUME CreateSession PROVE Finished'
  <2>1. /\ pc[Server] = "create" /\ pc'[Server] \in {"clean", "insert"}
        /\ UNCHANGED <<sessions, taskQueue>> /\ fault' = "none"
    BY <1>8 DEF CreateSession, StartCleaning, GoTo, Alive, sessionVars, TypeOK,
       ThreadTypes, Cleaner
  <2>2. CASE SingleSession /\ sessions # {}
    <3>1. cleaning'[Server].why = "replace"
      BY <1>8, <2>2 DEF CreateSession, StartCleaning, TypeOK, ThreadTypes,
         Cleaner
    <3> QED
      BY <2>1, <2>2, <3>1 DEF Finished, Alive
  <2>3. CASE ~(SingleSession /\ sessions # {})
    <3>1. cleaning' = cleaning /\ pc'[Server] = "insert"
      BY <1>8, <2>3 DEF CreateSession, GoTo, TypeOK, ThreadTypes, Cleaner
    <3> QED
      BY <2>1, <3>1 DEF Finished, Cleans
  <2> QED
    BY <2>2, <2>3
<1>9. ASSUME InsertSession PROVE Finished'
  BY <1>9 DEF InsertSession, Finished, Cleans, GoTo
<1>10. ASSUME NotFound PROVE Finished'
  BY <1>10 DEF NotFound, Finished, Cleans, GoTo, Responded
<1>11. ASSUME FindSession PROVE Finished'
  BY <1>11 DEF FindSession, Finished, Cleans, GoTo
<1>12. ASSUME LockSession PROVE Finished'
  BY <1>12 DEF LockSession, Finished, Cleans, GoTo
<1>13. ASSUME UseDangling PROVE Finished'
  BY <1>13 DEF UseDangling, Finished, Cleans, threadVars, Handling
<1>14. ASSUME EnqueueCompile PROVE Finished'
  BY <1>14 DEF EnqueueCompile, Finished, Cleans, GoTo, Handle
<1>15. ASSUME EnqueueParse PROVE Finished'
  BY <1>15 DEF EnqueueParse, Finished, Cleans, GoTo, Handle
<1>16. ASSUME HandleStep PROVE Finished'
  BY <1>16 DEF HandleStep, Finished, Cleans, GoTo, Handle
<1>17. ASSUME HandleStop PROVE Finished'
  BY <1>17 DEF HandleStop, Finished, Cleans, GoTo, Handle
<1>34. ASSUME NoTempFile PROVE Finished'
  <2>1. pc[Server] = "create" /\ pc'[Server] = "serve"
    BY <1>34 DEF NoTempFile, Responded, GoTo, TypeOK, ThreadTypes, Cleaner
  <2>2. cleaning' = cleaning
    BY <1>34 DEF NoTempFile
  <2> QED
    BY <2>1, <2>2 DEF Finished, Cleans
<1>35. ASSUME TellRetry PROVE Finished'
  BY <1>35 DEF TellRetry, Finished, Cleans, GoTo, Handle
<1>18. ASSUME NoState PROVE Finished'
  BY <1>18 DEF NoState, Finished, Cleans, GoTo, Handle
<1>19. ASSUME BeginState PROVE Finished'
  BY <1>19 DEF BeginState, Finished, Cleans, GoTo, Handle
<1>20. ASSUME ReadState PROVE Finished'
  BY <1>20 DEF ReadState, Finished, Cleans, GoTo, Handle, TypeOK, ThreadTypes,
     Cleaner
<1>21. ASSUME Release PROVE Finished'
  BY <1>21 DEF Release, Finished, Cleans, GoTo, Responded
<1>22. ASSUME Quit PROVE Finished'
  BY <1>22 DEF Quit, Finished, Cleans, Alive, managerVars, sessionVars,
     threadVars
<1>23. ASSUME Kill PROVE Finished'
  BY <1>23 DEF Kill, Finished, Cleans, GoTo, Alive, StartCleaning, sessionVars
<1>24. ASSUME NEW s \in Session, Fetch(s) PROVE Finished'
  BY <1>24 DEF Fetch, Finished, Cleans, Alive, managerVars, sessionVars,
     threadVars
<1>25. ASSUME NEW s \in Session, Compile(s) PROVE Finished'
  BY <1>25 DEF Compile, Finished, Cleans, Alive, managerVars, threadVars
<1>26. ASSUME NEW s \in Session, Step(s) PROVE Finished'
  BY <1>26 DEF Step, Finished, Cleans, Alive, managerVars, sessionVars,
     threadVars
<1>27. ASSUME NEW s \in Session, ParseFind(s) PROVE Finished'
  <2>1. UNCHANGED <<sessions, taskQueue, pendingRemove, cleaning, pc>>
    BY <1>27 DEF ParseFind, sessionVars, threadVars
  <2>2. fault' = fault
    BY <1>27 DEF ParseFind, WorkAt, Living
  <2> QED
    BY <2>1, <2>2 DEF Finished, Cleans, Alive
<1>28. ASSUME NEW s \in Session, ParseLock(s) PROVE Finished'
  BY <1>28 DEF ParseLock, Finished, Cleans, Alive, sessionVars, threadVars
<1>29. ASSUME NEW s \in Session, ParseRun(s) PROVE Finished'
  BY <1>29 DEF ParseRun, Finished, Cleans, Alive, threadVars
<1>30. ASSUME NEW s \in Session, Throw(s) PROVE Finished'
  BY <1>30 DEF Throw, Finished, Cleans, Alive, sessionVars, threadVars
<1>31. ASSUME NEW s \in Session, Pop(s) PROVE Finished'
  BY <1>31 DEF Pop, Finished, Cleans, Alive, managerVars, threadVars
<1>32. ASSUME NEW s \in Session, CheckEmpty(s) PROVE Finished'
  BY <1>32 DEF CheckEmpty, Finished, Cleans, Alive, managerVars, sessionVars,
     threadVars
<1>33. ASSUME NEW s \in Session, CheckStop(s) PROVE Finished'
  <2>1. UNCHANGED <<sessions, cleaning, pc, fault>>
    BY <1>33 DEF CheckStop, managerVars, threadVars
  <2>2. /\ \A x \in Session : taskQueue'[x] = taskQueue[x] \/ taskQueue'[x] = <<>>
        /\ \A x \in Session : pendingRemove[x] => pendingRemove'[x]
    BY <1>33 DEF CheckStop, TypeOK, SessionTypes
  <2>3. sessions \subseteq Session /\ (Cleans(Server) => cleaning[Server].todo \subseteq sessions)
    BY DEF TypeOK, ManagerTypes, Placed, Cleaner
  <2> QED
    BY <2>1, <2>2, <2>3 DEF Finished, Cleans, Alive
<1> QED
  BY <1>1, <1>2, <1>3, <1>4, <1>5, <1>6, <1>7, <1>8, <1>9, <1>10, <1>11, <1>12,
     <1>13, <1>14, <1>15, <1>16, <1>17, <1>18, <1>19, <1>20, <1>21, <1>22,
     <1>23, <1>24, <1>25, <1>26, <1>27, <1>28, <1>29, <1>30, <1>31, <1>32,
     <1>33, <1>34, <1>35 DEF Next, Clean, Answer, Request, Operator, Worker

(* Without the operator's k, every step keeps what is known of the server    *)
(* thread as the only one that ends workers.                                 *)
LEMMA NextUnkilled ==
  ASSUME UnkilledInv, Next, ~MayKill
  PROVE  Unkilled'
<1> USE SessionManagerAssumption DEF UnkilledInv, SafeInv
<1>1. ASSUME NEW t \in Cleaner, CleanSession(t) PROVE Unkilled'
  BY <1>1 DEF CleanSession, Unkilled, Cleans, GoTo, managerVars, TypeOK,
     ThreadTypes, Handling, Cleaner
<1>2. ASSUME NEW t \in Cleaner, Joined(t) PROVE Unkilled'
  BY <1>2 DEF Joined, Unkilled, Cleans, GoTo, Remaining, TypeOK, ManagerTypes,
     SessionTypes, ThreadTypes, Handling, Cleaner
<1>3. ASSUME NEW t \in Cleaner, Cleaned(t) PROVE Unkilled'
  BY <1>3 DEF Cleaned, Unkilled, Cleans, GoTo, AfterCleaning, sessionVars,
     TypeOK, ThreadTypes, CleaningState, Handling, Cleaner
<1>4. ASSUME CleanFinished PROVE Unkilled'
  BY <1>4 DEF CleanFinished, Unkilled, Cleans, GoTo, StartCleaning,
     sessionVars, TypeOK, ThreadTypes, Handling
<1>5. ASSUME EndAll PROVE Unkilled'
  BY <1>5 DEF EndAll, Unkilled, Cleans, GoTo, StartCleaning, sessionVars,
     TypeOK, ThreadTypes, Handling
<1>6. ASSUME NoRequest PROVE Unkilled'
  BY <1>6 DEF NoRequest, Unkilled, Cleans, GoTo, sessionVars, Handling
<1>7. ASSUME NEW k \in Kind, NEW s \in Session, TakeRequest(k, s) PROVE Unkilled'
  BY <1>7 DEF TakeRequest, Unkilled, Cleans, GoTo, sessionVars, Handling
<1>8. ASSUME CreateSession PROVE Unkilled'
  <2>1. /\ pc[Server] = "create" /\ pc'[Server] \in {"clean", "insert"} /\ pc'[Main] = pc[Main]
        /\ UNCHANGED <<sessions, thread, taskQueueRunning, fault>>
    BY <1>8 DEF CreateSession, StartCleaning, GoTo, sessionVars, TypeOK,
       ThreadTypes, Cleaner
  <2>2. pc'[Server] = "clean" => cleaning'[Server].why = "replace"
    BY <1>8 DEF CreateSession, StartCleaning, GoTo, TypeOK, ThreadTypes,
       Cleaner
  <2> QED
    BY <2>1, <2>2 DEF Unkilled, Cleans, Handling
<1>9. ASSUME InsertSession PROVE Unkilled'
  BY <1>9 DEF InsertSession, Unkilled, Cleans, GoTo, sessionVars
<1>10. ASSUME NotFound PROVE Unkilled'
  BY <1>10 DEF NotFound, Unkilled, Cleans, GoTo, Responded, sessionVars,
     Handling
<1>11. ASSUME FindSession PROVE Unkilled'
  BY <1>11 DEF FindSession, Unkilled, Cleans, GoTo, sessionVars, Handling
<1>12. ASSUME LockSession PROVE Unkilled'
  <2>1. /\ pc[Server] = "wait" /\ pc'[Server] = "handle" /\ pc'[Main] = pc[Main]
        /\ wrapper' = target /\ target \in sessions
        /\ UNCHANGED <<sessions, thread, taskQueueRunning, cleaning, fault>>
    BY <1>12 DEF LockSession, GoTo, Placed, sessionVars, TypeOK, ThreadTypes,
       Cleaner
  <2> QED
    BY <2>1 DEF Unkilled, Cleans
<1>13. ASSUME UseDangling PROVE Unkilled'
  BY <1>13 DEF UseDangling, Unkilled
<1>14. ASSUME EnqueueCompile PROVE Unkilled'
  <2>1. /\ wrapper \in Session /\ wrapper \in sessions
        /\ pc[Server] \in Handling /\ pc'[Server] \in {"parse", "release"} /\ pc'[Main] = pc[Main]
        /\ UNCHANGED <<sessions, wrapper>>
    BY <1>14 DEF EnqueueCompile, Handle, GoTo, Handling, managerVars,
       requestVars, TypeOK, ManagerTypes, ThreadTypes, Cleaner
  <2>2. /\ fault' = fault
        /\ \A x \in Session : thread'[x] => thread[x] \/ taskQueueRunning'[x]
        /\ \A x \in Session : taskQueueRunning[x] => taskQueueRunning'[x]
    <3>1. \A x \in Session : thread[x] => taskQueueRunning[x]
      BY <2>1 DEF Unkilled, Handling
    <3> QED
      BY <1>14, <2>1, <3>1 DEF EnqueueCompile, Enqueue, Pushed, TypeOK, SessionTypes
  <2> QED
    BY <2>1, <2>2 DEF Unkilled, Cleans, Handling
<1>15. ASSUME EnqueueParse PROVE Unkilled'
  <2>1. /\ wrapper \in Session /\ wrapper \in sessions
        /\ pc[Server] \in Handling /\ pc'[Server] \in {"parse", "release"} /\ pc'[Main] = pc[Main]
        /\ UNCHANGED <<sessions, wrapper>>
    BY <1>15 DEF EnqueueParse, Handle, GoTo, Handling, managerVars,
       requestVars, TypeOK, ManagerTypes
  <2>2. /\ fault' = fault
        /\ \A x \in Session : thread'[x] => thread[x] \/ taskQueueRunning'[x]
        /\ \A x \in Session : taskQueueRunning[x] => taskQueueRunning'[x]
    <3>1. \A x \in Session : thread[x] => taskQueueRunning[x]
      BY <2>1 DEF Unkilled, Handling
    <3> QED
      BY <1>15, <2>1, <3>1 DEF EnqueueParse, Enqueue, Pushed, TypeOK, SessionTypes
  <2> QED
    BY <2>1, <2>2 DEF Unkilled, Cleans, Handling
<1>16. ASSUME HandleStep PROVE Unkilled'
  <2>1. /\ wrapper \in Session /\ wrapper \in sessions
        /\ pc[Server] \in Handling /\ pc'[Server] \in {"parse", "release"} /\ pc'[Main] = pc[Main]
        /\ UNCHANGED <<sessions, wrapper>>
    BY <1>16 DEF HandleStep, Handle, GoTo, Handling, managerVars, requestVars,
       TypeOK, ManagerTypes, ThreadTypes, Cleaner
  <2>2. /\ fault' = fault
        /\ \A x \in Session : thread'[x] => thread[x] \/ taskQueueRunning'[x]
        /\ \A x \in Session : taskQueueRunning[x] => taskQueueRunning'[x]
    <3>1. \A x \in Session : thread[x] => taskQueueRunning[x]
      BY <2>1 DEF Unkilled, Handling
    <3> QED
      BY <1>16, <2>1, <3>1 DEF HandleStep, Enqueue, Pushed, sessionVars, TypeOK,
         SessionTypes
  <2> QED
    BY <2>1, <2>2 DEF Unkilled, Cleans, Handling
<1>17. ASSUME HandleStop PROVE Unkilled'
  BY <1>17 DEF HandleStop, Unkilled, Cleans, GoTo, Handle, managerVars,
     requestVars
<1>34. ASSUME NoTempFile PROVE Unkilled'
  BY <1>34 DEF NoTempFile, Unkilled, Cleans, GoTo, Responded, sessionVars,
     Handling
<1>35. ASSUME TellRetry PROVE Unkilled'
  BY <1>35 DEF TellRetry, Unkilled, Cleans, GoTo, Handle, managerVars,
     sessionVars, requestVars
<1>18. ASSUME NoState PROVE Unkilled'
  BY <1>18 DEF NoState, Unkilled, Cleans, GoTo, Handle, managerVars,
     sessionVars, requestVars
<1>19. ASSUME BeginState PROVE Unkilled'
  BY <1>19 DEF BeginState, Unkilled, Cleans, GoTo, Handle, managerVars,
     sessionVars, requestVars
<1>20. ASSUME ReadState PROVE Unkilled'
  BY <1>20 DEF ReadState, Unkilled, Cleans, GoTo, Handle, managerVars,
     requestVars, TypeOK, ThreadTypes, Cleaner
<1>21. ASSUME Release PROVE Unkilled'
  BY <1>21 DEF Release, Unkilled, Cleans, GoTo, Responded, sessionVars, TypeOK,
     ThreadTypes, Handling, Cleaner
<1>22. ASSUME Quit PROVE Unkilled'
  BY <1>22 DEF Quit, Unkilled, Cleans, managerVars, sessionVars, requestVars,
     threadVars
<1>23. ASSUME Kill PROVE Unkilled'
  BY <1>23 DEF Kill
<1>24. ASSUME NEW s \in Session, Fetch(s) PROVE Unkilled'
  BY <1>24 DEF Fetch, Unkilled, Cleans, managerVars, sessionVars, requestVars,
     threadVars
<1>25. ASSUME NEW s \in Session, Compile(s) PROVE Unkilled'
  BY <1>25 DEF Compile, Unkilled, Cleans, managerVars, requestVars, threadVars
<1>26. ASSUME NEW s \in Session, Step(s) PROVE Unkilled'
  BY <1>26 DEF Step, Unkilled, Cleans, managerVars, sessionVars, requestVars,
     threadVars
<1>27. ASSUME NEW s \in Session, ParseFind(s) PROVE Unkilled'
  BY <1>27 DEF ParseFind, Unkilled, Cleans, sessionVars, requestVars,
     threadVars
<1>28. ASSUME NEW s \in Session, ParseLock(s) PROVE Unkilled'
  BY <1>28 DEF ParseLock, Unkilled, Cleans, sessionVars, requestVars,
     threadVars
<1>29. ASSUME NEW s \in Session, ParseRun(s) PROVE Unkilled'
  BY <1>29 DEF ParseRun, Unkilled, Cleans, requestVars, threadVars
<1>30. ASSUME NEW s \in Session, Throw(s) PROVE Unkilled'
  BY <1>30 DEF Throw, Unkilled, Cleans, sessionVars, requestVars, threadVars
<1>31. ASSUME NEW s \in Session, Pop(s) PROVE Unkilled'
  BY <1>31 DEF Pop, Unkilled, Cleans, managerVars, requestVars, threadVars
<1>32. ASSUME NEW s \in Session, CheckEmpty(s) PROVE Unkilled'
  BY <1>32 DEF CheckEmpty, Unkilled, Cleans, managerVars, sessionVars,
     requestVars, threadVars
<1>33. ASSUME NEW s \in Session, CheckStop(s) PROVE Unkilled'
  BY <1>33 DEF CheckStop, Unkilled, Cleans, managerVars, requestVars,
     threadVars
<1> QED
  BY <1>1, <1>2, <1>3, <1>4, <1>5, <1>6, <1>7, <1>8, <1>9, <1>10, <1>11, <1>12,
     <1>13, <1>14, <1>15, <1>16, <1>17, <1>18, <1>19, <1>20, <1>21, <1>22,
     <1>23, <1>24, <1>25, <1>26, <1>27, <1>28, <1>29, <1>30, <1>31, <1>32,
     <1>33, <1>34, <1>35 DEF Next, Clean, Answer, Request, Operator, Worker

(* Every initial state satisfies both invariants.                            *)
LEMMA InitRemoval == Init => RemovalInv /\ UnkilledInv
<1> SUFFICES ASSUME Init PROVE RemovalInv /\ UnkilledInv
  OBVIOUS
<1>1. SafeInv
  BY InitSafe
<1>2. RemovedLater /\ Finished
  BY SessionManagerAssumption DEF Init, RemovedLater, Finished, Cleans, Cleaner
<1>3. Unkilled
  BY SessionManagerAssumption DEF Init, Unkilled, Handling, Cleaner
<1> QED
  BY <1>1, <1>2, <1>3 DEF RemovalInv, UnkilledInv

(* A step that changes nothing keeps both.                                   *)
LEMMA StutterRemoval ==
  ASSUME UNCHANGED vars
  PROVE  (RemovedLater => RemovedLater') /\ (Finished => Finished') /\ (Unkilled => Unkilled')
<1> USE DEF vars, managerVars, sessionVars, requestVars, threadVars
<1>1. RemovedLater => RemovedLater'
  BY DEF RemovedLater, Queued, Creating
<1>2. Finished => Finished'
  BY DEF Finished, Cleans, Alive
<1>3. Unkilled => Unkilled'
  BY DEF Unkilled, Cleans
<1> QED
  BY <1>1, <1>2, <1>3

(* cleanFinishedSessions, and a patient client's createSession, join only    *)
(* workers that will not run ParseCmd: the join returns.                     *)
THEOREM FinishedHaveParsed ==
  ASSUME SingleSession => PatientClient
  PROVE  Spec => []FinishedNeverParses
<1>1. RemovalInv /\ [Next]_vars => RemovalInv'
  <2> SUFFICES ASSUME RemovalInv, [Next]_vars PROVE RemovalInv'
    OBVIOUS
  <2>1. SafeInv'
    BY NextSafe DEF RemovalInv
  <2>2. (RemovedLater /\ Finished)'
    BY NextRemovedLater, NextFinished, StutterRemoval DEF RemovalInv
  <2> QED
    BY <2>1, <2>2 DEF RemovalInv
<1>2. RemovalInv => FinishedNeverParses
  <2> SUFFICES ASSUME RemovalInv, pc[Server] = "join", cleaning[Server].why # "end",
                      task[cleaning[Server].now] = "parse"
               PROVE  FALSE
    BY DEF FinishedNeverParses
  <2> DEFINE s == cleaning[Server].now
  <2>1. /\ s \in cleaning[Server].todo /\ s \in sessions /\ s \in Session
        /\ fault = "none" /\ pc[Main] = "idle"
    <3>1. ~Cleans(Main)
      BY SessionManagerAssumption DEF RemovalInv, SafeInv, MutexHeld, Cleans
    <3>2. s \in cleaning[Server].todo /\ s \in sessions /\ s \in Session
      BY DEF RemovalInv, SafeInv, Placed, Cleans, Cleaner, TypeOK, ManagerTypes
    <3> QED
      BY <3>1, <3>2 DEF RemovalInv, SafeInv, Finished, Cleans, Alive, TypeOK,
         ThreadTypes
  <2>2. taskQueue[s] \in Seq(Command) /\ taskQueue[s] # <<>> /\ Head(taskQueue[s]) = "parse"
    BY <2>1, SessionManagerAssumption DEF RemovalInv, SafeInv, Holding, TypeOK,
       SessionTypes
  <2>3. Queued(s, "parse")
    <3>1. 1 \in 1..Len(taskQueue[s]) /\ taskQueue[s][1] = "parse"
      BY <2>2
    <3> QED
      BY <3>1 DEF Queued
  <2> HIDE DEF s
  <2>4. cleaning[Server].why \in {"finished", "replace"}
    BY DEF RemovalInv, SafeInv, TypeOK, ThreadTypes, CleaningState, Cleaner
  <2>5. CASE cleaning[Server].why = "finished"
    BY <2>1, <2>3, <2>5 DEF RemovalInv, RemovedLater, Finished, Cleans
  <2>6. CASE cleaning[Server].why = "replace"
    BY <2>1, <2>2, <2>6 DEF RemovalInv, Finished, Cleans
  <2> QED
    BY <2>4, <2>5, <2>6
<1> QED
  BY <1>1, <1>2, InitRemoval, PTL DEF Spec

(* Sessions are destroyed under a response, or given a worker while they are *)
(* destroyed, by the operator's k alone.                                     *)
THEOREM SafeWithoutKill ==
  ASSUME ~MayKill
  PROVE  Spec => []KillIsSafe
<1>1. UnkilledInv /\ [Next]_vars => UnkilledInv'
  <2> SUFFICES ASSUME UnkilledInv, [Next]_vars PROVE UnkilledInv'
    OBVIOUS
  <2>1. SafeInv'
    BY NextSafe DEF UnkilledInv
  <2>2. Unkilled'
    BY NextUnkilled, StutterRemoval DEF UnkilledInv
  <2> QED
    BY <2>1, <2>2 DEF UnkilledInv
<1>2. UnkilledInv => KillIsSafe
  BY DEF UnkilledInv, Unkilled, KillIsSafe
<1> QED
  BY <1>1, <1>2, InitRemoval, PTL DEF Spec
=============================================================================
