------------------------- MODULE SessionQueueProofs -------------------------
(***************************************************************************)
(* Proofs about one session's command queue, for any number of commands    *)
(* and whether or not they throw: the safety properties of                 *)
(* SessionQueueProps and the safety part of its refinement of              *)
(* CommandQueue.  Liveness is left to TLC.                                 *)
(***************************************************************************)
EXTENDS SessionQueueProps, TLAPS

-----------------------------------------------------------------------------
(* The inductive invariant.  By themselves the properties do not follow    *)
(* from a step: they need to know which commands the queue holds, where    *)
(* the worker stands and whether it exists at all.                         *)

\* The queue holds the last Len(queue) commands that were accepted, in order.
Numbered ==
  /\ Len(queue) <= accepted
  /\ \A i \in 1..Len(queue) : queue[i] = accepted - Len(queue) + i

\* The worker took commands 1, 2, 3, ...
InOrder ==
  /\ Len(ran) <= accepted
  /\ \A i \in 1..Len(ran) : ran[i] = i

\* The command the worker holds is at the front and is the last it took.
Holding ==
  /\ worker = "run" => task # NoTask
  /\ task # NoTask => /\ worker \in {"run", "pop"}
                      /\ queue # <<>>
                      /\ task = queue[1]
                      /\ task = Len(ran)

\* Between two commands, whatever is not in the queue has been taken.
CaughtUp ==
  task = NoTask /\ worker # "exited" => Len(ran) = accepted - Len(queue)

\* The life of the worker against that of the session.
Lifetime ==
  /\ caller = "idle" => (thread <=> taskQueueRunning)
  /\ caller # "idle" => ~taskQueueRunning
  /\ worker = "none" => ~thread /\ accepted = 0
  /\ caller = "idle" /\ ~thread => worker = "none"
  /\ worker \notin {"none", "exited"} => thread
  /\ caller = "gone" => ~thread

AtStop == worker = "stop" => Len(ran) = seenEmpty

\* Once the flag is reset, a worker that may still start a command has
\* started none since.
Leaving ==
  caller # "idle" =>
    /\ Len(ran) <= ranAtCleanup + 1
    /\ \/ worker = "fetch"
       \/ worker \in {"check", "stop"} /\ run
       => Len(ran) <= ranAtCleanup

IInv == /\ TypeOK
        /\ Numbered
        /\ InOrder
        /\ Holding
        /\ CaughtUp
        /\ Lifetime
        /\ AtStop
        /\ Leaving

\* What appending an element to a sequence returns.
LEMMA AppendFacts ==
  ASSUME NEW S, NEW s \in Seq(S), NEW e \in S
  PROVE  /\ Append(s, e) \in Seq(S)
         /\ Len(Append(s, e)) = Len(s) + 1
         /\ \A i \in 1..Len(s) : Append(s, e)[i] = s[i]
         /\ Append(s, e)[Len(s) + 1] = e
  OBVIOUS

LEMMA InitIInv == Init => IInv
<1> SUFFICES ASSUME Init PROVE IInv
  OBVIOUS
<1> USE SessionQueueAssumption DEF Init, NoTask
<1>1. TypeOK
  <2>1. FlagTypes
    BY DEF FlagTypes
  <2>2. ValueTypes
    BY DEF ValueTypes, WorkerState, CallerState
  <2> QED
    BY <2>1, <2>2 DEF TypeOK
<1>2. Numbered /\ InOrder
  BY DEF Numbered, InOrder
<1>3. Holding /\ AtStop /\ Leaving
  <2>1. worker = "none" /\ task = 0 /\ caller = "idle"
    OBVIOUS
  <2> QED
    BY <2>1 DEF Holding, AtStop, Leaving
<1>5. CaughtUp
  <2>1. Len(ran) = 0 /\ Len(queue) = 0 /\ accepted = 0
    OBVIOUS
  <2> HIDE DEF Init
  <2> QED
    BY <2>1 DEF CaughtUp
<1>4. Lifetime
  BY DEF Lifetime
<1> QED
  BY <1>1, <1>2, <1>3, <1>4, <1>5 DEF IInv

(* A command is accepted.  If a worker is started there was none before.   *)
LEMMA EnqueueIInv == IInv /\ EnqueueCommand => IInv'
<1> SUFFICES ASSUME IInv, EnqueueCommand PROVE IInv'
  OBVIOUS
<1> USE SessionQueueAssumption DEF EnqueueCommand, NextNumber, MarkedRunning, NoTask
<1>1. accepted + 1 \in Command
  BY DEF IInv, TypeOK, ValueTypes, Command
<1>2. /\ queue' \in Seq(Command)
      /\ Len(queue') = Len(queue) + 1
      /\ \A i \in 1..Len(queue) : queue'[i] = queue[i]
      /\ queue'[Len(queue) + 1] = accepted + 1
  BY <1>1 DEF IInv, TypeOK, ValueTypes
<1>3. TypeOK'
  <2>1. FlagTypes'
    BY DEF IInv, TypeOK, FlagTypes
  <2>2. ValueTypes'
    BY <1>1, <1>2 DEF IInv, TypeOK, ValueTypes, Command, WorkerState
  <2> QED
    BY <2>1, <2>2 DEF TypeOK
<1>4. Numbered'
  <2>1. Len(queue) \in Nat /\ accepted \in Nat /\ accepted' = accepted + 1
    BY DEF IInv, TypeOK, ValueTypes
  <2>2. ASSUME NEW i \in 1..Len(queue')
        PROVE  queue'[i] = accepted' - Len(queue') + i
    <3>1. CASE i \in 1..Len(queue)
      BY <1>2, <2>1, <3>1 DEF IInv, Numbered
    <3>2. CASE i = Len(queue) + 1
      BY <1>2, <2>1, <3>2
    <3> QED
      BY <1>2, <2>1, <3>1, <3>2
  <2> QED
    BY <1>2, <2>1, <2>2 DEF IInv, Numbered
<1>5. InOrder'
  BY DEF IInv, TypeOK, ValueTypes, InOrder
<1>6. CASE ~thread \/ ~taskQueueRunning
  <2>1. ~thread /\ worker = "none" /\ task = NoTask
    BY <1>6 DEF IInv, Lifetime, Holding
  <2>2. worker' = "fetch" /\ thread' /\ taskQueueRunning' /\ task' = NoTask
    BY <1>6, <2>1
  <2>3. Holding' /\ Lifetime' /\ AtStop' /\ Leaving'
    BY <2>1, <2>2 DEF IInv, Holding, Lifetime, AtStop, Leaving
  <2>4. CaughtUp'
    BY <1>2, <2>1, <2>2 DEF IInv, TypeOK, ValueTypes, CaughtUp
  <2> QED
    BY <1>3, <1>4, <1>5, <2>3, <2>4 DEF IInv
<1>7. CASE thread /\ taskQueueRunning
  <2>1. UNCHANGED <<thread, taskQueueRunning, worker, run, task, caller, ran,
                    seenEmpty, ranAtCleanup>>
    BY <1>7
  <2>2. Holding'
    BY <1>2, <2>1 DEF IInv, TypeOK, ValueTypes, Holding
  <2>3. CaughtUp'
    BY <1>2, <2>1 DEF IInv, TypeOK, ValueTypes, CaughtUp
  <2>4. Lifetime' /\ AtStop' /\ Leaving'
    BY <2>1 DEF IInv, Lifetime, AtStop, Leaving
  <2> QED
    BY <1>3, <1>4, <1>5, <2>2, <2>3, <2>4 DEF IInv
<1> QED
  BY <1>6, <1>7

(* EnqueueStop and SetRemove touch nothing the invariant is about.         *)
LEMMA FlagsIInv == IInv /\ (EnqueueStop \/ SetRemove) => IInv'
<1> SUFFICES ASSUME IInv, EnqueueStop \/ SetRemove PROVE IInv'
  OBVIOUS
<1>1. /\ UNCHANGED <<queue, taskQueueRunning, thread, task, run, worker,
                     caller, shutdown, accepted, ran, seenEmpty, ranAtCleanup>>
      /\ pendingStop' \in BOOLEAN
      /\ pendingRemove' \in BOOLEAN
  BY DEF EnqueueStop, SetRemove, callerVars, IInv, TypeOK, FlagTypes
<1>2. TypeOK'
  BY <1>1 DEF IInv, TypeOK, FlagTypes, ValueTypes
<1>3. Numbered' /\ InOrder' /\ Holding' /\ CaughtUp'
  BY <1>1 DEF IInv, Numbered, InOrder, Holding, CaughtUp
<1>4. Lifetime' /\ AtStop' /\ Leaving'
  BY <1>1 DEF IInv, Lifetime, AtStop, Leaving
<1> QED
  BY <1>2, <1>3, <1>4 DEF IInv

LEMMA CleanupIInv == IInv /\ (CleanupBegin \/ CleanupEnd) => IInv'
<1> SUFFICES ASSUME IInv, CleanupBegin \/ CleanupEnd PROVE IInv'
  OBVIOUS
<1>1. CASE CleanupBegin
  <2> USE <1>1 DEF CleanupBegin
  <2>1. TypeOK'
    <3>1. FlagTypes'
      BY DEF IInv, TypeOK, FlagTypes
    <3>2. ValueTypes'
      BY DEF IInv, TypeOK, ValueTypes, CallerState
    <3> QED
      BY <3>1, <3>2 DEF TypeOK
  <2>2. Numbered' /\ InOrder' /\ Holding' /\ CaughtUp' /\ AtStop'
    BY DEF IInv, Numbered, InOrder, Holding, CaughtUp, AtStop
  <2>3. Lifetime'
    BY DEF IInv, Lifetime
  <2>4. Leaving'
    BY DEF IInv, TypeOK, ValueTypes, Leaving
  <2> QED
    BY <2>1, <2>2, <2>3, <2>4 DEF IInv
<1>2. CASE CleanupEnd
  <2> USE <1>2 DEF CleanupEnd
  <2>1. worker \in {"none", "exited"} /\ task = NoTask
    BY DEF IInv, TypeOK, ValueTypes, Lifetime, Holding
  <2>2. TypeOK'
    <3>1. FlagTypes'
      BY DEF IInv, TypeOK, FlagTypes
    <3>2. ValueTypes'
      BY DEF IInv, TypeOK, ValueTypes, CallerState
    <3> QED
      BY <3>1, <3>2 DEF TypeOK
  <2>3. Numbered'
    BY DEF IInv, TypeOK, ValueTypes, Numbered
  <2>4. InOrder' /\ AtStop'
    BY DEF IInv, InOrder, AtStop
  <2>5. Holding' /\ Lifetime' /\ Leaving'
    BY <2>1 DEF IInv, Holding, Lifetime, Leaving
  <2>6. CaughtUp'
    BY <2>1 DEF IInv, TypeOK, ValueTypes, Numbered, InOrder, Lifetime, CaughtUp
  <2> QED
    BY <2>2, <2>3, <2>4, <2>5, <2>6 DEF IInv
<1> QED
  BY <1>1, <1>2

(* The worker takes the command at the front, which is the next in order.  *)
LEMMA FetchIInv == IInv /\ Fetch => IInv'
<1> SUFFICES ASSUME IInv, Fetch PROVE IInv'
  OBVIOUS
<1> USE SessionQueueAssumption DEF Fetch, SlotKept, callerVars, NoTask
<1>1. /\ queue \in Seq(Command) /\ ran \in Seq(Command)
      /\ accepted \in Nat /\ Len(queue) \in Nat /\ Len(ran) \in Nat
      /\ task = NoTask /\ Len(ran) = accepted - Len(queue)
  BY DEF IInv, TypeOK, ValueTypes, Holding, CaughtUp
<1>2. UNCHANGED <<queue, taskQueueRunning, thread, pendingStop, pendingRemove,
                  run, caller, shutdown, accepted, seenEmpty, ranAtCleanup>>
  OBVIOUS
<1>3. CASE queue # <<>>
  <2>1. /\ task' = queue[1]
        /\ ran' = Append(ran, queue[1])
        /\ worker = "fetch" /\ worker' = "run"
    BY <1>1, <1>3
  <2> HIDE DEF Fetch
  <2>2. Len(queue) >= 1
    BY <1>1, <1>3
  <2>3. queue[1] \in Command /\ queue[1] = Len(ran) + 1
    BY <1>1, <2>2 DEF IInv, Numbered
  <2>4. /\ ran' \in Seq(Command)
        /\ Len(ran') = Len(ran) + 1
        /\ \A i \in 1..Len(ran) : ran'[i] = ran[i]
        /\ ran'[Len(ran) + 1] = Len(ran) + 1
    <3>1. /\ Append(ran, queue[1]) \in Seq(Command)
          /\ Len(Append(ran, queue[1])) = Len(ran) + 1
          /\ \A i \in 1..Len(ran) : Append(ran, queue[1])[i] = ran[i]
          /\ Append(ran, queue[1])[Len(ran) + 1] = queue[1]
      BY <1>1, <2>3, AppendFacts
    <3> QED
      BY <2>1, <2>3, <3>1
  <2>5. TypeOK'
    <3>1. FlagTypes'
      BY <1>2 DEF IInv, TypeOK, FlagTypes
    <3>2. ValueTypes'
      BY <1>2, <2>1, <2>3, <2>4 DEF IInv, TypeOK, ValueTypes, WorkerState
    <3> QED
      BY <3>1, <3>2 DEF TypeOK
  <2>6. Numbered'
    BY <1>2 DEF IInv, Numbered
  <2>7. InOrder'
    <3>1. Len(ran') <= accepted'
      BY <1>1, <1>2, <2>2, <2>4
    <3>2. ASSUME NEW i \in 1..Len(ran')
          PROVE  i \in 1..Len(ran) \/ i = Len(ran) + 1
      <4>1. Len(ran') = Len(ran) + 1 /\ Len(ran) \in Nat
        BY <1>1, <2>4
      <4> QED
        BY <4>1
    <3> QED
      BY <2>4, <3>1, <3>2 DEF IInv, InOrder
  <2>8. Holding' /\ CaughtUp' /\ AtStop'
    <3>1. task' = Len(ran') /\ task' # NoTask
      BY <1>1, <2>1, <2>3, <2>4 DEF Command
    <3> QED
      BY <1>2, <1>3, <2>1, <3>1 DEF Holding, CaughtUp, AtStop
  <2>9. Lifetime'
    BY <1>2, <2>1 DEF IInv, Lifetime
  <2>10. Leaving'
    BY <1>1, <1>2, <2>1, <2>4 DEF IInv, TypeOK, ValueTypes, Leaving
  <2> QED
    BY <2>5, <2>6, <2>7, <2>8, <2>9, <2>10 DEF IInv
<1>4. CASE queue = <<>>
  <2>1. task' = NoTask /\ ran' = ran /\ worker' = "pop"
    BY <1>4
  <2>2. TypeOK'
    <3>1. FlagTypes'
      BY <1>2 DEF IInv, TypeOK, FlagTypes
    <3>2. ValueTypes'
      BY <1>2, <2>1 DEF IInv, TypeOK, ValueTypes, WorkerState
    <3> QED
      BY <3>1, <3>2 DEF TypeOK
  <2>3. Numbered' /\ InOrder'
    BY <1>2, <2>1 DEF IInv, Numbered, InOrder
  <2>4. Holding' /\ CaughtUp' /\ AtStop'
    BY <1>1, <1>2, <2>1 DEF Holding, CaughtUp, AtStop
  <2>5. Lifetime' /\ Leaving'
    BY <1>2, <2>1 DEF IInv, Lifetime, Leaving
  <2> QED
    BY <2>2, <2>3, <2>4, <2>5 DEF IInv
<1> QED
  BY <1>3, <1>4

LEMMA RunIInv == IInv /\ (RunTask \/ Throw) => IInv'
<1> SUFFICES ASSUME IInv, RunTask \/ Throw PROVE IInv'
  OBVIOUS
<1> USE DEF RunTask, Throw, callerVars, NoTask
<1>1. /\ worker = "run"
      /\ UNCHANGED <<queue, taskQueueRunning, thread, pendingStop,
                     pendingRemove, run, caller, accepted, ran, seenEmpty,
                     ranAtCleanup>>
      /\ \/ worker' = "pop" /\ task' = task
         \/ worker' = "exited" /\ task' = NoTask
  OBVIOUS
<1>2. TypeOK'
  <2>1. FlagTypes'
    BY DEF IInv, TypeOK, FlagTypes
  <2>2. ValueTypes'
    BY <1>1 DEF IInv, TypeOK, ValueTypes, WorkerState
  <2> QED
    BY <2>1, <2>2 DEF TypeOK
<1>3. Numbered' /\ InOrder'
  BY <1>1 DEF IInv, Numbered, InOrder
<1>4. Holding' /\ CaughtUp' /\ AtStop'
  BY <1>1 DEF IInv, Holding, CaughtUp, AtStop
<1>5. Lifetime' /\ Leaving'
  BY <1>1 DEF IInv, Lifetime, Leaving
<1> QED
  BY <1>2, <1>3, <1>4, <1>5 DEF IInv

(* The slot of the finished command leaves the queue.                      *)
LEMMA PopIInv == IInv /\ Pop => IInv'
<1> SUFFICES ASSUME IInv, Pop PROVE IInv'
  OBVIOUS
<1> USE SessionQueueAssumption DEF Pop, FreshRun, callerVars, NoTask
<1>1. /\ queue \in Seq(Command) /\ Len(queue) \in Nat /\ accepted \in Nat
      /\ ran \in Seq(Command) /\ Len(ran) \in Nat
      /\ Len(queue) <= accepted
  BY DEF IInv, TypeOK, ValueTypes, Numbered
<1>2. /\ worker = "pop" /\ worker' = "check" /\ task' = NoTask
      /\ UNCHANGED <<taskQueueRunning, thread, pendingStop, pendingRemove,
                     caller, shutdown, accepted, ran, seenEmpty, ranAtCleanup>>
  OBVIOUS
<1>3. /\ queue' = IF task # NoTask THEN Tail(queue) ELSE queue
      /\ run' = taskQueueRunning
  OBVIOUS
<1> HIDE DEF Pop
<1>4. /\ queue' \in Seq(Command)
      /\ Len(queue') <= Len(queue)
      /\ \A i \in 1..Len(queue') : queue'[i] = accepted - Len(queue') + i
      /\ Len(ran) = accepted - Len(queue')
  <2>1. CASE task # NoTask
    <3>1. queue' = Tail(queue) /\ queue # <<>> /\ queue[1] = Len(ran)
      BY <1>3, <2>1 DEF IInv, Holding
    <3>2. /\ queue' \in Seq(Command)
          /\ Len(queue') = Len(queue) - 1
          /\ \A i \in 1..Len(queue') : queue'[i] = queue[i + 1]
      BY <1>1, <3>1
    <3>3. Len(queue) >= 1 /\ queue[1] = accepted - Len(queue) + 1
      <4>1. Len(queue) >= 1
        BY <1>1, <3>1
      <4> QED
        BY <1>1, <4>1 DEF IInv, Numbered
    <3>4. ASSUME NEW i \in 1..Len(queue')
          PROVE  queue'[i] = accepted - Len(queue') + i
      <4>1. i + 1 \in 1..Len(queue)
        BY <1>1, <3>2
      <4>2. queue[i + 1] = accepted - Len(queue) + (i + 1)
        BY <4>1 DEF IInv, Numbered
      <4> QED
        BY <1>1, <3>2, <4>2
    <3> QED
      BY <1>1, <3>1, <3>2, <3>3, <3>4
  <2>2. CASE task = NoTask
    <3>1. queue' = queue
      BY <1>3, <2>2
    <3> QED
      BY <1>1, <1>2, <2>2, <3>1 DEF IInv, Numbered, CaughtUp
  <2> QED
    BY <2>1, <2>2
<1>5. TypeOK'
  <2>1. FlagTypes'
    BY <1>2, <1>3 DEF IInv, TypeOK, FlagTypes
  <2>2. ValueTypes'
    BY <1>2, <1>4 DEF IInv, TypeOK, ValueTypes, WorkerState
  <2> QED
    BY <2>1, <2>2 DEF TypeOK
<1>6. Numbered' /\ InOrder'
  BY <1>1, <1>2, <1>4 DEF IInv, Numbered, InOrder
<1>7. Holding' /\ CaughtUp' /\ AtStop'
  BY <1>2, <1>4 DEF Holding, CaughtUp, AtStop
<1>8. Lifetime'
  BY <1>2 DEF IInv, Lifetime
<1>9. Leaving'
  <2>1. caller # "idle" => ~run'
    BY <1>3 DEF IInv, Lifetime
  <2> QED
    BY <1>2, <2>1 DEF IInv, Leaving
<1> QED
  BY <1>5, <1>6, <1>7, <1>8, <1>9 DEF IInv

(* The worker looks for an empty queue, and remembers what it then knew.   *)
LEMMA CheckEmptyIInv == IInv /\ CheckEmpty => IInv'
<1> SUFFICES ASSUME IInv, CheckEmpty PROVE IInv'
  OBVIOUS
<1> USE SessionQueueAssumption
    DEF CheckEmpty, QueueEmpty, LoopOrExit, callerVars, NoTask
<1>1. /\ worker = "check" /\ task = NoTask
      /\ accepted \in 0..MaxCommands /\ Len(ran) = accepted - Len(queue)
  BY DEF IInv, TypeOK, ValueTypes, Holding, CaughtUp
<1>2. /\ UNCHANGED <<queue, taskQueueRunning, thread, pendingStop,
                     pendingRemove, task, run, caller, shutdown, accepted,
                     ran, ranAtCleanup>>
      /\ \/ worker' = "stop" /\ seenEmpty' = accepted /\ Len(queue) = 0
         \/ worker' = "fetch" /\ run /\ seenEmpty' = seenEmpty
         \/ worker' = "exited" /\ seenEmpty' = seenEmpty
  <2>1. CASE queue = <<>>
    BY <2>1
  <2>2. CASE queue # <<>>
    BY <2>2
  <2> QED
    BY <2>1, <2>2
<1>3. TypeOK'
  <2>1. FlagTypes'
    BY <1>2 DEF IInv, TypeOK, FlagTypes
  <2>2. ValueTypes'
    BY <1>1, <1>2 DEF IInv, TypeOK, ValueTypes, WorkerState
  <2> QED
    BY <2>1, <2>2 DEF TypeOK
<1>4. Numbered' /\ InOrder'
  BY <1>2 DEF IInv, Numbered, InOrder
<1>5. Holding' /\ CaughtUp' /\ AtStop'
  BY <1>1, <1>2 DEF Holding, CaughtUp, AtStop
<1>6. Lifetime'
  BY <1>1, <1>2 DEF IInv, Lifetime
<1>7. Leaving'
  BY <1>1, <1>2 DEF IInv, Leaving
<1> QED
  BY <1>3, <1>4, <1>5, <1>6, <1>7 DEF IInv

LEMMA CheckStopIInv == IInv /\ CheckStop => IInv'
<1> SUFFICES ASSUME IInv, CheckStop PROVE IInv'
  OBVIOUS
<1> USE SessionQueueAssumption
    DEF CheckStop, MarkedByStop, LoopOrExit, callerVars, NoTask
<1>1. /\ worker = "stop" /\ task = NoTask
      /\ accepted \in Nat /\ Len(ran) = accepted - Len(queue)
  BY DEF IInv, TypeOK, ValueTypes, Holding, CaughtUp
<1>2. /\ UNCHANGED <<taskQueueRunning, thread, pendingStop, task, caller,
                     shutdown, accepted, ran, seenEmpty, ranAtCleanup>>
      /\ \/ worker' = "fetch" /\ run /\ queue' = queue
         \/ worker' = "exited" /\ queue' = queue
         \/ worker' = "exited" /\ queue' = <<>>
      /\ pendingRemove' \in BOOLEAN
      /\ run' \in BOOLEAN
  <2>1. pendingRemove' \in BOOLEAN /\ run' \in BOOLEAN
    BY DEF IInv, TypeOK, FlagTypes
  <2>2. CASE pendingStop
    BY <2>1, <2>2
  <2>3. CASE ~pendingStop
    BY <2>1, <2>3
  <2> QED
    BY <2>2, <2>3
<1>3. TypeOK'
  <2>1. FlagTypes'
    BY <1>2 DEF IInv, TypeOK, FlagTypes
  <2>2. <<>> \in Seq(Command)
    OBVIOUS
  <2>3. ValueTypes'
    BY <1>2, <2>2 DEF IInv, TypeOK, ValueTypes, WorkerState
  <2> QED
    BY <2>1, <2>3 DEF TypeOK
<1> HIDE DEF CheckStop
<1>4. Numbered'
  <2>1. CASE queue' = queue
    BY <1>2, <2>1 DEF IInv, Numbered
  <2>2. CASE queue' = <<>>
    BY <1>1, <1>2, <2>2 DEF Numbered
  <2> QED
    BY <1>2, <2>1, <2>2
<1>5. InOrder'
  BY <1>2 DEF IInv, InOrder
<1>6. Holding' /\ CaughtUp' /\ AtStop'
  BY <1>1, <1>2 DEF Holding, CaughtUp, AtStop
<1>7. Lifetime'
  BY <1>1, <1>2 DEF IInv, Lifetime
<1>8. Leaving'
  BY <1>1, <1>2 DEF IInv, Leaving
<1> QED
  BY <1>3, <1>4, <1>5, <1>6, <1>7, <1>8 DEF IInv

LEMMA StutterIInv == IInv /\ UNCHANGED vars => IInv'
<1> SUFFICES ASSUME IInv, UNCHANGED vars PROVE IInv'
  OBVIOUS
<1> USE DEF vars
<1>1. TypeOK'
  BY DEF IInv, TypeOK, FlagTypes, ValueTypes
<1>2. Numbered' /\ InOrder' /\ Holding' /\ CaughtUp'
  BY DEF IInv, Numbered, InOrder, Holding, CaughtUp
<1>3. Lifetime' /\ AtStop' /\ Leaving'
  BY DEF IInv, Lifetime, AtStop, Leaving
<1> QED
  BY <1>1, <1>2, <1>3 DEF IInv

\* The invariant holds in every state of every execution.
THEOREM Invariance == Spec => []IInv
<1>1. IInv /\ [Next]_vars => IInv'
  BY EnqueueIInv, FlagsIInv, CleanupIInv, FetchIInv, RunIInv, PopIInv,
     CheckEmptyIInv, CheckStopIInv, StutterIInv DEF Next, Caller, Worker
<1> QED
  BY InitIInv, <1>1, PTL DEF Spec

-----------------------------------------------------------------------------
(* The properties of SessionQueueProps, for every number of commands.      *)

\* Every variable stays in its range.
THEOREM TypeCorrect == Spec => []TypeOK
<1>1. IInv => TypeOK
  BY DEF IInv
<1> QED
  BY <1>1, Invariance, PTL

\* pendingCommands() is true for as long as a command runs.
THEOREM RunningPending == Spec => []RunningIsPending
<1>1. IInv => RunningIsPending
  BY DEF IInv, TypeOK, ValueTypes, Holding, RunningIsPending
<1> QED
  BY <1>1, Invariance, PTL

\* enqueueCommand never destroys a thread that was not joined.
THEOREM RunningThread == Spec => []RunningIffThread
<1>1. IInv => RunningIffThread
  BY DEF IInv, Lifetime, RunningIffThread
<1> QED
  BY <1>1, Invariance, PTL

\* A stop loses no command accepted before the queue was last seen empty.
THEOREM StopDrops == Spec => []StopDropsOnlyLater
<1>1. ASSUME IInv, worker = "stop"
      PROVE  /\ Len(ran) = seenEmpty
             /\ \A i \in 1..Len(queue) : queue[i] > seenEmpty
  <2>1. Len(ran) = seenEmpty /\ Len(ran) = accepted - Len(queue)
    BY <1>1 DEF IInv, Holding, CaughtUp, AtStop
  <2>2. \A i \in 1..Len(queue) : queue[i] = accepted - Len(queue) + i
    BY <1>1 DEF IInv, Numbered
  <2>3. accepted \in Nat /\ Len(queue) \in Nat
    BY <1>1, SessionQueueAssumption DEF IInv, TypeOK, ValueTypes
  <2> QED
    BY <2>1, <2>2, <2>3
<1>2. IInv => StopDropsOnlyLater
  BY <1>1 DEF StopDropsOnlyLater
<1> QED
  BY <1>2, Invariance, PTL

\* After cleanup() reset the flag, at most one more command starts.
THEOREM OneMore == Spec => []OneMoreAfterCleanup
<1>1. IInv => OneMoreAfterCleanup
  BY DEF IInv, Leaving, OneMoreAfterCleanup
<1> QED
  BY <1>1, Invariance, PTL

-----------------------------------------------------------------------------
(* The session's queue implements CommandQueue.  Fairness apart, every     *)
(* step is a step of CommandQueue or leaves its variables alone.           *)

LEMMA InitRefines == Init => CQ!Init
  BY DEF Init, CQ!Init, NoTask

LEMMA CallerRefines == IInv /\ Caller => [CQ!Next]_CQ!vars
<1> SUFFICES ASSUME IInv, Caller PROVE [CQ!Next]_CQ!vars
  OBVIOUS
<1> USE DEF CQ!vars
<1>1. CASE EnqueueCommand
  <2>1. caller = "idle" /\ caller' = "idle" /\ accepted' = accepted + 1
        /\ ran' = ran /\ task' = task
    BY <1>1 DEF EnqueueCommand
  <2>2. worker = "exited" <=> worker' = "exited"
    <3>1. CASE thread /\ taskQueueRunning
      BY <1>1, <3>1 DEF EnqueueCommand
    <3>2. CASE ~(thread /\ taskQueueRunning)
      <4>1. worker = "none"
        BY <2>1, <3>2 DEF IInv, Lifetime
      <4>2. worker' = "fetch"
        BY <1>1, <3>2 DEF EnqueueCommand
      <4> QED
        BY <4>1, <4>2
    <3> QED
      BY <3>1, <3>2
  <2> QED
    BY <2>1, <2>2 DEF CQ!Next, CQ!Accept
<1>2. CASE EnqueueStop \/ SetRemove
  BY <1>2 DEF EnqueueStop, SetRemove, callerVars
<1>3. CASE CleanupBegin
  BY <1>3 DEF CleanupBegin
<1>4. CASE CleanupEnd
  <2>1. caller' = "gone" /\ UNCHANGED <<accepted, ran, task, worker>>
    BY <1>4 DEF CleanupEnd
  <2>2. task = NoTask
    BY <1>4 DEF CleanupEnd, IInv, Lifetime, Holding
  <2> QED
    BY <2>1, <2>2 DEF CQ!Next, CQ!Close
<1> QED
  BY <1>1, <1>2, <1>3, <1>4 DEF Caller

LEMMA WorkerRefines == IInv /\ Worker => [CQ!Next]_CQ!vars
<1> SUFFICES ASSUME IInv, Worker PROVE [CQ!Next]_CQ!vars
  OBVIOUS
<1> USE DEF CQ!vars, callerVars
<1>1. worker \notin {"none", "exited"} => caller # "gone"
  BY DEF IInv, Lifetime
<1>2. CASE Fetch
  <2>1. /\ worker = "fetch" /\ worker' \in {"run", "pop"}
        /\ UNCHANGED <<accepted, caller>>
        /\ task = NoTask /\ Len(ran) = accepted - Len(queue)
        /\ queue \in Seq(Command) /\ accepted \in Nat /\ Len(queue) \in Nat
    BY <1>2, SessionQueueAssumption
       DEF Fetch, IInv, TypeOK, ValueTypes, Holding, CaughtUp
  <2>2. CASE queue = <<>>
    BY <1>2, <2>1, <2>2 DEF Fetch
  <2>3. CASE queue # <<>>
    <3>1. Len(queue) >= 1 /\ Head(queue) = queue[1]
      BY <2>1, <2>3
    <3>2. queue[1] = Len(ran) + 1
      BY <2>1, <3>1 DEF IInv, Numbered
    <3>3. task' = queue[1] /\ ran' = Append(ran, queue[1])
      BY <1>2, <2>3, <3>1 DEF Fetch
    <3>4. Len(ran) < accepted /\ task' # NoTask
      BY <2>1, <3>1, <3>2, <3>3 DEF NoTask
    <3> QED
      BY <1>1, <2>1, <3>2, <3>3, <3>4 DEF CQ!Next, CQ!Start
  <2> QED
    BY <2>2, <2>3
<1>3. CASE RunTask
  BY <1>3 DEF RunTask
<1>4. CASE Throw
  <2>1. task # NoTask
    BY <1>4 DEF Throw, IInv, Holding
  <2>2. task' = NoTask /\ worker' = "exited" /\ UNCHANGED <<accepted, ran>>
    BY <1>4 DEF Throw
  <2> QED
    BY <2>1, <2>2 DEF CQ!Next, CQ!Abort
<1>5. CASE Pop
  <2>1. /\ worker = "pop" /\ worker' = "check" /\ task' = NoTask
        /\ UNCHANGED <<accepted, ran, caller>>
    BY <1>5 DEF Pop
  <2> QED
    BY <2>1 DEF CQ!Next, CQ!Finish
<1>6. CASE CheckEmpty \/ CheckStop
  <2>1. /\ worker \in {"check", "stop"}
        /\ UNCHANGED <<accepted, ran, caller, task>>
    BY <1>6 DEF CheckEmpty, CheckStop
  <2>2. task = NoTask
    BY <2>1 DEF IInv, Holding
  <2> QED
    BY <1>1, <2>1, <2>2 DEF CQ!Next, CQ!Close
<1> QED
  BY <1>2, <1>3, <1>4, <1>5, <1>6 DEF Worker

\* Commands start in the order they were accepted, one at a time, none twice,
\* and none once the worker has ended.
THEOREM Refinement == Spec => CQ!Spec
<1>1. IInv /\ [Next]_vars => [CQ!Next]_CQ!vars
  <2>1. UNCHANGED vars => UNCHANGED CQ!vars
    BY DEF vars, CQ!vars
  <2> QED
    BY <2>1, CallerRefines, WorkerRefines DEF Next
<1> QED
  BY <1>1, InitRefines, Invariance, PTL DEF Spec, CQ!Spec
=============================================================================
