------------------------------- MODULE Stepper -------------------------------
(***************************************************************************)
(* The Stepper of one session and the process it traces: the worker thread *)
(* that runs StepCmd and StdinCmd, the server thread that queues           *)
(* breakpoints, and the tracee, whose memory the breakpoints are in.       *)
(*                                                                         *)
(* Memory is a row of cells.  ptrace reads and writes Word of them at      *)
(* once; an instruction takes Size.  A breakpoint is a word that starts    *)
(* with a breakpoint instruction: the rest of the word is zeros.           *)
(***************************************************************************)
EXTENDS Naturals, Sequences

CONSTANTS
  Arch,          \* the architectures: a subset of {"x86_64", "aarch64"}
  Word,          \* cells of a ptrace word
  Size,          \* cells of an instruction
  Instr,         \* where the instructions of the program are
  Flow,          \* Flow[a]: where the program may go after a
  Exit,          \* ... or that it ends
  Entry,         \* the first symbol: main
  MainReturn,    \* returns from main
  Lines,         \* where a source line starts
  Reads,         \* instructions that read the standard input
  Faults,        \* instructions that fault
  LibraryCalls,  \* calls out of the image
  Blocked,       \* system calls the tracee must not make
  Breakable,     \* where breakpoints are asked for
  StepAfterMain, \* Config C_STEP_AFTER_MAIN
  MaxQueue,      \* a client has at most this many commands queued
  MaxInput,      \* lines of input that wait to be read, at most
  MaxRequests    \* breakpoint requests between two steps, at most

ASSUME StepperAssumption ==
  /\ Arch \subseteq {"x86_64", "aarch64"}
  /\ Word \in Nat \ {0} /\ Size \in Nat \ {0}
  /\ Instr \subseteq Nat \ {0} /\ Exit \notin Nat
  /\ Flow \in [Instr -> SUBSET (Instr \union {Exit})]
  /\ Entry \in Instr
  /\ Lines \union MainReturn \union Reads \union Faults \union LibraryCalls
       \union Blocked \union Breakable \subseteq Instr
  /\ \A a \in LibraryCalls \union Blocked : a + Size \in Instr
  /\ StepAfterMain \in BOOLEAN
  /\ {MaxQueue, MaxInput, MaxRequests} \subseteq Nat

VARIABLES
  arch,
  \* The tracee: its memory, its program counter, what the kernel does with
  \* it, the lines in its standard input.
  mem, pc, tracee, pipe,
  \* The Stepper's breakpoints.
  breakpointMap, breakpointsToAdd, breakpointsToRemove,
  \* Its other fields.
  done, seenFirstSymbol, stepAgain, continueToEnd, hitBreakpoint, cachedPC,
  stdin,
  \* The worker: the commands queued, the one it runs, which of its calls of
  \* step() it is in, and where in step().
  commands, command, call, at,
  \* History: how often the descriptors were closed (2: or more), where the
  \* program is if nobody traces it, whether the tracee left it, whether the
  \* breakpoint it had stopped at was removed, and how many breakpoint requests
  \* there were since the last step.
  closed, lpc, strayed, dropped, requests

breakpointVars == <<breakpointMap, breakpointsToAdd, breakpointsToRemove>>
traceeVars == <<mem, pc, tracee, pipe>>
flagVars == <<done, seenFirstSymbol, stepAgain, continueToEnd, hitBreakpoint,
              cachedPC, stdin>>
workerVars == <<commands, command, call, at>>
historyVars == <<closed, lpc, strayed, dropped, requests>>
vars == <<arch, breakpointVars, traceeVars, flagVars, workerVars, historyVars>>

Cell == {"code", "break", "zero"}
Address == UNION {a..(a + Word + Size) : a \in Instr}
StepType == {"instr", "line", "cont"}
Call == {"single",  \* of the loop that single-steps
         "again",   \* because of shouldStepAgain
         "end"}     \* because of shouldContinueToEnd

\* The process was forked and traced and has stopped at its execve; ParseCmd
\* is in its call of step().
Init ==
  /\ arch \in Arch
  /\ mem = [a \in Address |-> "code"]
  /\ pc = Entry /\ tracee = "stop" /\ pipe = 0
  /\ breakpointMap = <<>>
  /\ breakpointsToAdd = {} /\ breakpointsToRemove = {}
  /\ done = FALSE /\ seenFirstSymbol = FALSE /\ stepAgain = FALSE
  /\ continueToEnd = FALSE /\ hitBreakpoint = FALSE /\ cachedPC = Entry
  /\ stdin = 0
  /\ commands = <<>> /\ command = "parse" /\ call = "single" /\ at = "wait"
  /\ closed = 0 /\ lpc = Entry /\ strayed = FALSE
  /\ dropped = FALSE /\ requests = 0

-----------------------------------------------------------------------------
(* The tracee *)

Intact == \A a \in pc..(pc + Size - 1) : mem[a] = "code"

\* It goes on after a single step or until it is stopped.
Running == tracee \in {"cont", "single"}

\* A breakpoint instruction traps: x86_64 leaves the program counter behind it.
Trap ==
  /\ Running
  /\ mem[pc] = "break"
  /\ pc' = IF arch = "x86_64" THEN pc + 1 ELSE pc
  /\ tracee' = "stop"
  /\ UNCHANGED <<arch, mem, pipe, breakpointVars, flagVars, workerVars,
                 historyVars>>

\* An instruction of the program.  A read waits for a line.
Execute ==
  /\ Running
  /\ pc \in Instr \ Faults /\ Intact
  /\ pc \in Reads => pipe > 0
  /\ pipe' = IF pc \in Reads THEN pipe - 1 ELSE pipe
  /\ \E next \in Flow[pc] :
       /\ lpc' = next
       /\ pc' = IF next = Exit THEN pc ELSE next
       /\ tracee' = IF next = Exit THEN "exit"
                    ELSE IF tracee = "single" THEN "stop" ELSE tracee
  /\ strayed' = (strayed \/ pc # lpc)
  /\ UNCHANGED <<arch, mem, breakpointVars, flagVars, workerVars, closed,
                 dropped, requests>>

\* An instruction that faults, or what is no instruction of the program.  The
\* tracee stops with a signal; Stepper resumes it without.
Fault ==
  /\ Running
  /\ mem[pc] # "break"
  /\ pc \in Instr /\ Intact => pc \in Faults
  /\ tracee' = "stop"
  /\ strayed' = (strayed \/ pc \notin Instr \/ ~Intact)
  /\ UNCHANGED <<arch, mem, pc, pipe, breakpointVars, flagVars, workerVars,
                 closed, lpc, dropped, requests>>

-----------------------------------------------------------------------------
(* The server thread: it has a Stepper once ParseCmd has ended. *)

HasStepper == command # "parse"

\* breakpointMutex is held while the queued breakpoints are applied.
MutexFree == at \notin {"add", "remove"}

EnqueueCommand(c) ==
  /\ HasStepper
  /\ ~done
  /\ c = "stdin" => pipe + stdin + Len(commands) < MaxInput
  /\ Len(commands) + (IF command = "none" THEN 0 ELSE 1) < MaxQueue
  /\ commands' = Append(commands, c)
  /\ UNCHANGED <<arch, traceeVars, breakpointVars, flagVars, command, call, at,
                 historyVars>>

QueueBreakpoint(a) ==
  /\ HasStepper /\ MutexFree
  /\ requests < MaxRequests
  /\ breakpointsToAdd' = breakpointsToAdd \union {a}
  /\ requests' = requests + 1
  /\ UNCHANGED <<arch, traceeVars, breakpointMap, breakpointsToRemove, flagVars,
                 workerVars, closed, lpc, strayed, dropped>>

RemoveBreakpoint(a) ==
  /\ HasStepper /\ MutexFree
  /\ requests < MaxRequests
  /\ breakpointsToAdd' = breakpointsToAdd \ {a}
  /\ breakpointsToRemove' = breakpointsToRemove \union {a}
  /\ requests' = requests + 1
  /\ UNCHANGED <<arch, traceeVars, breakpointMap, flagVars, workerVars, closed,
                 lpc, strayed, dropped>>

-----------------------------------------------------------------------------
(* Breakpoints in memory *)

\* What is saved of a memory m at a (mutated: the first cell only).
SavedCell(m, a) == [i \in {0} |-> m[a]]
SavedWord(m, a) == [i \in 0..(Word - 1) |-> m[a + i]]

BreakpointWord == [i \in 0..(Word - 1) |-> IF i = 0 THEN "break" ELSE "zero"]

Poked(m, a, word) ==
  [b \in Address |-> IF b \in a..(a + Word - 1) THEN word[b - a] ELSE m[b]]

MapWith(map, m, a) ==
  [b \in DOMAIN map \union {a} |-> IF b = a THEN SavedWord(m, a) ELSE map[b]]

\* insertBreak, the memory being m and the breakpoints in it map.
InsertBreak(m, map, a) ==
  IF a \in DOMAIN map
  THEN mem' = m /\ breakpointMap' = map
  ELSE mem' = Poked(m, a, BreakpointWord) /\ breakpointMap' = MapWith(map, m, a)

\* What removing a breakpoint writes back (mutated: nothing).
NotRestored(a) == mem
Restored(a) == Poked(mem, a, breakpointMap[a])

MapWithout(a) == [b \in DOMAIN breakpointMap \ {a} |-> breakpointMap[b]]

RemoveBreak(a) == mem' = Restored(a) /\ breakpointMap' = MapWithout(a)

\* The queued breakpoints are applied in ascending order.
Lowest(set) == {a \in set : \A b \in set : a <= b}

AddQueued ==
  /\ at = "add"
  /\ \E a \in Lowest(breakpointsToAdd) :
       /\ InsertBreak(mem, breakpointMap, a)
       /\ breakpointsToAdd' = breakpointsToAdd \ {a}
  /\ UNCHANGED <<arch, pc, tracee, pipe, breakpointsToRemove, flagVars,
                 workerVars, historyVars>>

AllAdded ==
  /\ at = "add"
  /\ breakpointsToAdd = {}
  /\ at' = "remove"
  /\ UNCHANGED <<arch, traceeVars, breakpointVars, flagVars, commands, command,
                 call, historyVars>>

RemoveQueued ==
  /\ at = "remove"
  /\ \E a \in Lowest(breakpointsToRemove) :
       /\ IF a \in DOMAIN breakpointMap THEN RemoveBreak(a)
          ELSE UNCHANGED <<mem, breakpointMap>>
       /\ breakpointsToRemove' = breakpointsToRemove \ {a}
       /\ dropped' = (dropped \/ (a = lpc /\ a \in DOMAIN breakpointMap
                                   /\ pc # lpc))
  /\ UNCHANGED <<arch, pc, tracee, pipe, breakpointsToAdd, flagVars, workerVars,
                 closed, lpc, strayed, requests>>

AllApplied ==
  /\ at = "remove"
  /\ breakpointsToRemove = {}
  /\ at' = "step"
  /\ requests' = 0
  /\ UNCHANGED <<arch, traceeVars, breakpointVars, flagVars, commands, command,
                 call, closed, lpc, strayed, dropped>>

-----------------------------------------------------------------------------
(* The worker: step() *)

\* A call of step(): the standard input is passed on, then doWait.
BeginStep(c) ==
  /\ call' = c
  /\ pipe' = pipe + stdin
  /\ stdin' = 0
  /\ hitBreakpoint' = FALSE
  /\ at' = "wait"

\* doWait, when the tracee has stopped.
WaitStopped ==
  /\ at = "wait"
  /\ tracee = "stop"
  /\ tracee' = "held"
  /\ at' = "add"
  /\ UNCHANGED <<arch, mem, pc, pipe, breakpointVars, flagVars, commands,
                 command, call, historyVars>>

\* doWait, when it has ended or there is no such child any more: the
\* descriptors are closed.
WaitEnded ==
  /\ at = "wait"
  /\ tracee \in {"exit", "gone"}
  /\ tracee' = "gone"
  /\ done' = TRUE
  /\ closed' = IF closed = 2 THEN 2 ELSE closed + 1
  /\ at' = "returned"
  /\ UNCHANGED <<arch, mem, pc, pipe, breakpointVars, seenFirstSymbol,
                 stepAgain, continueToEnd, hitBreakpoint, cachedPC, stdin,
                 commands, command, call, lpc, strayed, dropped, requests>>

\* The first step lets the tracee run to its first symbol.
FirstStep ==
  /\ at = "step"
  /\ ~seenFirstSymbol
  /\ InsertBreak(mem, breakpointMap, Entry)
  /\ tracee' = "cont"
  /\ seenFirstSymbol' = TRUE
  /\ cachedPC' = Entry
  /\ at' = "returned"
  /\ UNCHANGED <<arch, pc, pipe, breakpointsToAdd, breakpointsToRemove, done,
                 stepAgain, continueToEnd, hitBreakpoint, stdin, commands,
                 command, call, historyVars>>

\* The kind of step this call was given.
Step == CASE call = "single" -> command
          [] call = "again" -> "instr"
          [] call = "end" -> "cont"

\* breakPC: where the breakpoint is that the tracee stopped at, if it did.
BreakPC == IF arch = "x86_64" THEN pc - 1 ELSE pc
AtBreak == BreakPC \in DOMAIN breakpointMap

\* Where the program counter is set back to (mutated: it is not).
NotSetBack == pc
SetBack == IF AtBreak THEN BreakPC ELSE pc

\* A breakpoint that was hit is removed, unless the step before was a
\* continue.
Dropping == AtBreak /\ ~stepAgain

\* The memory and the breakpoints this leaves.
Left == IF Dropping THEN Restored(BreakPC) ELSE mem
LeftMap == IF Dropping THEN MapWithout(BreakPC) ELSE breakpointMap

DropHit == mem' = Left /\ breakpointMap' = LeftMap

\* Whether the memory that is left shows the next instruction: a breakpoint
\* hides it (mutated: the instruction is read first).
ReadFirst == \A a \in SetBack..(SetBack + Size - 1) : mem[a] = "code"
Readable == \A a \in SetBack..(SetBack + Size - 1) : Left[a] = "code"

\* A system call that is blocked is stepped over.
Skipped == IF Readable /\ SetBack \in Blocked THEN SetBack + Size ELSE SetBack

\* The return from main is looked for when the tracee was resumed: its memory
\* can be read only if it has stopped again by then.
ReturnSeen ==
  IF ~continueToEnd /\ ~StepAfterMain /\ SetBack \in MainReturn /\ Readable
  THEN BOOLEAN ELSE {continueToEnd}

OverLibrary ==
  /\ Step = "instr" /\ arch = "aarch64"
  /\ Readable /\ SetBack \in LibraryCalls

\* What single-stepping and continuing have in common.
Resume(how) ==
  /\ at = "step"
  /\ seenFirstSymbol
  /\ hitBreakpoint' = Dropping
  /\ pc' = Skipped
  /\ lpc' = IF Skipped # SetBack /\ SetBack = lpc THEN Skipped ELSE lpc
  /\ cachedPC' = SetBack
  /\ tracee' = how
  /\ stepAgain' = (Step = "cont")
  /\ continueToEnd' \in ReturnSeen
  /\ at' = "returned"
  /\ UNCHANGED <<arch, pipe, breakpointsToAdd, breakpointsToRemove, done,
                 seenFirstSymbol, stdin, commands, command, call, closed,
                 strayed, dropped, requests>>

StepInstruction ==
  /\ Step \in {"instr", "line"}
  /\ ~OverLibrary
  /\ Resume("single")
  /\ DropHit

Continue ==
  /\ Step = "cont"
  /\ Resume("cont")
  /\ DropHit

\* A library call runs until it returns, to a breakpoint set there.  (The
\* call itself is one instruction here, its return address the next.)
StepOverLibrary ==
  /\ OverLibrary
  /\ Resume("cont")
  /\ InsertBreak(Left, LeftMap, SetBack + Size)

-----------------------------------------------------------------------------
(* The worker: StepCmd, StdinCmd *)

TakeStdin ==
  /\ at = "idle"
  /\ commands # <<>> /\ Head(commands) = "stdin"
  /\ commands' = Tail(commands)
  /\ stdin' = stdin + 1
  /\ UNCHANGED <<arch, traceeVars, breakpointVars, done, seenFirstSymbol,
                 stepAgain, continueToEnd, hitBreakpoint, cachedPC, command,
                 call, at, historyVars>>

TakeStep ==
  /\ at = "idle"
  /\ commands # <<>> /\ Head(commands) # "stdin"
  /\ commands' = Tail(commands)
  /\ command' = Head(commands)
  /\ BeginStep("single")
  /\ UNCHANGED <<arch, mem, pc, tracee, breakpointVars, done, seenFirstSymbol,
                 stepAgain, continueToEnd, cachedPC, historyVars>>

\* singleStepDone (mutated: the end of the tracee is forgotten).
DoneIfHit ==
  \/ command \in {"parse", "instr"}
  \/ hitBreakpoint
  \/ command = "line" /\ cachedPC \in Lines
SingleStepDone ==
  \/ command \in {"parse", "instr"}
  \/ done \/ hitBreakpoint
  \/ command = "line" /\ cachedPC \in Lines

\* active() (mutated: always).
AlwaysActive == TRUE
Active == ~done

\* The calls of step() that may follow this one.
MoreSingle == call = "single" /\ ~SingleStepDone
MoreAgain == command # "parse" /\ call = "single" /\ SingleStepDone
               /\ stepAgain /\ Active
MoreEnd == command # "parse" /\ call # "end" /\ ~MoreSingle /\ ~MoreAgain
             /\ continueToEnd /\ Active

StepOnceMore ==
  /\ at = "returned"
  /\ \/ MoreSingle /\ BeginStep("single")
     \/ MoreAgain /\ BeginStep("again")
     \/ MoreEnd /\ BeginStep("end")
  /\ UNCHANGED <<arch, mem, pc, tracee, breakpointVars, done, seenFirstSymbol,
                 stepAgain, continueToEnd, cachedPC, commands, command,
                 historyVars>>

CommandEnds ==
  /\ at = "returned"
  /\ ~MoreSingle /\ ~MoreAgain /\ ~MoreEnd
  /\ command' = "none"
  /\ call' = "single"
  /\ at' = "idle"
  /\ UNCHANGED <<arch, traceeVars, breakpointVars, flagVars, commands,
                 historyVars>>

-----------------------------------------------------------------------------
Tracee == Trap \/ Execute \/ Fault

Server == \/ \E c \in StepType \union {"stdin"} : EnqueueCommand(c)
          \/ \E a \in Breakable : QueueBreakpoint(a) \/ RemoveBreakpoint(a)

Worker == TakeStdin \/ TakeStep \/ WaitStopped \/ WaitEnded \/ AddQueued
            \/ AllAdded \/ RemoveQueued \/ AllApplied \/ FirstStep
            \/ StepInstruction \/ Continue \/ StepOverLibrary \/ StepOnceMore
            \/ CommandEnds

Next == Tracee \/ Server \/ Worker

Spec == Init /\ [][Next]_vars

(* The worker and the tracee are scheduled, and the program is one that     *)
(* takes each of its branches: it does not loop for ever.                   *)
Branches == {a \in Instr : \E x, y \in Flow[a] : x # y}

FairSpec == /\ Spec
            /\ WF_vars(Worker) /\ WF_vars(Tracee)
            /\ \A a \in Branches : \A next \in Flow[a] :
                 SF_vars(Execute /\ pc = a /\ lpc' = next)
=============================================================================
