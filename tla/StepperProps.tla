---------------------------- MODULE StepperProps ----------------------------
(***************************************************************************)
(* The properties of a Stepper and the process it traces (see Stepper).    *)
(***************************************************************************)
EXTENDS Stepper

TraceeTypes ==
  /\ arch \in Arch
  /\ mem \in [Address -> Cell]
  /\ pc \in Nat
  /\ tracee \in {"stop", "held", "cont", "single", "exit", "gone"}
  /\ pipe \in Nat

BreakpointTypes ==
  /\ DOMAIN breakpointMap \subseteq Instr
  /\ \A a \in DOMAIN breakpointMap :
       breakpointMap[a] \in [0..(Word - 1) -> Cell]
  /\ breakpointsToAdd \union breakpointsToRemove \subseteq Breakable

FlagTypes ==
  /\ done \in BOOLEAN /\ seenFirstSymbol \in BOOLEAN
  /\ stepAgain \in BOOLEAN /\ continueToEnd \in BOOLEAN
  /\ hitBreakpoint \in BOOLEAN
  /\ cachedPC \in Nat /\ stdin \in Nat

WorkerTypes ==
  /\ commands \in Seq(StepType \union {"stdin"})
  /\ command \in StepType \union {"parse", "none"}
  /\ call \in Call
  /\ at \in {"wait", "add", "remove", "step", "returned", "idle"}

HistoryTypes ==
  /\ closed \in 0..2 /\ requests \in Nat
  /\ lpc \in Instr \union {Exit}
  /\ strayed \in BOOLEAN /\ dropped \in BOOLEAN

\* The range of every variable: what is saved of a breakpoint is the whole
\* word that Stepper::removeBreak writes back.
TypeOK ==
  TraceeTypes /\ BreakpointTypes /\ FlagTypes /\ WorkerTypes /\ HistoryTypes

\* A cell of the memory is the word of some breakpoint's.
Covered(b) == \E a \in DOMAIN breakpointMap : b \in a..(a + Word - 1)

(* Stepper's breakpointMap and the tracee's memory agree whatever is queued, *)
(* hit, removed or set twice: each breakpoint of the map is in memory, with  *)
(* the program's own code saved, and the memory is otherwise the program's.  *)
BreakpointsInMemory ==
  /\ \A a \in DOMAIN breakpointMap :
       /\ mem[a] = "break"
       /\ \A i \in DOMAIN breakpointMap[a] : breakpointMap[a][i] = "code"
  /\ \A b \in Address : ~Covered(b) => mem[b] = "code"

(* However it is stepped, continued and stopped, and whatever breakpoints    *)
(* Stepper sets and removes, the tracee executes the program's instructions  *)
(* in the program's order; except (x86_64) once a request has removed the    *)
(* breakpoint it is stopped at.                                              *)
Transparent == strayed => arch = "x86_64" /\ dropped

(* The same without the exception.                                           *)
NeverStrays == ~strayed

(* A blocked system call is never single-stepped: Stepper::allStep steps     *)
(* over it, even when it first sees a breakpoint in its place.               *)
BlockedSkipped ==
  [][Execute /\ pc \in Blocked => tracee = "cont"]_vars

(* A client that waits for each answer, and stops at a finished session, has *)
(* Stepper::step close the descriptors once, though StepCmd may call it      *)
(* several times.                                                            *)
ClosedOnce == closed <= 1

\* The tracee waits for input, which a StdinCmd behind the StepCmd that waits
\* for the tracee cannot give it.
Starved == Running /\ pc \in Reads /\ pipe = 0

\* StepCmd's loop continues from a breakpoint that allStep does not take to be
\* hit, because the step before was a continue too: it meets it again.
Caught == at = "step" /\ command = "cont" /\ call = "single" /\ AtBreak
            /\ stepAgain

\* The tracee is at what faults.  A StepCmd that loops meets the fault for ever,
\* the signal that would end the program being dropped.
Faulting == Running /\ mem[pc] # "break"
              /\ (pc \in Instr /\ Intact => pc \in Faults)

(* A command of the client that reaches Stepper ends, unless the tracee      *)
(* waits for input or faults, or a continue meets a breakpoint in the loop   *)
(* that does not see it.                                                     *)
StepEnds ==
  command # "none" ~> command = "none" \/ Starved \/ Faulting \/ Caught

-----------------------------------------------------------------------------
(* What the theorems of StepperProofs suppose of the program: the words that *)
(* breakpoints are written with leave the rest of it alone.                  *)

\* Where Stepper sets breakpoints: those asked for, main's, and the one a
\* library call returns to.
BreakPlaces == Breakable \union {Entry} \union {a + Size : a \in LibraryCalls}

\* No two of them are in one word.
Spaced == \A a, b \in BreakPlaces : a < b => a + Word <= b

\* The instructions that the word of a breakpoint at a hides behind it.
Inside(a) == {b \in Instr : a < b /\ b < a + Word}

\* No instruction reaches into such a word, and the program comes to the
\* hidden ones only by the breakpoint.
Enclosed ==
  \A a \in BreakPlaces :
    /\ \A b \in Instr : b < a => b + Size <= a
    /\ \A b \in Instr : \A next \in Flow[b] :
         next \in Inside(a) => b \in Inside(a) \union {a}

\* A breakpoint that was asked for is not set behind the program's back: where
\* it is, is not what the breakpoint's word hides.
SetElsewhere ==
  AddQueued => \A a \in DOMAIN breakpointMap' \ DOMAIN breakpointMap :
                 lpc \notin Inside(a)
=============================================================================
