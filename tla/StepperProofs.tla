--------------------------- MODULE StepperProofs ---------------------------
(***************************************************************************)
(* Proofs about a Stepper and the process it traces, for every program,     *)
(* word and instruction size and whatever is asked for: the safety          *)
(* properties of StepperProps.  Where breakpoints can harm the program      *)
(* (the clobber run) a theorem says what has to be so for them not to.      *)
(***************************************************************************)
EXTENDS StepperProps, SequenceTheorems, TLAPS

\* What BreakpointTypes says of a map of breakpoints.
MapTypes(map) ==
  /\ DOMAIN map \subseteq Instr
  /\ \A a \in DOMAIN map : map[a] \in [0..(Word - 1) -> Cell]

-----------------------------------------------------------------------------
(* The operators on memory.                                                  *)

(* A breakpoint's word is memory.                                            *)
LEMMA WordsAreMemory ==
  /\ Address \subseteq Nat /\ Instr \subseteq Nat \ {0}
  /\ Word \in Nat \ {0} /\ Size \in Nat \ {0}
  /\ \A a \in Instr : \A b \in a..(a + Word - 1) : b \in Address
  /\ \A a \in Instr : \A i \in 0..(Word - 1) : a + i \in Address
<1>1. /\ Instr \subseteq Nat \ {0} /\ Word \in Nat \ {0} /\ Size \in Nat \ {0}
  BY StepperAssumption
<1>2. ASSUME NEW a \in Instr PROVE a..(a + Word + Size) \subseteq Address
  BY DEF Address
<1>3. Address \subseteq Nat
  BY <1>1 DEF Address
<1>4. ASSUME NEW a \in Instr, NEW b \in a..(a + Word - 1) PROVE b \in Address
  <2>1. b \in a..(a + Word + Size)
    BY <1>1
  <2> QED BY <2>1, <1>2
<1>5. ASSUME NEW a \in Instr, NEW i \in 0..(Word - 1) PROVE a + i \in Address
  <2>1. a + i \in a..(a + Word + Size)
    BY <1>1
  <2> QED BY <2>1, <1>2
<1> QED BY <1>1, <1>3, <1>4, <1>5

(* What is saved is a word.                                                  *)
LEMMA SavedIsWord ==
  ASSUME NEW m \in [Address -> Cell], NEW a \in Instr
  PROVE  SavedWord(m, a) \in [0..(Word - 1) -> Cell]
BY WordsAreMemory DEF SavedWord

(* Writing a word leaves a memory.                                           *)
LEMMA PokedIsMemory ==
  ASSUME NEW m \in [Address -> Cell], NEW a \in Instr,
         NEW word \in [0..(Word - 1) -> Cell]
  PROVE  Poked(m, a, word) \in [Address -> Cell]
<1>1. ASSUME NEW b \in Address
      PROVE (IF b \in a..(a + Word - 1) THEN word[b - a] ELSE m[b]) \in Cell
  <2>1. CASE b \in a..(a + Word - 1)
    <3>1. b - a \in 0..(Word - 1)
      BY <2>1, WordsAreMemory
    <3> QED BY <2>1, <3>1
  <2>2. CASE b \notin a..(a + Word - 1)
    BY <2>2
  <2> QED BY <2>1, <2>2
<1> QED BY <1>1 DEF Poked

(* What is written is a word.                                                *)
LEMMA BreakpointIsWord == BreakpointWord \in [0..(Word - 1) -> Cell]
BY DEF BreakpointWord, Cell

(* insertBreak keeps memory a memory and the map one of words.               *)
LEMMA InsertTypes ==
  ASSUME NEW m \in [Address -> Cell], NEW map, MapTypes(map), NEW a \in Instr,
         InsertBreak(m, map, a)
  PROVE  mem' \in [Address -> Cell] /\ MapTypes(breakpointMap')
<1>1. CASE a \in DOMAIN map
  BY <1>1 DEF InsertBreak
<1>2. CASE a \notin DOMAIN map
  <2>1. mem' = Poked(m, a, BreakpointWord) /\ breakpointMap' = MapWith(map, m, a)
    BY <1>2 DEF InsertBreak
  <2>2. MapTypes(MapWith(map, m, a))
    <3>1. /\ DOMAIN MapWith(map, m, a) = DOMAIN map \union {a}
          /\ \A b \in DOMAIN map \union {a} :
               MapWith(map, m, a)[b] = IF b = a THEN SavedWord(m, a) ELSE map[b]
      BY DEF MapWith
    <3> QED BY <3>1, SavedIsWord DEF MapTypes
  <2> QED BY <2>1, <2>2, PokedIsMemory, BreakpointIsWord
<1> QED BY <1>1, <1>2

(* So does removeBreak.                                                      *)
LEMMA RemoveTypes ==
  ASSUME TypeOK, NEW a \in DOMAIN breakpointMap
  PROVE  Restored(a) \in [Address -> Cell] /\ MapTypes(MapWithout(a))
<1>1. a \in Instr /\ breakpointMap[a] \in [0..(Word - 1) -> Cell]
  BY DEF TypeOK, BreakpointTypes
<1>2. Restored(a) \in [Address -> Cell]
  BY <1>1, PokedIsMemory DEF Restored, TypeOK, TraceeTypes
<1>3. MapTypes(MapWithout(a))
  BY DEF MapTypes, MapWithout, TypeOK, BreakpointTypes
<1> QED BY <1>2, <1>3

(* allStep leaves such a memory and map, and resumes at an address.          *)
LEMMA LeftTypes ==
  ASSUME TypeOK
  PROVE  /\ Left \in [Address -> Cell] /\ MapTypes(LeftMap)
         /\ SetBack \in Nat /\ Skipped \in Nat
         /\ Skipped # SetBack => SetBack \in Blocked /\ Skipped = SetBack + Size
                                  /\ Skipped \in Instr
<1>1. /\ Left \in [Address -> Cell] /\ MapTypes(LeftMap)
      /\ AtBreak => BreakPC \in Instr
  <2>1. CASE Dropping
    <3>1. BreakPC \in DOMAIN breakpointMap
      BY <2>1 DEF Dropping, AtBreak
    <3> QED BY <2>1, <3>1, RemoveTypes DEF Left, LeftMap, TypeOK,
         BreakpointTypes
  <2>2. CASE ~Dropping
    BY <2>2 DEF Left, LeftMap, TypeOK, TraceeTypes, BreakpointTypes, MapTypes,
       AtBreak
  <2> QED BY <2>1, <2>2
<1>2. SetBack \in Nat
  BY <1>1, WordsAreMemory DEF SetBack, TypeOK, TraceeTypes
<1>3. Skipped # SetBack => SetBack \in Blocked /\ Skipped = SetBack + Size
  BY DEF Skipped
<1>4. \A a \in Blocked : a + Size \in Instr
  BY StepperAssumption
<1> QED BY <1>1, <1>2, <1>3, <1>4, WordsAreMemory

-----------------------------------------------------------------------------
(* The types.                                                                *)

(* The types hold when ParseCmd has forked the tracee.                       *)
LEMMA InitTypes == Init => TypeOK
<1> SUFFICES ASSUME Init PROVE TypeOK
  OBVIOUS
<1>1. TraceeTypes
  <2>1. Entry \in Nat
    BY StepperAssumption
  <2> QED BY <2>1 DEF Init, TraceeTypes, Cell
<1>2. BreakpointTypes
  <2>1. DOMAIN breakpointMap = {}
    BY DEF Init
  <2> QED BY <2>1 DEF Init, BreakpointTypes
<1>3. FlagTypes
  BY StepperAssumption DEF Init, FlagTypes
<1>4. WorkerTypes
  BY DEF Init, WorkerTypes, Call
<1>5. HistoryTypes
  <2>1. Entry \in Instr
    BY StepperAssumption
  <2>2. closed \in 0..2 /\ requests \in Nat /\ lpc \in Instr
    BY <2>1 DEF Init
  <2>3. strayed \in BOOLEAN /\ dropped \in BOOLEAN
    BY Zenon DEF Init
  <2> QED BY <2>2, <2>3 DEF HistoryTypes
<1> QED BY <1>1, <1>2, <1>3, <1>4, <1>5 DEF TypeOK

(* What the kinds of a step have in common keeps them.                       *)
LEMMA ResumeTypes ==
  ASSUME TypeOK, NEW how \in {"cont", "single"}, Resume(how),
         mem' \in [Address -> Cell], MapTypes(breakpointMap')
  PROVE  TypeOK'
<1>1. TraceeTypes'
  BY LeftTypes DEF Resume, TypeOK, TraceeTypes
<1>2. BreakpointTypes'
  BY DEF Resume, TypeOK, BreakpointTypes, MapTypes
<1>3. FlagTypes'
  <2>1. continueToEnd' \in BOOLEAN
    BY DEF Resume, ReturnSeen, TypeOK, FlagTypes
  <2>2. hitBreakpoint' \in BOOLEAN /\ stepAgain' \in BOOLEAN
    BY DEF Resume, Dropping, AtBreak
  <2>3. /\ cachedPC' = SetBack /\ done' = done /\ stdin' = stdin
        /\ seenFirstSymbol' = seenFirstSymbol
    BY DEF Resume
  <2> QED BY <2>1, <2>2, <2>3, LeftTypes DEF TypeOK, FlagTypes
<1>4. WorkerTypes'
  BY DEF Resume, TypeOK, WorkerTypes
<1>5. HistoryTypes'
  <2>1. lpc' \in Instr \union {Exit}
    BY LeftTypes DEF Resume, TypeOK, HistoryTypes
  <2> QED BY <2>1 DEF Resume, TypeOK, HistoryTypes
<1> QED BY <1>1, <1>2, <1>3, <1>4, <1>5 DEF TypeOK

(* Every step keeps them.                                                    *)
LEMMA NextTypes == TypeOK /\ [Next]_vars => TypeOK'
<1> SUFFICES ASSUME TypeOK, [Next]_vars PROVE TypeOK'
  OBVIOUS
<1> USE DEF TypeOK, TraceeTypes, BreakpointTypes, FlagTypes, WorkerTypes,
    HistoryTypes
<1>1. CASE Trap
  BY <1>1 DEF Trap, breakpointVars, flagVars, workerVars, historyVars
<1>2. CASE Execute
  BY <1>2, StepperAssumption DEF Execute, breakpointVars, flagVars, workerVars
<1>3. CASE Fault
  BY <1>3 DEF Fault, breakpointVars, flagVars, workerVars
<1>4. ASSUME NEW c \in StepType \union {"stdin"}, EnqueueCommand(c) PROVE TypeOK'
  BY <1>4 DEF EnqueueCommand, breakpointVars, traceeVars, flagVars, historyVars
<1>5. ASSUME NEW a \in Breakable, QueueBreakpoint(a) PROVE TypeOK'
  BY <1>5 DEF QueueBreakpoint, traceeVars, flagVars, workerVars
<1>6. ASSUME NEW a \in Breakable, RemoveBreakpoint(a) PROVE TypeOK'
  BY <1>6 DEF RemoveBreakpoint, traceeVars, flagVars, workerVars
<1>7. CASE TakeStdin
  BY <1>7 DEF TakeStdin, breakpointVars, traceeVars, historyVars
<1>8. CASE TakeStep
  <2>1. /\ commands' \in Seq(StepType \union {"stdin"})
        /\ command' \in StepType
    <3>1. /\ commands \in Seq(StepType \union {"stdin"}) /\ commands # <<>>
          /\ commands' = Tail(commands) /\ command' = Head(commands)
          /\ Head(commands) # "stdin"
      BY <1>8 DEF TakeStep
    <3>2. Head(commands) \in StepType \union {"stdin"}
      BY <3>1, HeadTailProperties
    <3> QED BY <3>1, <3>2, HeadTailProperties
  <2>2. pipe' \in Nat /\ stdin' \in Nat /\ hitBreakpoint' = FALSE
    BY <1>8 DEF TakeStep, BeginStep
  <2>3. call' = "single" /\ at' = "wait"
    BY <1>8 DEF TakeStep, BeginStep
  <2> QED BY <1>8, <2>1, <2>2, <2>3 DEF TakeStep, Call, breakpointVars,
       historyVars
<1>9. CASE WaitStopped
  BY <1>9 DEF WaitStopped, breakpointVars, flagVars, historyVars
<1>10. CASE WaitEnded
  BY <1>10 DEF WaitEnded, breakpointVars
<1>11. CASE AddQueued
  <2>1. PICK a \in Lowest(breakpointsToAdd) : InsertBreak(mem, breakpointMap, a)
    BY <1>11 DEF AddQueued
  <2>2. a \in Instr
    BY StepperAssumption DEF Lowest
  <2>3. MapTypes(breakpointMap) /\ mem \in [Address -> Cell]
    BY DEF MapTypes
  <2>4. mem' \in [Address -> Cell] /\ MapTypes(breakpointMap')
    BY <2>1, <2>2, <2>3, InsertTypes
  <2> QED BY <1>11, <2>4 DEF AddQueued, flagVars, workerVars, historyVars,
       MapTypes
<1>12. CASE AllAdded
  BY <1>12 DEF AllAdded, breakpointVars, traceeVars, flagVars, historyVars
<1>13. CASE RemoveQueued
  <2>1. mem' \in [Address -> Cell] /\ MapTypes(breakpointMap')
    <3>1. PICK a : IF a \in DOMAIN breakpointMap THEN RemoveBreak(a)
                  ELSE UNCHANGED <<mem, breakpointMap>>
      BY <1>13 DEF RemoveQueued
    <3>2. CASE a \in DOMAIN breakpointMap
      BY <3>1, <3>2, RemoveTypes DEF RemoveBreak
    <3>3. CASE a \notin DOMAIN breakpointMap
      BY <3>1, <3>3 DEF MapTypes
    <3> QED BY <3>2, <3>3
  <2> QED BY <1>13, <2>1 DEF RemoveQueued, flagVars, workerVars, MapTypes
<1>14. CASE AllApplied
  BY <1>14 DEF AllApplied, breakpointVars, traceeVars, flagVars
<1>15. CASE FirstStep
  <2>1. InsertBreak(mem, breakpointMap, Entry) /\ Entry \in Instr
    BY <1>15, StepperAssumption DEF FirstStep
  <2>2. Entry \in Nat
    BY StepperAssumption
  <2>3. MapTypes(breakpointMap) /\ mem \in [Address -> Cell]
    BY DEF MapTypes
  <2>4. mem' \in [Address -> Cell] /\ MapTypes(breakpointMap')
    BY <2>1, <2>3, InsertTypes
  <2> QED BY <1>15, <2>2, <2>4 DEF FirstStep, historyVars, MapTypes
<1>16. CASE StepInstruction
  BY <1>16, LeftTypes, ResumeTypes DEF StepInstruction, DropHit
<1>17. CASE Continue
  BY <1>17, LeftTypes, ResumeTypes DEF Continue, DropHit
<1>18. CASE StepOverLibrary
  <2>1. SetBack + Size \in Instr
    BY <1>18, StepperAssumption DEF StepOverLibrary, OverLibrary
  <2>2. mem' \in [Address -> Cell] /\ MapTypes(breakpointMap')
    BY <1>18, <2>1, LeftTypes, InsertTypes DEF StepOverLibrary
  <2> QED BY <1>18, <2>2, ResumeTypes DEF StepOverLibrary
<1>19. CASE StepOnceMore
  <2>1. /\ pipe' \in Nat /\ stdin' \in Nat /\ hitBreakpoint' = FALSE
        /\ call' \in Call /\ at' = "wait"
    BY <1>19 DEF StepOnceMore, BeginStep, Call
  <2>2. UNCHANGED <<arch, mem, pc, tracee, breakpointVars, done, seenFirstSymbol,
                    stepAgain, continueToEnd, cachedPC, commands, command,
                    historyVars>>
    BY <1>19 DEF StepOnceMore
  <2> QED BY <2>1, <2>2 DEF breakpointVars, historyVars
<1>20. CASE CommandEnds
  BY <1>20 DEF CommandEnds, breakpointVars, traceeVars, flagVars, historyVars,
     Call
<1>21. CASE UNCHANGED vars
  BY <1>21 DEF vars, breakpointVars, traceeVars, flagVars, workerVars,
     historyVars
<1> QED
  BY <1>1, <1>2, <1>3, <1>4, <1>5, <1>6, <1>7, <1>8, <1>9, <1>10, <1>11, <1>12,
     <1>13, <1>14, <1>15, <1>16, <1>17, <1>18, <1>19, <1>20, <1>21 DEF Next,
     Tracee, Server, Worker

(* Types: whatever the program, every variable keeps its range; what is saved *)
(* of a breakpoint is always the whole word that is written back.             *)
THEOREM TypesHold == Spec => []TypeOK
BY InitTypes, NextTypes, PTL DEF Spec

-----------------------------------------------------------------------------
(* The descriptors.                                                          *)

\* What a client that waits has queued, and how far the worker is once the
\* tracee has ended.
Closing ==
  /\ Len(commands) <= 1 /\ (command # "none" => commands = <<>>)
  /\ at = "idle" <=> command = "none"
  /\ \/ ~done /\ closed = 0
     \/ done /\ closed = 1 /\ commands = <<>> /\ at \in {"returned", "idle"}

(* No call of step() follows the one that found the tracee ended, and no      *)
(* command the one that made it.                                              *)
LEMMA NextClosing ==
  ASSUME MaxQueue <= 1
  PROVE  TypeOK /\ Closing /\ [Next]_vars => Closing'
<1> SUFFICES ASSUME TypeOK, Closing, [Next]_vars PROVE Closing'
  OBVIOUS
<1> USE DEF Closing
<1>1. CASE Trap
  BY <1>1 DEF Trap, breakpointVars, flagVars, workerVars, historyVars
<1>2. CASE Execute
  BY <1>2 DEF Execute, breakpointVars, flagVars, workerVars
<1>3. CASE Fault
  BY <1>3 DEF Fault, breakpointVars, flagVars, workerVars
<1>4. ASSUME NEW c \in StepType \union {"stdin"}, EnqueueCommand(c) PROVE Closing'
  <2>1. Len(commands) + (IF command = "none" THEN 0 ELSE 1) < 1 /\ ~done
    BY <1>4, StepperAssumption DEF EnqueueCommand, TypeOK, WorkerTypes
  <2>2. command = "none" /\ Len(commands) = 0
    BY <2>1 DEF TypeOK, WorkerTypes
  <2> QED BY <1>4, <2>1, <2>2 DEF EnqueueCommand, flagVars, historyVars
<1>5. ASSUME NEW a \in Breakable, QueueBreakpoint(a) PROVE Closing'
  BY <1>5 DEF QueueBreakpoint, traceeVars, flagVars, workerVars
<1>6. ASSUME NEW a \in Breakable, RemoveBreakpoint(a) PROVE Closing'
  BY <1>6 DEF RemoveBreakpoint, traceeVars, flagVars, workerVars
<1>7. CASE TakeStdin
  <2>1. ~done /\ command = "none"
    BY <1>7 DEF TakeStdin
  <2> QED BY <1>7, <2>1 DEF TakeStdin, breakpointVars, traceeVars, historyVars
<1>8. CASE TakeStep
  <2>1. ~done /\ command = "none"
    BY <1>8 DEF TakeStep
  <2>2. commands \in Seq(StepType \union {"stdin"}) /\ commands # <<>>
    BY <1>8 DEF TakeStep, TypeOK, WorkerTypes
  <2>3. Len(Tail(commands)) = 0
    <3>1. Len(commands) \in Nat \ {0} /\ Len(commands) <= 1
      BY <2>2, EmptySeq
    <3>2. Len(Tail(commands)) = Len(commands) - 1
      BY <2>2, HeadTailProperties
    <3> QED BY <3>1, <3>2
  <2>4. Tail(commands) = <<>>
    BY <2>2, <2>3, HeadTailProperties, EmptySeq
  <2>5. command' # "none" /\ at' = "wait"
    <3>1. Head(commands) \in StepType
      BY <1>8, <2>2, HeadTailProperties DEF TakeStep
    <3> QED BY <1>8, <3>1 DEF TakeStep, BeginStep, StepType
  <2> QED BY <1>8, <2>1, <2>3, <2>4, <2>5 DEF TakeStep, historyVars
<1>9. CASE WaitStopped
  BY <1>9 DEF WaitStopped, breakpointVars, flagVars, historyVars
<1>10. CASE WaitEnded
  BY <1>10 DEF WaitEnded, breakpointVars
<1>11. CASE AddQueued
  BY <1>11 DEF AddQueued, flagVars, workerVars, historyVars
<1>12. CASE AllAdded
  BY <1>12 DEF AllAdded, breakpointVars, traceeVars, flagVars, historyVars
<1>13. CASE RemoveQueued
  BY <1>13 DEF RemoveQueued, flagVars, workerVars
<1>14. CASE AllApplied
  BY <1>14 DEF AllApplied, breakpointVars, traceeVars, flagVars
<1>15. CASE FirstStep
  BY <1>15 DEF FirstStep, historyVars
<1>16. CASE StepInstruction
  BY <1>16 DEF StepInstruction, Resume
<1>17. CASE Continue
  BY <1>17 DEF Continue, Resume
<1>18. CASE StepOverLibrary
  BY <1>18 DEF StepOverLibrary, Resume
<1>19. CASE StepOnceMore
  <2>1. ~done
    BY <1>19 DEF StepOnceMore, MoreSingle, MoreAgain, MoreEnd, SingleStepDone,
       Active
  <2> QED BY <1>19, <2>1 DEF StepOnceMore, BeginStep, historyVars
<1>20. CASE CommandEnds
  BY <1>20 DEF CommandEnds, breakpointVars, traceeVars, flagVars, historyVars
<1>21. CASE UNCHANGED vars
  BY <1>21 DEF vars, breakpointVars, traceeVars, flagVars, workerVars,
     historyVars
<1> QED
  BY <1>1, <1>2, <1>3, <1>4, <1>5, <1>6, <1>7, <1>8, <1>9, <1>10, <1>11, <1>12,
     <1>13, <1>14, <1>15, <1>16, <1>17, <1>18, <1>19, <1>20, <1>21 DEF Next,
     Tracee, Server, Worker

(* ClosedOnce, however many calls of step() a StepCmd makes, for a client that *)
(* waits for the answer to a command before it sends the next.                *)
THEOREM DescriptorsClosedOnce ==
  ASSUME MaxQueue <= 1
  PROVE  Spec => []ClosedOnce
<1>1. Init => Closing
  BY DEF Init, Closing
<1>2. Closing => ClosedOnce
  BY DEF Closing, ClosedOnce
<1> QED BY <1>1, <1>2, NextClosing, TypesHold, PTL DEF Spec

-----------------------------------------------------------------------------
(* Blocked system calls.                                                     *)

\* Breakpoints are applied, and the tracee resumed, when it is held.
Held == at \in {"add", "remove", "step"} => tracee = "held"

\* What single-steps is not at a system call that is blocked, but at a
\* breakpoint in its place.
Skips == tracee = "single" /\ pc \in Blocked => ~Intact

(* The tracee is held from doWait to where it is resumed.                    *)
LEMMA NextHeld == Held /\ [Next]_vars => Held'
BY DEF Held, Next, Tracee, Server, Worker, Trap, Execute, Fault, Running,
   EnqueueCommand, QueueBreakpoint, RemoveBreakpoint, TakeStdin, TakeStep,
   BeginStep, WaitStopped, WaitEnded, AddQueued, AllAdded, RemoveQueued,
   AllApplied, FirstStep, StepInstruction, Continue, StepOverLibrary, Resume,
   StepOnceMore, CommandEnds, traceeVars, workerVars, vars

(* A system call is skipped over to what is none.                             *)
LEMMA NextSkips ==
  ASSUME \A a \in Blocked : a + Size \notin Blocked
  PROVE  Held /\ Skips /\ [Next]_vars => Skips'
<1> SUFFICES ASSUME Held, Skips, [Next]_vars PROVE Skips'
  OBVIOUS
<1> USE DEF Held, Skips
<1>1. CASE Trap
  BY <1>1 DEF Trap, breakpointVars, flagVars, workerVars, historyVars, Running
<1>2. CASE Execute
  BY <1>2 DEF Execute, breakpointVars, flagVars, workerVars, Running
<1>3. CASE Fault
  BY <1>3 DEF Fault, breakpointVars, flagVars, workerVars, Running
<1>4. ASSUME NEW c \in StepType \union {"stdin"}, EnqueueCommand(c) PROVE Skips'
  BY <1>4 DEF EnqueueCommand, breakpointVars, traceeVars, flagVars,
     historyVars, Intact
<1>5. ASSUME NEW a \in Breakable, QueueBreakpoint(a) PROVE Skips'
  BY <1>5 DEF QueueBreakpoint, traceeVars, flagVars, workerVars, Intact
<1>6. ASSUME NEW a \in Breakable, RemoveBreakpoint(a) PROVE Skips'
  BY <1>6 DEF RemoveBreakpoint, traceeVars, flagVars, workerVars, Intact
<1>7. CASE TakeStdin
  BY <1>7 DEF TakeStdin, breakpointVars, traceeVars, historyVars, Intact
<1>8. CASE TakeStep
  BY <1>8 DEF TakeStep, breakpointVars, historyVars, BeginStep, Intact
<1>9. CASE WaitStopped
  BY <1>9 DEF WaitStopped, breakpointVars, flagVars, historyVars
<1>10. CASE WaitEnded
  BY <1>10 DEF WaitEnded, breakpointVars
<1>11. CASE AddQueued
  BY <1>11 DEF AddQueued, flagVars, workerVars, historyVars
<1>12. CASE AllAdded
  BY <1>12 DEF AllAdded, breakpointVars, traceeVars, flagVars, historyVars,
     Intact
<1>13. CASE RemoveQueued
  BY <1>13 DEF RemoveQueued, flagVars, workerVars
<1>14. CASE AllApplied
  BY <1>14 DEF AllApplied, breakpointVars, traceeVars, flagVars, Intact
<1>15. CASE FirstStep
  BY <1>15 DEF FirstStep, historyVars
<1>16. CASE StepInstruction
  <2>1. /\ pc' = Skipped /\ mem' = Left /\ at' = "returned"
    BY <1>16 DEF StepInstruction, Resume, DropHit
  <2>2. ASSUME Skipped \in Blocked PROVE Skipped = SetBack /\ ~Readable
    BY <2>2 DEF Skipped
  <2>3. pc' \in Blocked => ~Intact'
    BY <2>1, <2>2 DEF Intact, Readable
  <2> QED BY <2>1, <2>3
<1>17. CASE Continue
  BY <1>17 DEF Continue, Resume
<1>18. CASE StepOverLibrary
  BY <1>18 DEF StepOverLibrary, Resume
<1>19. CASE StepOnceMore
  BY <1>19 DEF StepOnceMore, breakpointVars, historyVars, BeginStep, Intact
<1>20. CASE CommandEnds
  BY <1>20 DEF CommandEnds, breakpointVars, traceeVars, flagVars, historyVars,
     Intact
<1>21. CASE UNCHANGED vars
  BY <1>21 DEF vars, traceeVars, workerVars, Intact
<1> QED
  BY <1>1, <1>2, <1>3, <1>4, <1>5, <1>6, <1>7, <1>8, <1>9, <1>10, <1>11, <1>12,
     <1>13, <1>14, <1>15, <1>16, <1>17, <1>18, <1>19, <1>20, <1>21 DEF Next,
     Tracee, Server, Worker

(* BlockedSkipped, in a program that has no two blocked system calls next to  *)
(* each other.                                                                *)
THEOREM BlockedCallsSkipped ==
  ASSUME \A a \in Blocked : a + Size \notin Blocked
  PROVE  Spec => BlockedSkipped
<1>1. Init => Held /\ Skips
  BY DEF Init, Held, Skips
<1>2. Held /\ Skips /\ [Next]_vars
        => [Execute /\ pc \in Blocked => tracee = "cont"]_vars
  BY DEF Held, Skips, Execute, Running
<1> QED BY <1>1, <1>2, NextHeld, NextSkips, PTL DEF Spec, BlockedSkipped

-----------------------------------------------------------------------------
(* Breakpoints in memory.                                                    *)

\* Memory and map agree: see BreakpointsInMemory.
Agree(m, map) ==
  /\ DOMAIN map \subseteq BreakPlaces
  /\ \A a \in DOMAIN map :
       m[a] = "break" /\ \A i \in 0..(Word - 1) : map[a][i] = "code"
  /\ \A b \in Address :
       (\A a \in DOMAIN map : b \notin a..(a + Word - 1)) => m[b] = "code"

(* Breakpoints are set at instructions.                                      *)
LEMMA PlacesAreInstructions == BreakPlaces \subseteq Instr
BY StepperAssumption DEF BreakPlaces

(* A breakpoint is in its word.                                              *)
LEMMA PlaceInWord ==
  \A a \in BreakPlaces : a \in a..(a + Word - 1) /\ a \in Address
<1> SUFFICES ASSUME NEW a \in BreakPlaces
             PROVE  a \in a..(a + Word - 1) /\ a \in Address
  OBVIOUS
<1>1. a \in Instr /\ a \in Nat
  BY PlacesAreInstructions, WordsAreMemory
<1>2. a \in a..(a + Word - 1)
  BY <1>1, WordsAreMemory
<1> QED BY <1>1, <1>2, WordsAreMemory

(* The words of two breakpoints have no cell in common.                      *)
LEMMA WordsApart ==
  ASSUME Spaced, NEW a \in BreakPlaces, NEW b \in BreakPlaces, a # b
  PROVE  \A c \in a..(a + Word - 1) : c \notin b..(b + Word - 1)
<1>1. a \in Nat /\ b \in Nat /\ Word \in Nat
  BY PlacesAreInstructions, WordsAreMemory
<1>2. a + Word <= b \/ b + Word <= a
  BY <1>1 DEF Spaced
<1> QED BY <1>1, <1>2

(* What a poke changes.                                                      *)
LEMMA PokedCells ==
  ASSUME NEW m, NEW a \in Instr, NEW word
  PROVE  /\ \A b \in Address \ (a..(a + Word - 1)) : Poked(m, a, word)[b] = m[b]
         /\ \A b \in a..(a + Word - 1) : Poked(m, a, word)[b] = word[b - a]
BY WordsAreMemory DEF Poked

(* insertBreak saves code, whatever breakpoints there are already.           *)
LEMMA InsertAgrees ==
  ASSUME Spaced, NEW m, NEW map, Agree(m, map), NEW a \in BreakPlaces,
         InsertBreak(m, map, a)
  PROVE  Agree(mem', breakpointMap') /\ DOMAIN breakpointMap' = DOMAIN map \union {a}
<1>1. CASE a \in DOMAIN map
  BY <1>1 DEF InsertBreak
<1>2. CASE a \notin DOMAIN map
  <2> DEFINE word == a..(a + Word - 1)
  <2>1. a \in Instr /\ a \in word /\ a \in Address /\ word \subseteq Address
    BY PlacesAreInstructions, PlaceInWord, WordsAreMemory
  <2>2. mem' = Poked(m, a, BreakpointWord) /\ breakpointMap' = MapWith(map, m, a)
    BY <1>2 DEF InsertBreak
  <2>3. /\ \A b \in Address \ word : mem'[b] = m[b]
        /\ mem'[a] = BreakpointWord[a - a]
    BY <2>1, <2>2, PokedCells
  <2>4. BreakpointWord[a - a] = "break"
    <3>1. a - a = 0 /\ 0 \in 0..(Word - 1)
      BY <2>1, WordsAreMemory
    <3> QED BY <3>1 DEF BreakpointWord
  <2>5. /\ DOMAIN breakpointMap' = DOMAIN map \union {a}
        /\ \A b \in DOMAIN map : breakpointMap'[b] = map[b]
        /\ breakpointMap'[a] = SavedWord(m, a)
    BY <1>2, <2>2 DEF MapWith
  <2>6. ASSUME NEW b \in DOMAIN map
        PROVE  /\ b \in Address \ word
               /\ \A c \in word : c \notin b..(b + Word - 1)
    <3>1. b \in BreakPlaces /\ b # a
      BY <1>2 DEF Agree
    <3>2. b \in b..(b + Word - 1) /\ b \in Address
      BY <3>1, PlaceInWord
    <3> QED BY <3>1, <3>2, WordsApart
  <2>7. ASSUME NEW i \in 0..(Word - 1) PROVE SavedWord(m, a)[i] = "code"
    <3>1. SavedWord(m, a)[i] = m[a + i]
      BY DEF SavedWord
    <3>2. a + i \in word /\ a + i \in Address
      BY <2>1, WordsAreMemory
    <3> QED BY <3>1, <3>2, <2>6 DEF Agree
  <2>8. DOMAIN breakpointMap' \subseteq BreakPlaces
    BY <2>5 DEF Agree
  <2>9. ASSUME NEW b \in DOMAIN breakpointMap'
        PROVE  /\ mem'[b] = "break"
               /\ \A i \in 0..(Word - 1) : breakpointMap'[b][i] = "code"
    <3>1. CASE b = a
      BY <3>1, <2>3, <2>4, <2>5, <2>7
    <3>2. CASE b \in DOMAIN map
      BY <3>2, <2>3, <2>5, <2>6 DEF Agree
    <3> QED BY <3>1, <3>2, <2>5
  <2>10. ASSUME NEW b \in Address,
                \A c \in DOMAIN breakpointMap' : b \notin c..(c + Word - 1)
         PROVE  mem'[b] = "code"
    BY <2>10, <2>3, <2>5 DEF Agree
  <2> QED BY <2>5, <2>8, <2>9, <2>10 DEF Agree
<1> QED BY <1>1, <1>2

(* removeBreak restores it.                                                  *)
LEMMA RemoveAgrees ==
  ASSUME Spaced, Agree(mem, breakpointMap), NEW a \in DOMAIN breakpointMap
  PROVE  /\ Agree(Restored(a), MapWithout(a))
         /\ DOMAIN MapWithout(a) = DOMAIN breakpointMap \ {a}
<1> DEFINE word == a..(a + Word - 1)
<1>1. a \in BreakPlaces /\ a \in Instr /\ word \subseteq Address /\ word \subseteq Nat
  BY PlacesAreInstructions, WordsAreMemory DEF Agree
<1>2. /\ \A b \in Address \ word : Restored(a)[b] = mem[b]
      /\ \A b \in word : Restored(a)[b] = breakpointMap[a][b - a]
  BY <1>1, PokedCells DEF Restored
<1>3. ASSUME NEW b \in word PROVE Restored(a)[b] = "code"
  <2>1. b - a \in 0..(Word - 1)
    BY <1>1, WordsAreMemory
  <2> QED BY <2>1, <1>2 DEF Agree
<1>4. /\ DOMAIN MapWithout(a) = DOMAIN breakpointMap \ {a}
      /\ \A b \in DOMAIN MapWithout(a) : MapWithout(a)[b] = breakpointMap[b]
  BY DEF MapWithout
<1>5. ASSUME NEW b \in DOMAIN MapWithout(a) PROVE Restored(a)[b] = "break"
  <2>1. b \in BreakPlaces /\ b # a /\ mem[b] = "break"
    BY <1>4 DEF Agree
  <2>2. b \in b..(b + Word - 1) /\ b \in Address
    BY <2>1, PlaceInWord
  <2> QED BY <2>1, <2>2, <1>1, <1>2, WordsApart
<1>6. ASSUME NEW b \in Address,
             \A c \in DOMAIN MapWithout(a) : b \notin c..(c + Word - 1)
      PROVE  Restored(a)[b] = "code"
  <2>1. CASE b \in word
    BY <2>1, <1>3
  <2>2. CASE b \notin word
    BY <2>2, <1>2, <1>4, <1>6 DEF Agree
  <2> QED BY <2>1, <2>2
<1> QED BY <1>4, <1>5, <1>6 DEF Agree

(* allStep leaves memory and map in agreement.                               *)
LEMMA LeftAgrees ==
  ASSUME Spaced, Agree(mem, breakpointMap)
  PROVE  Agree(Left, LeftMap) /\ DOMAIN LeftMap \subseteq DOMAIN breakpointMap
<1>1. CASE Dropping
  <2>1. BreakPC \in DOMAIN breakpointMap
    BY <1>1 DEF Dropping, AtBreak
  <2> QED BY <1>1, <2>1, RemoveAgrees DEF Left, LeftMap
<1>2. CASE ~Dropping
  BY <1>2 DEF Left, LeftMap
<1> QED BY <1>1, <1>2

(* Every step does.                                                          *)
LEMMA NextAgrees ==
  ASSUME Spaced
  PROVE  TypeOK /\ Agree(mem, breakpointMap) /\ [Next]_vars
           => Agree(mem, breakpointMap)'
<1> SUFFICES ASSUME TypeOK, Agree(mem, breakpointMap), [Next]_vars
             PROVE  Agree(mem', breakpointMap')
  BY DEF Agree
<1>1. CASE UNCHANGED <<mem, breakpointMap>>
  BY <1>1
<1>2. CASE AddQueued
  <2>1. PICK a \in Lowest(breakpointsToAdd) : InsertBreak(mem, breakpointMap, a)
    BY <1>2 DEF AddQueued
  <2>2. a \in BreakPlaces
    BY DEF Lowest, TypeOK, BreakpointTypes, BreakPlaces
  <2> QED BY <2>1, <2>2, InsertAgrees
<1>3. CASE RemoveQueued
  <2>1. PICK a : IF a \in DOMAIN breakpointMap THEN RemoveBreak(a)
                ELSE UNCHANGED <<mem, breakpointMap>>
    BY <1>3 DEF RemoveQueued
  <2> QED BY <1>1, <2>1, RemoveAgrees DEF RemoveBreak
<1>4. CASE FirstStep
  BY <1>4, InsertAgrees DEF FirstStep, BreakPlaces
<1>5. CASE StepInstruction \/ Continue
  BY <1>5, LeftAgrees DEF StepInstruction, Continue, DropHit
<1>6. CASE StepOverLibrary
  <2>1. SetBack + Size \in BreakPlaces
    BY <1>6 DEF StepOverLibrary, OverLibrary, BreakPlaces
  <2> QED BY <1>6, <2>1, LeftAgrees, InsertAgrees DEF StepOverLibrary
<1>7. Next => \/ UNCHANGED <<mem, breakpointMap>> \/ AddQueued \/ RemoveQueued
              \/ FirstStep \/ StepInstruction \/ Continue \/ StepOverLibrary
  BY DEF Next, Tracee, Server, Worker, Trap, Execute, Fault, EnqueueCommand,
     QueueBreakpoint, RemoveBreakpoint, TakeStdin, TakeStep, WaitStopped,
     WaitEnded, AllAdded, AllApplied, StepOnceMore, CommandEnds, traceeVars,
     breakpointVars
<1>8. UNCHANGED vars => UNCHANGED <<mem, breakpointMap>>
  BY DEF vars, traceeVars, breakpointVars
<1> QED BY <1>1, <1>2, <1>3, <1>4, <1>5, <1>6, <1>7, <1>8

(* They agree before the first.                                              *)
LEMMA InitAgrees == Init => Agree(mem, breakpointMap)
<1> SUFFICES ASSUME Init PROVE Agree(mem, breakpointMap)
  OBVIOUS
<1>1. DOMAIN breakpointMap = {}
  BY DEF Init
<1> QED BY <1>1 DEF Init, Agree

(* BreakpointsInMemory, for breakpoints at least a word apart.                *)
THEOREM MapAndMemoryAgree ==
  ASSUME Spaced
  PROVE  Spec => []BreakpointsInMemory
<1>1. TypeOK /\ Agree(mem, breakpointMap) => BreakpointsInMemory
  <2> SUFFICES ASSUME TypeOK, Agree(mem, breakpointMap) PROVE BreakpointsInMemory
    OBVIOUS
  <2>1. \A a \in DOMAIN breakpointMap : DOMAIN breakpointMap[a] = 0..(Word - 1)
    BY DEF TypeOK, BreakpointTypes
  <2>2. ASSUME NEW b \in Address, ~Covered(b) PROVE mem[b] = "code"
    BY <2>2 DEF Agree, Covered
  <2>3. ASSUME NEW a \in DOMAIN breakpointMap
        PROVE  /\ mem[a] = "break"
               /\ \A i \in DOMAIN breakpointMap[a] : breakpointMap[a][i] = "code"
    <3>1. DOMAIN breakpointMap[a] = 0..(Word - 1)
      BY <2>1
    <3>2. mem[a] = "break" /\ \A i \in 0..(Word - 1) : breakpointMap[a][i] = "code"
      BY DEF Agree
    <3> QED BY <3>1, <3>2
  <2> QED BY <2>2, <2>3 DEF BreakpointsInMemory
<1> QED BY <1>1, InitAgrees, NextAgrees, TypesHold, PTL DEF Spec

-----------------------------------------------------------------------------
(* Transparency.                                                             *)

\* The exception of Transparent.
Excused == arch = "x86_64" /\ dropped

\* The tracee is where the program is, or (x86_64) has stopped behind the
\* breakpoint there.
Place ==
  \/ tracee \in {"exit", "gone"}
  \/ /\ lpc \in Instr
     /\ \/ pc = lpc
        \/ /\ arch = "x86_64" /\ ~Running
           /\ pc = lpc + 1 /\ lpc \in DOMAIN breakpointMap

\* No breakpoint hides where it is.
InSight == \A a \in DOMAIN breakpointMap : lpc \notin Inside(a)

OnTrack == ~strayed /\ Place /\ InSight

\* Until the first step the tracee does not move.
Fresh ==
  ~seenFirstSymbol => pc = Entry /\ lpc = Entry /\ tracee \in {"stop", "held"}

(* The first step is the first to let the tracee move.                       *)
LEMMA NextFresh == Held /\ Fresh /\ [Next]_vars => Fresh'
<1> SUFFICES ASSUME Held, Fresh, [Next]_vars PROVE Fresh'
  OBVIOUS
<1> USE DEF Fresh
<1>1. CASE seenFirstSymbol
  BY <1>1 DEF Next, Tracee, Server, Worker, Trap, Execute, Fault,
     EnqueueCommand, QueueBreakpoint, RemoveBreakpoint, TakeStdin, TakeStep,
     WaitStopped, WaitEnded, AddQueued, AllAdded, RemoveQueued, AllApplied,
     FirstStep, StepInstruction, Continue, StepOverLibrary, Resume,
     StepOnceMore, CommandEnds, flagVars, vars
<1>2. CASE ~seenFirstSymbol
  BY <1>2 DEF Next, Tracee, Server, Worker, Trap, Execute, Fault, Running,
     EnqueueCommand, QueueBreakpoint, RemoveBreakpoint, TakeStdin, TakeStep,
     WaitStopped, WaitEnded, AddQueued, AllAdded, RemoveQueued, AllApplied,
     FirstStep, StepInstruction, Continue, StepOverLibrary, Resume,
     StepOnceMore, CommandEnds, flagVars, traceeVars, historyVars, vars
<1> QED BY <1>1, <1>2

(* Where a breakpoint instruction is met, Stepper has set it there.          *)
LEMMA BreakIsOurs ==
  ASSUME Spaced, Agree(mem, breakpointMap), InSight, lpc \in Instr,
         mem[lpc] # "code"
  PROVE  lpc \in DOMAIN breakpointMap
<1>1. lpc \in Address
  BY WordsAreMemory
<1>2. PICK a \in DOMAIN breakpointMap : lpc \in a..(a + Word - 1)
  BY <1>1 DEF Agree
<1>3. a \in Nat /\ lpc \in Nat
  BY PlacesAreInstructions, WordsAreMemory DEF Agree
<1>4. CASE a = lpc
  BY <1>4
<1>5. CASE a # lpc
  <2>1. lpc \in Inside(a)
    BY <1>2, <1>3, <1>5, WordsAreMemory DEF Inside
  <2> QED BY <2>1 DEF InSight
<1> QED BY <1>4, <1>5

(* An instruction at which there is no breakpoint is as the program has it.   *)
LEMMA CodeIsIntact ==
  ASSUME Spaced, Enclosed, Agree(mem, breakpointMap), InSight, lpc \in Instr,
         pc = lpc, lpc \notin DOMAIN breakpointMap
  PROVE  Intact
<1> SUFFICES ASSUME NEW b \in pc..(pc + Size - 1) PROVE mem[b] = "code"
  BY DEF Intact
<1>1. pc \in Nat /\ b \in Nat /\ b < pc + Size /\ pc <= b
  BY WordsAreMemory
<1>2. b \in Address
  BY WordsAreMemory, StepperAssumption DEF Address
<1>3. ASSUME NEW a \in DOMAIN breakpointMap PROVE b \notin a..(a + Word - 1)
  <2>1. a \in BreakPlaces /\ a \in Nat /\ a # pc
    BY PlacesAreInstructions, WordsAreMemory DEF Agree
  <2>2. CASE a < pc
    <3>1. pc \notin Inside(a)
      BY DEF InSight
    <3> QED BY <1>1, <2>1, <2>2, <3>1, WordsAreMemory DEF Inside
  <2>3. CASE pc < a
    <3>1. pc + Size <= a
      BY <2>1, <2>3 DEF Enclosed
    <3> QED BY <1>1, <2>1, <3>1, WordsAreMemory
  <2> QED BY <1>1, <2>1, <2>2, <2>3
<1> QED BY <1>2, <1>3 DEF Agree

(* Before it resumes, Stepper sets the program counter back to where the      *)
(* program is; breakpoints a byte behind it do not mislead it.                *)
LEMMA SetBackToPlace ==
  ASSUME TypeOK, Agree(mem, breakpointMap), 1 < Word, Place, InSight,
         tracee = "held"
  PROVE  SetBack = lpc /\ lpc \in Instr
<1>1. /\ lpc \in Instr /\ lpc \in Nat \ {0} /\ arch \in {"x86_64", "aarch64"}
      /\ pc = lpc \/ (arch = "x86_64" /\ pc = lpc + 1 /\ lpc \in DOMAIN breakpointMap)
  BY WordsAreMemory, StepperAssumption DEF Place, TypeOK, TraceeTypes
<1>2. CASE arch = "aarch64"
  BY <1>1, <1>2 DEF SetBack, BreakPC
<1>3. CASE arch = "x86_64" /\ pc = lpc + 1 /\ lpc \in DOMAIN breakpointMap
  <2>1. BreakPC = lpc
    BY <1>1, <1>3 DEF BreakPC
  <2> QED BY <1>1, <1>3, <2>1 DEF SetBack, AtBreak
<1>4. CASE arch = "x86_64" /\ pc = lpc
  <2>1. BreakPC = lpc - 1
    BY <1>4 DEF BreakPC
  <2>2. ASSUME AtBreak PROVE FALSE
    <3>1. lpc - 1 \in DOMAIN breakpointMap
      BY <2>1, <2>2 DEF AtBreak
    <3>2. lpc - 1 \in Nat
      BY <1>1
    <3>3. lpc \in Inside(lpc - 1)
      BY <1>1, <3>2, WordsAreMemory DEF Inside
    <3> QED BY <3>1, <3>3 DEF InSight
  <2> QED BY <1>1, <1>4, <2>2 DEF SetBack
<1> QED BY <1>1, <1>2, <1>3, <1>4

(* Resuming leaves the program where it is, or behind the system call that is *)
(* skipped; nothing hides it there.                                           *)
LEMMA ResumeOnTrack ==
  ASSUME TypeOK, Spaced, Enclosed, 1 < Word, Agree(mem, breakpointMap),
         Held, OnTrack, NEW how \in {"cont", "single"}, Resume(how)
  PROVE  /\ ~strayed' /\ Place'
         /\ lpc' = Skipped /\ SetBack = lpc
         /\ \A a \in DOMAIN LeftMap : lpc' \notin Inside(a)
<1>1. SetBack = lpc /\ lpc \in Instr
  BY SetBackToPlace DEF OnTrack, Resume, Held
<1>2. lpc' = Skipped /\ pc' = Skipped /\ strayed' = strayed
  BY <1>1 DEF Resume
<1>3. Skipped \in Instr
  BY <1>1, LeftTypes
<1>4. Place'
  BY <1>2, <1>3 DEF Place
<1>5. ASSUME NEW a \in DOMAIN LeftMap, Skipped \in Inside(a) PROVE FALSE
  <2>1. Agree(Left, LeftMap) /\ a \in DOMAIN breakpointMap
    BY LeftAgrees
  <2>2. a \in BreakPlaces /\ a \in Nat /\ lpc \in Nat /\ lpc \notin Inside(a)
    BY <1>1, <2>1, PlacesAreInstructions, WordsAreMemory DEF Agree, OnTrack,
       InSight
  <2>3. Readable /\ Skipped = lpc + Size
    BY <1>1, <1>5, <2>2 DEF Skipped
  <2>4. lpc # a
    <3>1. lpc \in lpc..(lpc + Size - 1)
      BY <2>2, WordsAreMemory
    <3>2. Left[lpc] = "code"
      BY <1>1, <2>3, <3>1 DEF Readable
    <3> QED BY <2>1, <3>2 DEF Agree
  <2>5. CASE lpc < a
    <3>1. lpc + Size <= a
      BY <1>1, <2>2, <2>5 DEF Enclosed
    <3> QED BY <1>5, <2>2, <2>3, <3>1, WordsAreMemory DEF Inside
  <2>6. CASE a < lpc
    BY <1>1, <1>5, <2>2, <2>3, <2>6, WordsAreMemory DEF Inside
  <2> QED BY <2>2, <2>4, <2>5, <2>6
<1> QED BY <1>1, <1>2, <1>4, <1>5 DEF OnTrack

(* The tracee's own steps.                                                    *)
LEMMA TraceeOnTrack ==
  ASSUME TypeOK, Spaced, Enclosed, Agree(mem, breakpointMap), OnTrack, Tracee
  PROVE  OnTrack'
<1>1. Running /\ lpc \in Instr /\ pc = lpc
  BY DEF OnTrack, Place, Tracee, Trap, Execute, Fault, Running
<1>2. CASE Trap
  <2>1. lpc \in DOMAIN breakpointMap
    BY <1>1, <1>2, BreakIsOurs DEF Trap, OnTrack
  <2> QED BY <1>1, <1>2, <2>1
       DEF Trap, OnTrack, Place, InSight, Running, breakpointVars, historyVars
<1>3. CASE Execute
  <2>1. lpc \notin DOMAIN breakpointMap
    <3>1. lpc \in lpc..(lpc + Size - 1)
      BY <1>1, WordsAreMemory
    <3>2. mem[lpc] = "code"
      BY <1>1, <1>3, <3>1 DEF Execute, Intact
    <3> QED BY <3>2 DEF Agree
  <2>2. PICK next \in Flow[lpc] :
          /\ lpc' = next
          /\ pc' = IF next = Exit THEN pc ELSE next
          /\ tracee' = IF next = Exit THEN "exit"
                       ELSE IF tracee = "single" THEN "stop" ELSE tracee
    BY <1>1, <1>3 DEF Execute
  <2>3. next \in Instr \union {Exit}
    BY <1>1, StepperAssumption
  <2>4. Place'
    BY <2>2, <2>3 DEF Place
  <2>5. ASSUME NEW a \in DOMAIN breakpointMap, next \in Inside(a) PROVE FALSE
    <3>1. a \in BreakPlaces
      BY DEF Agree
    <3>2. lpc \in Inside(a) \union {a}
      BY <1>1, <2>5, <3>1 DEF Enclosed
    <3> QED BY <2>1, <3>2 DEF OnTrack, InSight
  <2>6. ~strayed' /\ breakpointMap' = breakpointMap
    BY <1>1, <1>3 DEF Execute, OnTrack, breakpointVars
  <2> QED BY <2>2, <2>4, <2>5, <2>6 DEF OnTrack, InSight, Inside
<1>4. CASE Fault
  <2>1. lpc \notin DOMAIN breakpointMap
    BY <1>1, <1>4 DEF Fault, Agree
  <2>2. Intact
    BY <1>1, <2>1, CodeIsIntact DEF OnTrack
  <2> QED BY <1>1, <1>4, <2>2
       DEF Fault, OnTrack, Place, InSight, Running, breakpointVars
<1> QED BY <1>2, <1>3, <1>4 DEF Tracee

(* Every step.                                                                *)
LEMMA NextOnTrack ==
  ASSUME Spaced, Enclosed, 1 < Word
  PROVE  TypeOK /\ Agree(mem, breakpointMap) /\ Held /\ Fresh
           /\ (Excused \/ OnTrack) /\ [Next]_vars /\ [SetElsewhere]_vars
           => (Excused \/ OnTrack)'
<1> SUFFICES ASSUME TypeOK, Agree(mem, breakpointMap), Held, Fresh,
                    Excused \/ OnTrack, [Next]_vars, [SetElsewhere]_vars
             PROVE  Excused' \/ OnTrack'
  OBVIOUS
<1>1. CASE Excused
  BY <1>1 DEF Excused, Next, Tracee, Server, Worker, Trap, Execute, Fault,
     EnqueueCommand, QueueBreakpoint, RemoveBreakpoint, TakeStdin, TakeStep,
     WaitStopped, WaitEnded, AddQueued, AllAdded, RemoveQueued, AllApplied,
     FirstStep, StepInstruction, Continue, StepOverLibrary, Resume,
     StepOnceMore, CommandEnds, historyVars, vars
<1> SUFFICES ASSUME OnTrack PROVE Excused' \/ OnTrack'
  BY <1>1
<1>2. CASE Tracee
  BY <1>2, TraceeOnTrack
<1>3. ASSUME UNCHANGED <<arch, pc, tracee, breakpointMap, lpc, strayed>>
      PROVE  OnTrack'
  BY <1>3 DEF OnTrack, Place, InSight, Running, Inside
<1>4. CASE WaitStopped \/ WaitEnded
  BY <1>4 DEF WaitStopped, WaitEnded, OnTrack, Place, InSight, Running, Inside,
     breakpointVars, historyVars
<1>5. CASE AddQueued
  <2>1. PICK a \in BreakPlaces : InsertBreak(mem, breakpointMap, a)
    BY <1>5 DEF AddQueued, Lowest, TypeOK, BreakpointTypes, BreakPlaces
  <2>2. DOMAIN breakpointMap' = DOMAIN breakpointMap \union {a}
    BY <2>1, InsertAgrees
  <2>3. /\ UNCHANGED <<arch, pc, tracee, lpc, strayed>>
        /\ \A b \in DOMAIN breakpointMap' \ DOMAIN breakpointMap : lpc \notin Inside(b)
    BY <1>5 DEF AddQueued, historyVars, SetElsewhere, vars, breakpointVars
  <2> QED BY <2>2, <2>3 DEF OnTrack, Place, InSight, Running, Inside
<1>6. CASE RemoveQueued
  <2>1. PICK a : /\ IF a \in DOMAIN breakpointMap THEN RemoveBreak(a)
                    ELSE UNCHANGED <<mem, breakpointMap>>
                 /\ dropped' = (dropped \/ (a = lpc /\ a \in DOMAIN breakpointMap
                                              /\ pc # lpc))
    BY <1>6 DEF RemoveQueued
  <2>2. UNCHANGED <<arch, pc, tracee, lpc, strayed>>
    BY <1>6 DEF RemoveQueued
  <2>3. CASE a \notin DOMAIN breakpointMap
    BY <1>3, <2>1, <2>2, <2>3
  <2>4. CASE a \in DOMAIN breakpointMap
    <3>1. DOMAIN breakpointMap' = DOMAIN breakpointMap \ {a}
      BY <2>1, <2>4, RemoveAgrees DEF RemoveBreak
    <3>2. CASE a = lpc /\ pc # lpc /\ arch = "x86_64"
      BY <2>1, <2>2, <2>4, <3>2 DEF Excused
    <3>3. CASE ~(a = lpc /\ pc # lpc /\ arch = "x86_64")
      BY <2>2, <3>1, <3>3 DEF OnTrack, Place, InSight, Running, Inside
    <3> QED BY <3>2, <3>3
  <2> QED BY <2>3, <2>4
<1>7. CASE FirstStep
  <2>1. DOMAIN breakpointMap' = DOMAIN breakpointMap \union {Entry}
    BY <1>7, InsertAgrees DEF FirstStep, BreakPlaces
  <2>2. /\ pc = Entry /\ lpc = Entry
        /\ UNCHANGED <<arch, pc, lpc, strayed>>
    BY <1>7 DEF FirstStep, Fresh, historyVars
  <2>3. Entry \in Instr /\ Entry \notin Inside(Entry)
    BY StepperAssumption, WordsAreMemory DEF Inside
  <2> QED BY <2>1, <2>2, <2>3 DEF OnTrack, Place, InSight, Inside
<1>8. CASE StepInstruction \/ Continue
  <2>1. /\ ~strayed' /\ Place'
        /\ \A a \in DOMAIN LeftMap : lpc' \notin Inside(a)
    BY <1>8, ResumeOnTrack DEF StepInstruction, Continue
  <2>2. breakpointMap' = LeftMap
    BY <1>8 DEF StepInstruction, Continue, DropHit
  <2> QED BY <2>1, <2>2 DEF OnTrack, InSight, Inside
<1>9. CASE StepOverLibrary
  <2>1. /\ ~strayed' /\ Place' /\ lpc' = Skipped /\ SetBack = lpc
        /\ \A a \in DOMAIN LeftMap : lpc' \notin Inside(a)
    BY <1>9, ResumeOnTrack DEF StepOverLibrary
  <2>2. SetBack + Size \in BreakPlaces
    BY <1>9 DEF StepOverLibrary, OverLibrary, BreakPlaces
  <2>3. DOMAIN breakpointMap' = DOMAIN LeftMap \union {SetBack + Size}
    BY <1>9, <2>2, LeftAgrees, InsertAgrees DEF StepOverLibrary
  <2>4. Skipped \notin Inside(SetBack + Size)
    BY LeftTypes, WordsAreMemory DEF Skipped, Inside
  <2> QED BY <2>1, <2>3, <2>4 DEF OnTrack, InSight, Inside
<1>10. CASE UNCHANGED vars
  BY <1>3, <1>10 DEF vars, traceeVars, breakpointVars, historyVars
<1>11. CASE Server \/ TakeStdin \/ TakeStep \/ AllAdded \/ AllApplied
              \/ StepOnceMore \/ CommandEnds
  BY <1>3, <1>11 DEF Server, EnqueueCommand, QueueBreakpoint, RemoveBreakpoint,
     TakeStdin, TakeStep, AllAdded, AllApplied, StepOnceMore, CommandEnds,
     traceeVars, breakpointVars, historyVars
<1> QED
  BY <1>2, <1>4, <1>5, <1>6, <1>7, <1>8, <1>9, <1>10, <1>11 DEF Next, Worker

(* Transparent, for breakpoints at least a word apart, in a program that comes *)
(* to what their words hide only by them, and as long as none is asked for    *)
(* whose word hides where the program is.                                     *)
THEOREM SteppingIsTransparent ==
  ASSUME Spaced, Enclosed, 1 < Word
  PROVE  Spec /\ [][SetElsewhere]_vars => []Transparent
<1>1. Init => Held /\ Fresh /\ (Excused \/ OnTrack)
  <2> SUFFICES ASSUME Init PROVE Held /\ Fresh /\ OnTrack
    OBVIOUS
  <2>1. DOMAIN breakpointMap = {} /\ Entry \in Instr
    BY StepperAssumption DEF Init
  <2> QED BY <2>1 DEF Init, Held, Fresh, OnTrack, Place, InSight
<1>2. Held /\ [Next]_vars => Held'
  BY NextHeld
<1>3. Excused \/ OnTrack => Transparent
  BY DEF Excused, OnTrack, Transparent
<1> QED
  BY <1>1, <1>2, <1>3, NextFresh, NextOnTrack, InitAgrees, NextAgrees,
     TypesHold, PTL DEF Spec
=============================================================================
