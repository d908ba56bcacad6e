------------------------------ MODULE MCStepper ------------------------------
(***************************************************************************)
(* The programs of the instances of StepperProps that TLC checks.          *)
(***************************************************************************)
EXTENDS StepperProps, TLC

CONSTANT End

\* A loop of a read at 2, a library call at 4, a blocked system call at 6 and
\* a branch at 8; main's return at 10, and a fault at 12.
LoopInstr == {2, 4, 6, 8, 10, 12}
LoopFlow == (2 :> {4}) @@ (4 :> {6}) @@ (6 :> {8}) @@ (8 :> {2, 10, 12})
              @@ (10 :> {End}) @@ (12 :> {})

\* It is a program the theorems of StepperProofs are about.
ASSUME LoopAssumption ==
  Instr = LoopInstr => /\ Spaced /\ Enclosed /\ 1 < Word
                       /\ \A a \in Blocked : a + Size \notin Blocked

\* A loop of instructions next to each other, none of them special.
TightInstr == 2..5
TightFlow == (2 :> {3}) @@ (3 :> {4}) @@ (4 :> {4, 5}) @@ (5 :> {End})
=============================================================================
