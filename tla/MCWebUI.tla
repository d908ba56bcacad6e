------------------------------ MODULE MCWebUI ------------------------------
(***************************************************************************)
(* The programs and the sets of user events of the instance of WebUIProps  *)
(* that TLC checks.                                                        *)
(***************************************************************************)
EXTENDS WebUIProps

\* A section and a symbol before the first of two instructions, each of a line.
TwoLines == [listing |-> <<-1, -1, 4, 5>>, lineOf |-> (4 :> 1) @@ (5 :> 2),
             source |-> <<1, 2>>, returns |-> {}]

\* One instruction at an address of the other program, of the second line.
OneLine == [listing |-> <<-1, 4>>, lineOf |-> 4 :> 2, source |-> <<1, 2>>,
            returns |-> {4}]

TwoPrograms == {TwoLines, OneLine}

\* What users do: those who wait for each answer get further.
Patient(n, events) == [events |-> events, clicks |-> n, waits |-> TRUE]
Hasty(events) == [events |-> events, clicks |-> 2, waits |-> FALSE]

SomeUsers ==
  {Patient(5, {"play", "gutter", "skip"}), Patient(3, {"play", "loop", "stop"}),
   Patient(4, {"play", "edit", "example"}), Patient(4, {"play", "popup"}),
   Patient(4, {"play", "reload", "stop"}), Patient(4, {"play", "upload", "stdin"}),
   Patient(3, {"play", "reload", "stdin"}),
   Patient(3, {"play", "gutter", "stop", "lost"}),
   Hasty({"play", "stop", "loop"}), Hasty({"play", "gutter"}),
   Hasty({"play", "edit", "upload"}), Hasty({"play", "reload", "lost"})}
=============================================================================
