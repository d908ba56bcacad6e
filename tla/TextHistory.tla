---------------------------- MODULE TextHistory ----------------------------
(***************************************************************************)
(* What an undo history promises: undoing and redoing move along the texts *)
(* the document has had.  An edit that is not undone on its own leaves no  *)
(* text behind, and old texts may be forgotten, oldest first.              *)
(***************************************************************************)
EXTENDS Sequences, SequencesExt

CONSTANT Texts

VARIABLES text, past, future

vars == <<text, past, future>>

Init == text \in Texts /\ past = <<>> /\ future = <<>>

\* An edit of its own.
Edit ==
  /\ future' = <<>>
  /\ past' \in {Append(kept, text) : kept \in Suffixes(past)}
  /\ text' \in Texts

\* An edit undone with the one before.
MergedEdit ==
  /\ past # <<>> /\ past' = past
  /\ text' \in Texts /\ future' = <<>>

Undo ==
  /\ past # <<>>
  /\ text' = Last(past) /\ past' = Front(past) /\ future' = Append(future, text)

Redo ==
  /\ future # <<>>
  /\ text' = Last(future) /\ future' = Front(future) /\ past' = Append(past, text)

Next == Edit \/ MergedEdit \/ Undo \/ Redo

Spec == Init /\ [][Next]_vars
=============================================================================
