---------------------------- MODULE CommandQueue ----------------------------
(***************************************************************************)
(* What a debug session promises to whoever hands it commands: commands    *)
(* are numbered in the order they are accepted, are started in that order, *)
(* one at a time and none twice, and unless the session is closed every    *)
(* accepted command is started and finished.  Once closed, nothing starts. *)
(*                                                                         *)
(* This is the abstract specification that SessionQueue implements.        *)
(***************************************************************************)
EXTENDS Naturals, Sequences

VARIABLES
  accepted,  \* how many commands the session has accepted
  ran,       \* the numbers of the commands started, in the order they started
  busy,      \* a command is being executed
  closed     \* nothing will be started any more

vars == <<accepted, ran, busy, closed>>

Init ==
  /\ accepted = 0
  /\ ran = <<>>
  /\ busy = FALSE
  /\ closed = FALSE

\* A command may be accepted at any time, even by a session that is closed:
\* the caller is not told that it will never run.
Accept ==
  /\ accepted' = accepted + 1
  /\ UNCHANGED <<ran, busy, closed>>

\* The oldest command not yet started starts, when none is running.
Start ==
  /\ ~busy
  /\ ~closed
  /\ Len(ran) < accepted
  /\ ran' = Append(ran, Len(ran) + 1)
  /\ busy' = TRUE
  /\ UNCHANGED <<accepted, closed>>

Finish ==
  /\ busy
  /\ busy' = FALSE
  /\ UNCHANGED <<accepted, ran, closed>>

\* The session closes between two commands.
Close ==
  /\ ~busy
  /\ closed' = TRUE
  /\ UNCHANGED <<accepted, ran, busy>>

\* A command fails with an exception, which closes the session.
Abort ==
  /\ busy
  /\ busy' = FALSE
  /\ closed' = TRUE
  /\ UNCHANGED <<accepted, ran>>

Next == Accept \/ Start \/ Finish \/ Close \/ Abort

Spec == Init /\ [][Next]_vars

\* What the worker thread owes: an accepted command starts, a command that
\* started ends, one way or the other.
FairSpec == Spec /\ WF_vars(Start) /\ WF_vars(Finish \/ Abort)
=============================================================================
