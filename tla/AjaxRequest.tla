---------------------------- MODULE AjaxRequest ----------------------------
(***************************************************************************)
(* One request of the page through jQuery: the fake XMLHttpRequest that    *)
(* $.get and $.post return, the lists of callbacks behind its done, fail   *)
(* and complete, and the transport under it.  penguinTrace gives a request *)
(* its handler of success, attaches one of failure when the call has       *)
(* returned, and its handlers may throw.  An event of the browser runs to  *)
(* its end, one handler after the other, before the next.                  *)
(***************************************************************************)
EXTENDS Integers, Sequences, SequencesExt

CONSTANT MaxHandlers   \* handlers of a request, with those that handlers attach

\* completed:     undefined ("none") before the request is sent, "no", "yes"
\* transport:     still referenced; callback: the transport's, not yet null
\* state:         of the deferred; active: jQuery.active
\* lists:         the deferred's callbacks for done and fail, and completeDeferred
\* attached, ran: the handlers given to each list, and those it has called
\* calls:         the functions under way, the innermost first, and what each does
\*                next: "fire" of a list its next handler, "done" what is left of
\*                it, and penguinTrace's call, once $.get has returned, its "fail"
VARIABLE ajax

Lists == {"done", "fail", "complete"}

\* What a handler does besides its work: nothing, throw, abort the request or
\* attach another handler, of success if not of failure.
Handlers == {"returns", "throws", "aborts", "attaches"}

-----------------------------------------------------------------------------
(* jQuery.Callbacks("once memory").  index: callbacks of list already called. *)

Callbacks(list) ==
  [list |-> list, spent |-> FALSE, memory |-> FALSE, firing |-> FALSE,
   locked |-> FALSE, index |-> 0, queue |-> 0]

Disabled(c) ==
  [c EXCEPT !.locked = TRUE, !.queue = 0, !.list = <<>>, !.spent = TRUE,
            !.memory = FALSE]

Other(l) == IF l = "done" THEN "fail" ELSE "done"

Started(c) ==
  [c EXCEPT !.locked = TRUE, !.firing = TRUE, !.memory = TRUE, !.queue = @ - 1]

\* fire begins, with something queued: the list is locked from now on.
Fire(a, l) ==
  [a EXCEPT !.lists[l] = Started(a.lists[l]), !.calls = Cons(<<"fire", l>>, @)]

Longer(c, h) == [c EXCEPT !.list = Append(@, h)]

\* A list with a handler to call for what it remembers.
Again(c, h) ==
  [c EXCEPT !.index = Len(c.list), !.queue = @ + 1, !.list = Append(@, h)]

\* A mutant fires a list that is firing.
AddAnyTime(a, l, h) ==
  LET c == a.lists[l]
      given == [a EXCEPT !.attached[l] = Append(@, h)]
  IN IF c.spent THEN given
     ELSE IF c.memory
     THEN Fire([given EXCEPT !.lists[l] = Again(c, h)], l)
     ELSE [given EXCEPT !.lists[l] = Longer(c, h)]

\* add: a list that has fired calls what it is given at once.
Add(a, l, h) ==
  LET c == a.lists[l]
      given == [a EXCEPT !.attached[l] = Append(@, h)]
  IN IF c.spent THEN given
     ELSE IF c.memory /\ ~c.firing
     THEN Fire([given EXCEPT !.lists[l] = Again(c, h)], l)
     ELSE [given EXCEPT !.lists[l] = Longer(c, h)]

FireWith(a, l) ==
  LET c == a.lists[l]
      queued == [a EXCEPT !.lists[l] = [c EXCEPT !.queue = @ + 1]]
  IN IF c.locked THEN a ELSE IF c.firing THEN queued ELSE Fire(queued, l)

-----------------------------------------------------------------------------
(* jQuery.ajax and its transport *)

\* done: repeats are ignored.  The list of the outcome comes first.
Done(a, isSuccess) ==
  IF a.completed = "yes" THEN a
  ELSE FireWith([a EXCEPT !.completed = "yes", !.transport = FALSE,
                          !.calls = Cons(<<"done", "complete">>, @)],
                IF isSuccess THEN "done" ELSE "fail")

\* The transport's abort clears its callback, so that no event follows.
Abort(a) ==
  Done([a EXCEPT !.callback = IF a.transport THEN FALSE ELSE @], FALSE)

\* The deferred's own callback comes first and disables the other list.  An
\* exception ends every function under way, and leaves their lists as they are.
Called(a, l, h) ==
  LET counted == [a EXCEPT !.ran[l] = Append(@, h)] IN
  CASE h = "settle" ->
         [a EXCEPT !.state = IF l = "done" THEN "resolved" ELSE "rejected",
                   !.lists[Other(l)] = Disabled(a.lists[Other(l)])]
    [] h = "returns" -> counted
    [] h = "throws" -> [counted EXCEPT !.calls = <<>>]
    [] h = "aborts" -> Abort(counted)
    [] h = "attaches" -> Add(counted, IF l = "fail" THEN l ELSE "done", "returns")

Attached(a) == Len(a.attached["done"] \o a.attached["fail"] \o a.attached["complete"])

AjaxInit ==
  ajax = [completed |-> "none", transport |-> FALSE, callback |-> FALSE,
          state |-> "pending", active |-> 0, calls |-> <<>>,
          lists |-> [l \in Lists |->
            Callbacks(IF l = "complete" THEN <<>> ELSE <<"settle">>)],
          attached |-> [l \in Lists |-> <<>>], ran |-> [l \in Lists |-> <<>>]]

-----------------------------------------------------------------------------
(* Events of the browser *)

Idle == ajax.calls = <<>>

\* $.get or $.post with its handler of success, then fail.  What send throws
\* is a failure, before the handler of failure is there.
Request ==
  \E success, failure, complete \in Handlers, sends \in BOOLEAN :
    LET given == Add(Add(ajax, "complete", complete), "done", success)
        ready == [given EXCEPT !.completed = "no", !.transport = TRUE,
                               !.callback = TRUE, !.active = @ + 1,
                               !.calls = <<<<"fail", failure>>>>]
    IN /\ Idle /\ ajax.completed = "none"
       /\ ajax' = IF sends THEN ready ELSE Done(ready, FALSE)

\* load, or error and timeout: the answer came with a status and data that
\* convert, or not.  After send has thrown there is no event.
Answer ==
  \E isSuccess \in BOOLEAN :
    /\ Idle /\ ajax.completed = "no" /\ ajax.callback
    /\ ajax' = Done([ajax EXCEPT !.callback = FALSE], isSuccess)

\* By a caller, or by a timeout of jQuery's own.
AbortRequest ==
  /\ Idle /\ ajax.completed # "none"
  /\ ajax' = Abort(ajax)

\* done, fail or always on what $.get returned, at any time.
Attach ==
  \E l \in {"done", "fail"}, h \in Handlers :
    /\ Idle /\ ajax.completed # "none" /\ Attached(ajax) < MaxHandlers
    /\ ajax' = Add(ajax, l, h)

-----------------------------------------------------------------------------
(* Steps of the event under way *)

Innermost(what) == ~Idle /\ Head(ajax.calls) = what

Left == [ajax EXCEPT !.calls = Tail(@)]

\* The loop of fire calls the next handler.
Call ==
  \E l \in Lists :
    LET c == ajax.lists[l] IN
    /\ Innermost(<<"fire", l>>) /\ c.index < Len(c.list)
    /\ ajax' = Called([ajax EXCEPT !.lists[l] = [c EXCEPT !.index = @ + 1]], l,
                      c.list[c.index + 1])

\* And goes on with what is queued, or leaves the list empty with its memory.
Fired ==
  \E l \in Lists :
    LET c == ajax.lists[l] IN
    /\ Innermost(<<"fire", l>>) /\ c.index >= Len(c.list)
    /\ ajax' = IF c.queue > 0
               THEN [ajax EXCEPT !.lists[l] = [c EXCEPT !.index = 0, !.queue = @ - 1]]
               ELSE [Left EXCEPT !.lists[l] =
                      [c EXCEPT !.index = 0, !.firing = FALSE, !.list = <<>>]]

\* done goes on to the handlers of completion, and then counts.
Complete ==
  /\ Innermost(<<"done", "complete">>)
  /\ ajax' = FireWith([Left EXCEPT !.calls = Cons(<<"done", "count">>, @)], "complete")

Count ==
  /\ Innermost(<<"done", "count">>)
  /\ ajax' = [Left EXCEPT !.active = @ - 1]

\* $.get has returned.
Fail ==
  \E h \in Handlers :
    /\ Innermost(<<"fail", h>>)
    /\ ajax' = Add(Left, "fail", h)

AjaxNext ==
  \/ Request \/ Answer \/ AbortRequest \/ Attach
  \/ Call \/ Fired \/ Complete \/ Count \/ Fail

AjaxSpec == AjaxInit /\ [][AjaxNext]_ajax

-----------------------------------------------------------------------------
\* An exception left the list as if it were firing.
Stuck == \E l \in Lists : ajax.lists[l].firing

(* However a request ends, and whatever its handlers do: the handlers of one *)
(* outcome are called, none of the other; each once, in the order they were  *)
(* attached, before the answer or after; and when an event is over, unless   *)
(* one has thrown, all are, the handlers of completion too, and the request  *)
(* is no longer counted active.                                              *)
HandlersRunOnce ==
  LET side == IF ajax.state = "resolved" THEN "done" ELSE "fail" IN
  /\ ajax.state = "pending" => \A l \in Lists : ajax.ran[l] = <<>>
  /\ ajax.ran[Other(side)] = <<>>
  /\ \A l \in Lists : IsPrefix(ajax.ran[l], ajax.attached[l])
  /\ Idle => (ajax.state = "pending" <=> ajax.completed # "yes")
  /\ Idle /\ ajax.completed = "yes" /\ ~Stuck =>
       /\ \A l \in {side, "complete"} : ajax.ran[l] = ajax.attached[l]
       /\ ajax.active = 0
=============================================================================
