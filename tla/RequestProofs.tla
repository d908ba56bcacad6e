--------------------------- MODULE RequestProofs ---------------------------
(***************************************************************************)
(* The two ends of a request.  For every buffer, number of tries and       *)
(* request: what the web server's reader of a connection hands to the      *)
(* queue is whole, what it gives up on was not sent, and no failed read is *)
(* what it ends with.  And for every number of handlers of a request of    *)
(* the page: those of its outcome are called, once each and in order.      *)
(***************************************************************************)
EXTENDS RequestReader, AjaxRequest, TLAPS

TypeOK ==
  /\ request \in Requests
  /\ sent \in Nat /\ gone \in BOOLEAN /\ taken \in Nat
  /\ pc \in {"first", "loop", "read", "done"}
  /\ n \in -1..Buffer
  /\ curLength \in Nat /\ gotAll \in BOOLEAN /\ tries \in Nat
  /\ outcome \in {"none", "taken", "failed", "closed"}

\* A read takes what was sent, and the first is before anything is counted.
Order ==
  /\ taken <= sent /\ sent <= Total
  /\ pc = "first" => taken = 0 /\ curLength = 0 /\ tries = 0 /\ ~gotAll
  /\ pc # "done" => outcome = "none"

\* Still reading: at a read, or at the condition with a read to count.
Reading == pc = "read" \/ (pc = "loop" /\ ~gotAll)

\* While it reads, the count is of the bytes read, or has left the request
\* behind, and is not of a whole request.
Counting ==
  /\ pc = "read" => ~gotAll /\ (curLength = taken \/ curLength > Total)
  /\ pc = "loop" /\ ~gotAll => curLength + Bytes(n) = taken \/ curLength > Total
  /\ Reading => ~IsAll(curLength)

\* Tries are counted at the end of what was sent.
AtEnd ==
  /\ tries > 0 => gone /\ sent = taken
  /\ pc = "loop" /\ ~gotAll /\ n = 0 => gone /\ sent = taken

GivenUp == (gone /\ sent < Total) \/ curLength > Total

\* What it is about to end with.
Ending ==
  pc = "loop" /\ gotAll =>
    /\ n >= 0
    /\ n = 0 => (Regular => GivenUp)
    /\ n > 0 /\ n # Buffer => (Regular => taken = Total /\ curLength = Total)
    /\ n = Buffer /\ request.method = "POST" /\ request.given => curLength >= Total

ReaderInv ==
  /\ TypeOK /\ Order /\ Counting /\ AtEnd /\ Ending
  /\ TakenIffWhole /\ NeverFails

-----------------------------------------------------------------------------
(* Lengths are numbers, and a header has a byte.                             *)
LEMMA TotalType ==
  ASSUME request \in Requests
  PROVE  /\ request.header \in Nat \ {0} /\ request.content \in Nat
         /\ Total \in Nat \ {0} /\ request.header <= Total
         /\ request.given \in BOOLEAN
  BY ReaderAssumption DEF Requests, Total

(* What a read returns (read, WebServer.cpp:311 and 375): of what was sent   *)
(* and not yet read, or 0 at the end of it, or nothing yet.                  *)
LEMMA ReadsResult ==
  ASSUME TypeOK, Order, NEW result \in -1..Buffer, Reads(result)
  PROVE  /\ Bytes(result) \in Nat /\ taken + Bytes(result) \in Nat
         /\ taken + Bytes(result) <= sent
         /\ result = 0 => gone /\ sent = taken
         /\ gone /\ sent = taken => result = 0
  BY ReaderAssumption DEF TypeOK, Order, Reads, Bytes, Least

(* A count that ends the reading of a request of penguinTrace's pages is of  *)
(* the whole of it (WebServer.cpp:349-371).                                  *)
LEMMA WholeIsAll ==
  ASSUME TypeOK, Regular, NEW length \in Nat
  PROVE  /\ length = Total => IsAll(length)
         /\ IsAll(length) /\ ~gotAll /\ length <= Total => length = Total
         /\ IsAll(length) /\ length > Total => request.method = "GET"
  BY TotalType DEF TypeOK, Regular, IsAll, Total

(* The reader starts with nothing sent and nothing read.                     *)
LEMMA InitInv == Init => ReaderInv
  <1> SUFFICES ASSUME Init PROVE ReaderInv
      OBVIOUS
  <1>1. TypeOK
    <2>1. gone \in BOOLEAN /\ gotAll \in BOOLEAN /\ request \in Requests
          BY DEF Init
    <2>2. n \in -1..Buffer
          BY ReaderAssumption DEF Init
    <2> QED BY <2>1, <2>2 DEF Init, TypeOK
  <1>2. Order
        BY <1>1, TotalType DEF Init, Order, TypeOK
  <1>3. Counting /\ AtEnd /\ Ending /\ TakenIffWhole /\ NeverFails
        BY DEF Init, Counting, Reading, AtEnd, Ending, TakenIffWhole, NeverFails
  <1> QED BY <1>1, <1>2, <1>3 DEF ReaderInv

-----------------------------------------------------------------------------
(* What the browser does leaves what was read: it can send only while it is  *)
(* connected, so that a connection given up stays one.                       *)
LEMMA BrowserInv == ASSUME ReaderInv, Send \/ Leave PROVE ReaderInv'
  <1>1. /\ UNCHANGED <<request, taken, pc, n, curLength, gotAll, tries, outcome>>
        /\ sent' \in Nat /\ sent <= sent' /\ sent' <= Total
        /\ gone' \in BOOLEAN /\ (gone => gone' /\ sent' = sent)
    <2>1. /\ Total \in Nat /\ sent \in Nat /\ sent <= Total /\ gone \in BOOLEAN
          BY TotalType DEF ReaderInv, TypeOK, Order
    <2>2. CASE Send
      <3>1. sent' \in (sent + 1)..Total /\ ~gone /\ gone' = gone
            BY <2>2 DEF Send
      <3> QED BY <2>1, <2>2, <3>1 DEF Send
    <2>3. CASE Leave
          BY <2>1, <2>3 DEF Leave
    <2> QED BY <2>2, <2>3
  <1>2. Total' = Total /\ (Regular' <=> Regular) /\ (IsAll(curLength)' <=> IsAll(curLength))
        BY <1>1 DEF Total, Regular, IsAll
  <1>3. TypeOK'
        BY <1>1 DEF ReaderInv, TypeOK
  <1>4. Order'
        BY <1>1, <1>2 DEF ReaderInv, Order, TypeOK
  <1>5. Counting'
        BY <1>1, <1>2 DEF ReaderInv, Counting, Reading, Bytes
  <1>6. AtEnd' /\ Ending'
        BY <1>1, <1>2 DEF ReaderInv, AtEnd, Ending, GivenUp
  <1>7. TakenIffWhole' /\ NeverFails'
        BY <1>1, <1>2 DEF ReaderInv, TakenIffWhole, NeverFails
  <1> QED BY <1>3, <1>4, <1>5, <1>6, <1>7 DEF ReaderInv

(* The first read (WebServer.cpp:311-325).                                   *)
LEMMA FirstReadInv == ASSUME ReaderInv, FirstRead PROVE ReaderInv'
  <1>1. PICK result \in -1..Buffer :
          /\ Reads(result) /\ n' = result /\ taken' = taken + Bytes(result)
          /\ gotAll' = (result = 0)
        BY DEF FirstRead
  <1>2. /\ UNCHANGED <<request, sent, gone, curLength, tries, outcome>>
        /\ pc = "first" /\ pc' = "loop" /\ taken = 0 /\ curLength = 0 /\ tries = 0
        /\ ~gotAll /\ outcome = "none" /\ TypeOK /\ Order
        BY DEF FirstRead, ReaderInv, Order
  <1>3. /\ Total' = Total /\ Total \in Nat \ {0} /\ request.header > 0
        /\ (Regular' <=> Regular)
        BY <1>2, TotalType DEF TypeOK, Total, Regular
  <1>4. /\ Bytes(result) \in Nat /\ taken' \in Nat /\ taken' <= sent
        /\ result = 0 => gone /\ sent = 0
        BY <1>1, <1>2, ReadsResult
  <1>5. TypeOK'
        BY <1>1, <1>2, <1>4 DEF TypeOK
  <1>6. Order'
        BY <1>2, <1>3, <1>4 DEF Order
  <1>7. Counting'
        BY <1>1, <1>2, <1>3, <1>4, TotalType DEF Counting, Reading, IsAll, Bytes, TypeOK
  <1>8. AtEnd' /\ Ending'
        BY <1>1, <1>2, <1>3, <1>4, ReaderAssumption DEF AtEnd, Ending, GivenUp, TypeOK
  <1>9. TakenIffWhole' /\ NeverFails'
        BY <1>2 DEF TakenIffWhole, NeverFails
  <1> QED BY <1>5, <1>6, <1>7, <1>8, <1>9 DEF ReaderInv

(* Another read (WebServer.cpp:373-386).  When it is one too many, nothing   *)
(* more is to come, and what has come is not a whole request.                *)
LEMMA ReadInv == ASSUME ReaderInv, Read PROVE ReaderInv'
  <1>1. PICK result \in -1..Buffer :
          /\ Reads(result) /\ taken' = taken + Bytes(result)
          /\ IF tries > Tries THEN n' = 0 /\ gotAll' = TRUE
             ELSE n' = result /\ gotAll' = FALSE
        BY DEF Read
  <1>2. /\ UNCHANGED <<request, sent, gone, curLength, tries, outcome>>
        /\ pc = "read" /\ pc' = "loop"
        /\ TypeOK /\ Order /\ ~gotAll /\ outcome = "none"
        /\ (curLength = taken \/ curLength > Total) /\ ~IsAll(curLength)
        BY DEF Read, ReaderInv, Order, Counting, Reading
  <1>3. /\ Total' = Total /\ Total \in Nat \ {0}
        /\ (Regular' <=> Regular) /\ tries \in Nat /\ Tries \in Nat
        BY <1>2, TotalType, ReaderAssumption DEF TypeOK, Total, Regular
  <1>4. /\ Bytes(result) \in Nat /\ taken' \in Nat /\ taken' <= sent
        /\ result = 0 => gone /\ sent = taken
        /\ gone /\ sent = taken => result = 0
        BY <1>1, <1>2, ReadsResult
  <1>5. tries > 0 => gone /\ sent = taken /\ result = 0
        BY <1>4 DEF ReaderInv, AtEnd
  <1>6. gotAll' \in BOOLEAN /\ (gotAll' => tries > Tries) /\ (~gotAll' => ~(tries > Tries))
        BY <1>1
  <1>7. (gotAll' => n' = 0 /\ tries > 0) /\ (~gotAll' => n' = result)
        BY <1>1, <1>3, <1>6
  <1>8. tries > 0 /\ Regular => GivenUp
    <2> SUFFICES ASSUME tries > 0, Regular, ~(curLength > Total) PROVE sent < Total
        BY <1>5 DEF GivenUp
    <2>1. curLength = sent /\ sent <= Total /\ sent \in Nat
          BY <1>2, <1>5 DEF Order, TypeOK
    <2>2. sent # Total
          BY <2>1, <1>2, WholeIsAll
    <2> QED BY <2>1, <2>2, <1>3
  <1>9. TypeOK'
    <2>1. n' \in -1..Buffer /\ gotAll' \in BOOLEAN
          BY <1>1, <1>6, ReaderAssumption
    <2> QED BY <2>1, <1>2, <1>4 DEF TypeOK
  <1>10. Order'
        BY <1>2, <1>3, <1>4 DEF Order
  <1>11. Counting'
    <2>1. ~gotAll' => curLength' + Bytes(n)' = taken' \/ curLength' > Total'
          BY <1>7, <1>1, <1>2, <1>3, <1>4 DEF Bytes, TypeOK
    <2>2. ~gotAll' => ~IsAll(curLength)'
          BY <1>2, <1>3 DEF IsAll
    <2> QED BY <1>2, <2>1, <2>2 DEF Counting, Reading
  <1>12. AtEnd'
    <2>1. tries' > 0 => gone' /\ sent' = taken'
          BY <1>1, <1>2, <1>5 DEF Bytes, TypeOK
    <2>2. ~gotAll' /\ n' = 0 => gone' /\ sent' = taken'
          BY <1>7, <1>1, <1>2, <1>4 DEF Bytes, TypeOK
    <2> QED BY <2>1, <2>2 DEF AtEnd
  <1>13. Ending'
    <2>1. GivenUp' <=> GivenUp
          BY <1>2, <1>3 DEF GivenUp
    <2>2. Buffer # 0
          BY ReaderAssumption
    <2> QED BY <1>3, <1>8, <1>7, <2>1, <2>2 DEF Ending
  <1>14. TakenIffWhole' /\ NeverFails'
        BY <1>2 DEF TakenIffWhole, NeverFails
  <1> QED BY <1>9, <1>10, <1>11, <1>12, <1>13, <1>14 DEF ReaderInv

-----------------------------------------------------------------------------
(* A turn of the loop (WebServer.cpp:326-373).                               *)
LEMMA TurnInv == ASSUME ReaderInv, Turn PROVE ReaderInv'
  <1> DEFINE length == curLength + Bytes(n)
  <1>1. /\ UNCHANGED <<request, sent, gone, taken, n, outcome>>
        /\ pc = "loop" /\ (n = Buffer \/ ~gotAll)
        /\ tries' = IF ~gotAll /\ n = 0 THEN tries + 1 ELSE tries
        /\ curLength' = length /\ gotAll' = IsAll(length)
        /\ pc' = IF IsAll(length) THEN "loop" ELSE "read"
        /\ TypeOK /\ Order /\ Counting /\ outcome = "none"
        BY DEF Turn, ReaderInv, Order
  <1>2. /\ Total \in Nat \ {0} /\ request.header <= Total /\ Buffer \in Nat \ {0}
        /\ request.header \in Nat
        /\ Bytes(n) \in Nat /\ n \in Int /\ curLength \in Nat /\ length \in Nat
        /\ gotAll \in BOOLEAN /\ request.given \in BOOLEAN
        BY <1>1, TotalType, ReaderAssumption DEF TypeOK, Bytes
  <1>3. /\ Total' = Total /\ (Regular' <=> Regular)
        BY <1>1 DEF Total, Regular
  <1>4. IsAll(length) \in BOOLEAN
        BY <1>2 DEF IsAll
  <1>5. n <= 0 => ~gotAll /\ length = curLength /\ ~IsAll(length)
    <2>1. n <= 0 => ~gotAll /\ Bytes(n) = 0
          BY <1>1, <1>2 DEF Bytes
    <2> QED BY <1>1, <1>2, <2>1 DEF Counting, Reading
  <1>6. gotAll => n = Buffer /\ n > 0
        BY <1>1, <1>2
  <1>7. ~gotAll => length = taken \/ length > Total
        BY <1>1, <1>2 DEF Counting, TypeOK
  <1>8. gotAll /\ ~IsAll(length) => length > Total
        BY <1>1, <1>2, <1>6 DEF IsAll, ReaderInv, Ending, Bytes
  <1>9. (gotAll' <=> IsAll(length)) /\ gotAll' \in BOOLEAN
        BY <1>1, <1>4
  <1>10. TypeOK'
    <2>1. pc' \in {"loop", "read"} /\ tries' \in Nat
          BY <1>1 DEF TypeOK
    <2> QED BY <1>1, <1>2, <1>9, <2>1 DEF TypeOK
  <1>11. Order'
        BY <1>1, <1>3 DEF Order
  <1>12. Counting'
    <2>1. CASE IsAll(length)
          BY <2>1, <1>1, <1>9 DEF Counting, Reading
    <2>2. CASE ~IsAll(length)
      <3>1. length = taken \/ length > Total
            BY <2>2, <1>7, <1>8, <1>2
      <3>2. ~IsAll(curLength)'
            BY <2>2, <1>1, <1>2, <1>3, <1>9 DEF IsAll
      <3> QED BY <2>2, <3>1, <3>2, <1>1, <1>3, <1>9 DEF Counting, Reading
    <2> QED BY <2>1, <2>2
  <1>13. AtEnd'
    <2>1. tries' > 0 => tries > 0 \/ (~gotAll /\ n = 0)
          BY <1>1
    <2>2. pc' = "loop" => gotAll'
          BY <1>1, <1>9
    <2> QED BY <1>1, <2>1, <2>2 DEF AtEnd, ReaderInv
  <1>14. Ending'
    <2> SUFFICES ASSUME IsAll(length) PROVE
          /\ n > 0
          /\ n # Buffer /\ Regular => taken = Total /\ length = Total
          /\ request.method = "POST" /\ request.given => length >= Total
        BY <1>1, <1>2, <1>3, <1>9 DEF Ending
    <2>1. n > 0
          BY <1>5, <1>2
    <2>2. n # Buffer /\ Regular => taken = Total /\ length = Total
      <3> SUFFICES ASSUME n # Buffer, Regular PROVE taken = Total /\ length = Total
          OBVIOUS
      <3>1. ~gotAll
            BY <1>6
      <3>2. length > Total => request.method = "GET"
            BY <1>1, <1>2, WholeIsAll
      <3>3. ~(length > Total)
        <4> SUFFICES ASSUME length > Total PROVE FALSE
            OBVIOUS
        <4>1. curLength > Total
              BY <3>1, <1>1, <1>2 DEF Counting, Order, TypeOK
        <4>2. request.method = "GET" /\ ~(curLength < request.header)
              BY <4>1, <3>2, <1>2
        <4>3. IsAll(curLength)
              BY <4>2 DEF IsAll
        <4> QED BY <4>3, <3>1, <1>1 DEF Counting, Reading
      <3>4. length = taken
            BY <3>1, <3>3, <1>7
      <3>5. length = Total
            BY <3>1, <3>3, <1>1, <1>2, WholeIsAll
      <3> QED BY <3>4, <3>5
    <2>3. request.method = "POST" /\ request.given => length >= Total
          BY <1>1, <1>2, <1>6 DEF IsAll, ReaderInv, Ending, Bytes
    <2> QED BY <2>1, <2>2, <2>3
  <1>15. TakenIffWhole' /\ NeverFails'
        BY <1>1 DEF TakenIffWhole, NeverFails
  <1> QED BY <1>10, <1>11, <1>12, <1>13, <1>14, <1>15 DEF ReaderInv

(* The loop is left (WebServer.cpp:388-427).                                 *)
LEMMA FinishInv == ASSUME ReaderInv, Finish PROVE ReaderInv'
  <1>1. /\ UNCHANGED <<request, sent, gone, taken, n, curLength, gotAll, tries>>
        /\ pc = "loop" /\ pc' = "done" /\ n # Buffer /\ gotAll
        /\ outcome' = IF n > 0 THEN "taken" ELSE IF n < 0 THEN "failed" ELSE "closed"
        /\ TypeOK /\ Order /\ Ending
        BY DEF Finish, ReaderInv
  <1>2. Total' = Total /\ (Regular' <=> Regular)
        BY <1>1 DEF Total, Regular
  <1>3. TypeOK'
        BY <1>1 DEF TypeOK
  <1>4. Order' /\ Counting' /\ AtEnd' /\ Ending'
        BY <1>1, <1>2 DEF Order, Counting, Reading, AtEnd, Ending, ReaderInv
  <1>5. n \in Int /\ n >= 0
        BY <1>1, ReaderAssumption DEF Ending, TypeOK
  <1>6. TakenIffWhole' /\ NeverFails'
    <2>1. CASE n > 0
          BY <1>1, <1>2, <1>5, <2>1 DEF Ending, TakenIffWhole, NeverFails
    <2>2. CASE n = 0
          BY <1>1, <1>2, <1>5, <2>2 DEF Ending, GivenUp, TakenIffWhole, NeverFails
    <2> QED BY <1>5, <2>1, <2>2
  <1> QED BY <1>3, <1>4, <1>6 DEF ReaderInv

(* The invariant holds in every state.                                       *)
THEOREM ReaderInvariant == Spec => []ReaderInv
  <1>1. ReaderInv /\ [Next]_vars => ReaderInv'
    <2> SUFFICES ASSUME ReaderInv, [Next]_vars PROVE ReaderInv'
        OBVIOUS
    <2>1. CASE UNCHANGED vars
          BY <2>1 DEF vars, ReaderInv, TypeOK, Order, Counting, Reading, AtEnd, Ending,
                      GivenUp, TakenIffWhole, NeverFails, Total, Regular, IsAll, Bytes
    <2> QED BY <2>1, BrowserInv, FirstReadInv, ReadInv, TurnInv, FinishInv DEF Next
  <1> QED BY <1>1, InitInv, PTL DEF Spec

(* What goes to the queue of requests is whole and was read once, and what   *)
(* is given up had not been sent, however the request comes in pieces        *)
(* (readRequest, WebServer.cpp:299-428).                                     *)
THEOREM WholeRequests == Spec => []TakenIffWhole
  <1>1. ReaderInv => TakenIffWhole
        BY DEF ReaderInv
  <1> QED BY <1>1, ReaderInvariant, PTL

(* The branch for a read that failed (WebServer.cpp:388-405), which shortens *)
(* the lingering of a broken connection, is never taken.                     *)
THEOREM NoFailedEnd == Spec => []NeverFails
  <1>1. ReaderInv => NeverFails
        BY DEF ReaderInv
  <1> QED BY <1>1, ReaderInvariant, PTL

-----------------------------------------------------------------------------
(* A request of the page: its invariant *)

\* A list, as jQuery keeps it.
CallbackLists ==
  [list : Seq(Handlers \union {"settle"}), spent : BOOLEAN, memory : BOOLEAN,
   firing : BOOLEAN, locked : BOOLEAN, index : Nat, queue : Nat]

Frames ==
  ({"fire"} \X Lists) \union ({"done"} \X {"complete", "count"})
    \union ({"fail"} \X Handlers)

Ajaxes ==
  [completed : {"none", "no", "yes"}, transport : BOOLEAN, callback : BOOLEAN,
   state : {"pending", "resolved", "rejected"}, active : Int, calls : Seq(Frames),
   lists : [Lists -> CallbackLists], attached : [Lists -> Seq(Handlers)],
   ran : [Lists -> Seq(Handlers)]]

\* Handlers that were attached and are no longer in the list; -1 while the
\* deferred's own callback is in it.
Gap(a, l) == Len(a.attached[l]) - Len(a.lists[l].list)

\* What is left of a list are the handlers attached last, behind the deferred's
\* own callback if it has not been called, and those before have run.
Linked(a, l) ==
  LET c == a.lists[l] IN
  /\ c.index \in 0..Len(c.list)
  /\ ~c.spent =>
       /\ Gap(a, l) >= -1 /\ (l = "complete" => Gap(a, l) >= 0)
       /\ IF c.index + Gap(a, l) = -1 THEN a.ran[l] = <<>>
          ELSE Len(a.ran[l]) = c.index + Gap(a, l)
       /\ \A i \in (c.index + 1)..Len(c.list) :
            c.list[i] = IF i + Gap(a, l) = 0 THEN "settle"
                        ELSE a.attached[l][i + Gap(a, l)]
       /\ \A i \in 1..Len(a.ran[l]) : a.ran[l][i] = a.attached[l][i]

\* A list that has not fired, is firing, has fired and calls what it is given at
\* once, or was disabled.
Fresh(a, l) ==
  LET c == a.lists[l] IN
  /\ ~c.spent /\ ~c.memory /\ ~c.firing /\ ~c.locked /\ c.queue = 0 /\ c.index = 0
  /\ Gap(a, l) = IF l = "complete" THEN 0 ELSE -1

Firing(a, l) ==
  LET c == a.lists[l] IN ~c.spent /\ c.memory /\ c.firing /\ c.locked /\ c.queue = 0

Rested(a, l) ==
  LET c == a.lists[l] IN
  /\ ~c.spent /\ c.memory /\ ~c.firing /\ c.locked /\ c.queue = 0 /\ c.index = 0
  /\ c.list = <<>>

Dead(a, l) ==
  LET c == a.lists[l] IN
  /\ c.spent /\ ~c.memory /\ ~c.firing /\ c.locked /\ c.queue = 0 /\ c.index = 0
  /\ c.list = <<>> /\ a.ran[l] = <<>>

\* A list is one of these.
Kept(a, l) == Fresh(a, l) \/ Firing(a, l) \/ Rested(a, l) \/ Dead(a, l)

\* The list of the outcome.
Side(a) == IF a.state = "resolved" THEN "done" ELSE "fail"

\* The outcome is known, and the list of the other one was disabled.
Settled(a) ==
  /\ a.completed = "yes" /\ a.state # "pending" /\ Dead(a, Other(Side(a)))
  /\ a.lists[Side(a)].index + Gap(a, Side(a)) >= 0

\* Under done may be the call of $.get.
Bases == {<<>>} \union {<<<<"fail", h>>>> : h \in Handlers}

\* Functions under way: a loop of fire, and done before its handlers of completion
\* and after.
Looping(l, calls) == Cons(<<"fire", l>>, calls)
Answering(base) == Cons(<<"done", "complete">>, base)
Closing(base) == Cons(<<"done", "count">>, base)

\* Where an event may be.
Before(a) ==
  /\ a.calls \in Bases /\ a.state = "pending" /\ a.completed # "yes"
  /\ \A l \in Lists : Fresh(a, l)
  /\ a.active = IF a.completed = "no" THEN 1 ELSE 0

Starting(a, base, l) ==
  /\ a.calls = Looping(l, Answering(base))
  /\ a.state = "pending" /\ a.completed = "yes" /\ a.active = 1
  /\ l # "complete" /\ Firing(a, l) /\ a.lists[l].index = 0 /\ Gap(a, l) = -1
  /\ Fresh(a, Other(l)) /\ Fresh(a, "complete")

Settling(a, base) ==
  /\ a.calls = Looping(Side(a), Answering(base))
  /\ Settled(a) /\ Firing(a, Side(a)) /\ Fresh(a, "complete") /\ a.active = 1

SettlingEnds(a, base) ==
  /\ a.calls = Answering(base)
  /\ Settled(a) /\ Rested(a, Side(a)) /\ Fresh(a, "complete") /\ a.active = 1

Completing(a, base) ==
  /\ a.calls = Looping("complete", Closing(base))
  /\ Settled(a) /\ Rested(a, Side(a)) /\ Firing(a, "complete") /\ a.active = 1

\* A handler of completion attaches one of the outcome.
Within(a, base) ==
  /\ a.calls = Looping(Side(a), Looping("complete", Closing(base)))
  /\ Settled(a) /\ Firing(a, Side(a)) /\ Firing(a, "complete") /\ a.active = 1

CompletingEnds(a, base) ==
  /\ a.calls = Closing(base)
  /\ Settled(a) /\ Rested(a, Side(a)) /\ Rested(a, "complete") /\ a.active = 1

Over(a) ==
  /\ a.calls \in Bases
  /\ Settled(a) /\ Rested(a, Side(a)) /\ Rested(a, "complete") /\ a.active = 0

Thrown(a) ==
  /\ a.calls = <<>> /\ Settled(a)
  /\ \/ Firing(a, Side(a)) /\ Kept(a, "complete")
     \/ Rested(a, Side(a)) /\ Firing(a, "complete")

Later(a) ==
  /\ a.calls = Looping(Side(a), <<>>) /\ Settled(a) /\ Firing(a, Side(a))
  /\ Firing(a, "complete") \/ (Rested(a, "complete") /\ a.active = 0)

Placed(a) ==
  \/ Before(a) \/ Over(a) \/ Thrown(a) \/ Later(a)
  \/ \E base \in Bases :
       \/ \E l \in Lists : Starting(a, base, l)
       \/ Settling(a, base) \/ SettlingEnds(a, base) \/ Completing(a, base)
       \/ Within(a, base) \/ CompletingEnds(a, base)

\* What is known of every list.
Sound(a) == a \in Ajaxes /\ \A l \in Lists : Linked(a, l)

AjaxInv == Sound(ajax) /\ Placed(ajax)

-----------------------------------------------------------------------------
(* Sequences and lists of callbacks *)

(* A function that is called is the innermost, and the others go on when it  *)
(* returns.                                                                  *)
LEMMA ConsIs ==
  ASSUME NEW S, NEW x \in S, NEW s \in Seq(S)
  PROVE  /\ Cons(x, s) \in Seq(S) /\ Cons(x, s) # <<>>
         /\ Head(Cons(x, s)) = x /\ Tail(Cons(x, s)) = s
BY DEF Cons

(* A handler that is attached is the last.                                   *)
LEMMA AppendIs ==
  ASSUME NEW S, NEW s \in Seq(S), NEW x \in S, NEW t, t = Append(s, x)
  PROVE  /\ t \in Seq(S) /\ Len(s) \in Nat /\ Len(t) = Len(s) + 1
         /\ \A i \in 1..Len(s) : t[i] = s[i]
         /\ t[Len(s) + 1] = x
OBVIOUS

(* Under done is nothing, or the call of $.get.                              *)
LEMMA BaseIs ==
  ASSUME NEW base \in Bases
  PROVE  /\ base \in Seq(Frames)
         /\ base = <<>> \/ \E h \in Handlers : base = Cons(<<"fail", h>>, <<>>)
<1>1. CASE base = <<>>
  BY <1>1
<1>2. ASSUME NEW h \in Handlers, base = <<<<"fail", h>>>>
      PROVE  base \in Seq(Frames) /\ base = Cons(<<"fail", h>>, <<>>)
  BY <1>2 DEF Frames, Cons
<1> QED BY <1>1, <1>2 DEF Bases

(* The three lists, and which is disabled.                                   *)
LEMMA ListsAre ==
  /\ Lists = {"done", "fail", "complete"}
  /\ Other("done") = "fail" /\ Other("fail") = "done"
  /\ \A a : /\ Side(a) \in {"done", "fail"} /\ Other(Side(a)) \in {"done", "fail"}
            /\ Other(Side(a)) # Side(a)
            /\ \A l \in Lists : l = "complete" \/ l = Side(a) \/ l = Other(Side(a))
BY DEF Lists, Other, Side

(* The functions under way.                                                  *)
LEMMA FramesAre ==
  /\ \A l \in Lists : <<"fire", l>> \in Frames
  /\ <<"done", "complete">> \in Frames /\ <<"done", "count">> \in Frames
  /\ \A h \in Handlers : <<"fail", h>> \in Frames
BY DEF Frames

\* What is known of a list is the same.
Same(a, b, l) ==
  b.lists[l] = a.lists[l] /\ b.attached[l] = a.attached[l] /\ b.ran[l] = a.ran[l]

\* Of the others, and of the request.
Outside(a, b, l) ==
  /\ b.state = a.state /\ b.completed = a.completed /\ b.active = a.active
  /\ \A m \in Lists \ {l} : Same(a, b, m)

(* What is said of a list depends on the list only.                          *)
LEMMA SameIs ==
  ASSUME NEW a, NEW b, NEW l, Same(a, b, l)
  PROVE  /\ Gap(b, l) = Gap(a, l) /\ (Linked(b, l) <=> Linked(a, l))
         /\ (Fresh(b, l) <=> Fresh(a, l)) /\ (Firing(b, l) <=> Firing(a, l))
         /\ (Rested(b, l) <=> Rested(a, l)) /\ (Dead(b, l) <=> Dead(a, l))
BY DEF Same, Gap, Linked, Fresh, Firing, Rested, Dead

(* The parts of a request.                                                   *)
LEMMA AjaxIs ==
  ASSUME NEW a \in Ajaxes, NEW l \in Lists
  PROVE  /\ a.lists[l] \in CallbackLists
         /\ a.lists[l].list \in Seq(Handlers \union {"settle"})
         /\ a.lists[l].index \in Nat /\ a.lists[l].queue \in Nat
         /\ a.attached[l] \in Seq(Handlers) /\ a.ran[l] \in Seq(Handlers)
         /\ Len(a.attached[l]) \in Nat /\ Len(a.ran[l]) \in Nat
         /\ Len(a.lists[l].list) \in Nat /\ DOMAIN a.ran[l] = 1..Len(a.ran[l])
         /\ a.calls \in Seq(Frames) /\ Gap(a, l) \in Int /\ a.active \in Int
<1>1. /\ a.lists[l] \in CallbackLists
      /\ a.attached[l] \in Seq(Handlers) /\ a.ran[l] \in Seq(Handlers)
      /\ a.calls \in Seq(Frames) /\ a.active \in Int
  BY DEF Ajaxes
<1>2. /\ a.lists[l].list \in Seq(Handlers \union {"settle"})
      /\ a.lists[l].index \in Nat /\ a.lists[l].queue \in Nat
  BY <1>1 DEF CallbackLists
<1>3. /\ Len(a.attached[l]) \in Nat /\ Len(a.ran[l]) \in Nat
      /\ Len(a.lists[l].list) \in Nat /\ DOMAIN a.ran[l] = 1..Len(a.ran[l])
  <2>1. Len(a.attached[l]) \in Nat
    BY <1>1
  <2>2. Len(a.ran[l]) \in Nat /\ DOMAIN a.ran[l] = 1..Len(a.ran[l])
    BY <1>1
  <2>3. Len(a.lists[l].list) \in Nat
    BY <1>2
  <2> QED BY <2>1, <2>2, <2>3
<1> QED BY <1>1, <1>2, <1>3 DEF Gap

\* A list changes, and the functions under way.
Changed(a, l, c, given, had, calls) ==
  [a EXCEPT !.lists[l] = c, !.attached[l] = given, !.ran[l] = had, !.calls = calls]

(* A list changes, and with it what was given to it and what has run.        *)
LEMMA ListChanges ==
  ASSUME NEW a \in Ajaxes, NEW l \in Lists, NEW c \in CallbackLists,
         NEW given \in Seq(Handlers), NEW had \in Seq(Handlers), NEW calls \in Seq(Frames),
         NEW b, b = Changed(a, l, c, given, had, calls)
  PROVE  /\ b \in Ajaxes /\ Outside(a, b, l) /\ b.calls = calls
         /\ b.lists[l] = c /\ b.attached[l] = given /\ b.ran[l] = had
BY DEF Changed, Ajaxes, Outside, Same

\* Only the list, and the functions under way.
Relisted(a, l, c, calls) == [a EXCEPT !.lists[l] = c, !.calls = calls]

(* A list changes, and nothing is given to it.                               *)
LEMMA ListMoves ==
  ASSUME NEW a \in Ajaxes, NEW l \in Lists, NEW c \in CallbackLists,
         NEW calls \in Seq(Frames), NEW b, b = Relisted(a, l, c, calls)
  PROVE  /\ b \in Ajaxes /\ Outside(a, b, l) /\ b.calls = calls
         /\ b.lists[l] = c /\ b.attached = a.attached /\ b.ran = a.ran
BY DEF Relisted, Ajaxes, Outside, Same

-----------------------------------------------------------------------------
(* add, and the handlers that are called *)

\* A list to which a handler is given.
Given(a, b, l) ==
  /\ b \in Ajaxes /\ Linked(b, l) /\ Outside(a, b, l)
  /\ Fresh(a, l) => Fresh(b, l)
  /\ Dead(a, l) => Dead(b, l)
  /\ Firing(a, l) => /\ Firing(b, l) /\ b.lists[l].index = a.lists[l].index
                     /\ Gap(b, l) = Gap(a, l)
  /\ ~Rested(a, l) => b.calls = a.calls
  /\ Rested(a, l) => /\ Firing(b, l) /\ b.lists[l].index + Gap(b, l) >= 0
                     /\ b.calls = Cons(<<"fire", l>>, a.calls)

(* What add (jQuery.Callbacks) does: a list that has fired calls the handler *)
(* at once, others keep it, and one that was disabled forgets it.            *)
LEMMA AddIs ==
  ASSUME NEW a \in Ajaxes, NEW l \in Lists, NEW h \in Handlers, Linked(a, l),
         NEW b, b = Add(a, l, h),
         Fresh(a, l) \/ Firing(a, l) \/ Rested(a, l) \/ Dead(a, l)
  PROVE  Given(a, b, l)
<1> DEFINE c == a.lists[l]
           given == Append(a.attached[l], h)
           longer == Append(c.list, h)
<1>1. /\ c \in CallbackLists /\ c.list \in Seq(Handlers \union {"settle"})
      /\ c.index \in Nat /\ a.attached[l] \in Seq(Handlers) /\ a.ran[l] \in Seq(Handlers)
      /\ a.calls \in Seq(Frames) /\ Gap(a, l) \in Int /\ c = a.lists[l]
      /\ Len(a.ran[l]) \in Nat /\ Len(a.attached[l]) \in Nat /\ Len(c.list) \in Nat
  BY AjaxIs
<1>2. /\ given \in Seq(Handlers) /\ Len(a.attached[l]) \in Nat
      /\ Len(given) = Len(a.attached[l]) + 1
      /\ \A i \in 1..Len(a.attached[l]) : given[i] = a.attached[l][i]
      /\ given[Len(a.attached[l]) + 1] = h
  BY <1>1, AppendIs
<1>3. /\ longer \in Seq(Handlers \union {"settle"}) /\ Len(c.list) \in Nat
      /\ Len(longer) = Len(c.list) + 1
      /\ \A i \in 1..Len(c.list) : longer[i] = c.list[i]
      /\ longer[Len(c.list) + 1] = h
  <2>1. h \in Handlers \union {"settle"}
    OBVIOUS
  <2> HIDE DEF c
  <2> QED BY <1>1, <2>1, AppendIs
<1>4. /\ c.index \in 0..Len(c.list)
      /\ Gap(a, l) = Len(a.attached[l]) - Len(c.list)
      /\ ~c.spent =>
           /\ Gap(a, l) >= -1 /\ (l = "complete" => Gap(a, l) >= 0)
           /\ IF c.index + Gap(a, l) = -1 THEN a.ran[l] = <<>>
              ELSE Len(a.ran[l]) = c.index + Gap(a, l)
           /\ \A i \in (c.index + 1)..Len(c.list) :
                c.list[i] = IF i + Gap(a, l) = 0 THEN "settle"
                            ELSE a.attached[l][i + Gap(a, l)]
           /\ \A i \in 1..Len(a.ran[l]) : a.ran[l][i] = a.attached[l][i]
  BY DEF Linked, Gap
<1> HIDE DEF c, given, longer
<1>8. /\ Len(a.attached[l]) \in Nat /\ Len(c.list) \in Nat /\ Len(a.ran[l]) \in Nat
      /\ Len(given) = Len(a.attached[l]) + 1 /\ Len(longer) = Len(c.list) + 1
      /\ Gap(a, l) \in Int /\ Len(a.attached[l]) = Len(c.list) + Gap(a, l)
      /\ c.index \in 0..Len(c.list)
      /\ ~c.spent => /\ Gap(a, l) >= -1
                     /\ Len(a.ran[l]) = IF c.index + Gap(a, l) = -1 THEN 0
                                        ELSE c.index + Gap(a, l)
                     /\ Len(a.ran[l]) <= Len(a.attached[l])
  <2>1. /\ Gap(a, l) = Len(a.attached[l]) - Len(c.list) /\ c.index \in 0..Len(c.list)
        /\ ~c.spent => Gap(a, l) >= -1
    BY <1>4
  <2>2. ~c.spent => Len(a.ran[l]) = IF c.index + Gap(a, l) = -1 THEN 0
                                    ELSE c.index + Gap(a, l)
    <3>1. a.ran[l] = <<>> => Len(a.ran[l]) = 0
      OBVIOUS
    <3> QED BY <1>4, <3>1
  <2>3. /\ Len(a.attached[l]) \in Nat /\ Len(c.list) \in Nat /\ Len(a.ran[l]) \in Nat
        /\ Len(given) = Len(a.attached[l]) + 1 /\ Len(longer) = Len(c.list) + 1
        /\ Gap(a, l) \in Int
    BY <1>1, <1>2, <1>3
  <2>4. Len(a.attached[l]) = Len(c.list) + Gap(a, l)
    BY <2>1, <2>3
  <2>5. ~c.spent => Len(a.ran[l]) <= Len(a.attached[l])
    <3> SUFFICES ASSUME ~c.spent PROVE Len(a.ran[l]) <= Len(a.attached[l])
      OBVIOUS
    <3>1. CASE c.index + Gap(a, l) = -1
      <4>1. Len(a.ran[l]) = 0
        BY <2>2, <3>1
      <4> QED BY <2>3, <4>1
    <3>2. CASE c.index + Gap(a, l) # -1
      <4>1. Len(a.ran[l]) = c.index + Gap(a, l)
        BY <2>2, <3>2
      <4>2. c.index \in 0..Len(c.list)
        BY <2>1
      <4> QED BY <2>3, <2>4, <4>1, <4>2
    <3> QED BY <3>1, <3>2
  <2> QED BY <2>1, <2>2, <2>3, <2>4, <2>5
<1>5. CASE Dead(a, l)
  <2>1. c.spent /\ ~Fresh(a, l) /\ ~Firing(a, l) /\ ~Rested(a, l)
    BY <1>5 DEF Dead, Fresh, Firing, Rested, c
  <2>2. b = Changed(a, l, c, given, a.ran[l], a.calls)
    BY <2>1 DEF Add, Ajaxes, Changed, c, given
  <2>3. /\ b \in Ajaxes /\ Outside(a, b, l) /\ b.calls = a.calls
        /\ b.lists[l] = c /\ b.attached[l] = given /\ b.ran[l] = a.ran[l]
    BY <1>1, <1>2, <2>2, ListChanges
  <2>4. Dead(b, l) /\ Linked(b, l)
    BY <1>4, <1>5, <2>1, <2>3 DEF Dead, Linked, c
  <2> QED BY <2>1, <2>3, <2>4 DEF Given
<1>6. CASE Fresh(a, l) \/ Firing(a, l)
  <2> DEFINE d == Longer(c, h)
  <2>1. ~c.spent /\ ~(c.memory /\ ~c.firing) /\ ~Dead(a, l) /\ ~Rested(a, l)
    BY <1>6 DEF Dead, Fresh, Firing, Rested, c
  <2>2. b = Changed(a, l, d, given, a.ran[l], a.calls)
    BY <2>1 DEF Add, Ajaxes, Changed, c, given
  <2>3. /\ d \in CallbackLists /\ d.list = longer /\ d.index = c.index
        /\ d.spent = c.spent /\ d.memory = c.memory /\ d.firing = c.firing
        /\ d.locked = c.locked /\ d.queue = c.queue
    BY <1>1, <1>3 DEF CallbackLists, Longer, longer
  <2> HIDE DEF d
  <2>4. /\ b \in Ajaxes /\ Outside(a, b, l) /\ b.calls = a.calls
        /\ b.lists[l] = d /\ b.attached[l] = given /\ b.ran[l] = a.ran[l]
    BY <1>1, <1>2, <2>2, <2>3, ListChanges
  <2>5. Gap(b, l) = Gap(a, l)
    <3>1. Gap(b, l) = Len(given) - Len(longer)
      BY <2>3, <2>4 DEF Gap
    <3>2. Gap(a, l) = Len(a.attached[l]) - Len(c.list)
      BY <1>1 DEF Gap
    <3>3. /\ Len(a.attached[l]) \in Nat /\ Len(c.list) \in Nat
          /\ Len(given) = Len(a.attached[l]) + 1 /\ Len(longer) = Len(c.list) + 1
      BY <1>1, <1>2, <1>3
    <3> QED BY <3>1, <3>2, <3>3
  <2>6. Linked(b, l)
    <3>1. ASSUME NEW i \in (d.index + 1)..Len(d.list)
          PROVE  d.list[i] = IF i + Gap(a, l) = 0 THEN "settle" ELSE given[i + Gap(a, l)]
      <4>1. CASE i = Len(c.list) + 1
        <5>1. i + Gap(a, l) = Len(a.attached[l]) + 1 /\ i + Gap(a, l) # 0
          BY <1>8, <4>1
        <5>2. d.list[i] = h /\ given[i + Gap(a, l)] = h
          BY <1>2, <1>3, <2>3, <4>1, <5>1
        <5> QED BY <5>1, <5>2
      <4>2. CASE i # Len(c.list) + 1
        <5>1. i \in (c.index + 1)..Len(c.list) /\ i \in 1..Len(c.list)
          <6> DEFINE k == c.index  m == Len(c.list)
          <6>1. k \in Nat /\ m \in Nat /\ i \in (k + 1)..(m + 1) /\ i # m + 1
            BY <1>8, <2>3, <4>2
          <6> HIDE DEF k, m
          <6>2. i \in (k + 1)..m /\ i \in 1..m
            BY <6>1
          <6> QED BY <6>2 DEF k, m
        <5>2. i + Gap(a, l) # 0 => i + Gap(a, l) \in 1..Len(a.attached[l])
          <6>1. /\ Gap(a, l) \in Int /\ Gap(a, l) >= -1
                /\ Len(a.attached[l]) = Len(c.list) + Gap(a, l)
                /\ c.index \in Nat /\ Len(c.list) \in Nat
            BY <1>8, <2>1
          <6> QED BY <5>1, <6>1
        <5>3. c.list[i] = IF i + Gap(a, l) = 0 THEN "settle"
                          ELSE a.attached[l][i + Gap(a, l)]
          BY <1>4, <2>1, <5>1
        <5>4. d.list[i] = c.list[i]
          BY <1>3, <2>3, <5>1
        <5>5. i + Gap(a, l) # 0 => given[i + Gap(a, l)] = a.attached[l][i + Gap(a, l)]
          BY <1>2, <5>2
        <5> QED BY <5>3, <5>4, <5>5
      <4> QED BY <4>1, <4>2
    <3>2. \A i \in 1..Len(a.ran[l]) : a.ran[l][i] = given[i]
      <4>1. \A i \in 1..Len(a.ran[l]) : i \in 1..Len(a.attached[l])
        <5> DEFINE r == Len(a.ran[l])  t == Len(a.attached[l])
        <5>1. r \in Nat /\ t \in Nat /\ r <= t
          BY <1>8, <2>1
        <5> HIDE DEF r, t
        <5>2. \A i \in 1..r : i \in 1..t
          BY <5>1
        <5> QED BY <5>2 DEF r, t
      <4>2. \A i \in 1..Len(a.ran[l]) : a.ran[l][i] = a.attached[l][i]
        BY <1>4, <2>1
      <4> QED BY <1>2, <4>1, <4>2
    <3>3. d.index \in 0..Len(d.list)
      BY <1>8, <2>3
    <3>4. /\ Gap(a, l) >= -1 /\ (l = "complete" => Gap(a, l) >= 0)
          /\ IF d.index + Gap(a, l) = -1 THEN a.ran[l] = <<>>
             ELSE Len(a.ran[l]) = d.index + Gap(a, l)
      BY <1>4, <2>1, <2>3
    <3> QED BY <2>4, <2>5, <3>1, <3>2, <3>3, <3>4 DEF Linked
  <2>7. (Fresh(a, l) => Fresh(b, l)) /\ (Firing(a, l) => Firing(b, l))
    BY <2>3, <2>4, <2>5 DEF Fresh, Firing, c
  <2> QED BY <1>1, <2>1, <2>3, <2>4, <2>5, <2>6, <2>7 DEF Given
<1>7. CASE Rested(a, l)
  <2> DEFINE d == Started(Again(c, h))
             calls == Cons(<<"fire", l>>, a.calls)
  <2>1. /\ ~c.spent /\ c.memory /\ ~c.firing /\ c.locked /\ c.queue = 0 /\ c.index = 0
        /\ c.list = <<>> /\ ~Dead(a, l) /\ ~Fresh(a, l) /\ ~Firing(a, l)
    BY <1>7 DEF Dead, Fresh, Firing, Rested, c
  <2> DEFINE q == Again(c, h)
             f == Changed(a, l, q, given, a.ran[l], a.calls)
  <2>2. /\ q \in CallbackLists /\ q.list = longer /\ q.index = 0 /\ q.queue = 1
        /\ q.spent = c.spent
    <3>1. Len(c.list) = 0
      BY <2>1
    <3>2. q = [c EXCEPT !.index = 0, !.queue = 1, !.list = longer]
      BY <2>1, <3>1 DEF Again, longer
    <3> HIDE DEF q
    <3> QED BY <1>1, <1>3, <3>2 DEF CallbackLists
  <2>3. /\ d \in CallbackLists /\ d.list = longer /\ d.index = 0 /\ d.queue = 0
        /\ d.spent = c.spent /\ d.memory = TRUE /\ d.firing = TRUE /\ d.locked = TRUE
    <3>1. d = Started(q)
      OBVIOUS
    <3> HIDE DEF q, d
    <3>2. q.queue - 1 = 0 /\ d = [q EXCEPT !.locked = TRUE, !.firing = TRUE,
                                           !.memory = TRUE, !.queue = 0]
      BY <2>2, <3>1 DEF Started
    <3>3. d \in CallbackLists /\ d.list = q.list /\ d.index = q.index /\ d.queue = 0
      BY <2>2, <3>2 DEF CallbackLists
    <3>4. d.spent = q.spent /\ d.memory = TRUE /\ d.firing = TRUE /\ d.locked = TRUE
      BY <2>2, <3>2 DEF CallbackLists
    <3> QED BY <2>2, <3>3, <3>4
  <2>4. calls \in Seq(Frames)
    BY <1>1, ConsIs, FramesAre
  <2> HIDE DEF q
  <2>5. /\ f \in Ajaxes /\ Outside(a, f, l) /\ f.calls = a.calls
        /\ f.lists[l] = q /\ f.attached[l] = given /\ f.ran[l] = a.ran[l]
    BY <1>1, <1>2, <2>2, ListChanges
  <2>9. b = Fire(f, l)
    <3>1. b = Fire([[a EXCEPT !.attached[l] = Append(@, h)] EXCEPT !.lists[l] = q], l)
      BY <2>1 DEF Add, c, q
    <3>2. [[a EXCEPT !.attached[l] = Append(@, h)] EXCEPT !.lists[l] = q] = f
      BY DEF Ajaxes, Changed, given
    <3> QED BY <3>1, <3>2
  <2> HIDE DEF f
  <2>10. b = Relisted(f, l, d, calls)
    BY <2>5, <2>9 DEF Fire, Relisted, q
  <2> HIDE DEF d, calls
  <2>11. /\ b \in Ajaxes /\ Outside(f, b, l) /\ b.calls = calls
         /\ b.lists[l] = d /\ b.attached[l] = given /\ b.ran[l] = a.ran[l]
    BY <2>3, <2>4, <2>5, <2>10, ListMoves
  <2>12. Outside(a, b, l)
    BY <2>5, <2>11 DEF Outside, Same
  <2>6. /\ Gap(a, l) = Len(a.attached[l]) /\ Gap(b, l) = Len(a.attached[l])
        /\ Len(a.ran[l]) = Len(a.attached[l])
    <3>1. Gap(b, l) = Len(given) - Len(longer)
      BY <2>3, <2>11 DEF Gap
    <3>2. Len(c.list) = 0
      BY <1>3, <2>1
    <3>3. c.index + Gap(a, l) # -1 /\ Len(a.ran[l]) = c.index + Gap(a, l)
      BY <1>8, <2>1, <3>2
    <3>4. /\ Gap(a, l) \in Int /\ Len(a.attached[l]) = Len(c.list) + Gap(a, l)
          /\ Len(a.attached[l]) \in Nat
          /\ Len(given) = Len(a.attached[l]) + 1 /\ Len(longer) = Len(c.list) + 1
          /\ c.index = 0
      BY <1>8, <2>1
    <3> DEFINE g == Gap(a, l)  e == Gap(b, l)  t == Len(a.attached[l])
               r == Len(a.ran[l])
    <3>5. /\ g \in Int /\ t \in Nat /\ t = 0 + g /\ r = 0 + g
          /\ e = (t + 1) - (0 + 1)
      BY <3>1, <3>2, <3>3, <3>4
    <3> HIDE DEF g, e, t, r
    <3>6. g = t /\ e = t /\ r = t
      BY <3>5
    <3> QED BY <3>6 DEF g, e, t, r
  <2>7. Linked(b, l)
    <3>1. /\ d.index \in 0..Len(d.list) /\ Gap(b, l) \in Nat
          /\ Len(a.ran[l]) = d.index + Gap(b, l) /\ d.index + Gap(b, l) # -1
      <4> DEFINE i == d.index  e == Gap(b, l)  t == Len(a.attached[l])
                 r == Len(a.ran[l])  m == Len(d.list)
      <4>1. t \in Nat /\ e = t /\ r = t /\ i = 0 /\ m \in Nat
        BY <1>8, <2>3, <2>6
      <4> HIDE DEF i, e, t, r, m
      <4>2. i \in 0..m /\ e \in Nat /\ r = i + e /\ i + e # -1
        BY <4>1
      <4> QED BY <4>2 DEF i, e, t, r, m
    <3>2. ASSUME NEW i \in (d.index + 1)..Len(d.list)
          PROVE  d.list[i] = IF i + Gap(b, l) = 0 THEN "settle" ELSE given[i + Gap(b, l)]
      <4>1. i = 1 /\ i = Len(c.list) + 1 /\ i + Gap(b, l) = Len(a.attached[l]) + 1
        <5>1. Len(d.list) = 1 /\ Len(c.list) = 0
          BY <1>8, <2>1, <2>3
        <5>2. d.index = 0 /\ Gap(b, l) = Len(a.attached[l]) /\ Len(a.attached[l]) \in Nat
          BY <1>8, <2>3, <2>6
        <5> QED BY <5>1, <5>2
      <4>2. i + Gap(b, l) # 0
        BY <1>8, <4>1
      <4> QED BY <1>2, <1>3, <2>3, <4>1, <4>2
    <3>3. \A i \in 1..Len(a.ran[l]) : a.ran[l][i] = given[i]
      <4>1. \A i \in 1..Len(a.ran[l]) : i \in 1..Len(a.attached[l])
        <5> DEFINE r == Len(a.ran[l])  t == Len(a.attached[l])
        <5>1. r \in Nat /\ t \in Nat /\ r <= t
          BY <1>8, <2>6
        <5> HIDE DEF r, t
        <5>2. \A i \in 1..r : i \in 1..t
          BY <5>1
        <5> QED BY <5>2 DEF r, t
      <4>2. \A i \in 1..Len(a.ran[l]) : a.ran[l][i] = a.attached[l][i]
        BY <1>4, <2>1
      <4> QED BY <1>2, <4>1, <4>2
    <3>4. Gap(b, l) >= -1 /\ Gap(b, l) >= 0
      BY <3>1
    <3> QED BY <2>11, <3>1, <3>2, <3>3, <3>4 DEF Linked
  <2>8. Firing(b, l) /\ b.lists[l].index + Gap(b, l) >= 0
    BY <1>8, <2>1, <2>3, <2>6, <2>11 DEF Firing
  <2> QED BY <2>1, <2>7, <2>8, <2>11, <2>12 DEF calls, Given
<1> QED BY <1>5, <1>6, <1>7

\* What a list was it still is.
Keeps(a, b) ==
  /\ b.state = a.state /\ b.completed = a.completed /\ b.active = a.active
  /\ \A m \in Lists :
       /\ (Fresh(a, m) => Fresh(b, m)) /\ (Firing(a, m) => Firing(b, m))
       /\ (Rested(a, m) => Rested(b, m)) /\ (Dead(a, m) => Dead(b, m))
       /\ a.lists[m].index + Gap(a, m) >= 0 => b.lists[m].index + Gap(b, m) >= 0

(* What changes in one list leaves the others linked.                        *)
LEMMA SoundOutside ==
  ASSUME NEW a, Sound(a), NEW l \in Lists, NEW b \in Ajaxes, Outside(a, b, l), Linked(b, l)
  PROVE  Sound(b)
BY SameIs DEF Sound, Outside

(* And as they were.                                                         *)
LEMMA KeepsOutside ==
  ASSUME NEW a, NEW l \in Lists, NEW b, Outside(a, b, l),
         (Fresh(a, l) => Fresh(b, l)) /\ (Firing(a, l) => Firing(b, l)),
         (Rested(a, l) => Rested(b, l)) /\ (Dead(a, l) => Dead(b, l)),
         a.lists[l].index + Gap(a, l) >= 0 => b.lists[l].index + Gap(b, l) >= 0
  PROVE  Keeps(a, b)
<1>1. ASSUME NEW m \in Lists, m # l
      PROVE  /\ (Fresh(a, m) => Fresh(b, m)) /\ (Firing(a, m) => Firing(b, m))
             /\ (Rested(a, m) => Rested(b, m)) /\ (Dead(a, m) => Dead(b, m))
             /\ a.lists[m].index + Gap(a, m) >= 0 => b.lists[m].index + Gap(b, m) >= 0
  <2>1. Same(a, b, m)
    BY <1>1 DEF Outside
  <2>2. b.lists[m].index = a.lists[m].index
    BY <2>1 DEF Same
  <2> QED BY <2>1, <2>2, SameIs
<1> QED BY <1>1 DEF Keeps, Outside

(* What was kept twice is kept.                                              *)
LEMMA KeepsTwice ==
  ASSUME NEW a, NEW b, NEW d, Keeps(a, b), Keeps(b, d)
  PROVE  Keeps(a, d)
BY DEF Keeps

(* An outcome stays known.                                                   *)
LEMMA StaysSettled ==
  ASSUME NEW a, NEW b, Keeps(a, b), Settled(a)
  PROVE  Settled(b) /\ Side(b) = Side(a)
<1>1. Side(b) = Side(a) /\ Side(a) \in Lists /\ Other(Side(a)) \in Lists
  BY ListsAre DEF Keeps, Side
<1> QED BY <1>1 DEF Keeps, Settled

\* The handler that fire calls next.
Following(a, l) == a.lists[l].list[a.lists[l].index + 1]

\* The list has moved past it.
Advanced(a, l) == [a EXCEPT !.lists[l] = [a.lists[l] EXCEPT !.index = @ + 1]]

\* And the handler is counted.
Counted(a, l, h) == [Advanced(a, l) EXCEPT !.ran[l] = Append(@, h)]

(* The loop moves on.                                                        *)
LEMMA NextIs ==
  ASSUME NEW c \in CallbackLists, NEW d, d = [c EXCEPT !.index = @ + 1]
  PROVE  /\ d \in CallbackLists /\ d.index = c.index + 1 /\ d.list = c.list
         /\ d.spent = c.spent /\ d.memory = c.memory /\ d.firing = c.firing
         /\ d.locked = c.locked /\ d.queue = c.queue
BY DEF CallbackLists

\* What is so after a handler has run, after the request is settled, and after
\* a function under way has gone on (HasRun, HasResolved, HasMoved).
HasRun(a, k, l, c, had) ==
  /\ k \in Ajaxes /\ Outside(a, k, l) /\ k.calls = a.calls
  /\ k.lists[l] = c /\ k.attached[l] = a.attached[l] /\ k.ran[l] = had

Run(a, l, c, had) == [[a EXCEPT !.lists[l] = c] EXCEPT !.ran[l] = had]

(* And a handler of it has run.                                              *)
LEMMA RanIs ==
  ASSUME NEW a \in Ajaxes, NEW l \in Lists, NEW c \in CallbackLists,
         NEW had \in Seq(Handlers),
         NEW k, k = Run(a, l, c, had)
  PROVE  HasRun(a, k, l, c, had)
BY DEF Run, HasRun, Ajaxes, Outside, Same

(* A sequence of handlers.                                                   *)
LEMMA ElementIs ==
  ASSUME NEW S, NEW s \in Seq(S), NEW i \in 1..Len(s)
  PROVE  s[i] \in S
OBVIOUS

(* A handler that is called is the one attached after those that have run.   *)
LEMMA CountedIs ==
  ASSUME NEW a, Sound(a), NEW l \in Lists, Firing(a, l),
         a.lists[l].index < Len(a.lists[l].list), a.lists[l].index + Gap(a, l) >= 0,
         NEW h, h = Following(a, l),
         NEW k, k = Counted(a, l, h)
  PROVE  /\ h \in Handlers /\ Sound(k) /\ Outside(a, k, l) /\ k.calls = a.calls
         /\ Keeps(a, k)
<1> DEFINE c == a.lists[l]
           d == [c EXCEPT !.index = @ + 1]
           had == Append(a.ran[l], h)
<1>1. /\ a \in Ajaxes /\ Linked(a, l) /\ c \in CallbackLists /\ c = a.lists[l]
      /\ c.list \in Seq(Handlers \union {"settle"})
      /\ c.index \in Nat /\ a.attached[l] \in Seq(Handlers) /\ a.ran[l] \in Seq(Handlers)
      /\ Len(a.attached[l]) \in Nat /\ Len(c.list) \in Nat /\ Len(a.ran[l]) \in Nat
      /\ a.calls \in Seq(Frames) /\ Gap(a, l) \in Int
  BY AjaxIs DEF Sound
<1>2. /\ Gap(a, l) = Len(a.attached[l]) - Len(c.list)
      /\ ~c.spent /\ Gap(a, l) >= -1 /\ (l = "complete" => Gap(a, l) >= 0)
      /\ IF c.index + Gap(a, l) = -1 THEN a.ran[l] = <<>>
         ELSE Len(a.ran[l]) = c.index + Gap(a, l)
      /\ \A i \in (c.index + 1)..Len(c.list) :
           c.list[i] = IF i + Gap(a, l) = 0 THEN "settle"
                       ELSE a.attached[l][i + Gap(a, l)]
      /\ \A i \in 1..Len(a.ran[l]) : a.ran[l][i] = a.attached[l][i]
  BY <1>1 DEF Linked, Gap, Firing
<1>3. /\ c.index + 1 \in (c.index + 1)..Len(c.list)
      /\ Len(a.ran[l]) = c.index + Gap(a, l)
      /\ c.index + 1 + Gap(a, l) = Len(a.ran[l]) + 1
      /\ c.index + 1 + Gap(a, l) # 0
      /\ Len(a.ran[l]) + 1 \in 1..Len(a.attached[l])
  <2>1. c.index + Gap(a, l) # -1 /\ c.index < Len(c.list) /\ c.index + Gap(a, l) >= 0
    BY <1>1
  <2>2. Len(a.ran[l]) = c.index + Gap(a, l)
    BY <1>2, <2>1
  <2>3. Gap(a, l) = Len(a.attached[l]) - Len(c.list)
    BY <1>2
  <2>4. /\ c.index \in Nat /\ Len(a.attached[l]) \in Nat /\ Len(c.list) \in Nat
        /\ Len(a.ran[l]) \in Nat /\ Gap(a, l) \in Int
    BY <1>1
  <2> HIDE DEF c
  <2>5. c.index + 1 \in (c.index + 1)..Len(c.list) /\ c.index + 1 + Gap(a, l) # 0
    BY <2>1, <2>4
  <2>6. c.index + 1 + Gap(a, l) = Len(a.ran[l]) + 1
    BY <2>2, <2>4
  <2>7. Len(a.ran[l]) < Len(a.attached[l])
    <3> DEFINE i == c.index  len == Len(c.list)  r == Len(a.ran[l])
               t == Len(a.attached[l])  g == Gap(a, l)
    <3>1. /\ i \in Nat /\ len \in Nat /\ r \in Nat /\ t \in Nat /\ g \in Int
          /\ i < len /\ r = i + g /\ g = t - len
      BY <2>1, <2>2, <2>3, <2>4
    <3> HIDE DEF i, len, r, t, g
    <3>2. r < t
      BY <3>1
    <3> QED BY <3>2 DEF r, t
  <2> QED BY <2>2, <2>4, <2>5, <2>6, <2>7
<1>4. h = a.attached[l][Len(a.ran[l]) + 1] /\ h \in Handlers
  <2>1. h = c.list[c.index + 1]
    BY DEF Following
  <2>2. c.list[c.index + 1] = a.attached[l][c.index + 1 + Gap(a, l)]
    BY <1>2, <1>3
  <2> HIDE DEF c
  <2>3. h = a.attached[l][Len(a.ran[l]) + 1]
    BY <1>3, <2>1, <2>2
  <2>4. a.attached[l][Len(a.ran[l]) + 1] \in Handlers
    BY <1>1, <1>3, ElementIs
  <2> QED BY <2>3, <2>4
<1>5. /\ had \in Seq(Handlers) /\ Len(had) = Len(a.ran[l]) + 1
      /\ \A i \in 1..Len(a.ran[l]) : had[i] = a.ran[l][i]
      /\ had[Len(a.ran[l]) + 1] = h
  BY <1>1, <1>4, AppendIs
<1>6. /\ d \in CallbackLists /\ d.index = c.index + 1 /\ d.list = c.list
      /\ d.spent = c.spent /\ d.memory = c.memory /\ d.firing = c.firing
      /\ d.locked = c.locked /\ d.queue = c.queue
  BY <1>1, NextIs
<1>7. k = Run(a, l, d, had)
  <2>1. Advanced(a, l) = [a EXCEPT !.lists[l] = d]
    BY DEF Advanced
  <2>2. Advanced(a, l).ran[l] = a.ran[l]
    BY <1>1, <2>1 DEF Ajaxes
  <2> HIDE DEF d
  <2>3. k = [Advanced(a, l) EXCEPT !.ran[l] = had]
    BY <2>2 DEF Counted
  <2> HIDE DEF had
  <2> QED BY <2>1, <2>3 DEF Run
<1> HIDE DEF c, d, had
<1>8. /\ k \in Ajaxes /\ Outside(a, k, l) /\ k.calls = a.calls
      /\ k.lists[l] = d /\ k.attached[l] = a.attached[l] /\ k.ran[l] = had
  <2>1. HasRun(a, k, l, d, had)
    BY <1>1, <1>5, <1>6, <1>7, RanIs
  <2> QED BY <2>1 DEF HasRun
<1>9. Gap(k, l) = Gap(a, l)
  BY <1>1, <1>6, <1>8 DEF Gap
<1>10. Linked(k, l)
  <2>1. /\ d.index \in 0..Len(d.list) /\ ~d.spent /\ d.index + Gap(a, l) # -1
        /\ Len(had) = d.index + Gap(a, l)
    <3>1. /\ c.index + 1 \in (c.index + 1)..Len(c.list) /\ c.index \in Nat
          /\ Len(c.list) \in Nat /\ Gap(a, l) \in Int
          /\ Len(a.ran[l]) = c.index + Gap(a, l) /\ Len(a.ran[l]) \in Nat
          /\ c.index + 1 + Gap(a, l) # 0
      BY <1>1, <1>3
    <3>2. d.index = c.index + 1 /\ d.list = c.list /\ ~d.spent /\ Len(had) = Len(a.ran[l]) + 1
      BY <1>2, <1>5, <1>6
    <3> QED BY <3>1, <3>2
  <2>2. \A i \in (d.index + 1)..Len(d.list) :
          d.list[i] = IF i + Gap(a, l) = 0 THEN "settle" ELSE a.attached[l][i + Gap(a, l)]
    <3>1. \A i \in (d.index + 1)..Len(d.list) : i \in (c.index + 1)..Len(c.list)
      BY <1>1, <1>6
    <3> QED BY <1>2, <1>6, <3>1
  <2>3. ASSUME NEW i \in 1..Len(had) PROVE had[i] = a.attached[l][i]
    <3>1. i = Len(a.ran[l]) + 1 \/ i \in 1..Len(a.ran[l])
      BY <1>1, <1>5
    <3> QED BY <1>2, <1>4, <1>5, <3>1
  <2>4. Gap(a, l) >= -1 /\ (l = "complete" => Gap(a, l) >= 0)
    BY <1>2
  <2>5. IF d.index + Gap(a, l) = -1 THEN had = <<>> ELSE Len(had) = d.index + Gap(a, l)
    BY <2>1
  <2>6. d.index \in 0..Len(d.list)
    BY <2>1
  <2> QED BY <1>8, <1>9, <2>2, <2>3, <2>4, <2>5, <2>6 DEF Linked
<1>11. /\ Firing(k, l) /\ k.lists[l].index + Gap(k, l) >= 0
       /\ ~Fresh(a, l) /\ ~Rested(a, l) /\ ~Dead(a, l)
  <2>1. Firing(k, l)
    BY <1>1, <1>6, <1>8 DEF Firing
  <2>2. ~Fresh(a, l) /\ ~Rested(a, l) /\ ~Dead(a, l)
    BY DEF Firing, Fresh, Rested, Dead
  <2>3. c.index + Gap(a, l) >= 0
    BY <1>1
  <2>4. k.lists[l].index = c.index + 1
    BY <1>6, <1>8
  <2> QED BY <1>1, <1>9, <2>1, <2>2, <2>3, <2>4
<1> QED BY <1>4, <1>8, <1>10, <1>11, KeepsOutside, SoundOutside

(* What is not said of a list leaves what is.                                *)
LEMMA BesidesIs ==
  ASSUME NEW a, Sound(a), NEW b \in Ajaxes,
         b.lists = a.lists /\ b.attached = a.attached /\ b.ran = a.ran
  PROVE  /\ Sound(b) /\ \A l \in Lists : Same(a, b, l)
         /\ b.state = a.state /\ b.completed = a.completed /\ b.active = a.active
              => Keeps(a, b)
<1>1. \A l \in Lists : Same(a, b, l)
  BY DEF Same
<1>2. \A l \in Lists : b.lists[l].index = a.lists[l].index
  BY <1>1 DEF Same
<1> QED BY <1>1, <1>2, SameIs DEF Sound, Keeps

(* The numbers of a list.                                                    *)
LEMMA LengthsAre ==
  ASSUME NEW a, Sound(a), NEW l \in Lists, ~a.lists[l].spent
  PROVE  /\ a.lists[l].index \in Nat /\ Len(a.lists[l].list) \in Nat
         /\ Len(a.attached[l]) \in Nat /\ Gap(a, l) \in Int
         /\ Gap(a, l) = Len(a.attached[l]) - Len(a.lists[l].list)
         /\ a.lists[l].index <= Len(a.lists[l].list)
         /\ Len(a.ran[l]) = IF a.lists[l].index + Gap(a, l) = -1 THEN 0
                            ELSE a.lists[l].index + Gap(a, l)
         /\ a.lists[l].index + Gap(a, l) = -1 => a.ran[l] = <<>>
         /\ (l = "complete" => a.lists[l].index + Gap(a, l) >= 0)
<1>1. /\ a.lists[l].index \in Nat /\ Len(a.lists[l].list) \in Nat
      /\ Len(a.attached[l]) \in Nat /\ Gap(a, l) \in Int
  BY AjaxIs DEF Sound
<1>2. Gap(a, l) = Len(a.attached[l]) - Len(a.lists[l].list)
  BY DEF Gap
<1>3. /\ a.lists[l].index \in 0..Len(a.lists[l].list)
      /\ IF a.lists[l].index + Gap(a, l) = -1 THEN a.ran[l] = <<>>
         ELSE Len(a.ran[l]) = a.lists[l].index + Gap(a, l)
      /\ (l = "complete" => Gap(a, l) >= 0)
  BY DEF Sound, Linked
<1>4. a.ran[l] = <<>> => Len(a.ran[l]) = 0
  OBVIOUS
<1>5. a.lists[l].index <= Len(a.lists[l].list)
  BY <1>1, <1>3
<1>6. l = "complete" => a.lists[l].index + Gap(a, l) >= 0
  BY <1>1, <1>3
<1> QED BY <1>1, <1>2, <1>3, <1>4, <1>5, <1>6

\* Queued and started.
Begun(c) == Started([c EXCEPT !.queue = @ + 1])

(* The first call of fire locks the list.                                    *)
LEMMA BegunIs ==
  ASSUME NEW c \in CallbackLists, c.queue = 0, NEW d, d = Begun(c)
  PROVE  /\ d \in CallbackLists /\ d.list = c.list /\ d.index = c.index /\ d.queue = 0
         /\ d.spent = c.spent /\ d.memory = TRUE /\ d.firing = TRUE /\ d.locked = TRUE
<1> DEFINE q == [c EXCEPT !.queue = @ + 1]
<1>1. /\ q.queue = 1 /\ q.list = c.list /\ q.index = c.index /\ q.spent = c.spent
      /\ q \in CallbackLists
  BY DEF CallbackLists
<1>2. d = Started(q)
  BY DEF Begun
<1> HIDE DEF q
<1>3. d = [q EXCEPT !.locked = TRUE, !.firing = TRUE, !.memory = TRUE, !.queue = 0]
  BY <1>1, <1>2 DEF Started
<1>4. /\ d \in CallbackLists /\ d.list = q.list /\ d.index = q.index /\ d.queue = 0
      /\ d.spent = q.spent
  BY <1>1, <1>3 DEF CallbackLists
<1>5. d.memory = TRUE /\ d.firing = TRUE /\ d.locked = TRUE
  BY <1>1, <1>3 DEF CallbackLists
<1> QED BY <1>1, <1>4, <1>5

(* What fireWith does to a list that has not fired.                          *)
LEMMA FireWithIs ==
  ASSUME NEW a, Sound(a), NEW l \in Lists, Fresh(a, l), NEW b, b = FireWith(a, l)
  PROVE  /\ Sound(b) /\ Outside(a, b, l) /\ Firing(b, l)
         /\ b.lists[l].index = 0 /\ Gap(b, l) = Gap(a, l)
         /\ b.calls = Cons(<<"fire", l>>, a.calls)
<1> DEFINE c == a.lists[l]
           d == Begun(c)
           q == [c EXCEPT !.queue = @ + 1]
           calls == Cons(<<"fire", l>>, a.calls)
<1>1. /\ a \in Ajaxes /\ Linked(a, l) /\ c \in CallbackLists /\ a.calls \in Seq(Frames)
      /\ ~c.spent /\ ~c.firing /\ ~c.locked /\ c.queue = 0 /\ c.index = 0
  BY AjaxIs DEF Sound, Fresh
<1>2. /\ d \in CallbackLists /\ d.list = c.list /\ d.index = c.index /\ d.queue = 0
      /\ d.spent = c.spent /\ d.memory = TRUE /\ d.firing = TRUE /\ d.locked = TRUE
  BY <1>1, BegunIs
<1>3. b = Relisted(a, l, d, calls)
  <2>1. b = Fire([a EXCEPT !.lists[l] = q], l)
    BY <1>1 DEF FireWith
  <2> DEFINE f == [a EXCEPT !.lists[l] = q]
  <2>2. f.lists[l] = q /\ f.calls = a.calls
    BY <1>1 DEF Ajaxes
  <2>3. b = [f EXCEPT !.lists[l] = Started(q), !.calls = calls]
    BY <2>1, <2>2 DEF Fire
  <2>4. [f EXCEPT !.lists[l] = Started(q), !.calls = calls]
          = [a EXCEPT !.lists[l] = Started(q), !.calls = calls]
    <3> HIDE DEF q, calls
    <3> QED BY <1>1 DEF Ajaxes
  <2>5. d = Started(q)
    BY DEF Begun
  <2> QED BY <2>3, <2>4, <2>5 DEF Relisted
<1>4. calls \in Seq(Frames)
  BY <1>1, ConsIs, FramesAre
<1> HIDE DEF d, calls
<1>5. /\ b \in Ajaxes /\ Outside(a, b, l) /\ b.calls = calls
      /\ b.lists[l] = d /\ b.attached = a.attached /\ b.ran = a.ran
  BY <1>1, <1>2, <1>3, <1>4, ListMoves
<1>6. Gap(b, l) = Gap(a, l)
  BY <1>2, <1>5 DEF Gap
<1>7. Linked(b, l)
  BY <1>1, <1>2, <1>5, <1>6 DEF Linked
<1>8. Firing(b, l)
  BY <1>1, <1>2, <1>5 DEF Firing
<1> QED BY <1>1, <1>2, <1>5, <1>6, <1>7, <1>8, SoundOutside DEF calls

\* A list at its end.
Emptied(c) == [c EXCEPT !.index = 0, !.firing = FALSE, !.list = <<>>]

(* The list is emptied, and keeps its memory.                                *)
LEMMA EmptiedIs ==
  ASSUME NEW c \in CallbackLists, NEW d, d = Emptied(c)
  PROVE  /\ d \in CallbackLists /\ d.list = <<>> /\ d.index = 0 /\ d.queue = c.queue
         /\ d.spent = c.spent /\ d.memory = c.memory /\ d.firing = FALSE
         /\ d.locked = c.locked
<1>1. /\ d.list = <<>> /\ d.index = 0 /\ d.queue = c.queue
      /\ d.spent = c.spent /\ d.memory = c.memory /\ d.firing = FALSE
      /\ d.locked = c.locked
  BY DEF Emptied, CallbackLists
<1>2. d \in CallbackLists
  <2> DEFINE none == <<>>
  <2>1. none \in Seq(Handlers \union {"settle"})
    OBVIOUS
  <2> DEFINE e == [c EXCEPT !.index = 0, !.list = none]
             given == FALSE
  <2>2. given \in BOOLEAN
    OBVIOUS
  <2> HIDE DEF none
  <2>3. e \in CallbackLists
    BY <2>1 DEF CallbackLists
  <2>4. d = [e EXCEPT !.firing = given]
    BY DEF Emptied, CallbackLists, none
  <2> HIDE DEF e, given
  <2> QED BY <2>2, <2>3, <2>4 DEF CallbackLists
<1> QED BY <1>1, <1>2

(* The loop of fire has called every handler that was given to the list.     *)
LEMMA FiredIs ==
  ASSUME NEW a, Sound(a), NEW l \in Lists, Firing(a, l),
         a.lists[l].index >= Len(a.lists[l].list), a.lists[l].index + Gap(a, l) >= 0,
         a.calls # <<>>, NEW b, b = Relisted(a, l, Emptied(a.lists[l]), Tail(a.calls))
  PROVE  /\ Sound(b) /\ Outside(a, b, l) /\ Rested(b, l) /\ b.calls = Tail(a.calls)
         /\ b.lists[l].index + Gap(b, l) >= 0
<1> DEFINE c == a.lists[l]
           d == Emptied(c)
           calls == Tail(a.calls)
<1>1. /\ a \in Ajaxes /\ Linked(a, l) /\ c \in CallbackLists /\ calls \in Seq(Frames)
      /\ ~c.spent /\ c.memory /\ c.firing /\ c.locked /\ c.queue = 0
  BY AjaxIs DEF Sound, Firing
<1>2. /\ d \in CallbackLists /\ d.list = <<>> /\ d.index = 0 /\ d.queue = c.queue
      /\ d.spent = c.spent /\ d.memory = c.memory /\ d.firing = FALSE
      /\ d.locked = c.locked
  BY <1>1, EmptiedIs
<1>3. b = Relisted(a, l, d, calls)
  OBVIOUS
<1> HIDE DEF d, calls
<1>4. /\ b \in Ajaxes /\ Outside(a, b, l) /\ b.calls = calls
      /\ b.lists[l] = d /\ b.attached = a.attached /\ b.ran = a.ran
  BY <1>1, <1>2, <1>3, ListMoves
<1>5. /\ Gap(b, l) = Len(a.attached[l]) /\ Len(a.attached[l]) \in Nat
      /\ Len(a.ran[l]) = Len(a.attached[l])
  <2>1. Gap(b, l) = Len(a.attached[l]) - 0
    BY <1>2, <1>4 DEF Gap
  <2>2. /\ c.index \in Nat /\ Len(c.list) \in Nat
        /\ Len(a.attached[l]) \in Nat /\ Gap(a, l) \in Int
        /\ Gap(a, l) = Len(a.attached[l]) - Len(c.list)
        /\ c.index <= Len(c.list)
        /\ Len(a.ran[l]) = IF c.index + Gap(a, l) = -1 THEN 0 ELSE c.index + Gap(a, l)
    BY <1>1, LengthsAre
  <2>3. c.index >= Len(c.list) /\ c.index + Gap(a, l) >= 0
    OBVIOUS
  <2> DEFINE i == c.index  len == Len(c.list)  r == Len(a.ran[l])
             t == Len(a.attached[l])  g == Gap(a, l)  e == Gap(b, l)
  <2>4. /\ i \in Nat /\ len \in Nat /\ t \in Nat /\ g \in Int /\ e = t - 0
        /\ g = t - len /\ i <= len /\ i >= len /\ i + g >= 0
        /\ r = IF i + g = -1 THEN 0 ELSE i + g
    BY <2>1, <2>2, <2>3
  <2> HIDE DEF i, len, r, t, g, e
  <2>5. e = t /\ r = t
    BY <2>4
  <2> QED BY <2>4, <2>5 DEF r, t, e
<1>6. Linked(b, l)
  <2>1. d.index \in 0..Len(d.list) /\ \A i \in (d.index + 1)..Len(d.list) : FALSE
    BY <1>2
  <2>2. Gap(b, l) >= 0 /\ d.index + Gap(b, l) # -1 /\ Len(a.ran[l]) = d.index + Gap(b, l)
    BY <1>2, <1>5
  <2>3. \A i \in 1..Len(a.ran[l]) : a.ran[l][i] = a.attached[l][i]
    BY <1>1 DEF Linked
  <2>4. Gap(b, l) >= -1
    BY <1>5
  <2> QED BY <1>4, <2>1, <2>2, <2>3, <2>4 DEF Linked
<1>7. Rested(b, l)
  BY <1>1, <1>2, <1>4 DEF Rested
<1>8. b.lists[l].index + Gap(b, l) >= 0
  BY <1>2, <1>4, <1>5
<1> QED BY <1>1, <1>4, <1>6, <1>7, <1>8, SoundOutside DEF calls

(* A list that was disabled.                                                 *)
LEMMA DisabledIs ==
  ASSUME NEW c \in CallbackLists, NEW d, d = Disabled(c)
  PROVE  /\ d \in CallbackLists /\ d.list = <<>> /\ d.index = c.index /\ d.queue = 0
         /\ d.spent = TRUE /\ d.memory = FALSE /\ d.firing = c.firing /\ d.locked = TRUE
<1>1. /\ d.list = <<>> /\ d.index = c.index /\ d.queue = 0
      /\ d.spent = TRUE /\ d.memory = FALSE /\ d.firing = c.firing /\ d.locked = TRUE
  BY DEF Disabled, CallbackLists
<1>2. d \in CallbackLists
  <2> DEFINE none == <<>>  yes == TRUE  no == FALSE
             e == [c EXCEPT !.queue = 0, !.list = none]
             f == [e EXCEPT !.locked = yes]
             g == [f EXCEPT !.spent = yes]
  <2>1. /\ none \in Seq(Handlers \union {"settle"}) /\ yes \in BOOLEAN /\ no \in BOOLEAN
    OBVIOUS
  <2>2. d = [g EXCEPT !.memory = no]
    BY DEF Disabled, CallbackLists
  <2> HIDE DEF none, yes, no
  <2>3. e \in CallbackLists
    BY <2>1 DEF CallbackLists
  <2> HIDE DEF e
  <2>4. f \in CallbackLists
    BY <2>1, <2>3 DEF CallbackLists
  <2> HIDE DEF f
  <2>5. g \in CallbackLists
    BY <2>1, <2>4 DEF CallbackLists
  <2> HIDE DEF g
  <2> QED BY <2>1, <2>2, <2>5 DEF CallbackLists
<1> QED BY <1>1, <1>2

\* The list moves on, and the outcome is known.
Resolved(a, l, d, o, e, state) ==
  [[a EXCEPT !.lists[l] = d] EXCEPT !.state = state, !.lists[o] = e]

HasResolved(a, b, l, d, o, e, state) ==
  /\ b \in Ajaxes /\ b.calls = a.calls /\ b.completed = a.completed
  /\ b.active = a.active /\ b.state = state /\ b.lists[l] = d /\ b.lists[o] = e
  /\ b.attached = a.attached /\ b.ran = a.ran
  /\ \A m \in Lists : m # l /\ m # o => Same(a, b, m)

(* The two lists of a request change, and its state.                         *)
LEMMA ResolvedIs ==
  ASSUME NEW a \in Ajaxes, NEW l \in Lists, NEW o \in Lists, o # l,
         NEW d \in CallbackLists, NEW e \in CallbackLists,
         NEW state \in {"pending", "resolved", "rejected"},
         NEW b, b = Resolved(a, l, d, o, e, state)
  PROVE  HasResolved(a, b, l, d, o, e, state)
BY DEF Resolved, HasResolved, Ajaxes, Same

(* The deferred's own callback settles the request: its list goes on with    *)
(* the handlers, and that of the other outcome is disabled.                  *)
LEMMA SettleIs ==
  ASSUME NEW a, Sound(a), NEW l \in {"done", "fail"}, Firing(a, l),
         a.lists[l].index = 0, Gap(a, l) = -1, Fresh(a, Other(l)),
         NEW b, b = Called(Advanced(a, l), l, Following(a, l))
  PROVE  /\ Sound(b) /\ b.calls = a.calls /\ b.completed = a.completed
         /\ b.active = a.active /\ b.state # "pending" /\ Side(b) = l
         /\ Firing(b, l) /\ b.lists[l].index + Gap(b, l) >= 0 /\ Dead(b, Other(l))
         /\ Same(a, b, "complete")
<1> DEFINE o == Other(l)
           c == a.lists[l]
           d == [c EXCEPT !.index = @ + 1]
           e == Disabled(a.lists[o])
           state == IF l = "done" THEN "resolved" ELSE "rejected"
<1>1. /\ l \in Lists /\ o \in Lists /\ o # l /\ o # "complete" /\ l # "complete"
      /\ Other(l) = o /\ "complete" \in Lists /\ Lists = {l, o, "complete"}
      /\ state \in {"pending", "resolved", "rejected"} /\ state # "pending"
      /\ l = IF state = "resolved" THEN "done" ELSE "fail"
  BY DEF Lists, Other
<1>2. /\ a \in Ajaxes /\ Linked(a, l) /\ Linked(a, o)
      /\ c \in CallbackLists /\ a.lists[o] \in CallbackLists
      /\ ~c.spent /\ c.memory /\ c.firing /\ c.locked /\ c.queue = 0 /\ c.index = 0
      /\ ~a.lists[o].spent /\ ~a.lists[o].firing /\ a.lists[o].index = 0 /\ Gap(a, o) = -1
  BY <1>1, AjaxIs DEF Sound, Firing, Fresh
<1>3. /\ d \in CallbackLists /\ d.index = c.index + 1 /\ d.list = c.list
      /\ d.spent = c.spent /\ d.memory = c.memory /\ d.firing = c.firing
      /\ d.locked = c.locked /\ d.queue = c.queue
  BY <1>2, NextIs
<1>4. /\ e \in CallbackLists /\ e.list = <<>> /\ e.index = a.lists[o].index /\ e.queue = 0
      /\ e.spent = TRUE /\ e.memory = FALSE /\ e.firing = a.lists[o].firing
      /\ e.locked = TRUE
  BY <1>2, DisabledIs
<1>5. /\ Len(c.list) \in Nat /\ Len(c.list) >= 1 /\ Following(a, l) = "settle"
      /\ a.ran[l] = <<>> /\ a.ran[o] = <<>>
  <2>1. /\ Len(c.list) \in Nat /\ Len(a.attached[l]) \in Nat
        /\ Gap(a, l) = Len(a.attached[l]) - Len(c.list)
        /\ a.lists[l].index + Gap(a, l) = -1 => a.ran[l] = <<>>
        /\ a.lists[o].index + Gap(a, o) = -1 => a.ran[o] = <<>>
    BY <1>1, <1>2, LengthsAre
  <2>2. Len(c.list) >= 1 /\ c.index + Gap(a, l) = -1 /\ a.lists[o].index + Gap(a, o) = -1
    <3> DEFINE len == Len(c.list)  t == Len(a.attached[l])
    <3>1. len \in Nat /\ t \in Nat /\ -1 = t - len
      BY <2>1
    <3> HIDE DEF len, t
    <3>2. len >= 1
      BY <3>1
    <3> QED BY <1>2, <3>2 DEF len
  <2>3. \A i \in (c.index + 1)..Len(c.list) :
          c.list[i] = IF i + Gap(a, l) = 0 THEN "settle" ELSE a.attached[l][i + Gap(a, l)]
    BY <1>2 DEF Linked
  <2>4. /\ c.index + 1 \in (c.index + 1)..Len(c.list)
        /\ (c.index + 1) + Gap(a, l) = 0
    BY <1>2, <2>1, <2>2
  <2>5. c.list[c.index + 1] = "settle"
    BY <2>3, <2>4
  <2> QED BY <2>1, <2>2, <2>5 DEF Following
<1>6. b = Resolved(a, l, d, o, e, state)
  <2>1. "settle" \notin Handlers
    BY DEF Handlers
  <2>2. Advanced(a, l) = [a EXCEPT !.lists[l] = d]
    BY DEF Advanced
  <2>3. b = [Advanced(a, l) EXCEPT !.state = state, !.lists[o] = Disabled(Advanced(a, l).lists[o])]
    BY <1>5 DEF Called
  <2>4. Advanced(a, l).lists[o] = a.lists[o]
    <3> HIDE DEF d, o
    <3> QED BY <1>1, <1>2, <2>2 DEF Ajaxes
  <2> QED BY <2>2, <2>3, <2>4 DEF Resolved
<1> HIDE DEF d, e, o, state
<1>7. /\ b \in Ajaxes /\ b.calls = a.calls /\ b.completed = a.completed
      /\ b.active = a.active /\ b.state = state /\ b.lists[l] = d /\ b.lists[o] = e
      /\ b.attached = a.attached /\ b.ran = a.ran
      /\ \A m \in Lists : m # l /\ m # o => Same(a, b, m)
  <2>1. /\ a \in Ajaxes /\ l \in Lists /\ o \in Lists /\ o # l
        /\ d \in CallbackLists /\ e \in CallbackLists
        /\ state \in {"pending", "resolved", "rejected"}
    BY <1>1, <1>2, <1>3, <1>4
  <2> HIDE DEF c
  <2>2. HasResolved(a, b, l, d, o, e, state)
    BY <1>6, <2>1, ResolvedIs
  <2> QED BY <2>2 DEF HasResolved
<1>8. Gap(b, l) = -1 /\ Gap(a, l) = -1
  BY <1>3, <1>7 DEF Gap
<1>9. Linked(b, l)
  <2>1. d.index = 1 /\ d.index \in 0..Len(d.list) /\ d.index + Gap(b, l) = 0
    BY <1>2, <1>3, <1>5, <1>8
  <2>2. d.index + Gap(b, l) # -1 /\ Len(a.ran[l]) = d.index + Gap(b, l)
    BY <1>5, <2>1
  <2>3. \A i \in (d.index + 1)..Len(d.list) :
          d.list[i] = IF i + Gap(b, l) = 0 THEN "settle" ELSE a.attached[l][i + Gap(b, l)]
    <3>1. \A i \in (d.index + 1)..Len(d.list) : i \in (c.index + 1)..Len(c.list)
      BY <1>2, <1>3, <1>5, <2>1
    <3>2. \A i \in (c.index + 1)..Len(c.list) :
            c.list[i] = IF i + Gap(a, l) = 0 THEN "settle"
                        ELSE a.attached[l][i + Gap(a, l)]
      BY <1>2 DEF Linked
    <3>3. d.list = c.list /\ Gap(b, l) = Gap(a, l)
      BY <1>3, <1>8
    <3> HIDE DEF c
    <3> QED BY <3>1, <3>2, <3>3
  <2>4. \A i \in 1..Len(a.ran[l]) : a.ran[l][i] = a.attached[l][i]
    BY <1>5
  <2>5. Gap(b, l) >= -1 /\ l # "complete"
    BY <1>1, <1>8
  <2> QED BY <1>7, <2>1, <2>2, <2>3, <2>4, <2>5 DEF Linked
<1>10. Dead(b, o) /\ Linked(b, o)
  <2>1. Dead(b, o)
    BY <1>2, <1>4, <1>5, <1>7 DEF Dead
  <2>2. e.index \in 0..Len(e.list)
    BY <1>2, <1>4
  <2> QED BY <1>4, <1>7, <2>1, <2>2 DEF Linked
<1>11. Same(a, b, "complete") /\ Linked(b, "complete")
  <2>1. Same(a, b, "complete")
    BY <1>1, <1>7
  <2>2. Linked(a, "complete")
    BY <1>1 DEF Sound
  <2> QED BY <2>1, <2>2, SameIs
<1>12. Sound(b)
  BY <1>1, <1>7, <1>9, <1>10, <1>11 DEF Sound
<1>13. Firing(b, l) /\ b.lists[l].index + Gap(b, l) >= 0
  <2>1. Firing(b, l)
    BY <1>2, <1>3, <1>7 DEF Firing
  <2> QED BY <1>2, <1>3, <1>7, <1>8, <2>1
<1>14. Side(b) = l /\ b.state # "pending"
  BY <1>1, <1>7 DEF Side
<1> QED BY <1>1, <1>7, <1>10, <1>11, <1>12, <1>13, <1>14

(* A list is in one state at a time.                                         *)
LEMMA OneKind ==
  ASSUME NEW a, NEW l
  PROVE  /\ Firing(a, l) => ~Fresh(a, l) /\ ~Rested(a, l) /\ ~Dead(a, l)
         /\ Rested(a, l) => ~Fresh(a, l) /\ ~Dead(a, l)
         /\ Dead(a, l) => ~Fresh(a, l)
BY DEF Fresh, Firing, Rested, Dead

(* A handler given to a list that does not call it at once.                  *)
LEMMA AddKeeps ==
  ASSUME NEW a, Sound(a), NEW l \in Lists, NEW h \in Handlers, NEW b, b = Add(a, l, h),
         Fresh(a, l) \/ Firing(a, l) \/ Dead(a, l)
  PROVE  Sound(b) /\ Keeps(a, b) /\ b.calls = a.calls
<1>1. /\ a \in Ajaxes /\ Linked(a, l)
      /\ Fresh(a, l) \/ Firing(a, l) \/ Rested(a, l) \/ Dead(a, l)
  BY DEF Sound
<1>2. /\ b \in Ajaxes /\ Linked(b, l) /\ Outside(a, b, l)
      /\ Fresh(a, l) => Fresh(b, l)
      /\ Dead(a, l) => Dead(b, l)
      /\ Firing(a, l) => /\ Firing(b, l) /\ b.lists[l].index = a.lists[l].index
                         /\ Gap(b, l) = Gap(a, l)
      /\ ~Rested(a, l) => b.calls = a.calls
  <2>1. Given(a, b, l)
    BY <1>1, AddIs
  <2> QED BY <2>1 DEF Given
<1>3. ~Rested(a, l)
  BY OneKind
<1>4. a.lists[l].index + Gap(a, l) >= 0 => b.lists[l].index + Gap(b, l) >= 0
  <2>1. CASE Fresh(a, l)
    <3>1. a.lists[l].index = b.lists[l].index /\ Gap(a, l) = Gap(b, l)
      BY <1>2, <2>1 DEF Fresh
    <3> QED BY <3>1
  <2>2. CASE Firing(a, l)
    BY <1>2, <2>2
  <2>3. CASE Dead(a, l)
    <3>1. b.lists[l].index = 0 /\ b.lists[l].list = <<>>
      BY <1>2, <2>3 DEF Dead
    <3>2. Gap(b, l) = Len(b.attached[l]) - 0 /\ Len(b.attached[l]) \in Nat
      BY <1>2, <3>1, AjaxIs DEF Gap
    <3> QED BY <3>1, <3>2
  <2> QED BY <2>1, <2>2, <2>3
<1>5. Sound(b)
  BY <1>2, SoundOutside
<1>6. Keeps(a, b)
  BY <1>2, <1>3, <1>4, OneKind, KeepsOutside
<1> QED BY <1>2, <1>3, <1>5, <1>6

(* A handler of penguinTrace's is called, and returns, throws, aborts the    *)
(* request or attaches another.                                              *)
LEMMA HandlerCalled ==
  ASSUME NEW a, Sound(a), a.completed = "yes", NEW l \in Lists, Firing(a, l),
         a.lists[l].index < Len(a.lists[l].list), a.lists[l].index + Gap(a, l) >= 0,
         \A m \in Lists : Kept(a, m),
         NEW b, b = Called(Advanced(a, l), l, Following(a, l))
  PROVE  /\ Sound(b)
         /\ \/ Keeps(a, b) /\ (b.calls = a.calls \/ b.calls = <<>>)
            \/ /\ l = "complete" /\ Rested(a, "done")
               /\ b.state = a.state /\ b.completed = a.completed /\ b.active = a.active
               /\ Firing(b, "done") /\ b.lists["done"].index + Gap(b, "done") >= 0
               /\ Firing(b, "complete") /\ (Dead(a, "fail") => Dead(b, "fail"))
               /\ b.calls = Cons(<<"fire", "done">>, a.calls)
<1> DEFINE h == Following(a, l)
           k == Counted(a, l, h)
<1>1. /\ h \in Handlers /\ Sound(k) /\ Outside(a, k, l) /\ k.calls = a.calls
      /\ Keeps(a, k) /\ k = Counted(a, l, h)
  BY CountedIs
<1>2. /\ h # "settle" /\ h \in {"returns", "throws", "aborts", "attaches"}
  BY <1>1 DEF Handlers
<1>3. /\ h = "returns" => b = k
      /\ h = "throws" => b = [k EXCEPT !.calls = <<>>]
      /\ h = "aborts" => b = Abort(k)
      /\ h = "attaches" => b = Add(k, IF l = "fail" THEN l ELSE "done", "returns")
  BY <1>2 DEF Called, Counted
<1>4. k \in Ajaxes /\ k.completed = "yes" /\ \A m \in Lists : Kept(k, m)
  BY <1>1 DEF Sound, Keeps, Kept
<1> HIDE DEF h, k
<1>5. CASE h = "returns"
  BY <1>1, <1>3, <1>5
<1>6. CASE h = "throws"
  <2> DEFINE none == <<>>
  <2>1. none \in Seq(Frames) /\ b = [k EXCEPT !.calls = none]
    BY <1>3, <1>6
  <2> HIDE DEF none
  <2>2. /\ b \in Ajaxes /\ b.lists = k.lists /\ b.attached = k.attached /\ b.ran = k.ran
        /\ b.state = k.state /\ b.completed = k.completed /\ b.active = k.active
        /\ b.calls = none
    BY <1>4, <2>1 DEF Ajaxes
  <2>3. Sound(b) /\ Keeps(k, b)
    BY <1>1, <2>2, BesidesIs
  <2> QED BY <1>1, <2>2, <2>3, KeepsTwice DEF none
<1>7. CASE h = "aborts"
  <2> DEFINE calls == IF k.transport THEN FALSE ELSE k.callback
  <2>1. calls \in BOOLEAN
    BY <1>4 DEF Ajaxes
  <2>2. b = [k EXCEPT !.callback = calls]
    BY <1>3, <1>4, <1>7 DEF Abort, Done, Ajaxes
  <2> HIDE DEF calls
  <2>3. /\ b \in Ajaxes /\ b.lists = k.lists /\ b.attached = k.attached /\ b.ran = k.ran
        /\ b.state = k.state /\ b.completed = k.completed /\ b.active = k.active
        /\ b.calls = k.calls
    BY <1>4, <2>1, <2>2 DEF Ajaxes
  <2>4. Sound(b) /\ Keeps(k, b)
    BY <1>1, <2>3, BesidesIs
  <2> QED BY <1>1, <2>3, <2>4, KeepsTwice
<1>8. CASE h = "attaches"
  <2> DEFINE m == IF l = "fail" THEN l ELSE "done"
  <2>1. /\ m \in Lists /\ "returns" \in Handlers /\ b = Add(k, m, "returns") /\ Kept(k, m)
        /\ "complete" \in Lists /\ "fail" \in Lists /\ "done" \in Lists
    BY <1>3, <1>4, <1>8 DEF Lists, Handlers
  <2>2. m # l => m = "done" /\ l = "complete"
    BY DEF Lists
  <2> HIDE DEF m
  <2>3. CASE Rested(k, m)
    <3>1. m # l
      BY <1>1, <2>3, OneKind DEF Keeps
    <3>2. m = "done" /\ l = "complete" /\ Rested(a, "done")
      <4>1. Same(a, k, m)
        BY <1>1, <2>1, <3>1 DEF Outside
      <4> QED BY <2>2, <2>3, <3>1, <4>1, SameIs
    <3>3. k \in Ajaxes /\ Linked(k, m)
      BY <1>1, <2>1 DEF Sound
    <3>10. Given(k, b, m)
      BY <2>1, <2>3, <3>3, AddIs
    <3>4. /\ b \in Ajaxes /\ Linked(b, m) /\ Outside(k, b, m)
          /\ Firing(b, m) /\ b.lists[m].index + Gap(b, m) >= 0
          /\ b.calls = Cons(<<"fire", m>>, k.calls)
      BY <2>3, <3>10 DEF Given
    <3>5. Sound(b)
      BY <1>1, <2>1, <3>4, SoundOutside
    <3>6. Same(k, b, "complete") /\ Same(k, b, "fail")
      BY <2>1, <3>2, <3>4 DEF Outside
    <3>7. Firing(b, "complete") /\ (Dead(a, "fail") => Dead(b, "fail"))
      BY <1>1, <2>1, <3>2, <3>6, SameIs DEF Keeps
    <3>8. b.state = a.state /\ b.completed = a.completed /\ b.active = a.active
      BY <1>1, <3>4 DEF Keeps, Outside
    <3>9. b.calls = Cons(<<"fire", "done">>, a.calls)
      BY <1>1, <3>2, <3>4
    <3> QED BY <3>2, <3>4, <3>5, <3>7, <3>8, <3>9
  <2>4. CASE ~Rested(k, m)
    <3>1. Fresh(k, m) \/ Firing(k, m) \/ Dead(k, m)
      BY <2>1, <2>4 DEF Kept
    <3>2. Sound(b) /\ Keeps(k, b) /\ b.calls = k.calls
      BY <1>1, <2>1, <3>1, AddKeeps
    <3> QED BY <1>1, <3>2, KeepsTwice
  <2> QED BY <2>3, <2>4
<1> QED BY <1>2, <1>5, <1>6, <1>7, <1>8

(* done (jQuery.ajax): the list of the outcome fires first, once.            *)
LEMMA DoneIs ==
  ASSUME NEW a, Sound(a), Before(a), a.completed = "no", NEW isSuccess \in BOOLEAN,
         NEW b, b = Done(a, isSuccess)
  PROVE  Sound(b) /\ \E l \in Lists : Starting(b, a.calls, l)
<1> DEFINE l == IF isSuccess THEN "done" ELSE "fail"
           calls == Cons(<<"done", "complete">>, a.calls)
           x == [a EXCEPT !.completed = "yes", !.transport = FALSE, !.calls = calls]
<1>1. /\ a \in Ajaxes /\ a.calls \in Seq(Frames) /\ a.state = "pending" /\ a.active = 1
      /\ \A m \in Lists : Fresh(a, m)
  BY DEF Sound, Before, Ajaxes
<1>2. l \in Lists /\ Other(l) \in Lists /\ Other(l) # l /\ "complete" \in Lists /\ l # "complete"
      /\ Other(l) # "complete" /\ l \in {"done", "fail"}
  BY DEF Lists, Other
<1>3. calls \in Seq(Frames)
  BY <1>1, ConsIs, FramesAre
<1>4. b = FireWith(x, l)
  BY DEF Done
<1> HIDE DEF calls, l
<1>5. /\ x \in Ajaxes /\ x.lists = a.lists /\ x.attached = a.attached /\ x.ran = a.ran
      /\ x.state = a.state /\ x.completed = "yes" /\ x.active = a.active /\ x.calls = calls
  BY <1>1, <1>3 DEF Ajaxes
<1> HIDE DEF x
<1>6. Sound(x) /\ \A m \in Lists : Same(a, x, m)
  BY <1>5, BesidesIs
<1>7. \A m \in Lists : Fresh(x, m)
  BY <1>1, <1>6, SameIs
<1>8. /\ Sound(b) /\ Outside(x, b, l) /\ Firing(b, l)
      /\ b.lists[l].index = 0 /\ Gap(b, l) = Gap(x, l)
      /\ b.calls = Cons(<<"fire", l>>, x.calls)
  BY <1>2, <1>4, <1>6, <1>7, FireWithIs
<1>9. Fresh(b, Other(l)) /\ Fresh(b, "complete")
  <2>1. Same(x, b, Other(l)) /\ Same(x, b, "complete")
    BY <1>2, <1>8 DEF Outside
  <2> QED BY <1>2, <1>7, <2>1, SameIs
<1>10. Gap(b, l) = -1
  BY <1>2, <1>7, <1>8 DEF Fresh
<1>11. b.state = "pending" /\ b.completed = "yes" /\ b.active = 1
  BY <1>1, <1>5, <1>8 DEF Outside
<1>12. Starting(b, a.calls, l)
  BY <1>2, <1>5, <1>8, <1>9, <1>10, <1>11 DEF Starting, Looping, Answering, calls
<1> QED BY <1>2, <1>8, <1>12

-----------------------------------------------------------------------------
(* Where an event is *)

(* What is called is the innermost.                                          *)
LEMMA LoopTop ==
  ASSUME NEW l \in Lists, NEW s \in Seq(Frames)
  PROVE  /\ Looping(l, s) \in Seq(Frames) /\ Looping(l, s) # <<>>
         /\ Head(Looping(l, s)) = <<"fire", l>> /\ Tail(Looping(l, s)) = s
BY ConsIs, FramesAre DEF Looping

(* done is called over its base, and returns to it.                          *)
LEMMA DoneTop ==
  ASSUME NEW base \in Bases
  PROVE  /\ base \in Seq(Frames)
         /\ Answering(base) \in Seq(Frames) /\ Answering(base) # <<>>
         /\ Head(Answering(base)) = <<"done", "complete">> /\ Tail(Answering(base)) = base
         /\ Closing(base) \in Seq(Frames) /\ Closing(base) # <<>>
         /\ Head(Closing(base)) = <<"done", "count">> /\ Tail(Closing(base)) = base
<1>1. base \in Seq(Frames)
  BY BaseIs
<1>2. /\ Answering(base) \in Seq(Frames) /\ Answering(base) # <<>>
      /\ Head(Answering(base)) = <<"done", "complete">> /\ Tail(Answering(base)) = base
  <2>1. <<"done", "complete">> \in Frames
    BY FramesAre
  <2> QED BY <1>1, <2>1, ConsIs DEF Answering
<1>3. /\ Closing(base) \in Seq(Frames) /\ Closing(base) # <<>>
      /\ Head(Closing(base)) = <<"done", "count">> /\ Tail(Closing(base)) = base
  <2>1. <<"done", "count">> \in Frames
    BY FramesAre
  <2> QED BY <1>1, <2>1, ConsIs DEF Closing
<1> QED BY <1>1, <1>2, <1>3

(* Under done is nothing, or the call of $.get, which is no loop of fire.    *)
LEMMA BaseTop ==
  ASSUME NEW base \in Bases, base # <<>>
  PROVE  \E h \in Handlers : Head(base) = <<"fail", h>> /\ Tail(base) = <<>>
<1>1. PICK h \in Handlers : base = <<<<"fail", h>>>>
  BY DEF Bases
<1> QED BY <1>1

(* The functions under way differ.                                           *)
LEMMA FramesDiffer ==
  /\ \A l \in Lists, h \in Handlers : <<"fire", l>> # <<"fail", h>>
  /\ \A l \in Lists : /\ <<"fire", l>> # <<"done", "complete">>
                      /\ <<"fire", l>> # <<"done", "count">>
  /\ \A h \in Handlers : /\ <<"fail", h>> # <<"done", "complete">>
                         /\ <<"fail", h>> # <<"done", "count">>
  /\ \A l, m : <<"fire", l>> = <<"fire", m>> => l = m
  /\ \A g, h : <<"fail", g>> = <<"fail", h>> => g = h
  /\ <<"done", "count">> # <<"done", "complete">>
OBVIOUS

\* The places where done, or a loop of fire, is under way, over base.
Inside(a, base) ==
  \/ \E l \in Lists : Starting(a, base, l)
  \/ Settling(a, base) \/ SettlingEnds(a, base) \/ Completing(a, base)
  \/ Within(a, base) \/ CompletingEnds(a, base)

(* An event is between two of the browser's, or inside done or fire.         *)
LEMMA PlacedIs ==
  ASSUME NEW a
  PROVE  Placed(a) <=> \/ Before(a) \/ Over(a) \/ Thrown(a) \/ Later(a)
                       \/ \E base \in Bases : Inside(a, base)
BY DEF Placed, Inside

(* The innermost function, at each place.                                    *)
LEMMA TopsAre ==
  ASSUME NEW a, NEW base \in Bases
  PROVE  /\ \A l \in Lists : Starting(a, base, l) =>
              a.calls # <<>> /\ Head(a.calls) = <<"fire", l>>
         /\ Settling(a, base) => a.calls # <<>> /\ Head(a.calls) = <<"fire", Side(a)>>
         /\ SettlingEnds(a, base) => a.calls # <<>> /\ Head(a.calls) = <<"done", "complete">>
         /\ Completing(a, base) => a.calls # <<>> /\ Head(a.calls) = <<"fire", "complete">>
         /\ Within(a, base) => a.calls # <<>> /\ Head(a.calls) = <<"fire", Side(a)>>
         /\ CompletingEnds(a, base) => a.calls # <<>> /\ Head(a.calls) = <<"done", "count">>
<1>1. Side(a) \in Lists /\ "complete" \in Lists
  BY ListsAre
<1>2. /\ Answering(base) \in Seq(Frames) /\ Answering(base) # <<>>
      /\ Head(Answering(base)) = <<"done", "complete">>
      /\ Closing(base) \in Seq(Frames) /\ Closing(base) # <<>>
      /\ Head(Closing(base)) = <<"done", "count">>
  BY DoneTop
<1>3. Looping("complete", Closing(base)) \in Seq(Frames)
  BY <1>1, <1>2, LoopTop
<1>4. \A l \in Lists : Starting(a, base, l) =>
         a.calls # <<>> /\ Head(a.calls) = <<"fire", l>>
  BY <1>2, LoopTop DEF Starting
<1>5. Settling(a, base) => a.calls # <<>> /\ Head(a.calls) = <<"fire", Side(a)>>
  BY <1>1, <1>2, LoopTop DEF Settling
<1>6. SettlingEnds(a, base) => a.calls # <<>> /\ Head(a.calls) = <<"done", "complete">>
  BY <1>2 DEF SettlingEnds
<1>7. Completing(a, base) => a.calls # <<>> /\ Head(a.calls) = <<"fire", "complete">>
  BY <1>1, <1>2, LoopTop DEF Completing
<1>8. Within(a, base) => a.calls # <<>> /\ Head(a.calls) = <<"fire", Side(a)>>
  BY <1>1, <1>3, LoopTop DEF Within
<1>9. CompletingEnds(a, base) => a.calls # <<>> /\ Head(a.calls) = <<"done", "count">>
  BY <1>2 DEF CompletingEnds
<1> QED BY <1>4, <1>5, <1>6, <1>7, <1>8, <1>9

(* A handler attached after the answer is called by one loop of fire.        *)
LEMMA LaterTop ==
  ASSUME NEW a, Later(a)
  PROVE  a.calls # <<>> /\ Head(a.calls) = <<"fire", Side(a)>> /\ Tail(a.calls) = <<>>
<1>1. Side(a) \in Lists /\ <<>> \in Seq(Frames)
  BY ListsAre
<1> QED BY <1>1, LoopTop DEF Later

(* The lists of a settled request.                                           *)
LEMMA SettledKept ==
  ASSUME NEW a, Settled(a), Kept(a, Side(a)), Kept(a, "complete")
  PROVE  a.completed = "yes" /\ \A l \in Lists : Kept(a, l)
<1>1. Dead(a, Other(Side(a))) /\ a.completed = "yes"
  BY DEF Settled
<1> QED BY <1>1, ListsAre DEF Kept

(* At each place every list is in one of its states, and between events the  *)
(* request is before its answer, or after, or a handler has thrown.          *)
LEMMA PlacesAre ==
  ASSUME NEW a, Placed(a)
  PROVE  /\ \A l \in Lists : Kept(a, l)
         /\ a.calls = <<>> => Before(a) \/ Over(a) \/ Thrown(a)
         /\ Before(a) \/ a.completed = "yes"
<1>1. CASE Before(a)
  BY <1>1 DEF Before, Kept
<1>2. CASE Over(a)
  <2>1. Settled(a) /\ Kept(a, Side(a)) /\ Kept(a, "complete")
    BY <1>2 DEF Over, Kept
  <2> QED BY <1>2, <2>1, SettledKept
<1>3. ASSUME NEW base \in Bases, NEW l \in Lists, Starting(a, base, l)
      PROVE  (\A m \in Lists : Kept(a, m)) /\ a.calls # <<>> /\ a.completed = "yes"
  <2>1. \A m \in Lists : m = l \/ m = Other(l) \/ m = "complete"
    BY <1>3, ListsAre DEF Starting
  <2>2. Firing(a, l) /\ Fresh(a, Other(l)) /\ Fresh(a, "complete") /\ a.completed = "yes"
    BY <1>3 DEF Starting
  <2> QED BY <1>3, <2>1, <2>2, TopsAre DEF Kept
<1>4. ASSUME NEW base \in Bases,
             Settling(a, base) \/ SettlingEnds(a, base) \/ Completing(a, base)
               \/ Within(a, base) \/ CompletingEnds(a, base)
      PROVE  (\A m \in Lists : Kept(a, m)) /\ a.calls # <<>> /\ a.completed = "yes"
  <2>1. Settled(a) /\ Kept(a, Side(a)) /\ Kept(a, "complete")
    BY <1>4 DEF Settling, SettlingEnds, Completing, Within, CompletingEnds, Kept
  <2>2. a.calls # <<>>
    BY <1>4, TopsAre
  <2> QED BY <2>1, <2>2, SettledKept
<1>5. CASE Thrown(a)
  <2>1. Settled(a) /\ Kept(a, Side(a)) /\ Kept(a, "complete")
    BY <1>5 DEF Thrown, Kept
  <2> QED BY <1>5, <2>1, SettledKept
<1>6. CASE Later(a)
  <2>1. Settled(a) /\ Kept(a, Side(a)) /\ Kept(a, "complete")
    BY <1>6 DEF Later, Kept
  <2> QED BY <1>6, <2>1, SettledKept, LaterTop
<1> QED BY <1>1, <1>2, <1>3, <1>4, <1>5, <1>6, PlacedIs DEF Inside

(* The place of a request stays, when nothing of it is lost.                 *)
LEMMA KeepsPlace ==
  ASSUME NEW a, NEW b, Keeps(a, b), b.calls = a.calls, Settled(a), NEW base
  PROVE  /\ Settling(a, base) => Settling(b, base)
         /\ Completing(a, base) => Completing(b, base)
         /\ Within(a, base) => Within(b, base)
         /\ Later(a) => Later(b)
         /\ Over(a) => Over(b)
         /\ Thrown(a) => Thrown(b)
<1>1. Settled(b) /\ Side(b) = Side(a) /\ Side(a) \in Lists /\ "complete" \in Lists
  BY StaysSettled, ListsAre
<1>2. b.active = a.active
  BY DEF Keeps
<1>3. \A l \in {Side(a), "complete"} :
        /\ (Fresh(a, l) => Fresh(b, l)) /\ (Firing(a, l) => Firing(b, l))
        /\ (Rested(a, l) => Rested(b, l)) /\ (Kept(a, l) => Kept(b, l))
  BY <1>1 DEF Keeps, Kept
<1>4. /\ Settling(a, base) => Settling(b, base)
      /\ Completing(a, base) => Completing(b, base)
  BY <1>1, <1>2, <1>3 DEF Settling, Completing
<1>5. /\ Within(a, base) => Within(b, base)
      /\ Later(a) => Later(b)
  BY <1>1, <1>2, <1>3 DEF Within, Later
<1>6. /\ Over(a) => Over(b)
      /\ Thrown(a) => Thrown(b)
  BY <1>1, <1>2, <1>3 DEF Over, Thrown
<1> QED BY <1>4, <1>5, <1>6

(* An exception ends every function under way.                               *)
LEMMA ThrowsIs ==
  ASSUME NEW a, NEW b, Keeps(a, b), b.calls = <<>>, Settled(a), Kept(a, "complete"),
         Firing(a, Side(a)) \/ (Rested(a, Side(a)) /\ Firing(a, "complete"))
  PROVE  Thrown(b)
<1>1. Settled(b) /\ Side(b) = Side(a) /\ Side(a) \in Lists /\ "complete" \in Lists
  BY StaysSettled, ListsAre
<1>2. \A l \in {Side(a), "complete"} :
        /\ (Firing(a, l) => Firing(b, l)) /\ (Rested(a, l) => Rested(b, l))
        /\ (Kept(a, l) => Kept(b, l))
  BY <1>1 DEF Keeps, Kept
<1> QED BY <1>1, <1>2 DEF Thrown

(* Where the innermost function is a loop of fire.                           *)
LEMMA FiringPlaces ==
  ASSUME NEW a, Placed(a), NEW l \in Lists, a.calls # <<>>, Head(a.calls) = <<"fire", l>>
  PROVE  \/ \E base \in Bases : Starting(a, base, l)
         \/ l = Side(a) /\ \E base \in Bases : Settling(a, base)
         \/ l = "complete" /\ \E base \in Bases : Completing(a, base)
         \/ l = Side(a) /\ \E base \in Bases : Within(a, base)
         \/ l = Side(a) /\ Later(a)
<1>1. ~Before(a) /\ ~Over(a) /\ ~Thrown(a)
  <2>1. a.calls \notin Bases
    BY BaseTop, FramesDiffer
  <2> QED BY <2>1 DEF Before, Over, Thrown
<1>2. ASSUME NEW base \in Bases, NEW m \in Lists, Starting(a, base, m)
      PROVE  m = l
  <2>1. Head(a.calls) = <<"fire", m>>
    BY <1>2, TopsAre
  <2> QED BY <2>1
<1>3. ASSUME NEW base \in Bases
      PROVE  /\ Settling(a, base) => l = Side(a)
             /\ Completing(a, base) => l = "complete"
             /\ Within(a, base) => l = Side(a)
             /\ ~SettlingEnds(a, base) /\ ~CompletingEnds(a, base)
  BY TopsAre, FramesDiffer
<1>4. Later(a) => l = Side(a)
  BY LaterTop, FramesDiffer
<1> QED BY <1>1, <1>2, <1>3, <1>4, PlacedIs DEF Inside

(* The loop of fire calls its next handler.                                  *)
LEMMA CallIs ==
  ASSUME NEW a, Sound(a), Placed(a), NEW l \in Lists,
         a.calls # <<>>, Head(a.calls) = <<"fire", l>>,
         a.lists[l].index < Len(a.lists[l].list),
         NEW b, b = Called(Advanced(a, l), l, Following(a, l))
  PROVE  Sound(b) /\ Placed(b)
<1>1. CASE \E base \in Bases : Starting(a, base, l)
  <2>1. PICK base \in Bases : Starting(a, base, l)
    BY <1>1
  <2>2. /\ l \in {"done", "fail"} /\ Firing(a, l) /\ a.lists[l].index = 0 /\ Gap(a, l) = -1
        /\ Fresh(a, Other(l)) /\ Fresh(a, "complete") /\ a.completed = "yes" /\ a.active = 1
        /\ a.calls = Looping(l, Answering(base))
    BY <2>1 DEF Starting, Lists
  <2>3. /\ Sound(b) /\ b.calls = a.calls /\ b.completed = a.completed
        /\ b.active = a.active /\ b.state # "pending" /\ Side(b) = l
        /\ Firing(b, l) /\ b.lists[l].index + Gap(b, l) >= 0 /\ Dead(b, Other(l))
        /\ Same(a, b, "complete")
    BY <2>2, SettleIs
  <2>4. Fresh(b, "complete")
    BY <2>2, <2>3, SameIs
  <2>5. Settling(b, base)
    BY <2>2, <2>3, <2>4 DEF Settling, Settled
  <2> QED BY <2>3, <2>5, PlacedIs DEF Inside
<1>2. ASSUME Settled(a), l = Side(a), Firing(a, l), Kept(a, "complete"),
             NEW base, (base \in Bases /\ (Settling(a, base) \/ Within(a, base))) \/ Later(a)
      PROVE  Sound(b) /\ Placed(b)
  <2>1. a.completed = "yes" /\ a.lists[l].index + Gap(a, l) >= 0 /\ l # "complete"
    BY <1>2, ListsAre DEF Settled
  <2>2. \A m \in Lists : Kept(a, m)
    BY PlacesAre
  <2>3. Sound(b) /\ Keeps(a, b) /\ (b.calls = a.calls \/ b.calls = <<>>)
    BY <1>2, <2>1, <2>2, HandlerCalled
  <2>4. CASE b.calls = a.calls
    BY <1>2, <2>3, <2>4, KeepsPlace, PlacedIs DEF Inside
  <2>5. CASE b.calls = <<>>
    <3>1. Thrown(b)
      BY <1>2, <2>3, <2>5, ThrowsIs
    <3> QED BY <2>3, <3>1, PlacedIs
  <2> QED BY <2>3, <2>4, <2>5
<1>3. CASE l = "complete" /\ \E base \in Bases : Completing(a, base)
  <2>1. PICK base \in Bases : Completing(a, base)
    BY <1>3
  <2>2. /\ Settled(a) /\ Rested(a, Side(a)) /\ Firing(a, "complete") /\ a.active = 1
        /\ a.calls = Looping("complete", Closing(base)) /\ a.completed = "yes"
        /\ a.state # "pending" /\ Dead(a, Other(Side(a)))
    BY <2>1 DEF Completing, Settled
  <2>3. a.lists[l].index + Gap(a, l) >= 0
    <3>1. ~a.lists[l].spent
      BY <1>3, <2>2 DEF Firing
    <3> QED BY <1>3, <3>1, LengthsAre
  <2>4. \A m \in Lists : Kept(a, m)
    BY PlacesAre
  <2> DEFINE Nested == /\ l = "complete" /\ Rested(a, "done")
                       /\ b.state = a.state /\ b.completed = a.completed
                       /\ b.active = a.active
                       /\ Firing(b, "done") /\ b.lists["done"].index + Gap(b, "done") >= 0
                       /\ Firing(b, "complete") /\ (Dead(a, "fail") => Dead(b, "fail"))
                       /\ b.calls = Cons(<<"fire", "done">>, a.calls)
  <2>5. Sound(b) /\ ((Keeps(a, b) /\ (b.calls = a.calls \/ b.calls = <<>>)) \/ Nested)
    BY <1>3, <2>2, <2>3, <2>4, HandlerCalled
  <2>6. CASE Keeps(a, b) /\ b.calls = a.calls
    BY <2>1, <2>2, <2>5, <2>6, KeepsPlace, PlacedIs DEF Inside
  <2>7. CASE Keeps(a, b) /\ b.calls = <<>>
    <3>1. Thrown(b)
      BY <2>2, <2>4, <2>7, ThrowsIs DEF Kept
    <3> QED BY <2>5, <3>1, PlacedIs
  <2>8. CASE Nested
    <3>1. Side(a) = "done" /\ Other(Side(a)) = "fail" /\ Side(b) = "done"
      <4>1. Side(a) = "fail" => ~Rested(a, "done")
        BY <2>2, ListsAre, OneKind
      <4> QED BY <2>8, <4>1, ListsAre DEF Side
    <3>2. b.calls = Looping(Side(b), Looping("complete", Closing(base)))
      BY <2>2, <2>8, <3>1 DEF Looping
    <3>3. Settled(b) /\ Firing(b, Side(b)) /\ Firing(b, "complete") /\ b.active = 1
      BY <2>2, <2>8, <3>1 DEF Settled
    <3>4. Within(b, base)
      BY <3>2, <3>3 DEF Within
    <3> QED BY <2>5, <3>4, PlacedIs DEF Inside
  <2> QED BY <2>5, <2>6, <2>7, <2>8
<1>4. CASE l = Side(a) /\ \E base \in Bases : Settling(a, base)
  <2>1. PICK base \in Bases : Settling(a, base)
    BY <1>4
  <2>2. Settled(a) /\ Firing(a, l) /\ Kept(a, "complete")
    BY <1>4, <2>1 DEF Settling, Kept
  <2> QED BY <1>2, <1>4, <2>1, <2>2
<1>5. CASE l = Side(a) /\ \E base \in Bases : Within(a, base)
  <2>1. PICK base \in Bases : Within(a, base)
    BY <1>5
  <2>2. Settled(a) /\ Firing(a, l) /\ Kept(a, "complete")
    BY <1>5, <2>1 DEF Within, Kept
  <2> QED BY <1>2, <1>5, <2>1, <2>2
<1>6. CASE l = Side(a) /\ Later(a)
  <2>1. Settled(a) /\ Firing(a, l) /\ Kept(a, "complete")
    BY <1>6 DEF Later, Kept
  <2> QED BY <1>2, <1>6, <2>1
<1> QED BY <1>1, <1>3, <1>4, <1>5, <1>6, FiringPlaces

(* The loop of fire is at its end.                                           *)
LEMMA LoopEnds ==
  ASSUME NEW a, Sound(a), Placed(a), NEW l \in Lists,
         a.calls # <<>>, Head(a.calls) = <<"fire", l>>,
         a.lists[l].index >= Len(a.lists[l].list),
         NEW b, b = Relisted(a, l, Emptied(a.lists[l]), Tail(a.calls))
  PROVE  Sound(b) /\ Placed(b)
<1> DEFINE Ended(m) ==
      /\ Sound(b) /\ Outside(a, b, m) /\ Rested(b, m) /\ b.calls = Tail(a.calls)
      /\ b.lists[m].index + Gap(b, m) >= 0
<1>1. ASSUME NEW base \in Bases, Starting(a, base, l) PROVE FALSE
  <2>1. Firing(a, l) /\ a.lists[l].index = 0 /\ Gap(a, l) = -1
    BY <1>1 DEF Starting
  <2>2. ~a.lists[l].spent
    BY <2>1 DEF Firing
  <2>3. /\ Len(a.lists[l].list) \in Nat /\ Len(a.attached[l]) \in Nat
        /\ Gap(a, l) = Len(a.attached[l]) - Len(a.lists[l].list)
    BY <2>2, LengthsAre
  <2> DEFINE len == Len(a.lists[l].list)  t == Len(a.attached[l])
  <2>4. len \in Nat /\ t \in Nat /\ -1 = t - len /\ 0 >= len
    BY <2>1, <2>3
  <2> HIDE DEF len, t
  <2> QED BY <2>4
<1>2. ASSUME Settled(a), l = Side(a), Firing(a, l)
      PROVE  /\ Ended(Side(a)) /\ Settled(b) /\ Side(b) = Side(a)
             /\ Same(a, b, "complete") /\ b.active = a.active /\ b.calls = Tail(a.calls)
  <2>1. a.lists[l].index + Gap(a, l) >= 0
    BY <1>2 DEF Settled
  <2>2. Ended(l)
    BY <1>2, <2>1, FiredIs
  <2>3. Same(a, b, Other(Side(a))) /\ Same(a, b, "complete") /\ Side(b) = Side(a)
    BY <1>2, <2>2, ListsAre DEF Outside, Side
  <2>4. Dead(b, Other(Side(a))) /\ b.state = a.state /\ b.completed = a.completed
        /\ b.active = a.active /\ a.state # "pending" /\ a.completed = "yes"
    BY <1>2, <2>2, <2>3, SameIs DEF Outside, Settled
  <2>5. Settled(b)
    BY <1>2, <2>2, <2>3, <2>4 DEF Settled
  <2> QED BY <1>2, <2>2, <2>3, <2>4, <2>5
<1>3. CASE l = Side(a) /\ \E base \in Bases : Settling(a, base)
  <2>1. PICK base \in Bases : Settling(a, base)
    BY <1>3
  <2>2. /\ Settled(a) /\ Firing(a, l) /\ Fresh(a, "complete") /\ a.active = 1
        /\ a.calls = Looping(Side(a), Answering(base))
    BY <1>3, <2>1 DEF Settling
  <2>3. Tail(a.calls) = Answering(base)
    BY <1>3, <2>2, LoopTop, DoneTop
  <2>4. Fresh(b, "complete")
    BY <1>2, <1>3, <2>2, SameIs
  <2>5. SettlingEnds(b, base)
    BY <1>2, <1>3, <2>2, <2>3, <2>4 DEF SettlingEnds
  <2> QED BY <1>2, <1>3, <2>2, <2>5, PlacedIs DEF Inside
<1>4. CASE l = Side(a) /\ \E base \in Bases : Within(a, base)
  <2>1. PICK base \in Bases : Within(a, base)
    BY <1>4
  <2>2. /\ Settled(a) /\ Firing(a, l) /\ Firing(a, "complete") /\ a.active = 1
        /\ a.calls = Looping(Side(a), Looping("complete", Closing(base)))
    BY <1>4, <2>1 DEF Within
  <2>3. Tail(a.calls) = Looping("complete", Closing(base))
    <3>1. Looping("complete", Closing(base)) \in Seq(Frames)
      BY ListsAre, LoopTop, DoneTop
    <3> QED BY <1>4, <2>2, <3>1, LoopTop
  <2>4. Firing(b, "complete")
    BY <1>2, <1>4, <2>2, SameIs
  <2>5. Completing(b, base)
    BY <1>2, <1>4, <2>2, <2>3, <2>4 DEF Completing
  <2> QED BY <1>2, <1>4, <2>2, <2>5, PlacedIs DEF Inside
<1>5. CASE l = Side(a) /\ Later(a)
  <2>1. /\ Settled(a) /\ Firing(a, l)
        /\ Firing(a, "complete") \/ (Rested(a, "complete") /\ a.active = 0)
    BY <1>5 DEF Later
  <2>2. Tail(a.calls) = <<>>
    BY <1>5, LaterTop
  <2>3. Firing(b, "complete") \/ (Rested(b, "complete") /\ b.active = 0)
    BY <1>2, <1>5, <2>1, SameIs
  <2>4. Over(b) \/ Thrown(b)
    BY <1>2, <1>5, <2>1, <2>2, <2>3 DEF Over, Thrown, Bases
  <2> QED BY <1>2, <1>5, <2>1, <2>4, PlacedIs
<1>6. CASE l = "complete" /\ \E base \in Bases : Completing(a, base)
  <2>1. PICK base \in Bases : Completing(a, base)
    BY <1>6
  <2>2. /\ Settled(a) /\ Rested(a, Side(a)) /\ Firing(a, l) /\ a.active = 1
        /\ a.calls = Looping("complete", Closing(base)) /\ ~a.lists[l].spent
    BY <1>6, <2>1 DEF Completing, Firing
  <2>3. a.lists[l].index + Gap(a, l) >= 0
    BY <1>6, <2>2, LengthsAre
  <2>4. Ended(l)
    BY <2>2, <2>3, FiredIs
  <2>5. /\ Side(a) \in Lists /\ Other(Side(a)) \in Lists
        /\ Side(a) # "complete" /\ Other(Side(a)) # "complete"
    BY ListsAre
  <2>6. Same(a, b, Side(a)) /\ Same(a, b, Other(Side(a))) /\ Side(b) = Side(a)
    BY <1>6, <2>4, <2>5 DEF Outside, Side
  <2>7. /\ Rested(b, Side(a)) /\ Dead(b, Other(Side(a)))
        /\ Gap(b, Side(a)) = Gap(a, Side(a))
        /\ b.lists[Side(a)].index = a.lists[Side(a)].index
    BY <2>2, <2>6, SameIs DEF Settled, Same
  <2>8. Settled(b) /\ b.active = 1
    BY <2>2, <2>4, <2>6, <2>7 DEF Settled, Outside
  <2>9. b.calls = Closing(base)
    BY <1>6, <2>2, <2>4, LoopTop, DoneTop
  <2>10. CompletingEnds(b, base)
    BY <1>6, <2>4, <2>6, <2>7, <2>8, <2>9 DEF CompletingEnds
  <2> QED BY <2>4, <2>10, PlacedIs DEF Inside
<1> QED BY <1>1, <1>3, <1>4, <1>5, <1>6, FiringPlaces

(* A handler is given to the request between two events, or by $.get's       *)
(* caller: it waits, is forgotten, or is called at once.                     *)
LEMMA GivenIs ==
  ASSUME NEW a, Sound(a), a.calls = <<>>, Before(a) \/ Over(a) \/ Thrown(a),
         NEW l \in {"done", "fail"}, NEW h \in Handlers, NEW b, b = Add(a, l, h)
  PROVE  Sound(b) /\ Placed(b)
<1>1. l \in Lists /\ l # "complete" /\ "complete" \in Lists /\ a \in Ajaxes /\ Linked(a, l)
  BY DEF Lists, Sound
<1>2. CASE Before(a)
  <2>1. Fresh(a, l)
    BY <1>1, <1>2 DEF Before
  <2>2. Sound(b) /\ Keeps(a, b) /\ b.calls = a.calls
    BY <1>1, <2>1, AddKeeps
  <2>3. Before(b)
    BY <1>2, <2>2 DEF Before, Keeps
  <2> QED BY <2>2, <2>3, PlacedIs
<1>3. CASE (Over(a) \/ Thrown(a)) /\ ~Rested(a, l)
  <2>1. Settled(a) /\ Kept(a, l)
    BY <1>1, <1>3, PlacesAre, PlacedIs DEF Over, Thrown
  <2>2. Sound(b) /\ Keeps(a, b) /\ b.calls = a.calls
    BY <1>1, <1>3, <2>1, AddKeeps DEF Kept
  <2>3. Over(b) \/ Thrown(b)
    BY <1>3, <2>1, <2>2, KeepsPlace
  <2> QED BY <2>2, <2>3, PlacedIs
<1>4. CASE (Over(a) \/ Thrown(a)) /\ Rested(a, l)
  <2>1. Settled(a) /\ Dead(a, Other(Side(a)))
    BY <1>4 DEF Over, Thrown, Settled
  <2>2. l = Side(a)
    BY <1>1, <1>4, <2>1, ListsAre, OneKind
  <2>3. Firing(a, "complete") \/ (Rested(a, "complete") /\ a.active = 0)
    BY <1>4, <2>2, OneKind DEF Over, Thrown
  <2>4. Given(a, b, l)
    BY <1>1, <1>4, AddIs
  <2>5. /\ b \in Ajaxes /\ Linked(b, l) /\ Outside(a, b, l)
        /\ Firing(b, l) /\ b.lists[l].index + Gap(b, l) >= 0
        /\ b.calls = Looping(l, <<>>)
    BY <1>4, <2>4 DEF Given, Looping
  <2>6. Sound(b)
    BY <1>1, <2>5, SoundOutside
  <2>7. /\ Same(a, b, "complete") /\ Same(a, b, Other(Side(a))) /\ Side(b) = Side(a)
        /\ b.active = a.active
    BY <1>1, <2>2, <2>5, ListsAre DEF Outside, Side
  <2>8. /\ Firing(b, "complete") \/ (Rested(b, "complete") /\ b.active = 0)
        /\ Dead(b, Other(Side(b)))
    BY <2>1, <2>3, <2>7, SameIs
  <2>9. Settled(b)
    BY <2>1, <2>2, <2>5, <2>7, <2>8 DEF Settled, Outside
  <2>10. Later(b)
    BY <2>2, <2>5, <2>7, <2>8, <2>9 DEF Later
  <2> QED BY <2>6, <2>10, PlacedIs
<1> QED BY <1>2, <1>3, <1>4

\* Only the functions under way, and the request's own count.
Moved(a, calls, active) == [a EXCEPT !.calls = calls, !.active = active]

HasMoved(a, b, calls, active) ==
  /\ Sound(b) /\ b.calls = calls /\ b.active = active
  /\ b.state = a.state /\ b.completed = a.completed
  /\ b.lists = a.lists /\ b.attached = a.attached /\ b.ran = a.ran
  /\ \A l \in Lists : Same(a, b, l)

(* A function under way goes on or returns.                                  *)
LEMMA MovedIs ==
  ASSUME NEW a, Sound(a), NEW calls \in Seq(Frames), NEW active \in Int,
         NEW b, b = Moved(a, calls, active)
  PROVE  HasMoved(a, b, calls, active)
<1>1. a \in Ajaxes
  BY DEF Sound
<1>2. /\ b \in Ajaxes /\ b.calls = calls /\ b.active = active
      /\ b.state = a.state /\ b.completed = a.completed
      /\ b.lists = a.lists /\ b.attached = a.attached /\ b.ran = a.ran
  BY <1>1 DEF Moved, Ajaxes
<1> QED BY <1>2, BesidesIs DEF HasMoved

SettledAsBefore(a, b) ==
  /\ Side(b) = Side(a) /\ (Settled(a) => Settled(b))
  /\ \A l \in Lists : /\ (Fresh(a, l) => Fresh(b, l)) /\ (Firing(a, l) => Firing(b, l))
                      /\ (Rested(a, l) => Rested(b, l)) /\ (Dead(a, l) => Dead(b, l))
                      /\ (Kept(a, l) => Kept(b, l))

(* What is said of the lists stays when no list changes.                     *)
LEMMA SettledMoves ==
  ASSUME NEW a, NEW b, \A l \in Lists : Same(a, b, l),
         b.state = a.state, b.completed = a.completed
  PROVE  SettledAsBefore(a, b)
<1>1. Side(b) = Side(a) /\ Side(a) \in Lists /\ Other(Side(a)) \in Lists
  BY ListsAre DEF Side
<1>2. \A l \in Lists : /\ (Fresh(a, l) => Fresh(b, l)) /\ (Firing(a, l) => Firing(b, l))
                       /\ (Rested(a, l) => Rested(b, l)) /\ (Dead(a, l) => Dead(b, l))
                       /\ b.lists[l].index = a.lists[l].index /\ Gap(b, l) = Gap(a, l)
  BY SameIs DEF Same
<1>3. ASSUME Settled(a) PROVE Settled(b)
  BY <1>1, <1>2, <1>3 DEF Settled
<1>4. \A l \in Lists : Kept(a, l) => Kept(b, l)
  BY <1>2 DEF Kept
<1> QED BY <1>1, <1>2, <1>3, <1>4 DEF SettledAsBefore

(* done goes on to the handlers of completion.                               *)
LEMMA CompleteIs ==
  ASSUME NEW a, Sound(a), Placed(a), a.calls # <<>>,
         Head(a.calls) = <<"done", "complete">>,
         NEW b, b = FireWith([[a EXCEPT !.calls = Tail(@)]
                                EXCEPT !.calls = Cons(<<"done", "count">>, @)], "complete")
  PROVE  Sound(b) /\ Placed(b)
<1>1. PICK base \in Bases : SettlingEnds(a, base)
  <2>1. a.calls \notin Bases
    BY BaseTop, FramesDiffer
  <2>2. ~Before(a) /\ ~Over(a) /\ ~Thrown(a)
    BY <2>1 DEF Before, Over, Thrown
  <2>3. ~Later(a)
    BY LaterTop, ListsAre, FramesDiffer
  <2>4. ASSUME NEW base \in Bases, NEW l \in Lists PROVE ~Starting(a, base, l)
    <3>1. Starting(a, base, l) => Head(a.calls) = <<"fire", l>>
      BY TopsAre
    <3> QED BY <3>1, FramesDiffer
  <2>5. ASSUME NEW base \in Bases
        PROVE  ~Settling(a, base) /\ ~Completing(a, base) /\ ~Within(a, base)
                 /\ ~CompletingEnds(a, base)
    <3>1. Side(a) \in Lists /\ "complete" \in Lists
      BY ListsAre
    <3> QED BY <3>1, TopsAre, FramesDiffer
  <2> QED BY <2>2, <2>3, <2>4, <2>5, PlacedIs DEF Inside
<1>2. /\ a.calls = Answering(base) /\ Settled(a) /\ Rested(a, Side(a))
      /\ Fresh(a, "complete") /\ a.active = 1
  BY <1>1 DEF SettlingEnds
<1>3. /\ Tail(a.calls) = base /\ Closing(base) \in Seq(Frames) /\ "complete" \in Lists
      /\ Side(a) \in Lists /\ Other(Side(a)) \in Lists
      /\ Side(a) # "complete" /\ Other(Side(a)) # "complete"
  BY <1>2, DoneTop, ListsAre
<1> DEFINE x == Moved(a, Closing(base), 1)
<1>4. b = FireWith(x, "complete")
  <2>1. a \in Ajaxes
    BY DEF Sound
  <2>2. [[a EXCEPT !.calls = Tail(@)] EXCEPT !.calls = Cons(<<"done", "count">>, @)]
          = [a EXCEPT !.calls = Cons(<<"done", "count">>, Tail(a.calls))]
    BY <2>1 DEF Ajaxes
  <2>3. x = [a EXCEPT !.calls = Closing(base)]
    BY <1>2, <2>1 DEF Moved, Ajaxes
  <2> QED BY <1>3, <2>2, <2>3 DEF Closing
<1> HIDE DEF x
<1>5. /\ Sound(x) /\ x.calls = Closing(base) /\ x.active = 1
      /\ x.state = a.state /\ x.completed = a.completed
      /\ \A l \in Lists : Same(a, x, l)
  <2> DEFINE closing == Closing(base)
             one == 1
  <2>1. closing \in Seq(Frames) /\ one \in Int /\ x = Moved(a, closing, one)
    BY <1>3 DEF x
  <2>2. closing = Closing(base) /\ one = 1 /\ Sound(a)
    OBVIOUS
  <2> HIDE DEF closing, one
  <2>3. HasMoved(a, x, closing, one)
    BY ONLY <2>1, <2>2, MovedIs
  <2> QED BY <2>2, <2>3 DEF HasMoved
<1>6. Side(x) = Side(a) /\ Settled(x) /\ Rested(x, Side(a)) /\ Fresh(x, "complete")
  <2>1. SettledAsBefore(a, x)
    BY ONLY <1>5, SettledMoves
  <2> QED BY ONLY <1>2, <1>3, <2>1 DEF SettledAsBefore
<1>7. /\ Sound(b) /\ Outside(x, b, "complete") /\ Firing(b, "complete")
      /\ b.calls = Looping("complete", Closing(base))
  BY <1>3, <1>4, <1>5, <1>6, FireWithIs DEF Looping
<1>8. /\ Same(x, b, Side(a)) /\ Same(x, b, Other(Side(a))) /\ Side(b) = Side(a)
      /\ b.active = 1 /\ b.state = x.state /\ b.completed = x.completed
  BY <1>3, <1>5, <1>6, <1>7 DEF Outside, Side
<1>9. Rested(b, Side(a)) /\ Settled(b)
  <2>1. /\ Rested(b, Side(a)) /\ Dead(b, Other(Side(a)))
        /\ Gap(b, Side(a)) = Gap(x, Side(a))
        /\ b.lists[Side(a)].index = x.lists[Side(a)].index
    BY <1>6, <1>8, SameIs DEF Settled, Same
  <2> QED BY <1>6, <1>8, <2>1 DEF Settled
<1>10. Completing(b, base)
  BY <1>7, <1>8, <1>9 DEF Completing
<1> QED BY <1>7, <1>10, PlacedIs DEF Inside

(* done counts the request no longer.                                        *)
LEMMA CountIs ==
  ASSUME NEW a, Sound(a), Placed(a), a.calls # <<>>,
         Head(a.calls) = <<"done", "count">>,
         NEW b, b = [[a EXCEPT !.calls = Tail(@)] EXCEPT !.active = @ - 1]
  PROVE  Sound(b) /\ Placed(b)
<1>1. PICK base \in Bases : CompletingEnds(a, base)
  <2>1. a.calls \notin Bases
    BY BaseTop, FramesDiffer
  <2>2. ~Before(a) /\ ~Over(a) /\ ~Thrown(a)
    BY <2>1 DEF Before, Over, Thrown
  <2>3. ~Later(a)
    BY LaterTop, ListsAre, FramesDiffer
  <2>4. ASSUME NEW base \in Bases, NEW l \in Lists PROVE ~Starting(a, base, l)
    <3>1. Starting(a, base, l) => Head(a.calls) = <<"fire", l>>
      BY TopsAre
    <3> QED BY <3>1, FramesDiffer
  <2>5. ASSUME NEW base \in Bases
        PROVE  ~Settling(a, base) /\ ~Completing(a, base) /\ ~Within(a, base)
                 /\ ~SettlingEnds(a, base)
    <3>1. Side(a) \in Lists /\ "complete" \in Lists
      BY ListsAre
    <3> QED BY <3>1, TopsAre, FramesDiffer
  <2> QED BY <2>2, <2>3, <2>4, <2>5, PlacedIs DEF Inside
<1>2. /\ a.calls = Closing(base) /\ Settled(a) /\ Rested(a, Side(a))
      /\ Rested(a, "complete") /\ a.active = 1
  BY <1>1 DEF CompletingEnds
<1>3. Tail(a.calls) = base /\ base \in Seq(Frames) /\ Side(a) \in Lists /\ "complete" \in Lists
      /\ 0 \in Int
  BY <1>2, DoneTop, ListsAre
<1>4. b = Moved(a, base, 0)
  <2>1. a \in Ajaxes
    BY DEF Sound
  <2> DEFINE y == [a EXCEPT !.calls = Tail(@)]
  <2>2. y.active = 1 /\ b = [y EXCEPT !.active = @ - 1] /\ y = [a EXCEPT !.calls = base]
    BY <1>2, <1>3, <2>1 DEF Ajaxes
  <2> HIDE DEF y
  <2>3. y.active - 1 = 0
    BY <2>2
  <2>4. b = [y EXCEPT !.active = 0]
    BY <2>2, <2>3
  <2> QED BY <2>1, <2>2, <2>4 DEF Moved, Ajaxes
<1>5. /\ Sound(b) /\ b.calls = base /\ b.active = 0
      /\ b.state = a.state /\ b.completed = a.completed
      /\ \A l \in Lists : Same(a, b, l)
  <2> DEFINE none == 0
  <2>1. Sound(a) /\ none \in Int /\ b = Moved(a, base, none)
    BY <1>3, <1>4
  <2>2. none = 0
    OBVIOUS
  <2> HIDE DEF none
  <2>3. HasMoved(a, b, base, none)
    BY ONLY <1>3, <2>1, MovedIs
  <2> QED BY <2>2, <2>3 DEF HasMoved
<1>6. Side(b) = Side(a) /\ Settled(b) /\ Rested(b, Side(a)) /\ Rested(b, "complete")
  <2>1. SettledAsBefore(a, b)
    BY ONLY <1>5, SettledMoves
  <2> QED BY ONLY <1>2, <1>3, <2>1 DEF SettledAsBefore
<1>7. Over(b)
  BY <1>5, <1>6 DEF Over
<1> QED BY <1>5, <1>7, PlacedIs

(* $.get returns, and its caller attaches the handler of failure.            *)
LEMMA FailIs ==
  ASSUME NEW a, Sound(a), Placed(a), NEW h \in Handlers, a.calls # <<>>,
         Head(a.calls) = <<"fail", h>>,
         NEW b, b = Add([a EXCEPT !.calls = Tail(@)], "fail", h)
  PROVE  Sound(b) /\ Placed(b)
<1>1. Before(a) \/ Over(a)
  <2>1. ~Thrown(a)
    BY DEF Thrown
  <2>2. ~Later(a)
    BY LaterTop, ListsAre, FramesDiffer
  <2>3. ASSUME NEW base \in Bases, NEW l \in Lists PROVE ~Starting(a, base, l)
    <3>1. Starting(a, base, l) => Head(a.calls) = <<"fire", l>>
      BY TopsAre
    <3> QED BY <3>1, FramesDiffer
  <2>4. ASSUME NEW base \in Bases
        PROVE  ~Settling(a, base) /\ ~Completing(a, base) /\ ~Within(a, base)
                 /\ ~SettlingEnds(a, base) /\ ~CompletingEnds(a, base)
    <3>1. Side(a) \in Lists /\ "complete" \in Lists
      BY ListsAre
    <3> QED BY <3>1, TopsAre, FramesDiffer
  <2> QED BY <2>1, <2>2, <2>3, <2>4, PlacedIs DEF Inside
<1>2. Tail(a.calls) = <<>> /\ <<>> \in Bases /\ <<>> \in Seq(Frames) /\ a.active \in Int
      /\ a \in Ajaxes
  <2>1. a.calls \in Bases
    BY <1>1 DEF Before, Over
  <2>2. Tail(a.calls) = <<>>
    BY <2>1, BaseTop
  <2>3. a \in Ajaxes /\ a.active \in Int
    BY DEF Sound, Ajaxes
  <2> QED BY <2>2, <2>3 DEF Bases
<1> DEFINE none == <<>>
           x == Moved(a, none, a.active)
<1>3. b = Add(x, "fail", h)
  <2>1. x = [a EXCEPT !.calls = <<>>]
    BY <1>2 DEF Moved, Ajaxes
  <2>2. [a EXCEPT !.calls = Tail(@)] = [a EXCEPT !.calls = <<>>]
    BY <1>2
  <2> QED BY <2>1, <2>2
<1> HIDE DEF x
<1>4. /\ Sound(x) /\ x.calls = <<>> /\ x.active = a.active
      /\ x.state = a.state /\ x.completed = a.completed
      /\ \A l \in Lists : Same(a, x, l)
  <2>1. none \in Seq(Frames) /\ a.active \in Int /\ x = Moved(a, none, a.active)
        /\ Sound(a)
    BY <1>2 DEF x
  <2>2. none = <<>>
    OBVIOUS
  <2> DEFINE active == a.active
  <2>3. active \in Int /\ x = Moved(a, none, active)
    BY <2>1
  <2> HIDE DEF none, active
  <2>4. HasMoved(a, x, none, active)
    BY ONLY <2>1, <2>3, MovedIs
  <2> QED BY ONLY <2>2, <2>4 DEF active, HasMoved
<1>5. /\ Side(x) = Side(a) /\ (Settled(a) => Settled(x))
      /\ \A l \in Lists : (Fresh(a, l) => Fresh(x, l)) /\ (Rested(a, l) => Rested(x, l))
  <2>1. SettledAsBefore(a, x)
    BY ONLY <1>4, SettledMoves
  <2> QED BY ONLY <2>1 DEF SettledAsBefore
<1>6. Before(x) \/ Over(x)
  <2>1. Before(a) => Before(x)
    BY <1>2, <1>4, <1>5 DEF Before
  <2>2. Over(a) => Over(x)
    BY <1>2, <1>4, <1>5, ListsAre DEF Over
  <2> QED BY <1>1, <2>1, <2>2
<1> QED BY <1>3, <1>4, <1>6, GivenIs

(* Before the request is sent it has no answer.                              *)
LEMMA AjaxStarts ==
  ASSUME AjaxInit
  PROVE  Sound(ajax) /\ Placed(ajax)
<1> DEFINE none == <<>>
           settling == <<"settle">>
           c == Callbacks(none)
           d == Callbacks(settling)
           lists == [l \in Lists |-> IF l = "complete" THEN c ELSE d]
           empty == [l \in Lists |-> none]
<1>1. none \in Seq(Handlers \union {"settle"}) /\ settling \in Seq(Handlers \union {"settle"})
      /\ none \in Seq(Handlers) /\ none \in Seq(Frames) /\ Len(none) = 0 /\ Len(settling) = 1
      /\ settling[1] = "settle" /\ none \in Bases /\ none = <<>>
  BY DEF Bases
<1>2. /\ ajax = [completed |-> "none", transport |-> FALSE, callback |-> FALSE,
                 state |-> "pending", active |-> 0, calls |-> none,
                 lists |-> lists, attached |-> empty, ran |-> empty]
  <2>1. lists = [l \in Lists |-> Callbacks(IF l = "complete" THEN <<>> ELSE <<"settle">>)]
    OBVIOUS
  <2> QED BY <2>1 DEF AjaxInit
<1> HIDE DEF none, settling
<1>3. /\ c \in CallbackLists /\ c.list = none /\ ~c.spent /\ ~c.memory /\ ~c.firing
      /\ ~c.locked /\ c.index = 0 /\ c.queue = 0
      /\ d \in CallbackLists /\ d.list = settling /\ ~d.spent /\ ~d.memory /\ ~d.firing
      /\ ~d.locked /\ d.index = 0 /\ d.queue = 0
  BY <1>1 DEF Callbacks, CallbackLists
<1> HIDE DEF c, d
<1>4. ajax \in Ajaxes
  BY <1>1, <1>2, <1>3 DEF Ajaxes
<1>5. ASSUME NEW l \in Lists
      PROVE  /\ ajax.lists[l] = (IF l = "complete" THEN c ELSE d)
             /\ ajax.attached[l] = none /\ ajax.ran[l] = none
  BY <1>2
<1> HIDE DEF lists, empty
<1>6. ASSUME NEW l \in Lists
      PROVE  Gap(ajax, l) = IF l = "complete" THEN 0 ELSE -1
  <2>1. Len(ajax.attached[l]) = 0
    BY <1>1, <1>5
  <2>2. Len(ajax.lists[l].list) = IF l = "complete" THEN 0 ELSE 1
    <3>1. CASE l = "complete"
      BY <1>1, <1>3, <1>5, <3>1
    <3>2. CASE l # "complete"
      BY <1>1, <1>3, <1>5, <3>2
    <3> QED BY <3>1, <3>2
  <2> QED BY <2>1, <2>2 DEF Gap
<1>7. ASSUME NEW l \in Lists
      PROVE  Fresh(ajax, l) /\ Linked(ajax, l)
  <2> DEFINE e == ajax.lists[l]
  <2>1. Fresh(ajax, l)
    BY <1>3, <1>5, <1>6 DEF Fresh
  <2>2. ajax.ran[l] = <<>> /\ Len(ajax.ran[l]) = 0 /\ e.index = 0
    BY <1>1, <1>3, <1>5
  <2>3. e.index + Gap(ajax, l) = (IF l = "complete" THEN 0 ELSE -1)
    BY <1>6, <2>2
  <2>4. Len(e.list) = IF l = "complete" THEN 0 ELSE 1
    BY <1>1, <1>3, <1>5
  <2>5. l # "complete" => e.list[1] = "settle"
    BY <1>1, <1>3, <1>5
  <2> HIDE DEF e
  <2>6. e.index \in 0..Len(e.list)
    BY <2>2, <2>4
  <2>7. ASSUME NEW i \in (e.index + 1)..Len(e.list)
        PROVE  e.list[i] = IF i + Gap(ajax, l) = 0 THEN "settle"
                           ELSE ajax.attached[l][i + Gap(ajax, l)]
    <3>1. l # "complete" /\ i = 1
      BY <2>2, <2>4
    <3>2. i + Gap(ajax, l) = 0
      BY <1>6, <3>1
    <3> QED BY <2>5, <3>1, <3>2
  <2>8. Gap(ajax, l) >= -1 /\ (l = "complete" => Gap(ajax, l) >= 0)
    BY <1>6
  <2>9. IF e.index + Gap(ajax, l) = -1 THEN ajax.ran[l] = <<>>
        ELSE Len(ajax.ran[l]) = e.index + Gap(ajax, l)
    BY <2>2, <2>3
  <2>10. \A i \in 1..Len(ajax.ran[l]) : ajax.ran[l][i] = ajax.attached[l][i]
    BY <2>2
  <2> QED BY <2>1, <2>6, <2>7, <2>8, <2>9, <2>10 DEF Linked, e
<1>8. Sound(ajax)
  BY <1>4, <1>7 DEF Sound
<1>9. Before(ajax)
  <2>1. /\ ajax.calls = none /\ ajax.state = "pending" /\ ajax.completed = "none"
        /\ ajax.active = 0
    BY <1>2
  <2>2. none \in Bases
    BY <1>1
  <2> QED BY <1>7, <2>1, <2>2 DEF Before
<1> QED BY <1>8, <1>9, PlacedIs

\* The request is about to be sent.
Ready(a, base) ==
  [a EXCEPT !.completed = "no", !.transport = TRUE, !.callback = TRUE,
            !.active = @ + 1, !.calls = base]

(* The request counts as active, and its lists are those it was given.       *)
LEMMA ReadyIs ==
  ASSUME NEW a, Sound(a), a.active = 0, NEW base \in Seq(Frames), NEW b, b = Ready(a, base)
  PROVE  /\ b \in Ajaxes /\ b.lists = a.lists /\ b.attached = a.attached /\ b.ran = a.ran
         /\ b.state = a.state /\ b.completed = "no" /\ b.active = 1 /\ b.calls = base
<1> DEFINE yes == TRUE
           one == 1
           x == Moved(a, base, one)
<1>1. one \in Int /\ yes \in BOOLEAN /\ a.active + 1 = one /\ x = Moved(a, base, one)
  OBVIOUS
<1>2. a \in Ajaxes
  BY DEF Sound
<1>3. b = [x EXCEPT !.completed = "no", !.transport = yes, !.callback = yes]
  <2>1. b = [a EXCEPT !.completed = "no", !.transport = yes, !.callback = yes,
                      !.active = one, !.calls = base]
    BY <1>1 DEF Ready
  <2> HIDE DEF one, yes
  <2> QED BY <1>2, <2>1 DEF Moved, Ajaxes
<1> HIDE DEF x, one, yes
<1>4. /\ Sound(x) /\ x.calls = base /\ x.active = one
      /\ x.state = a.state /\ x.completed = a.completed
      /\ x.lists = a.lists /\ x.attached = a.attached /\ x.ran = a.ran
  <2>1. HasMoved(a, x, base, one)
    BY <1>1, MovedIs
  <2> QED BY ONLY <2>1 DEF HasMoved
<1>5. /\ b \in Ajaxes /\ b.lists = x.lists /\ b.attached = x.attached /\ b.ran = x.ran
      /\ b.state = x.state /\ b.completed = "no" /\ b.active = x.active /\ b.calls = x.calls
  <2>1. x \in Ajaxes
    BY <1>4 DEF Sound
  <2> QED BY <1>1, <1>3, <2>1 DEF Ajaxes
<1> QED BY <1>4, <1>5 DEF one

(* The request is made, and the call of $.get is under way.                  *)
LEMMA RequestIs ==
  ASSUME Sound(ajax), Placed(ajax), Request
  PROVE  Sound(ajax)' /\ Placed(ajax)'
<1>1. PICK success \in Handlers, failure \in Handlers, complete \in Handlers, sends \in BOOLEAN :
        LET given == Add(Add(ajax, "complete", complete), "done", success)
            ready == [given EXCEPT !.completed = "no", !.transport = TRUE,
                                   !.callback = TRUE, !.active = @ + 1,
                                   !.calls = <<<<"fail", failure>>>>]
        IN /\ Idle /\ ajax.completed = "none"
           /\ ajax' = IF sends THEN ready ELSE Done(ready, FALSE)
  BY DEF Request
<1> DEFINE x == Add(ajax, "complete", complete)
           y == Add(x, "done", success)
           base == <<<<"fail", failure>>>>
           z == [y EXCEPT !.completed = "no", !.transport = TRUE,
                          !.callback = TRUE, !.active = @ + 1, !.calls = base]
<1>2. Before(ajax) /\ ajax.active = 0 /\ ajax.state = "pending"
  <2>1. Before(ajax)
    BY <1>1, PlacesAre
  <2> QED BY <1>1, <2>1 DEF Before
<1>3. "complete" \in Lists /\ "done" \in Lists
  BY ListsAre
<1>4. Sound(x) /\ Keeps(ajax, x)
  <2>1. Fresh(ajax, "complete")
    BY <1>2, <1>3 DEF Before
  <2> QED BY <1>3, <2>1, AddKeeps
<1>5. Sound(y) /\ Keeps(ajax, y)
  <2>1. Fresh(x, "done")
    BY <1>2, <1>3, <1>4 DEF Before, Keeps
  <2>2. x = x
    OBVIOUS
  <2> HIDE DEF x
  <2>3. Sound(y) /\ Keeps(x, y)
    BY <1>3, <1>4, <2>1, AddKeeps
  <2> QED BY <1>4, <2>3, KeepsTwice
<1>6. base \in Bases /\ base \in Seq(Frames)
  <2>1. base \in Bases
    BY DEF Bases
  <2> QED BY <2>1, BaseIs
<1>7. ajax' = IF sends THEN z ELSE Done(z, FALSE)
  BY <1>1
<1> HIDE DEF x, y, base
<1>8. y.active = 0 /\ y.state = "pending" /\ y \in Ajaxes /\ \A l \in Lists : Fresh(y, l)
  BY <1>2, <1>5 DEF Keeps, Sound, Before
<1>9. /\ z \in Ajaxes /\ z.lists = y.lists /\ z.attached = y.attached /\ z.ran = y.ran
      /\ z.state = "pending" /\ z.completed = "no" /\ z.active = 1 /\ z.calls = base
  <2>1. z = Ready(y, base)
    BY DEF Ready
  <2> HIDE DEF z
  <2> QED BY <1>5, <1>6, <1>8, <2>1, ReadyIs
<1> HIDE DEF z
<1>10. Sound(z) /\ \A l \in Lists : Fresh(z, l)
  BY <1>5, <1>8, <1>9, BesidesIs, SameIs
<1>11. Before(z)
  BY <1>6, <1>9, <1>10 DEF Before
<1>12. CASE sends
  BY <1>7, <1>10, <1>11, <1>12, PlacedIs
<1>13. CASE ~sends
  <2>1. ajax' = Done(z, FALSE)
    BY <1>7, <1>13
  <2>2. Sound(ajax') /\ \E l \in Lists : Starting(ajax', z.calls, l)
    BY <1>9, <1>10, <1>11, <2>1, DoneIs
  <2>3. Placed(ajax')
    BY <1>6, <1>9, <2>2, PlacedIs DEF Inside
  <2> QED BY <2>2, <2>3
<1> QED BY <1>12, <1>13

(* An event of the browser answers the request.                              *)
LEMMA AnswerIs ==
  ASSUME NEW a, Sound(a), Before(a), a.calls = <<>>, a.completed = "no",
         NEW callback \in BOOLEAN, NEW isSuccess \in BOOLEAN,
         NEW b, b = Done([a EXCEPT !.callback = callback], isSuccess)
  PROVE  Sound(b) /\ Placed(b)
<1> DEFINE x == [a EXCEPT !.callback = callback]
<1>1. a \in Ajaxes /\ b = Done(x, isSuccess)
  BY DEF Sound
<1>2. /\ x \in Ajaxes /\ x.lists = a.lists /\ x.attached = a.attached /\ x.ran = a.ran
      /\ x.state = a.state /\ x.completed = a.completed /\ x.active = a.active
      /\ x.calls = a.calls
  BY <1>1 DEF Ajaxes
<1> HIDE DEF x
<1>3. Sound(x) /\ Keeps(a, x)
  BY <1>2, BesidesIs
<1>4. Before(x)
  BY <1>2, <1>3 DEF Before, Keeps
<1>5. Sound(b) /\ \E l \in Lists : Starting(b, x.calls, l)
  BY <1>1, <1>2, <1>3, <1>4, DoneIs
<1>6. x.calls \in Bases
  BY <1>4 DEF Before
<1> QED BY <1>5, <1>6, PlacedIs DEF Inside

(* abort, between two events: what is completed stays as it is.              *)
LEMMA AbortIs ==
  ASSUME NEW a, Sound(a), Placed(a), a.calls = <<>>, a.completed # "none",
         NEW b, b = Abort(a)
  PROVE  Sound(b) /\ Placed(b)
<1> DEFINE callback == IF a.transport THEN FALSE ELSE a.callback
           x == [a EXCEPT !.callback = callback]
<1>1. a \in Ajaxes /\ callback \in BOOLEAN /\ b = Done(x, FALSE)
  BY DEF Sound, Abort, Ajaxes
<1> HIDE DEF callback
<1>2. CASE a.completed = "yes"
  <2>1. /\ x \in Ajaxes /\ x.lists = a.lists /\ x.attached = a.attached /\ x.ran = a.ran
        /\ x.state = a.state /\ x.completed = a.completed /\ x.active = a.active
        /\ x.calls = a.calls
    BY <1>1 DEF Ajaxes
  <2> HIDE DEF x
  <2>2. b = x
    BY <1>1, <1>2, <2>1 DEF Done
  <2>3. Sound(b) /\ Keeps(a, b) /\ b.calls = a.calls
    BY <2>1, <2>2, BesidesIs
  <2>4. Over(a) \/ Thrown(a)
    <3>1. ~Before(a)
      BY <1>2 DEF Before
    <3> QED BY <3>1, PlacesAre
  <2>5. Settled(a)
    BY <2>4 DEF Over, Thrown
  <2>6. Over(b) \/ Thrown(b)
    BY <2>3, <2>4, <2>5, KeepsPlace
  <2> QED BY <2>3, <2>6, PlacedIs
<1>3. CASE a.completed # "yes"
  <2>1. Before(a) /\ a.completed = "no"
    <3>1. Before(a)
      BY <1>3, PlacesAre
    <3>2. a.completed \in {"none", "no", "yes"}
      BY <1>1 DEF Ajaxes
    <3> QED BY <1>3, <3>1, <3>2
  <2> QED BY <1>1, <2>1, AnswerIs
<1> QED BY <1>2, <1>3

-----------------------------------------------------------------------------
(* Every step, and what follows *)

(* Where the innermost function is a loop of fire, its list is firing.       *)
LEMMA FiringThere ==
  ASSUME NEW a, Placed(a), NEW l \in Lists, a.calls # <<>>, Head(a.calls) = <<"fire", l>>
  PROVE  Firing(a, l)
BY FiringPlaces DEF Starting, Settling, Completing, Within, Later

(* Every step keeps what is known of a request.                              *)
LEMMA AjaxSteps ==
  ASSUME AjaxInv, [AjaxNext]_ajax
  PROVE  AjaxInv'
<1>1. Sound(ajax) /\ Placed(ajax)
  BY DEF AjaxInv
<1>2. CASE Request
  BY <1>1, <1>2, RequestIs DEF AjaxInv
<1>3. CASE Answer
  <2>1. PICK isSuccess \in BOOLEAN :
          /\ Idle /\ ajax.completed = "no" /\ ajax.callback
          /\ ajax' = Done([ajax EXCEPT !.callback = FALSE], isSuccess)
    BY <1>3 DEF Answer
  <2>2. Before(ajax) /\ ajax.calls = <<>>
    BY <1>1, <2>1, PlacesAre DEF Idle
  <2>3. Sound(ajax') /\ Placed(ajax')
    BY <1>1, <2>1, <2>2, AnswerIs
  <2> QED BY <2>3 DEF AjaxInv
<1>4. CASE AbortRequest
  <2>1. ajax.calls = <<>> /\ ajax.completed # "none" /\ ajax' = Abort(ajax)
    BY <1>4 DEF AbortRequest, Idle
  <2>2. Sound(ajax') /\ Placed(ajax')
    BY <1>1, <2>1, AbortIs
  <2> QED BY <2>2 DEF AjaxInv
<1>5. CASE Attach
  <2>1. PICK l \in {"done", "fail"}, h \in Handlers :
          ajax.calls = <<>> /\ ajax' = Add(ajax, l, h)
    BY <1>5 DEF Attach, Idle
  <2>2. Before(ajax) \/ Over(ajax) \/ Thrown(ajax)
    BY <1>1, <2>1, PlacesAre
  <2>3. Sound(ajax') /\ Placed(ajax')
    BY <1>1, <2>1, <2>2, GivenIs
  <2> QED BY <2>3 DEF AjaxInv
<1>6. CASE Call
  <2>1. PICK l \in Lists :
          /\ ajax.calls # <<>> /\ Head(ajax.calls) = <<"fire", l>>
          /\ ajax.lists[l].index < Len(ajax.lists[l].list)
          /\ ajax' = Called(Advanced(ajax, l), l, Following(ajax, l))
    BY <1>6 DEF Call, Innermost, Idle, Advanced, Following
  <2>2. Sound(ajax') /\ Placed(ajax')
    BY <1>1, <2>1, CallIs
  <2> QED BY <2>2 DEF AjaxInv
<1>7. CASE Fired
  <2>1. PICK l \in Lists :
          /\ ajax.calls # <<>> /\ Head(ajax.calls) = <<"fire", l>>
          /\ ajax.lists[l].index >= Len(ajax.lists[l].list)
          /\ ajax' = IF ajax.lists[l].queue > 0
                     THEN [ajax EXCEPT !.lists[l] =
                             [ajax.lists[l] EXCEPT !.index = 0, !.queue = @ - 1]]
                     ELSE [Left EXCEPT !.lists[l] = Emptied(ajax.lists[l])]
    BY <1>7 DEF Fired, Innermost, Idle, Emptied
  <2>2. ajax.lists[l].queue = 0
    BY <1>1, <2>1, FiringThere DEF Firing
  <2>3. ajax' = [Left EXCEPT !.lists[l] = Emptied(ajax.lists[l])]
    BY <2>1, <2>2
  <2>4. ajax' = Relisted(ajax, l, Emptied(ajax.lists[l]), Tail(ajax.calls))
    BY <1>1, <2>1, <2>3 DEF Left, Relisted, Sound, Ajaxes
  <2>5. Sound(ajax') /\ Placed(ajax')
    BY <1>1, <2>1, <2>4, LoopEnds
  <2> QED BY <2>5 DEF AjaxInv
<1>8. CASE Complete
  <2>1. /\ ajax.calls # <<>> /\ Head(ajax.calls) = <<"done", "complete">>
        /\ ajax' = FireWith([[ajax EXCEPT !.calls = Tail(@)]
                               EXCEPT !.calls = Cons(<<"done", "count">>, @)], "complete")
    BY <1>8 DEF Complete, Innermost, Idle, Left
  <2>2. Sound(ajax') /\ Placed(ajax')
    BY <1>1, <2>1, CompleteIs
  <2> QED BY <2>2 DEF AjaxInv
<1>9. CASE Count
  <2>1. /\ ajax.calls # <<>> /\ Head(ajax.calls) = <<"done", "count">>
        /\ ajax' = [[ajax EXCEPT !.calls = Tail(@)] EXCEPT !.active = @ - 1]
    BY <1>9 DEF Count, Innermost, Idle, Left
  <2>2. Sound(ajax') /\ Placed(ajax')
    BY <1>1, <2>1, CountIs
  <2> QED BY <2>2 DEF AjaxInv
<1>10. CASE Fail
  <2>1. PICK h \in Handlers :
          /\ ajax.calls # <<>> /\ Head(ajax.calls) = <<"fail", h>>
          /\ ajax' = Add([ajax EXCEPT !.calls = Tail(@)], "fail", h)
    BY <1>10 DEF Fail, Innermost, Idle, Left
  <2>2. Sound(ajax') /\ Placed(ajax')
    BY <1>1, <2>1, FailIs
  <2> QED BY <2>2 DEF AjaxInv
<1>11. CASE UNCHANGED ajax
  BY <1>1, <1>11 DEF AjaxInv
<1> QED BY <1>2, <1>3, <1>4, <1>5, <1>6, <1>7, <1>8, <1>9, <1>10, <1>11 DEF AjaxNext

(* What has run of a list is a beginning of what was given to it.            *)
LEMMA RanInOrder ==
  ASSUME NEW a, Sound(a), NEW l \in Lists, Kept(a, l)
  PROVE  IsPrefix(a.ran[l], a.attached[l])
<1>1. a.attached[l] \in Seq(Handlers) /\ a.ran[l] \in Seq(Handlers)
  BY AjaxIs DEF Sound
<1>2. CASE Dead(a, l)
  <2>1. a.ran[l] = <<>> /\ Len(a.ran[l]) = 0 /\ Len(a.attached[l]) \in Nat
    BY <1>1, <1>2 DEF Dead
  <2> QED BY <1>1, <2>1 DEF IsPrefix
<1>3. CASE ~Dead(a, l)
  <2>1. ~a.lists[l].spent
    BY <1>3 DEF Kept, Fresh, Firing, Rested
  <2>2. \A i \in 1..Len(a.ran[l]) : a.ran[l][i] = a.attached[l][i]
    BY <2>1 DEF Sound, Linked
  <2>3. Len(a.ran[l]) \in Nat /\ Len(a.attached[l]) \in Nat /\ Len(a.ran[l]) <= Len(a.attached[l])
    <3> DEFINE i == a.lists[l].index  len == Len(a.lists[l].list)  t == Len(a.attached[l])
               r == Len(a.ran[l])  g == Gap(a, l)
    <3>1. /\ i \in Nat /\ len \in Nat /\ t \in Nat /\ g \in Int /\ g = t - len
          /\ i <= len /\ r = IF i + g = -1 THEN 0 ELSE i + g
      BY <2>1, LengthsAre
    <3>2. r \in Nat
      BY <1>1
    <3> HIDE DEF i, len, t, r, g
    <3>3. r <= t
      BY <3>1, <3>2
    <3> QED BY <3>1, <3>2, <3>3 DEF r, t
  <2> DEFINE s == a.ran[l]  t == a.attached[l]
  <2>4. s \in Seq(Handlers) /\ t \in Seq(Handlers) /\ Len(s) <= Len(t)
        /\ \A i \in 1..Len(s) : s[i] = t[i]
    BY <1>1, <2>2, <2>3
  <2> HIDE DEF s, t
  <2>5. SubSeq(s, 1, Len(s)) = SubSeq(t, 1, Len(s))
    BY <2>4
  <2>6. IsPrefix(s, t)
    BY <2>4, <2>5 DEF IsPrefix
  <2> QED BY <2>6 DEF s, t
<1> QED BY <1>2, <1>3

(* And all of it when the list rests.                                        *)
LEMMA AllHaveRun ==
  ASSUME NEW a, Sound(a), NEW l \in Lists, Rested(a, l),
         a.lists[l].index + Gap(a, l) >= 0
  PROVE  a.ran[l] = a.attached[l]
<1>1. a.attached[l] \in Seq(Handlers) /\ a.ran[l] \in Seq(Handlers)
  BY AjaxIs DEF Sound
<1>2. ~a.lists[l].spent /\ a.lists[l].index = 0 /\ a.lists[l].list = <<>>
  BY DEF Rested
<1>3. \A i \in 1..Len(a.ran[l]) : a.ran[l][i] = a.attached[l][i]
  BY <1>2 DEF Sound, Linked
<1>4. Len(a.ran[l]) = Len(a.attached[l])
  <2>1. Len(a.lists[l].list) = 0
    BY <1>2
  <2> DEFINE i == a.lists[l].index  t == Len(a.attached[l])
             r == Len(a.ran[l])  g == Gap(a, l)
  <2>2. /\ t \in Nat /\ g = t - 0 /\ i = 0 /\ r = IF i + g = -1 THEN 0 ELSE i + g
    BY <1>2, <2>1, LengthsAre
  <2> HIDE DEF i, t, r, g
  <2>3. r = t
    BY <2>2
  <2> QED BY <2>3 DEF r, t
<1> DEFINE s == a.ran[l]  t == a.attached[l]
<1>5. s \in Seq(Handlers) /\ t \in Seq(Handlers) /\ Len(s) = Len(t)
      /\ \A i \in 1..Len(s) : s[i] = t[i]
  BY <1>1, <1>3, <1>4
<1> HIDE DEF s, t
<1>6. s = t
  BY <1>5
<1> QED BY <1>6 DEF s, t

(* Nothing has run of a list that has not fired, nor before the deferred's   *)
(* own callback.                                                             *)
LEMMA NoneHasRun ==
  ASSUME NEW a, Sound(a), Placed(a), a.state = "pending", NEW l \in Lists
  PROVE  a.ran[l] = <<>>
<1>1. ASSUME Fresh(a, l) PROVE a.ran[l] = <<>>
  <2>1. ~a.lists[l].spent /\ a.lists[l].index = 0 /\ a.ran[l] \in Seq(Handlers)
        /\ Gap(a, l) = IF l = "complete" THEN 0 ELSE -1
    BY <1>1, AjaxIs DEF Fresh, Sound
  <2>2. /\ Len(a.ran[l]) = IF a.lists[l].index + Gap(a, l) = -1 THEN 0
                           ELSE a.lists[l].index + Gap(a, l)
    BY <2>1, LengthsAre
  <2>3. Len(a.ran[l]) = 0
    BY <2>1, <2>2
  <2> QED BY <2>1, <2>3
<1>2. ~Settled(a)
  BY DEF Settled
<1>3. CASE Before(a)
  BY <1>1, <1>3 DEF Before
<1>4. ASSUME NEW base \in Bases, NEW m \in Lists, Starting(a, base, m)
      PROVE  a.ran[l] = <<>>
  <2>1. l = m \/ l = Other(m) \/ l = "complete"
    BY <1>4, ListsAre DEF Starting
  <2>2. CASE l = m
    <3>1. ~a.lists[l].spent /\ a.lists[l].index = 0 /\ Gap(a, l) = -1
      BY <1>4, <2>2 DEF Starting, Firing
    <3>2. a.lists[l].index + Gap(a, l) = -1
      BY <3>1
    <3> QED BY <3>1, <3>2, LengthsAre
  <2>3. CASE l # m
    BY <1>1, <1>4, <2>1, <2>3 DEF Starting
  <2> QED BY <2>2, <2>3
<1>5. Before(a) \/ \E base \in Bases : \E m \in Lists : Starting(a, base, m)
  BY <1>2, PlacedIs DEF Inside, Over, Thrown, Later, Settling, SettlingEnds, Completing,
                        Within, CompletingEnds
<1> QED BY <1>3, <1>4, <1>5

(* What is known of a request's lists makes its handlers run once.           *)
LEMMA InvRunsOnce == AjaxInv => HandlersRunOnce
<1> SUFFICES ASSUME AjaxInv PROVE HandlersRunOnce
  OBVIOUS
<1> DEFINE side == Side(ajax)
<1>1. /\ Sound(ajax) /\ Placed(ajax) /\ \A l \in Lists : Kept(ajax, l)
      /\ side \in Lists /\ Other(side) \in Lists /\ "complete" \in Lists
      /\ side = IF ajax.state = "resolved" THEN "done" ELSE "fail"
  BY PlacesAre, ListsAre DEF AjaxInv, Side
<1>2. ajax.state = "pending" => \A l \in Lists : ajax.ran[l] = <<>>
  BY <1>1, NoneHasRun
<1>3. ajax.ran[Other(side)] = <<>>
  <2>1. ajax.state = "pending" \/ Settled(ajax)
    BY <1>1, PlacedIs DEF Inside, Before, Over, Thrown, Later, Starting, Settling,
                          SettlingEnds, Completing, Within, CompletingEnds
  <2>2. Settled(ajax) => ajax.ran[Other(side)] = <<>>
    BY DEF Settled, Dead
  <2> QED BY <1>1, <1>2, <2>1, <2>2
<1>4. \A l \in Lists : IsPrefix(ajax.ran[l], ajax.attached[l])
  BY <1>1, RanInOrder
<1>5. Idle => Before(ajax) \/ Over(ajax) \/ Thrown(ajax)
  BY <1>1, PlacesAre DEF Idle
<1>6. Idle => (ajax.state = "pending" <=> ajax.completed # "yes")
  BY <1>5 DEF Before, Over, Thrown, Settled
<1>7. ASSUME Idle, ajax.completed = "yes", ~Stuck
      PROVE  /\ \A l \in {side, "complete"} : ajax.ran[l] = ajax.attached[l]
             /\ ajax.active = 0
  <2>1. \A l \in Lists : ~Firing(ajax, l)
    BY <1>7 DEF Stuck, Firing
  <2>2. ~Thrown(ajax) /\ ~Before(ajax)
    BY <1>1, <1>7, <2>1 DEF Thrown, Before
  <2>3. /\ Settled(ajax) /\ Rested(ajax, side) /\ Rested(ajax, "complete")
        /\ ajax.active = 0
    BY <1>5, <1>7, <2>2 DEF Over
  <2>4. ajax.ran[side] = ajax.attached[side]
    BY <1>1, <2>3, AllHaveRun DEF Settled
  <2>5. ajax.ran["complete"] = ajax.attached["complete"]
    <3>1. ajax.lists["complete"].index + Gap(ajax, "complete") >= 0
      BY <1>1, <2>3, LengthsAre DEF Rested
    <3> QED BY <1>1, <2>3, <3>1, AllHaveRun
  <2> QED BY <2>3, <2>4, <2>5
<1> HIDE DEF side
<1> QED BY <1>1, <1>2, <1>3, <1>4, <1>6, <1>7 DEF HandlersRunOnce

(* However a request ends, its handlers run once and in order.               *)
THEOREM RequestsAreAnswered == AjaxSpec => []HandlersRunOnce
<1>1. AjaxInit => AjaxInv
  BY AjaxStarts DEF AjaxInv
<1>2. AjaxInv /\ [AjaxNext]_ajax => AjaxInv'
  BY AjaxSteps
<1> QED BY <1>1, <1>2, InvRunsOnce, PTL DEF AjaxSpec
============================================================================
