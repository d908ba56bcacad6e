--------------------------- MODULE RequestReader ---------------------------
(***************************************************************************)
(* How the web server's thread for a connection reads a request: with a    *)
(* buffer, until it has seen the blank line after the headers and, of a    *)
(* POST, as many bytes as its Content-Length says.  Bytes are counted, not *)
(* kept.  The other end is a browser that sends one request in pieces, or  *)
(* leaves early.                                                           *)
(***************************************************************************)
EXTENDS Integers

CONSTANTS
  Buffer,       \* 512: sizeof(buffer)
  Tries,        \* 20: SERVER_NUM_TRIES
  MaxHeader,    \* bytes up to and with the blank line
  MaxContent,   \* bytes after it
  MaxLength     \* curLength: a reader that loops counts on

ASSUME ReaderAssumption ==
  /\ Buffer \in Nat \ {0} /\ Tries \in Nat
  /\ MaxHeader \in Nat /\ MaxContent \in Nat /\ MaxLength \in Nat

VARIABLES
  request,      \* its method, header and content lengths, and whether one is given
  sent,         \* bytes that have reached the socket
  gone,         \* the other end has closed the connection
  taken,        \* bytes read from the socket
  pc,           \* at the first read, at another, at the loop's condition, done
  n,            \* what the last read returned
  curLength, gotAll, tries,
  outcome       \* none, "taken" to the queue, "failed" or "closed"

vars == <<request, sent, gone, taken, pc, n, curLength, gotAll, tries, outcome>>

Requests ==
  [method : {"GET", "POST", "other"}, header : 1..MaxHeader,
   content : 0..MaxContent, given : BOOLEAN]

Total == request.header + request.content

\* What penguinTrace's pages send: bodies only with POST, and with a length.
Regular ==
  \/ request.method = "GET" /\ request.content = 0
  \/ request.method = "POST" /\ request.given

Least(a, b) == IF a < b THEN a ELSE b

Init ==
  /\ request \in Requests
  /\ sent = 0 /\ gone = FALSE /\ taken = 0
  /\ pc = "first" /\ n = 0 /\ curLength = 0 /\ gotAll = FALSE /\ tries = 0
  /\ outcome = "none"

-----------------------------------------------------------------------------
(* The browser *)

Send ==
  /\ ~gone /\ sent < Total
  /\ sent' \in (sent + 1)..Total
  /\ UNCHANGED <<request, gone, taken, pc, n, curLength, gotAll, tries, outcome>>

Leave ==
  /\ ~gone /\ gone' = TRUE
  /\ UNCHANGED <<request, sent, taken, pc, n, curLength, gotAll, tries, outcome>>

-----------------------------------------------------------------------------
(* readRequest *)

\* A read returns what is there, as far as the buffer holds it; 0 when the other
\* end has closed; -1 when the receive timeout is over.
Reads(result) ==
  \/ sent > taken /\ result = Least(sent - taken, Buffer)
  \/ sent = taken /\ gone /\ result = 0
  \/ sent = taken /\ ~gone /\ result = -1

Bytes(result) == IF result > 0 THEN result ELSE 0

FirstRead ==
  /\ pc = "first"
  /\ \E result \in -1..Buffer :
       /\ Reads(result)
       /\ n' = result /\ taken' = taken + Bytes(result)
       /\ gotAll' = (result = 0)
  /\ pc' = "loop"
  /\ UNCHANGED <<request, sent, gone, curLength, tries, outcome>>

\* After too many tries the result is dropped.
Read ==
  /\ pc = "read"
  /\ \E result \in -1..Buffer :
       /\ Reads(result)
       /\ taken' = taken + Bytes(result)
       /\ IF tries > Tries THEN n' = 0 /\ gotAll' = TRUE
          ELSE n' = result /\ gotAll' = FALSE
  /\ pc' = "loop"
  /\ UNCHANGED <<request, sent, gone, curLength, tries, outcome>>

\* A mutant takes the length of the content for that of the request.
IsAllContent(length) ==
  IF length < request.header THEN gotAll
  ELSE IF request.method = "GET" THEN TRUE
  ELSE IF request.method = "POST" /\ request.given THEN length = request.content
  ELSE gotAll

\* gotAll for so many bytes.
IsAll(length) ==
  IF length < request.header THEN gotAll
  ELSE IF request.method = "GET" THEN TRUE
  ELSE IF request.method = "POST" /\ request.given THEN length = Total
  ELSE gotAll

\* One turn of the loop, which is also taken when all is there but the last read
\* has filled the buffer, and then counts its bytes again.
Turn ==
  /\ pc = "loop" /\ (n = Buffer \/ ~gotAll)
  /\ curLength + Bytes(n) <= MaxLength
  /\ tries' = IF ~gotAll /\ n = 0 THEN tries + 1 ELSE tries
  /\ curLength' = curLength + Bytes(n)
  /\ gotAll' = IsAll(curLength + Bytes(n))
  /\ pc' = IF IsAll(curLength + Bytes(n)) THEN "loop" ELSE "read"
  /\ UNCHANGED <<request, sent, gone, taken, n, outcome>>

Finish ==
  /\ pc = "loop" /\ n # Buffer /\ gotAll
  /\ outcome' = IF n > 0 THEN "taken" ELSE IF n < 0 THEN "failed" ELSE "closed"
  /\ pc' = "done"
  /\ UNCHANGED <<request, sent, gone, taken, n, curLength, gotAll, tries>>

Next == Send \/ Leave \/ FirstRead \/ Read \/ Turn \/ Finish

Spec == Init /\ [][Next]_vars

-----------------------------------------------------------------------------
(* A request goes to the queue when every byte of it has been read, and once *)
(* only; a connection is given up only if its other end has left before the  *)
(* whole request was sent, or the request is none of penguinTrace's pages,   *)
(* or its last read has filled the buffer and was counted twice.             *)
TakenIffWhole ==
  /\ outcome = "taken" /\ Regular => taken = Total /\ curLength = Total
  /\ outcome = "closed" /\ Regular => (gone /\ sent < Total) \/ curLength > Total

(* No read that fails ends the loop, so that the branch that reports a       *)
(* failure and shortens the lingering of the connection is never reached.    *)
NeverFails == outcome # "failed"
=============================================================================
