------------------------------- MODULE WebUI -------------------------------
(***************************************************************************)
(* The web interface (penguintrace.js) and the server it talks to.         *)
(*                                                                         *)
(* A browser runs one event at a time: a click, a timer, the answer to a   *)
(* request.  The handler of each is one action; between them, any number   *)
(* of requests are outstanding and are answered in any order.  A function  *)
(* of the interface is an operator from the state of the page to the state *)
(* it leaves, so that a handler reads as the calls it makes.  An exception *)
(* ends the handler where it is thrown and keeps what was done before.     *)
(*                                                                         *)
(* The server is abstract here: what it answers, and when.  Its threads    *)
(* are in SessionManager and its breakpoints in Stepper.                   *)
(***************************************************************************)
EXTENDS EditorLines, FiniteSets, Bags

CONSTANTS
  Programs,        \* what is compiled: records [listing, lineOf, source, returns]
  MaxSessions,     \* sessions the server creates
  MaxLost,         \* requests the network loses
  MaxPending,      \* commands queued in a session
  MaxPollTries,    \* ptrace.maxPollTries
  Users            \* what a user does: records [events, clicks, waits]

ASSUME WebUIAssumption ==
  /\ MaxSessions \in Nat \ {0} /\ MaxLost \in Nat
  /\ MaxPending \in Nat /\ MaxPollTries \in Nat
  /\ \A p \in Programs :
       /\ p.listing \in Seq((Nat \ {0}) \union {-1}) /\ p.listing # <<>>
       /\ DOMAIN p.lineOf \subseteq Nat \ {0} /\ DOMAIN p.lineOf # {}
       /\ \A pc \in DOMAIN p.lineOf : p.lineOf[pc] \in Nat
       /\ p.source \in Seq(Nat)
       \* where the library calls return that are stepped over (not on x86_64)
       /\ p.returns \subseteq {p.listing[i] : i \in DOMAIN p.listing} \ {-1}

VARIABLES
  ui,        \* the page: the fields of ptrace and the two editors
  server,    \* the server's sessions
  single,    \* whether the server is in single session mode
  user,      \* the user of this behaviour: the kinds of events, how many, and
             \* whether the user waits for an exchange to end before the next
  clicks, losses,
  overlap,   \* an exchange was begun while another was under way
  excused    \* something outside the interface broke an exchange

vars == <<ui, server, single, user, clicks, losses, overlap, excused>>

NoName == 0        \* the empty session name
Session == 1..MaxSessions
Unlisted == 0      \* an address outside the listing; no code is at 0

-----------------------------------------------------------------------------
(* Requests and answers *)

NoAnswer == [is |-> "none"]

Request(kind, sid, arg) ==
  [kind |-> kind, sid |-> sid, arg |-> arg, live |-> TRUE, resp |-> NoAnswer]

\* Requests are a bag: two posts may be the same.
Outstanding(u) == BagToSet(u.requests)

Send(u, kind, arg) ==
  [u EXCEPT !.requests = @ (+) SetToBag({Request(kind, u.session, arg)})]

\* An exchange is under way: a request without its answer applied, a poll to
\* come, or a file being read.  The timer of the automatic steps is not one.
Busy(u) ==
  \/ \E r \in Outstanding(u) : r.live
  \/ u.pollSession > 0 \/ u.pollStep > 0 \/ u.reading

-----------------------------------------------------------------------------
(* The page *)

Tables == {"regs", "vars", "stack"}
NoData == -1

Page(name) ==
  [state |-> "INIT", session |-> NoName, hash |-> name,
   autoStep |-> FALSE, autoTimer |-> FALSE, strayTimers |-> 0,
   pollTries |-> 0, pollSession |-> 0, pollStep |-> 0, reading |-> FALSE,
   requests |-> EmptyBag,
   source |-> EmptyDoc, compiled |-> EmptyDoc,
   lineNumbers |-> <<>>, disasmMap |-> <<>>,
   popup |-> "none",
   last |-> [t \in Tables |-> NoData], main |-> [t \in Tables |-> NoData],
   window |-> [t \in Tables |-> NoData],
   threw |-> FALSE]

\* The next statement of a handler, unless one before it threw.
Then(u, F(_)) == IF u.threw THEN u ELSE F(u)
Throw(u) == [u EXCEPT !.threw = TRUE]

\* A mutant forgets one of the lists.
ClearSourceHighlight(u) ==
  [u EXCEPT !.source = ClearHeldWidgets(RemoveHeldClasses(@)),
            !.compiled = ClearHeldWidgets(@)]

ClearAllHighlight(u) ==
  [u EXCEPT !.source = ClearHeldWidgets(RemoveHeldClasses(@)),
            !.compiled = ClearHeldWidgets(RemoveHeldClasses(@))]

ClearGutters(u) ==
  [u EXCEPT !.source = ClearGutter(@), !.compiled = ClearGutter(@)]

\* The name and the address bar are only cleared if there was a session.
ForgetSession(u) ==
  IF u.session = NoName THEN u ELSE [u EXCEPT !.session = NoName, !.hash = NoName]

ChangeState(u, next) ==
  IF next = "DEBUG" THEN [u EXCEPT !.state = "DEBUG"]
  ELSE [ForgetSession(ClearGutters(ClearAllHighlight(u)))
          EXCEPT !.autoStep = FALSE, !.state = next]

RequestFailure(u) == ChangeState(u, "IDLE")

SetLanguageAndText(u, nums) == [u EXCEPT !.source = SetValue(nums)]

-----------------------------------------------------------------------------
(* The tables of registers, variables and stack, here and in the popup *)

\* updateRegsInPopup, updateVarsInPopup and updateStackInPopup: the popup
\* first.  Until its scripts are loaded it has no jQuery and the call throws;
\* what has never been received has no forEach, except the stack.
UpdateTable(u, t) ==
  IF \/ u.popup = "loading"
     \/ u.last[t] = NoData /\ t # "stack"
  THEN Throw(u)
  ELSE [u EXCEPT !.window[t] = IF u.popup = "open" THEN u.last[t] ELSE @,
                 !.main[t] = u.last[t]]

ReceiveTable(u, t, value) == UpdateTable([u EXCEPT !.last[t] = value], t)

-----------------------------------------------------------------------------
(* Listing and breakpoints *)

\* A mutant does not count the lines of sections and symbols.
InstructionMap(listing) ==
  LET pcs == SelectSeq(listing, LAMBDA pc : pc # -1) IN
  [pc \in ToSet(pcs) |-> (CHOOSE i \in DOMAIN pcs : pcs[i] = pc) - 1]

\* The lines of the listing that are instructions, by address; lines count
\* from 0 in the editor.
DisasmMap(listing) ==
  [pc \in {listing[i] : i \in DOMAIN listing} \ {-1} |->
     (CHOOSE i \in DOMAIN listing : listing[i] = pc) - 1]

\* Every line of the listing ends in a line break: one empty line follows.
Contents(listing) ==
  Append([i \in DOMAIN listing |-> IF listing[i] = -1 THEN 0 ELSE listing[i]], 0)

ShowListing(u, listing) ==
  [u EXCEPT !.lineNumbers = listing, !.disasmMap = DisasmMap(listing),
            !.compiled = SetValue(Contents(listing))]

\* lineNumberFormatter: the address shown for a line, if it has one.
Formatter(u, lineNo) ==
  IF lineNo > Len(u.lineNumbers) THEN Unlisted
  ELSE IF u.lineNumbers[lineNo] < 0 THEN Unlisted ELSE u.lineNumbers[lineNo]

\* The breakpoints of an answer are listed in ascending order, those that are
\* queued only behind the others.
Earlier(data, b, c) ==
  IF (b \in data.queued) = (c \in data.queued) THEN b < c ELSE c \in data.queued

\* An address without an entry in the map ends the update of the markers.
CompiledMarkers(u, data) ==
  LET cleared == [u EXCEPT !.compiled = ClearGutter(@)]
      known == data.bkpts \intersect DOMAIN u.disasmMap
      before == {b \in known : \A c \in data.bkpts \ known : Earlier(data, b, c)}
      marked == [cleared EXCEPT !.compiled =
                   SetGutterMarkers(@, {u.disasmMap[pc] : pc \in before})]
  IN IF data.bkpts \subseteq known THEN marked ELSE Throw(marked)

BreakpointUpdate(u, data) ==
  Then(CompiledMarkers(u, data),
       LAMBDA v : [v EXCEPT !.source =
                     SetGutterMarkers(ClearGutter(@), {n - 1 : n \in data.bkptLines})])

-----------------------------------------------------------------------------
(* Posting and polling *)

\* ptrace.pollTries is set to 0 by the function that polls.
PollSessionState(u, retry) == Send([u EXCEPT !.pollTries = 0], "session-state", retry)
PollStepState(u) == Send([u EXCEPT !.pollTries = 0], "step-state", Unlisted)

\* setTimeout of pollSessionStateRetry.
LaterPollSession(u) == [u EXCEPT !.pollSession = @ + 1]
LaterPollStep(u) == [u EXCEPT !.pollStep = @ + 1]

StepAction(u, step) == Send(u, "step", step)

StopAction(u) ==
  Send([u EXCEPT !.autoTimer = FALSE, !.autoStep = FALSE], "stop", Unlisted)

CompileAction(u) == Send(u, "compile", Unlisted)

\* A new timer takes the name of the last one, which clearTimeout forgets.
StartAutoTimer(u) ==
  [u EXCEPT !.autoTimer = TRUE,
            !.strayTimers = IF u.autoTimer THEN @ + 1 ELSE @]

-----------------------------------------------------------------------------
(* What an answer with the state of the session shows *)

HighlightInstruction(u, data) ==
  IF ~data.done /\ data.pc \in DOMAIN u.disasmMap
  THEN [u EXCEPT !.compiled = AddLineClass(@, u.disasmMap[data.pc], "highlight")]
  ELSE u

\* location is given for an address with a source line; lines count from 1.
HighlightLocation(u, data) ==
  IF ~data.done /\ data.line > 0
  THEN [u EXCEPT !.source =
          AddLineClass(AddLineWidget(@, data.line - 1), data.line - 1, "highlight")]
  ELSE u

CommonStateUpdate(u, data) ==
  LET Regs(v) == ReceiveTable(v, "regs", data.pc)
      Vars(v) == IF "vars" \in data.tables THEN ReceiveTable(v, "vars", data.pc) ELSE v
      Stack(v) == ReceiveTable(v, "stack", data.pc)
      Breakpoints(v) == BreakpointUpdate(v, data)
      Location(v) == HighlightLocation(v, data)
      Done(v) == IF data.done THEN StopAction(v) ELSE v
  IN Then(Then(Then(Then(Then(Regs(HighlightInstruction(u, data)),
       Vars), Stack), Breakpoints), Location), Done)

-----------------------------------------------------------------------------
(* The server *)

NoProgram == [listing |-> <<-1>>, lineOf |-> <<>>, source |-> <<>>, returns |-> {}]

\* st: none, compile (its commands are queued), failed, ready, gone.
NoSession ==
  [st |-> "none", stop |-> FALSE, steps |-> 0, inputs |-> 0, pc |-> Unlisted,
   done |-> FALSE, map |-> {}, add |-> {}, remove |-> {},
   program |-> NoProgram, text |-> FALSE]

Live == {s \in Session : server[s].st \notin {"none", "gone"}}

\* In single session mode a request's session name is not looked at.
Named(sid) == IF single THEN Live ELSE Live \intersect {sid}

Pending(x) == x.st = "compile" \/ x.steps > 0 \/ x.inputs > 0

LineOf(x, pc) == IF pc \in DOMAIN x.program.lineOf THEN x.program.lineOf[pc] ELSE 0
Listed(x) == {x.program.listing[i] : i \in DOMAIN x.program.listing} \ {-1}

Answer ==
  [is |-> "data", ok |-> FALSE, retry |-> FALSE, compile |-> FALSE,
   error |-> FALSE, done |-> FALSE, pc |-> Unlisted, line |-> 0, bkpts |-> {},
   queued |-> {}, bkptLines |-> {}, tables |-> {}, listing |-> <<>>,
   text |-> <<>>, session |-> NoName]

\* Serialize::addBreakpoints.
WithBreakpoints(answer, x) ==
  [answer EXCEPT !.bkpts = x.map \union x.add, !.queued = x.add \ x.map,
                 !.bkptLines = {LineOf(x, b) : b \in x.map \union x.add} \ {0}]

\* What sessionState and stepState have in common.
WithPosition(answer, x) ==
  WithBreakpoints([answer EXCEPT !.ok = TRUE, !.done = x.done, !.pc = x.pc,
                                 !.line = LineOf(x, x.pc)], x)

FullState(x) ==
  [WithPosition(Answer, x) EXCEPT
     !.compile = TRUE, !.tables = {"regs", "stack"},
     !.listing = x.program.listing,
     !.text = IF x.text THEN x.program.source ELSE <<>>]

StepState(x) == [WithPosition(Answer, x) EXCEPT !.tables = Tables]

\* A failure has a line of the source, or none.
Failures(line) == [Answer EXCEPT !.ok = TRUE, !.line = line]

\* The answer to r is on its way; nobody waits for that of a dead page.
Answered(r, answer) ==
  ui' = [ui EXCEPT !.requests =
           IF r.live
           THEN (@ (-) SetToBag({r})) (+) SetToBag({[r EXCEPT !.resp = answer]})
           ELSE @ (-) SetToBag({r})]

Unchanging == UNCHANGED <<single, user, clicks, losses, overlap, excused>>

Waiting(r, kinds) == r.resp = NoAnswer /\ r.kind \in kinds

\* In single session mode a new session replaces the old one, whose worker is
\* joined first.  Without a temporary file there is no new session.
ServeCompile(r) ==
  /\ Waiting(r, {"compile", "upload"})
  /\ \/ Answered(r, Answer) /\ UNCHANGED server
     \/ \E s \in Session :
          /\ server[s].st = "none" /\ \A t \in 1..(s - 1) : server[t].st # "none"
          /\ single => \A t \in Live : ~Pending(server[t])
          /\ server' = [t \in Session |->
               IF t = s THEN [NoSession EXCEPT !.st = "compile",
                                               !.text = r.kind = "compile"]
               ELSE IF single /\ t \in Live THEN [NoSession EXCEPT !.st = "gone"]
               ELSE server[t]]
          /\ Answered(r, [Answer EXCEPT !.ok = TRUE,
                                       !.session = IF single THEN NoName ELSE s])
  /\ Unchanging

\* The worker ends a command.  The compiled program runs to its first symbol,
\* to a breakpoint there.
EndCompile(s) ==
  /\ server[s].st = "compile"
  /\ \/ server' = [server EXCEPT ![s].st = "failed"]
     \/ \E p \in Programs : LET entry == Min(DOMAIN p.lineOf) IN
          server' = [server EXCEPT ![s].st = "ready", ![s].program = p,
                                   ![s].pc = entry, ![s].map = {entry}]

\* The queued breakpoints are applied.  Those that are hit leave the map, and a
\* library call that is stepped over leaves one of its own where it returns.
StepMaps(x) ==
  LET applied == (x.map \union x.add) \ x.remove IN
  {map \in SUBSET (applied \union x.program.returns) : Cardinality(map \ applied) <= 1}

Stepped(x, map, pc, done) ==
  [x EXCEPT !.steps = @ - 1, !.map = map, !.add = {}, !.remove = {},
            !.pc = pc, !.done = done]

\* A program that is found ended by the first wait of the step is left alone.
\* Others may leave the listing, or be found ended later in the step.
EndStep(s) ==
  /\ server[s].steps > 0
  /\ \/ server' = [server EXCEPT ![s].steps = @ - 1, ![s].done = TRUE]
     \/ /\ ~server[s].done
        /\ \E map \in StepMaps(server[s]), pc \in Listed(server[s]) \union {Unlisted},
              done \in BOOLEAN :
             server' = [server EXCEPT ![s] = Stepped(@, map, pc, done)]

EndInput(s) ==
  /\ server[s].inputs > 0
  /\ server' = [server EXCEPT ![s].inputs = @ - 1]

EndCommand(s) == EndCompile(s) \/ EndStep(s) \/ EndInput(s)

\* An invalid session, and one with commands queued, have no state to tell.
ServeNoState(r) ==
  /\ Waiting(r, {"session-state", "step-state"})
  /\ \/ Named(r.sid) = {} /\ Answered(r, Answer)
     \/ \E s \in Named(r.sid) :
          \/ Pending(server[s]) /\ Answered(r, [Answer EXCEPT !.retry = TRUE])
          \/ /\ r.kind = "step-state" /\ server[s].st = "failed"
             /\ Answered(r, Answer)
  /\ UNCHANGED server /\ Unchanging

\* The commands queued are looked at twice.  When the last of them ends in
\* between, the answer has no state and does not ask to retry: a page that was
\* loaded again takes that for no session.  (The others may as well have ended
\* before.)
ServeLate(r) ==
  /\ Waiting(r, {"session-state", "step-state"})
  /\ \E s \in Named(r.sid) : EndCommand(s) /\ ~Pending(server'[s])
  /\ Answered(r, Answer)
  /\ excused' = (excused \/ (r.kind = "session-state" /\ ~r.arg))
  /\ UNCHANGED <<single, user, clicks, losses, overlap>>

\* A mutant does not look at the commands pending.
ServeAnyState(r) ==
  /\ Waiting(r, {"session-state", "step-state"})
  /\ \E s \in Named(r.sid) :
       /\ server[s].st = "ready"
       /\ Answered(r, IF r.kind = "session-state" THEN FullState(server[s])
                     ELSE StepState(server[s]))
  /\ UNCHANGED server /\ Unchanging

ServeState(r) ==
  /\ Waiting(r, {"session-state", "step-state"})
  /\ \E s \in Named(r.sid) :
       /\ server[s].st = "ready" /\ ~Pending(server[s])
       /\ Answered(r, IF r.kind = "session-state" THEN FullState(server[s])
                     ELSE StepState(server[s]))
  /\ UNCHANGED server /\ Unchanging

\* Once its failures are read the session is removed (that a second reader
\* may come first is ReconnectIsSafe's matter, in SessionManagerProps).
ServeFailures(r) ==
  /\ Waiting(r, {"session-state"})
  /\ \E s \in Named(r.sid), line \in {0, 1} :
       /\ server[s].st = "failed"
       /\ server' = [server EXCEPT ![s] = [NoSession EXCEPT !.st = "gone"]]
       /\ Answered(r, Failures(line))
  /\ Unchanging

ServeStep(r) ==
  /\ Waiting(r, {"step"})
  /\ \/ /\ \A s \in Named(r.sid) : server[s].st # "ready"
        /\ Answered(r, Answer) /\ UNCHANGED server
     \/ \E s \in Named(r.sid) :
          /\ server[s].st = "ready" /\ server[s].steps < MaxPending
          /\ server' = [server EXCEPT ![s].steps = @ + 1]
          /\ Answered(r, [Answer EXCEPT !.ok = TRUE])
  /\ Unchanging

\* The content of the answer is not looked at.
ServeStop(r) ==
  /\ Waiting(r, {"stop"})
  /\ server' = [s \in Session |-> IF s \in Named(r.sid)
                                  THEN [server[s] EXCEPT !.stop = TRUE] ELSE server[s]]
  /\ Answered(r, Answer)
  /\ Unchanging

\* A line has a breakpoint's address if it has code; an address that is not a
\* number asks for none.
BkptAddress(x, arg) ==
  IF ~arg.byLine THEN arg.at
  ELSE LET code == {pc \in DOMAIN x.program.lineOf : x.program.lineOf[pc] = arg.at}
       IN IF code = {} THEN Unlisted ELSE Min(code)

Breakpoint(x, arg) ==
  LET a == BkptAddress(x, arg) IN
  IF a = Unlisted THEN x
  ELSE IF arg.set THEN [x EXCEPT !.add = @ \union {a}]
  ELSE [x EXCEPT !.add = @ \ {a}, !.remove = @ \union {a}]

ServeBkpt(r) ==
  /\ Waiting(r, {"breakpoint"})
  /\ \/ /\ \A s \in Named(r.sid) : server[s].st # "ready"
        /\ Answered(r, [Answer EXCEPT !.error = TRUE]) /\ UNCHANGED server
     \/ \E s \in Named(r.sid) :
          /\ server[s].st = "ready"
          /\ server' = [server EXCEPT ![s] = Breakpoint(@, r.arg)]
          /\ Answered(r, WithBreakpoints(
               [Answer EXCEPT !.ok = r.arg.byLine \/ r.arg.at # Unlisted],
               server'[s]))
  /\ Unchanging

ServeStdin(r) ==
  /\ Waiting(r, {"stdin"})
  /\ \/ /\ \A s \in Named(r.sid) : server[s].st # "ready"
        /\ Answered(r, Answer) /\ UNCHANGED server
     \/ \E s \in Named(r.sid) :
          /\ server[s].st = "ready" /\ server[s].inputs < MaxPending
          /\ server' = [server EXCEPT ![s].inputs = @ + 1]
          /\ Answered(r, [Answer EXCEPT !.ok = TRUE])
  /\ Unchanging

Serve ==
  \E r \in Outstanding(ui) :
    \/ ServeCompile(r) \/ ServeNoState(r) \/ ServeLate(r) \/ ServeState(r)
    \/ ServeFailures(r) \/ ServeStep(r) \/ ServeStop(r) \/ ServeBkpt(r) \/ ServeStdin(r)

CompileDone(s) == EndCompile(s) /\ UNCHANGED ui /\ Unchanging

\* A mutant takes a step off an empty queue.
StepDoneEmpty(s) ==
  /\ server[s].steps >= 0
  /\ server' = [server EXCEPT ![s].steps = @ - 1]
  /\ UNCHANGED ui /\ Unchanging

StepDone(s) == EndStep(s) /\ UNCHANGED ui /\ Unchanging

InputDone(s) == EndInput(s) /\ UNCHANGED ui /\ Unchanging

Reap(s) ==
  /\ server[s].stop /\ ~Pending(server[s]) /\ server[s].st # "gone"
  /\ server' = [server EXCEPT ![s] = [NoSession EXCEPT !.st = "gone", !.stop = TRUE]]
  /\ UNCHANGED ui /\ Unchanging

Work(s) == CompileDone(s) \/ StepDone(s) \/ InputDone(s) \/ Reap(s)

-----------------------------------------------------------------------------
(* The events of the browser *)

\* A handler has sent a request.
Sent(base, u) ==
  \E r \in Outstanding(u) :
    r.live /\ (r \in Outstanding(base) => u.requests[r] > base.requests[r])

\* A handler has begun to read a file, which will be sent.
Chosen(base, u) == u.reading /\ ~base.reading

\* A handler ran: base is the page before its first statement, u after its last.
Handled(base, u) ==
  /\ ui' = [u EXCEPT !.threw = FALSE]
  /\ overlap' = (overlap \/ (Busy(base) /\ (Sent(base, u) \/ Chosen(base, u))))

\* A request fails: its answer is lost, or the connection is.
Lose(r) ==
  /\ "lost" \in user.events /\ losses < MaxLost /\ r.live /\ r.resp.is # "error"
  /\ ui' = [ui EXCEPT !.requests = (@ (-) SetToBag({r}))
              (+) SetToBag({[r EXCEPT !.resp = [is |-> "error"]]})]
  /\ losses' = losses + 1 /\ excused' = TRUE
  /\ UNCHANGED <<server, single, user, clicks, overlap>>

\* compileAction and uploadFileHandler.
Compiled(u, data) ==
  LET cleared == ClearAllHighlight(u) IN
  IF data.ok
  THEN LaterPollSession([cleared EXCEPT !.session = data.session,
                                        !.hash = data.session])
  ELSE RequestFailure(cleared)

ShowText(u, data) ==
  IF data.text = <<>> THEN u ELSE SetLanguageAndText(u, data.text)

ShowFailures(u, data) ==
  IF data.line = 0 THEN u
  ELSE [u EXCEPT !.source = AddLineWidget(
          AddLineClass(@, data.line - 1, "compile-error"), data.line - 1)]

\* A mutant polls again whenever there is no state.
SessionPolled(u, data, retry) ==
  IF data.ok
  THEN IF data.compile
       THEN Then(CommonStateUpdate(ShowListing(ShowText(u, data), data.listing), data),
                 LAMBDA v : ChangeState(v, "DEBUG"))
       ELSE ShowFailures(u, data)
  ELSE LaterPollSession([u EXCEPT !.pollTries = @ + 1])

SessionStated(u, data, retry) ==
  IF data.ok
  THEN IF data.compile
       THEN Then(CommonStateUpdate(ShowListing(ShowText(u, data), data.listing), data),
                 LAMBDA v : ChangeState(v, "DEBUG"))
       ELSE ShowFailures(u, data)
  ELSE IF ~(retry \/ data.retry) THEN u
  ELSE IF u.pollTries > MaxPollTries THEN RequestFailure(u)
  ELSE LaterPollSession([u EXCEPT !.pollTries = @ + 1])

AutoStep(u, data) == IF u.autoStep /\ ~data.done THEN StartAutoTimer(u) ELSE u

StepStated(u, data) ==
  IF data.ok
  THEN Then(CommonStateUpdate(ClearAllHighlight(u), data), LAMBDA v : AutoStep(v, data))
  ELSE IF u.pollTries > MaxPollTries THEN RequestFailure(u)
  ELSE LaterPollStep([u EXCEPT !.pollTries = @ + 1])

BreakpointAnswered(u, data) ==
  LET shown == IF data.ok THEN BreakpointUpdate(u, data) ELSE u IN
  Then(shown, LAMBDA v : IF data.error THEN RequestFailure(v) ELSE v)

\* The callback of the request, or the one given to fail.
Answers(u, r) ==
  IF r.resp.is = "error" THEN RequestFailure(u)
  ELSE CASE r.kind \in {"compile", "upload"} -> Compiled(u, r.resp)
         [] r.kind = "session-state" -> SessionStated(u, r.resp, r.arg)
         [] r.kind = "step-state" -> StepStated(u, r.resp)
         [] r.kind = "step" ->
              IF r.resp.ok THEN LaterPollStep(u) ELSE RequestFailure(u)
         [] r.kind = "stop" -> ChangeState(u, "IDLE")
         [] r.kind = "breakpoint" -> BreakpointAnswered(u, r.resp)
         [] r.kind = "stdin" -> IF r.resp.ok THEN u ELSE RequestFailure(u)

\* What the interface does not handle: the popup's scripts are not there yet; a
\* server of several sessions is not told whose input it is; a step by hand
\* while an automatic one is to come, and a failure then, leave a timer that
\* nothing clears.
Excuse(base, r, u) ==
  \/ base.popup = "loading" /\ u.threw
  \/ r.kind = "stdin" /\ ~single
  \/ u.strayTimers > base.strayTimers
  \/ r.kind # "stop" /\ u.state = "IDLE" /\ u.autoTimer

Deliver ==
  \E r \in Outstanding(ui) :
    /\ r.resp # NoAnswer
    /\ LET base == [ui EXCEPT !.requests = @ (-) SetToBag({r})]
           u == Answers(base, r)
       IN Handled(base, u) /\ excused' = (excused \/ Excuse(base, r, u))
    /\ UNCHANGED <<server, single, user, clicks, losses>>

Timer(base, u) ==
  Handled(base, u) /\ UNCHANGED <<server, single, user, clicks, losses, excused>>

PollSessionTimer ==
  /\ ui.pollSession > 0
  /\ LET base == [ui EXCEPT !.pollSession = @ - 1] IN
     Timer(base, PollSessionState(base, TRUE))

PollStepTimer ==
  /\ ui.pollStep > 0
  /\ LET base == [ui EXCEPT !.pollStep = @ - 1] IN Timer(base, PollStepState(base))

AutoStepTimer ==
  \/ /\ ui.autoTimer
     /\ LET base == [ui EXCEPT !.autoTimer = FALSE] IN
        Timer(base, StepAction(base, "instruction"))
  \/ /\ ui.strayTimers > 0
     /\ LET base == [ui EXCEPT !.strayTimers = @ - 1] IN
        Timer(base, StepAction(base, "instruction"))

FileRead ==
  /\ ui.reading
  /\ LET base == [ui EXCEPT !.reading = FALSE] IN
     Timer(base, Send(base, "upload", Unlisted))

\* The example is a text none of the programs was made of.
LoadCode(u) == SetLanguageAndText(u, <<0, 0>>)

\* A mutant reads the address before it changes the state.
StartAppLate ==
  /\ ui.state = "INIT"
  /\ LET started == ChangeState([ui EXCEPT !.session = ui.hash], "IDLE") IN
     Timer(ui, LoadCode(PollSessionState(started, FALSE)))

\* startApp, and the loadCode that index.html calls after it.
StartApp ==
  /\ ui.state = "INIT"
  /\ LET started == [ChangeState(ui, "IDLE") EXCEPT !.session = ui.hash] IN
     Timer(ui, LoadCode(PollSessionState(started, FALSE)))

\* startApp sets up the handlers.
Event(feature, u) ==
  /\ ui.state # "INIT"
  /\ feature \in user.events /\ (user.waits => ~Busy(ui))
  /\ clicks < user.clicks /\ clicks' = clicks + 1
  /\ Handled(ui, u)
  /\ UNCHANGED <<server, single, user, losses>>

Click(feature, u) == Event(feature, u) /\ UNCHANGED excused

\* The server's bound on sessions stands for the user's patience.
PlayClick ==
  \/ /\ ui.state = "IDLE"
     /\ Cardinality({s \in Session : server[s].st = "none"})
          > BagCardinality(ui.requests)
     /\ Click("play", CompileAction(ui))
  \/ ui.state = "DEBUG" /\ Click("play", StepAction(ui, "instruction"))

FwdClick ==
  \E step \in {"line", "continue"} :
    ui.state = "DEBUG" /\ Click("skip", StepAction(ui, step))

StopClick == ui.state = "DEBUG" /\ Click("stop", StopAction(ui))

\* The button works in every state, though it is shown as disabled in IDLE.
LoopClick ==
  \/ ui.autoStep /\ Click("loop", [ui EXCEPT !.autoStep = FALSE])
  \/ /\ ~ui.autoStep
     /\ Event("loop", [StepAction(ui, "instruction") EXCEPT !.autoStep = TRUE])
     /\ excused' = (excused \/ ui.state # "DEBUG")

\* The address is read off the gutter.
GutterClick ==
  /\ ui.state = "DEBUG"
  /\ \/ \E i \in DOMAIN ui.source :
          Click("gutter", Send(ui, "breakpoint",
            [set |-> ~HasMarker(ui.source, i - 1), byLine |-> TRUE, at |-> i]))
     \/ \E i \in DOMAIN ui.compiled :
          Click("gutter", Send(ui, "breakpoint",
            [set |-> ~HasMarker(ui.compiled, i - 1), byLine |-> FALSE,
             at |-> Formatter(ui, i)]))

\* The name of the session is not sent.
StdinEnter ==
  /\ ui.state = "DEBUG"
  /\ Click("stdin", [Send([ui EXCEPT !.session = NoName], "stdin", Unlisted)
                       EXCEPT !.session = ui.session])

\* The choice of a file is disabled in the state DEBUG only.
UploadClick ==
  /\ ui.state # "DEBUG" /\ ~ui.reading
  /\ Cardinality({s \in Session : server[s].st = "none"}) > BagCardinality(ui.requests)
  /\ Click("upload", [ui EXCEPT !.reading = TRUE])

ExampleClick == Click("example", LoadCode(ui))

\* The source can be edited in every state.
Edit ==
  \E i \in DOMAIN ui.source :
    \/ Click("edit", [ui EXCEPT !.source = InsertLine(@, i - 1)])
    \/ Len(ui.source) > 1 /\ Click("edit", [ui EXCEPT !.source = DeleteLine(@, i - 1)])

MoreClick ==
  /\ ui.popup \in {"none", "closed"}
  /\ Click("popup", [ui EXCEPT !.popup = "loading",
                               !.window = [t \in Tables |-> NoData]])

\* A mutant forgets the stack.
PopupLoadedTables ==
  /\ ui.popup = "loading"
  /\ LET base == [ui EXCEPT !.popup = "open"] IN
     Timer(base, Then(UpdateTable(base, "regs"), LAMBDA v : UpdateTable(v, "vars")))

PopupLoaded ==
  /\ ui.popup = "loading"
  /\ LET base == [ui EXCEPT !.popup = "open"] IN
     Timer(base, Then(Then(UpdateTable(base, "regs"),
       LAMBDA v : UpdateTable(v, "vars")), LAMBDA v : UpdateTable(v, "stack")))

PopupClosed ==
  ui.popup \in {"loading", "open"} /\ Click("popup", [ui EXCEPT !.popup = "closed"])

\* The requests of a page that goes: the server still gets them.
Abandoned(requests) ==
  LET waiting == {r \in BagToSet(requests) : r.resp = NoAnswer}
      Copies(r) == IF r \in waiting THEN requests[r] ELSE 0
  IN [d \in {[r EXCEPT !.live = FALSE] : r \in waiting} |->
        Copies(d) + Copies([d EXCEPT !.live = TRUE])]

\* The page goes and its requests stay; the address has the session's name.
Reload ==
  /\ Event("reload", [Page(ui.hash) EXCEPT !.requests = Abandoned(ui.requests)])
  /\ excused' = (excused \/ Busy(ui) \/ ui.autoTimer)

User ==
  \/ PlayClick \/ FwdClick \/ StopClick \/ LoopClick \/ GutterClick \/ StdinEnter
  \/ UploadClick \/ ExampleClick \/ Edit \/ MoreClick \/ PopupClosed \/ Reload

Browser ==
  \/ Deliver \/ PollSessionTimer \/ PollStepTimer \/ AutoStepTimer \/ FileRead
  \/ StartApp \/ PopupLoaded

Init ==
  /\ ui = Page(NoName)
  /\ server = [s \in Session |-> NoSession]
  /\ single \in BOOLEAN /\ user \in Users
  /\ clicks = 0 /\ losses = 0
  /\ overlap = FALSE /\ excused = FALSE

Next ==
  \/ Serve \/ Browser \/ User
  \/ \E s \in Session : Work(s)
  \/ \E r \in Outstanding(ui) : Lose(r)

Spec == Init /\ [][Next]_vars

\* Browser is enabled: something is to be handled.
Due ==
  \/ \E r \in Outstanding(ui) : r.resp # NoAnswer
  \/ ui.pollSession > 0 \/ ui.pollStep > 0 \/ ui.autoTimer \/ ui.strayTimers > 0
  \/ ui.reading \/ ui.state = "INIT" \/ ui.popup = "loading"

\* The browser handles what is due: this is WF_vars(Browser) with its ENABLED
\* written out.  The server answers, a compilation ends, and a session that is
\* stopped and idle is removed.  The user and the network owe nothing, and a step
\* may never end: nor may what is queued behind it.
FairSpec ==
  /\ Spec
  /\ ([]<>~Due \/ []<><<Browser>>_vars)
  /\ WF_vars(Serve)
  /\ \A s \in Session : WF_vars(CompileDone(s)) /\ WF_vars(Reap(s))
=============================================================================
