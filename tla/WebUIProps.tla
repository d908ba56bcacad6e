----------------------------- MODULE WebUIProps -----------------------------
(***************************************************************************)
(* The properties of the web interface and its server (see WebUI).         *)
(***************************************************************************)
EXTENDS WebUI

\* What the page's truth needs of the compiler: every address with a line is in
\* the listing, and every line in the source, where each line is itself.
ASSUME ProgramsAssumption ==
  \A p \in Programs :
    /\ DOMAIN p.lineOf \subseteq {p.listing[i] : i \in DOMAIN p.listing}
    /\ \A pc \in DOMAIN p.lineOf : p.lineOf[pc] \in 0..Len(p.source)
    /\ p.source # <<>> /\ \A i \in DOMAIN p.source : p.source[i] = i

LineNumbers == UNION {{p.source[i] : i \in DOMAIN p.source} : p \in Programs}
Addresses ==
  (UNION {DOMAIN p.lineOf \union {p.listing[i] : i \in DOMAIN p.listing} :
            p \in Programs}) \ {-1}
Data == Addresses \union {Unlisted, NoData}

PageFields ==
  {"state", "session", "hash", "autoStep", "autoTimer", "strayTimers",
   "pollTries", "pollSession", "pollStep", "reading", "requests", "source",
   "compiled", "lineNumbers", "disasmMap", "popup", "last", "main", "window",
   "threw"}

ControlTypes(u) ==
  /\ u.state \in {"INIT", "IDLE", "DEBUG"}
  /\ u.session \in Session \union {NoName} /\ u.hash \in Session \union {NoName}
  /\ u.autoStep \in BOOLEAN /\ u.autoTimer \in BOOLEAN
  /\ u.reading \in BOOLEAN /\ u.threw \in BOOLEAN
  /\ u.pollTries \in 0..(MaxPollTries + 1)
  /\ u.strayTimers \in Nat /\ u.pollSession \in Nat /\ u.pollStep \in Nat

EditorTypes(u) ==
  /\ u.source \in Seq(LineType(LineNumbers \union {0})) \ {<<>>}
  /\ u.compiled \in Seq(LineType(Addresses \union {0})) \ {<<>>}
  /\ u.lineNumbers \in Seq(Addresses \union {-1})
  /\ DOMAIN u.disasmMap \subseteq Addresses
  /\ \A pc \in DOMAIN u.disasmMap : u.disasmMap[pc] \in Nat

TableTypes(u) ==
  /\ u.popup \in {"none", "loading", "open", "closed"}
  /\ u.last \in [Tables -> Data] /\ u.main \in [Tables -> Data]
  /\ u.window \in [Tables -> Data]

AnswerType ==
  [is : {"data"}, ok : BOOLEAN, retry : BOOLEAN, compile : BOOLEAN,
   error : BOOLEAN, done : BOOLEAN, pc : Addresses \union {Unlisted}, line : Nat,
   bkpts : SUBSET Addresses, queued : SUBSET Addresses,
   bkptLines : SUBSET Nat, tables : SUBSET Tables,
   listing : {<<>>, NoProgram.listing} \union {p.listing : p \in Programs},
   text : {<<>>} \union {p.source : p \in Programs},
   session : Session \union {NoName}]

RequestType(r) ==
  /\ r = [kind |-> r.kind, sid |-> r.sid, arg |-> r.arg, live |-> r.live,
          resp |-> r.resp]
  /\ r.kind \in {"compile", "upload", "session-state", "step-state", "step",
                 "stop", "breakpoint", "stdin"}
  /\ r.sid \in Session \union {NoName} /\ r.live \in BOOLEAN
  /\ r.kind = "breakpoint" =>
       /\ r.arg \in [set : BOOLEAN, byLine : BOOLEAN, at : Nat]
       /\ r.arg.byLine \/ r.arg.at \in Addresses \union {Unlisted}
  /\ r.resp.is \in {"none", "error", "data"}
  /\ r.resp.is = "none" => r.resp = NoAnswer
  /\ r.resp.is = "data" => r.resp \in AnswerType

RequestTypes(u) == IsABag(u.requests) /\ \A r \in Outstanding(u) : RequestType(r)

SessionType ==
  [st : {"none", "compile", "failed", "ready", "gone"}, stop : BOOLEAN,
   steps : 0..MaxPending, inputs : 0..MaxPending,
   pc : Addresses \union {Unlisted}, done : BOOLEAN, map : SUBSET Addresses,
   add : SUBSET Addresses, remove : SUBSET Addresses,
   program : Programs \union {NoProgram}, text : BOOLEAN]

PageTypes(u) ==
  /\ DOMAIN u = PageFields
  /\ ControlTypes(u) /\ EditorTypes(u) /\ TableTypes(u) /\ RequestTypes(u)

TypeOK ==
  /\ PageTypes(ui) /\ ~ui.threw
  /\ server \in [Session -> SessionType]

LinesOf(doc, cls) == {i \in DOMAIN doc : cls \in doc[i].classes}

(* At most one line of each editor is highlighted as the next to run: every  *)
(* way commonStateUpdate is reached has taken back the last highlight, even  *)
(* one that moved with an edit or belongs to a document since replaced.  In  *)
(* the source this needs answers that do not overtake each other.            *)
OneHighlight ==
  /\ Cardinality(LinesOf(ui.compiled, "highlight")) <= 1
  /\ ~overlap => Cardinality(LinesOf(ui.source, "highlight")) <= 1

(* A breakpoint is shown where a click takes it away: the gutter of a marked *)
(* line of the listing has the address of the instruction in that line, for  *)
(* all the lines of sections and symbols in between, and whichever session   *)
(* the listing and the breakpoints are of.                                   *)
GutterAddresses ==
  \A i \in DOMAIN ui.compiled :
    HasMarker(ui.compiled, i - 1) =>
      Formatter(ui, i) = ui.compiled[i].num /\ Formatter(ui, i) # Unlisted

\* The session the page is attached to.
Attached == Named(ui.session)

Shown(s) ==
  LET x == server[s]
      bkpts == x.map \union x.add
  IN /\ x.st = "ready"
     /\ Highlighted(ui.compiled)
          = IF x.done THEN {} ELSE {x.pc} \intersect Listed(x)
     /\ Marked(ui.compiled) = bkpts
     /\ x.text /\ user.events \intersect {"edit", "example"} = {} =>
          /\ Marked(ui.source) = {LineOf(x, b) : b \in bkpts} \ {0}
          /\ Highlighted(ui.source)
               = IF x.done THEN {} ELSE {LineOf(x, x.pc)} \ {0}

\* A server of one session still shows the one it was told to stop to a page
\* that is loaded again.
Stopping == single /\ \E s \in Session :
  /\ server[s].st # "none" /\ server[s].stop
  /\ \A t \in Session : server[t].st # "none" => t <= s

(* To a user who waits for each answer the page tells the truth: in DEBUG    *)
(* the session is there and its position and breakpoints are the server's,   *)
(* in IDLE no session the server still has was left running, and no step     *)
(* is to come.  Excused are a lost request, what Excuse and Reload name and  *)
(* the page loaded again that is told of no session while there is one       *)
(* (ServeLate).                                                              *)
TruthWhenPatient ==
  ~overlap /\ ~excused /\ ~Busy(ui) =>
    /\ ui.state = "DEBUG" => Stopping \/ \E s \in Attached : Shown(s)
    /\ ui.state = "IDLE" =>
         /\ \A s \in Live : server[s].stop
         /\ ~ui.autoTimer /\ ui.strayTimers = 0

(* A popup that is open shows what the page shows, whenever it was opened.   *)
(* The exception is the first step not made yet: lastVars has no forEach     *)
(* then, and the popup's onload ends before it fills in the stack.           *)
PopupMirrors ==
  ui.popup = "open" /\ ui.last["vars"] # NoData => ui.window = ui.main

(* The page gives the server one step at a time: the next automatic step is  *)
(* not sent before the last was executed.                                    *)
OneStepAtATime ==
  ~overlap /\ ~excused => \A s \in Session : server[s].steps <= 1

\* The steps and inputs of every session come to their end, again and again.
CommandsEnd == \A s \in Session : []<>(server[s].steps = 0 /\ server[s].inputs = 0)

(* Every exchange comes to its end, unless the user does not wait, an answer *)
(* is lost or a page that is loaded again shows a session that was stopped.  *)
(* (The poll functions reset the count of the tries, so that a session that  *)
(* goes away while it is polled is polled for ever.)  The premise is not     *)
(* idle: a step that waits for input the program will not get, comes to the  *)
(* same fault again or is caught by a breakpoint (Starved, Faulting and      *)
(* Caught in StepperProps) does not end, and the page polls for ever.        *)
Settles ==
  CommandsEnd => (Busy(ui) ~> ~Busy(ui) \/ overlap \/ excused \/ Stopping)
=============================================================================
