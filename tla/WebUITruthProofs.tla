-------------------------- MODULE WebUITruthProofs --------------------------
(***************************************************************************)
(* The proof that a page tells a patient user the truth (TruthWhenPatient  *)
(* of WebUIProps): what every request and poll under way knows of the      *)
(* session the page is attached to.                                        *)
(***************************************************************************)
EXTENDS WebUIProofs

-----------------------------------------------------------------------------
(* What is true of the sessions *)

AllStopped == \A s \in Live : server[s].stop

\* All sessions the page is not attached to were told to stop.
Others(sid) == \A s \in Live \ Named(sid) : server[s].stop

\* And the one it is attached to was not; a server of one has Stopping for that.
Unstopped(sid) == ~single => \A s \in Named(sid) : ~server[s].stop

\* The session is still there, or the server of one was told to stop it.
NotLost(sid) == Stopping \/ \E s \in Named(sid) : ~server[s].stop

\* Sessions are created one after the other; the one of a server of one
\* session is the latest.
CreatedInOrder ==
  /\ \A s \in Session : server[s].st = "none" => ~server[s].stop
  /\ \A s, t \in Session :
       server[s].st # "none" /\ server[t].st = "none" => s < t
  /\ single => \A s \in Live, t \in Session : server[t].st # "none" => t <= s

Instructions(listing) == {listing[i] : i \in DOMAIN listing} \ {-1}

\* Breakpoints are at instructions; there are none before there is a program.
Fits(x) ==
  /\ x.st = "ready" =>
       x.program \in Programs /\ x.map \subseteq Listed(x) /\ x.add \subseteq Listed(x)
  /\ x.st = "compile" => x.map = {} /\ x.add = {}

-----------------------------------------------------------------------------
(* What the page shows of a session *)

DocIs(doc, nums) ==
  DOMAIN doc = DOMAIN nums /\ \A i \in DOMAIN doc : doc[i].num = nums[i]

ListingIs(u, listing) ==
  /\ u.lineNumbers = listing /\ u.disasmMap = DisasmMap(listing)
  /\ DocIs(u.compiled, Contents(listing))

\* The session has a source that the user has not changed.
Readable(x) == x.text /\ user.events \intersect {"edit", "example"} = {}

\* The documents are those of the session, whatever their marks.
Documents(u, x) ==
  /\ x.st = "ready" /\ ListingIs(u, x.program.listing)
  /\ Readable(x) => DocIs(u.source, x.program.source)

PositionShown(u, x) ==
  /\ Highlighted(u.compiled) = IF x.done THEN {} ELSE {x.pc} \intersect Listed(x)
  /\ Readable(x) =>
       Highlighted(u.source) = IF x.done THEN {} ELSE {LineOf(x, x.pc)} \ {0}

BreakpointsShown(u, x) ==
  LET bkpts == x.map \union x.add IN
  /\ Marked(u.compiled) = bkpts
  /\ Readable(x) => Marked(u.source) = {LineOf(x, b) : b \in bkpts} \ {0}

-----------------------------------------------------------------------------
(* What is true of an exchange that is alone *)

CompileTruth(u, r) ==
  r.kind \in {"compile", "upload"} =>
    /\ u.state = "IDLE"
    /\ r.resp = NoAnswer => AllStopped
    /\ r.resp # NoAnswer =>
         IF r.resp.ok THEN Others(r.resp.session) /\ Unstopped(r.resp.session)
         ELSE AllStopped

\* An answer without a state may mean that there is no session, unless it is
\* asked for again.
SessionTruth(u, r) ==
  r.kind = "session-state" =>
    /\ u.state = "IDLE" /\ u.pollTries = 0 /\ Others(u.session)
    /\ r.resp # NoAnswer =>
         IF r.resp.ok /\ r.resp.compile
         THEN /\ NotLost(u.session)
              /\ r.resp.bkpts \subseteq Instructions(r.resp.listing)
              /\ \A s \in Named(u.session) :
                   server[s].st = "ready" /\ r.resp = FullState(server[s])
         ELSE AllStopped \/ (~r.resp.ok /\ (r.resp.retry \/ r.arg))

StepTruth(u, r) ==
  r.kind = "step" =>
    u.state = "DEBUG" /\ (r.resp # NoAnswer /\ ~r.resp.ok => AllStopped)

StepStateTruth(u, r) ==
  r.kind = "step-state" =>
    /\ u.state = "DEBUG"
    /\ r.resp # NoAnswer /\ r.resp.ok =>
         /\ r.resp.bkpts \subseteq DOMAIN u.disasmMap
         /\ \A s \in Named(u.session) : r.resp = StepState(server[s])

StopTruth(u, r) ==
  r.kind = "stop" =>
    /\ u.state = "DEBUG" /\ ~u.autoTimer
    /\ r.resp # NoAnswer => AllStopped

BreakpointTruth(u, r) ==
  r.kind = "breakpoint" =>
    /\ u.state = "DEBUG"
    /\ r.resp = NoAnswer =>
         \/ Named(u.session) = {} \/ r.arg.byLine
         \/ r.arg.at \in DOMAIN u.disasmMap \union {Unlisted}
    /\ r.resp # NoAnswer =>
         /\ r.resp.bkpts \subseteq DOMAIN u.disasmMap
         /\ \A s \in Named(u.session) :
              IF r.resp.ok THEN r.resp.bkpts = WithBreakpoints(Answer, server[s]).bkpts
                /\ r.resp.bkptLines = WithBreakpoints(Answer, server[s]).bkptLines
              ELSE BreakpointsShown(u, server[s])
         /\ r.resp.error => ~r.resp.ok /\ AllStopped

StdinTruth(u, r) ==
  r.kind = "stdin" =>
    /\ u.state = "DEBUG"
    /\ r.resp # NoAnswer /\ ~r.resp.ok => AllStopped \/ ~single

\* A stdin request has no name. What fails is excused.
RequestTruth(u, r) ==
  /\ r.resp.is # "error"
  /\ r.sid = IF r.kind = "stdin" THEN NoName ELSE u.session
  /\ CompileTruth(u, r) /\ SessionTruth(u, r) /\ StepTruth(u, r)
  /\ StepStateTruth(u, r) /\ StopTruth(u, r) /\ BreakpointTruth(u, r)
  /\ StdinTruth(u, r)

\* What is under way may have moved the program, or its breakpoints.
Moving(u) ==
  \/ u.pollStep > 0
  \/ \E r \in LiveIn(u) :
       \/ r.kind \in {"stop", "step-state"}
       \/ r.kind = "step" /\ r.resp # NoAnswer
Marking(u) ==
  \E r \in LiveIn(u) : r.kind = "breakpoint" /\ r.resp # NoAnswer

StoppedFor(u) == \E r \in LiveIn(u) : r.kind = "stop" /\ r.resp # NoAnswer

PageTruth(u) ==
  /\ u.strayTimers = 0
  /\ u.state # "INIT" => u.hash = u.session
  /\ ~StoppedFor(u) => Unstopped(u.hash)
  /\ u.reading => u.state = "IDLE" /\ LiveIn(u) = {} /\ u.pollSession = 0
  /\ u.pollStep > 0 => u.state = "DEBUG"
  /\ u.pollSession > 0 => u.state = "IDLE" /\ Others(u.session)

InitTruth(u) ==
  u.state = "INIT" =>
    /\ LiveIn(u) = {} /\ u.pollSession = 0 /\ u.pollStep = 0 /\ ~u.autoTimer
    /\ u.session = NoName /\ Others(u.hash)

IdleTruth(u) ==
  u.state = "IDLE" =>
    /\ ~u.autoTimer /\ (LiveIn(u) = {} /\ u.pollSession = 0 => AllStopped)

DebugTruth(u) ==
  u.state = "DEBUG" =>
    /\ Others(u.session) /\ (~StoppedFor(u) => NotLost(u.session))
    /\ \A s \in Named(u.session) :
         /\ Documents(u, server[s])
         /\ ~Moving(u) => PositionShown(u, server[s])
         /\ ~Moving(u) /\ ~Marking(u) => BreakpointsShown(u, server[s])

Truth(u) ==
  /\ PageTruth(u) /\ InitTruth(u) /\ IdleTruth(u) /\ DebugTruth(u)
  /\ \A r \in LiveIn(u) : RequestTruth(u, r)

TruthInv ==
  /\ CreatedInOrder
  /\ ~overlap /\ ~excused =>
       /\ \A s \in Session : Fits(server[s])
       /\ \A s \in Session : server[s].stop => server[s].st \in {"ready", "gone"}
       /\ Truth(ui)
-----------------------------------------------------------------------------
(* What marks show *)

\* The text of a document and the numbers that its marks show.
SameMarked(d, e) == Marked(e) = Marked(d)
SameLit(d, e) == Highlighted(e) = Highlighted(d)

(* Of the same text, the same marks show the same.                           *)
LEMMA SameShown ==
  ASSUME NEW d, NEW e, SameText(d, e)
  PROVE  /\ SameMarkers(d, e) => SameMarked(d, e)
         /\ SameClasses(d, e) => SameLit(d, e)
         /\ \A nums : DocIs(d, nums) => DocIs(e, nums)
<1>1. SameMarkers(d, e) => SameMarked(d, e)
  BY DEF SameText, SameMarkers, SameMarked, Marked
<1>2. SameClasses(d, e) => SameLit(d, e)
  BY DEF SameText, SameClasses, SameLit, Highlighted
<1>3. \A nums : DocIs(d, nums) => DocIs(e, nums)
  BY DEF SameText, DocIs
<1> QED BY <1>1, <1>2, <1>3

(* Where nothing is marked nothing shows.                                    *)
LEMMA NothingShown ==
  ASSUME NEW d
  PROVE  /\ (\A i \in DOMAIN d : ~d[i].bkpt) => Marked(d) = {}
         /\ Dark(d) => Highlighted(d) = {}
BY DEF Marked, Highlighted, Dark

(* The one line highlighted is the one asked for.                            *)
LEMMA LineLit ==
  ASSUME NEW nums, NEW d \in Docs(nums), NEW n \in Int, n + 1 \in DOMAIN d, Dark(d)
  PROVE  LET e == AddLineClass(d, n, "highlight") IN
         /\ e \in Docs(nums) /\ SameText(d, e) /\ SameMarked(d, e)
         /\ Highlighted(e) = {d[n + 1].num}
<1> DEFINE e == AddLineClass(d, n, "highlight")
<1>1. e \in Docs(nums) /\ SameText(d, e) /\ SameMarkers(d, e)
  BY ClassAdded
<1>2. At(d, n) = n + 1
  BY AtIsALine
<1>3. \A i \in DOMAIN d : d[i] \in LineType(nums)
  BY DEF Docs
<1>4. ASSUME NEW i \in DOMAIN d
      PROVE  "highlight" \in e[i].classes <=> i = n + 1
  <2>1. CASE i = n + 1
    <3>1. e[i] = [d[i] EXCEPT !.classes = @ \union {"highlight"}, !.held = TRUE]
      BY <1>2, <2>1 DEF AddLineClass
    <3>2. "classes" \in DOMAIN d[i]
      BY <1>3, LineFields
    <3> QED BY <2>1, <3>1, <3>2
  <2>2. CASE i # n + 1
    BY <1>2, <2>2 DEF AddLineClass, Dark
  <2> QED BY <2>1, <2>2
<1> HIDE DEF e
<1>5. Highlighted(e) = {d[n + 1].num}
  BY <1>1, <1>4 DEF Highlighted, SameText
<1> QED BY <1>1, <1>5, SameShown DEF e

(* The lines marked are the ones asked for.                                  *)
LEMMA LinesMarked ==
  ASSUME NEW nums, NEW d \in Docs(nums), NEW lines,
         \A n \in lines : n \in Int /\ n + 1 \in DOMAIN d
  PROVE  LET e == SetGutterMarkers(ClearGutter(d), lines) IN
         /\ e \in Docs(nums) /\ SameText(d, e) /\ SameLit(d, e)
         /\ Marked(e) = {d[n + 1].num : n \in lines}
<1> DEFINE g == ClearGutter(d)
           e == SetGutterMarkers(g, lines)
<1>1. /\ g \in Docs(nums) /\ SameText(d, g) /\ SameClasses(d, g)
      /\ \A i \in DOMAIN d : ~g[i].bkpt
  BY GutterCleared
<1> HIDE DEF g
<1>2. e \in Docs(nums) /\ SameText(g, e) /\ SameClasses(g, e)
  BY <1>1, GutterMarked
<1>3. SameText(d, e) /\ SameClasses(d, e)
  BY <1>1, <1>2 DEF SameText, SameClasses
<1>4. \A n \in lines : At(g, n) = n + 1
  BY <1>1, AtIsALine DEF SameText
<1>5. \A i \in DOMAIN g : g[i] \in LineType(nums)
  BY <1>1 DEF Docs
<1>6. ASSUME NEW i \in DOMAIN d
      PROVE  e[i].bkpt <=> \E n \in lines : i = n + 1
  <2>1. i \in DOMAIN g /\ ~g[i].bkpt
    BY <1>1 DEF SameText
  <2>2. CASE \E n \in lines : i = n + 1
    <3>1. e[i] = [g[i] EXCEPT !.bkpt = TRUE]
      BY <1>4, <2>1, <2>2 DEF SetGutterMarkers
    <3>2. "bkpt" \in DOMAIN g[i]
      BY <1>5, <2>1, LineFields
    <3> QED BY <2>2, <3>1, <3>2
  <2>3. CASE ~\E n \in lines : i = n + 1
    BY <1>4, <2>1, <2>3 DEF SetGutterMarkers
  <2> QED BY <2>2, <2>3
<1> HIDE DEF e
<1>7. Marked(e) = {d[i].num : i \in {j \in DOMAIN d : \E n \in lines : j = n + 1}}
  BY <1>3, <1>6 DEF Marked, SameText
<1>8. Marked(e) = {d[n + 1].num : n \in lines}
  BY <1>7
<1> QED BY <1>2, <1>3, <1>8, SameShown DEF e, g

(* The lines of a new text.                                                  *)
LEMMA TextSet ==
  ASSUME NEW nums, NEW text \in Seq(nums), text # <<>>
  PROVE  DocIs(SetValue(text), text)
<1>1. LET e == SetValue(text) IN
      DOMAIN e = DOMAIN text /\ \A i \in DOMAIN e : e[i] = Line(text[i])
  BY ValueSet
<1> QED BY <1>1 DEF DocIs, Line

-----------------------------------------------------------------------------
(* What the functions of the interface show *)

(* The line of an instruction has its address.                               *)
LEMMA InstructionLine ==
  ASSUME NEW u, PageTypes(u), ListingAgrees(u), NEW pc \in DOMAIN u.disasmMap
  PROVE  LET n == u.disasmMap[pc] IN
         n \in Int /\ n + 1 \in DOMAIN u.compiled /\ u.compiled[n + 1].num = pc
<1> DEFINE n == u.disasmMap[pc]
<1>1. /\ n \in Nat /\ n + 1 \in DOMAIN u.lineNumbers /\ u.lineNumbers[n + 1] = pc
      /\ pc # -1
  BY DEF PageTypes, EditorTypes, ListingAgrees, Addresses
<1>2. /\ DOMAIN u.lineNumbers = 1..Len(u.lineNumbers) /\ Len(u.lineNumbers) \in Nat
      /\ DOMAIN u.compiled = 1..Len(u.compiled) /\ Len(u.compiled) \in Nat
      /\ Len(u.lineNumbers) <= Len(u.compiled)
  BY DEF PageTypes, EditorTypes, ListingAgrees
<1>3. u.compiled[n + 1].num = pc
  BY <1>1 DEF ListingAgrees
<1> QED BY <1>1, <1>2, <1>3

(* breakpointUpdate of breakpoints that are all in the listing marks them,   *)
(* and the lines it is given.                                                *)
LEMMA BreakpointUpdateShows ==
  ASSUME NEW u, PageTypes(u), EditorsAgree(u), ~u.threw, NEW data \in AnswerType,
         data.bkpts \subseteq DOMAIN u.disasmMap
  PROVE  LET v == BreakpointUpdate(u, data) IN
         /\ ~v.threw /\ SameListing(u, v)
         /\ SameText(u.compiled, v.compiled) /\ SameLit(u.compiled, v.compiled)
         /\ Marked(v.compiled) = data.bkpts
         /\ data.bkptLines \subseteq DOMAIN u.source =>
              /\ SameText(u.source, v.source) /\ SameLit(u.source, v.source)
              /\ Marked(v.source) = {u.source[n].num : n \in data.bkptLines}
<1> DEFINE clines == {u.disasmMap[pc] : pc \in data.bkpts}
           slines == {n - 1 : n \in data.bkptLines}
           c == SetGutterMarkers(ClearGutter(u.compiled), clines)
           s == SetGutterMarkers(ClearGutter(u.source), slines)
           a == CompiledMarkers(u, data)
           v == BreakpointUpdate(u, data)
<1>1. /\ DOMAIN a = DOMAIN u /\ a.threw = u.threw /\ SameListing(u, a)
      /\ a.compiled = c /\ a.source = u.source
  <2> DEFINE known == data.bkpts \intersect DOMAIN u.disasmMap
             before == {b \in known : \A d \in data.bkpts \ known : Earlier(data, b, d)}
  <2>1. known = data.bkpts /\ before = data.bkpts
    <3>1. known = data.bkpts
      OBVIOUS
    <3> HIDE DEF known
    <3> QED BY <3>1
  <2>2. a = [[u EXCEPT !.compiled = ClearGutter(@)]
               EXCEPT !.compiled = SetGutterMarkers(@, {u.disasmMap[pc] : pc \in before})]
    BY <2>1, Zenon DEF CompiledMarkers
  <2> HIDE DEF a, before
  <2> QED BY <2>1, <2>2 DEF PageTypes, PageFields, SameListing
<1>2. v = [a EXCEPT !.source = s]
  BY <1>1 DEF BreakpointUpdate, Then
<1> HIDE DEF a
<1>3. /\ ~v.threw /\ SameListing(u, v) /\ v.compiled = c /\ v.source = s
  BY <1>1, <1>2 DEF PageTypes, PageFields, SameListing
<1>4. u.source \in SourceDocs /\ u.compiled \in CompiledDocs
  BY PageDocs
<1>5. /\ SameText(u.compiled, c) /\ SameLit(u.compiled, c)
      /\ Marked(c) = data.bkpts
  <2>1. \A pc \in data.bkpts :
          LET n == u.disasmMap[pc] IN
          n \in Int /\ n + 1 \in DOMAIN u.compiled /\ u.compiled[n + 1].num = pc
    BY InstructionLine DEF EditorsAgree
  <2>2. \A n \in clines : n \in Int /\ n + 1 \in DOMAIN u.compiled
    BY <2>1
  <2>3. Marked(c) = {u.compiled[n + 1].num : n \in clines}
    BY <1>4, <2>2, LinesMarked DEF CompiledDocs
  <2>4. {u.compiled[n + 1].num : n \in clines} = data.bkpts
    BY <2>1
  <2> QED BY <1>4, <2>2, <2>3, <2>4, LinesMarked DEF CompiledDocs
<1>6. ASSUME data.bkptLines \subseteq DOMAIN u.source
      PROVE  /\ SameText(u.source, s) /\ SameLit(u.source, s)
             /\ Marked(s) = {u.source[n].num : n \in data.bkptLines}
  <2>1. data.bkptLines \subseteq Nat
    BY DEF AnswerType
  <2>2. \A n \in slines : n \in Int /\ n + 1 \in DOMAIN u.source
    BY <1>6, <2>1
  <2>3. Marked(s) = {u.source[n + 1].num : n \in slines}
    BY <1>4, <2>2, LinesMarked DEF SourceDocs
  <2>4. {u.source[n + 1].num : n \in slines} = {u.source[n].num : n \in data.bkptLines}
    <3>1. \A n \in data.bkptLines : n - 1 \in slines /\ (n - 1) + 1 = n
      BY <2>1
    <3>2. \A n \in slines : n + 1 \in data.bkptLines
      BY <2>1
    <3> HIDE DEF slines
    <3> QED BY <3>1, <3>2
  <2> QED BY <1>4, <2>2, <2>3, <2>4, LinesMarked DEF SourceDocs
<1> HIDE DEF c, s
<1> QED BY <1>3, <1>5, <1>6

(* The instruction to run next is the one that is lit, if it is listed.      *)
LEMMA HighlightInstructionShows ==
  ASSUME NEW u, PageTypes(u), EditorsAgree(u), Dark(u.compiled), NEW data
  PROVE  LET v == HighlightInstruction(u, data) IN
         /\ SameText(u.compiled, v.compiled) /\ SameMarked(u.compiled, v.compiled)
         /\ Highlighted(v.compiled)
              = IF data.done THEN {} ELSE {data.pc} \intersect DOMAIN u.disasmMap
<1> DEFINE v == HighlightInstruction(u, data)
<1>1. u.compiled \in CompiledDocs
  BY PageDocs
<1>2. CASE ~data.done /\ data.pc \in DOMAIN u.disasmMap
  <2> DEFINE n == u.disasmMap[data.pc]
             c == AddLineClass(u.compiled, n, "highlight")
  <2>1. n \in Int /\ n + 1 \in DOMAIN u.compiled /\ u.compiled[n + 1].num = data.pc
    BY <1>2, InstructionLine DEF EditorsAgree
  <2>2. v.compiled = c
    BY <1>2 DEF HighlightInstruction, PageTypes, PageFields
  <2>3. /\ SameText(u.compiled, c) /\ SameMarked(u.compiled, c)
        /\ Highlighted(c) = {data.pc}
    BY <1>1, <2>1, LineLit DEF CompiledDocs
  <2> HIDE DEF c
  <2> QED BY <1>2, <2>2, <2>3
<1>3. CASE ~(~data.done /\ data.pc \in DOMAIN u.disasmMap)
  <2>1. v = u
    BY <1>3 DEF HighlightInstruction
  <2>2. Highlighted(u.compiled) = {}
    BY NothingShown
  <2> QED BY <1>3, <2>1, <2>2 DEF SameText, SameMarked
<1> QED BY <1>2, <1>3

(* The line to run next is the one that is lit in a source that has it.      *)
LEMMA HighlightLocationShows ==
  ASSUME NEW u, PageTypes(u), EditorsAgree(u), Dark(u.source),
         NEW data \in AnswerType, data.line \in DOMAIN u.source \union {0}
  PROVE  LET v == HighlightLocation(u, data) IN
         /\ SameText(u.source, v.source) /\ SameMarked(u.source, v.source)
         /\ Highlighted(v.source)
              = IF data.done \/ data.line = 0 THEN {} ELSE {u.source[data.line].num}
<1> DEFINE v == HighlightLocation(u, data)
           w == AddLineWidget(u.source, data.line - 1)
           s == AddLineClass(w, data.line - 1, "highlight")
<1>1. u.source \in SourceDocs /\ data.line \in Nat
  BY PageDocs DEF AnswerType
<1>2. CASE ~data.done /\ data.line > 0
  <2>1. /\ w \in SourceDocs /\ SameText(u.source, w) /\ SameMarkers(u.source, w)
        /\ SameClasses(u.source, w)
    BY <1>1, WidgetAdded DEF SourceDocs
  <2>2. v.source = s
    BY <1>2 DEF HighlightLocation, PageTypes, PageFields
  <2> HIDE DEF w
  <2>3. Dark(w) /\ (data.line - 1) + 1 = data.line /\ data.line \in DOMAIN w
        /\ w[data.line].num = u.source[data.line].num
    BY <1>1, <1>2, <2>1 DEF Dark, SameText, SameClasses
  <2>4. SameText(w, s) /\ SameMarked(w, s) /\ Highlighted(s) = {w[data.line].num}
    BY <1>1, <2>1, <2>3, LineLit DEF SourceDocs
  <2> HIDE DEF s
  <2>5. SameMarked(u.source, w)
    BY <2>1, SameShown
  <2>6. SameText(u.source, s) /\ SameMarked(u.source, s)
    BY <2>1, <2>4, <2>5 DEF SameText, SameMarked
  <2> QED BY <1>1, <1>2, <2>2, <2>3, <2>4, <2>6
<1>3. CASE ~(~data.done /\ data.line > 0)
  <2>1. v = u
    BY <1>3 DEF HighlightLocation
  <2>2. Highlighted(u.source) = {}
    BY NothingShown
  <2> QED BY <1>1, <1>3, <2>1, <2>2 DEF SameText, SameMarked
<1> QED BY <1>2, <1>3

(* A table is received, unless the popup is loading.                         *)
LEMMA TableThrows ==
  ASSUME NEW u, PageTypes(u), ~u.threw, NEW x \in Data \ {NoData},
         NEW t \in Tables, NEW v, v = ReceiveTable(u, t, x)
  PROVE  /\ OnlyTables(u, v)
         /\ u.popup = "loading" => v.threw
         /\ u.popup # "loading" => ~v.threw
BY ReceiveTablePage

(* The tables of an answer are received, unless the popup is loading.        *)
LEMMA TablesThrow ==
  ASSUME NEW u, PageTypes(u), ~u.threw, NEW x \in Data \ {NoData},
         NEW a, NEW b, NEW c,
         a = ReceiveTable(u, "regs", x),
         b = a \/ (~a.threw /\ b = ReceiveTable(a, "vars", x)),
         c = IF b.threw THEN b ELSE ReceiveTable(b, "stack", x)
  PROVE  /\ OnlyTables(u, c)
         /\ u.popup = "loading" => c.threw
         /\ u.popup # "loading" => ~c.threw
<1>1. "regs" \in Tables /\ "vars" \in Tables /\ "stack" \in Tables
  BY DEF Tables
<1>2. /\ OnlyTables(u, a) /\ PageTypes(a) /\ a.popup = u.popup
      /\ u.popup = "loading" => a.threw
      /\ u.popup # "loading" => ~a.threw
  BY <1>1, TableThrows DEF OnlyTables
<1>3. CASE u.popup = "loading"
  <2>1. b = a
    BY <1>2, <1>3
  <2>2. c = a
    BY <1>2, <1>3, <2>1
  <2> QED BY <1>2, <1>3, <2>2
<1>4. CASE u.popup # "loading"
  <2>1. ~a.threw /\ a.popup # "loading"
    BY <1>2, <1>4
  <2>2. OnlyTables(a, b) /\ ~b.threw
    <3>1. CASE b = ReceiveTable(a, "vars", x)
      BY <1>1, <1>2, <2>1, <3>1, TableThrows
    <3>2. CASE b = a
      BY <1>2, <2>1, <3>2 DEF OnlyTables, SameControl, SameExchange,
         SameEditors, SameListing
    <3> QED BY <3>1, <3>2
  <2>3. PageTypes(b) /\ b.popup # "loading"
    BY <2>1, <2>2 DEF OnlyTables
  <2>4. c = ReceiveTable(b, "stack", x)
    BY <2>2
  <2>5. OnlyTables(b, c) /\ ~c.threw
    BY <1>1, <2>2, <2>3, <2>4, TableThrows
  <2>6. OnlyTables(u, c)
    BY <1>2, <2>2, <2>5, OnlyTablesChains
  <2> QED BY <1>4, <2>5, <2>6
<1> QED BY <1>3, <1>4

\* What the page shows of an answer with the state of the session.
Follows(u, v, data) ==
  /\ SameListing(u, v) /\ SameText(u.compiled, v.compiled)
  /\ Marked(v.compiled) = data.bkpts
  /\ Highlighted(v.compiled)
       = IF data.done THEN {} ELSE {data.pc} \intersect DOMAIN u.disasmMap
  /\ Dark(u.source) /\ data.line \in DOMAIN u.source \union {0}
       /\ data.bkptLines \subseteq DOMAIN u.source =>
     /\ SameText(u.source, v.source)
     /\ Marked(v.source) = {u.source[n].num : n \in data.bkptLines}
     /\ Highlighted(v.source)
          = IF data.done \/ data.line = 0 THEN {} ELSE {u.source[data.line].num}

\* And what it leaves of its own: at the end of the program it asks for a stop.
EndsOrStops(u, v, data) ==
  /\ v.session = u.session /\ v.hash = u.hash
  /\ v.strayTimers = u.strayTimers /\ SamePolls(u, v)
  /\ ~data.done => v.autoTimer = u.autoTimer /\ v.requests = u.requests
  /\ data.done =>
       ~v.autoTimer /\ Asks(u, v, Request("stop", u.session, Unlisted))

(* commonStateUpdate shows what the answer tells, unless the popup's scripts *)
(* are not there yet.                                                        *)
LEMMA CommonStateUpdateShows ==
  ASSUME NEW u, PageTypes(u), EditorsAgree(u), Dark(u.compiled),
         ~u.threw, NEW data \in AnswerType, data.bkpts \subseteq DOMAIN u.disasmMap
  PROVE  LET v == CommonStateUpdate(u, data) IN
         /\ u.popup = "loading" => v.threw
         /\ u.popup # "loading" =>
              /\ ~v.threw /\ v.state = u.state
              /\ Follows(u, v, data) /\ EndsOrStops(u, v, data)
<1> DEFINE h == HighlightInstruction(u, data)
           a == ReceiveTable(h, "regs", data.pc)
           b == IF a.threw THEN a
                ELSE IF "vars" \in data.tables THEN ReceiveTable(a, "vars", data.pc) ELSE a
           c == IF b.threw THEN b ELSE ReceiveTable(b, "stack", data.pc)
           d == IF c.threw THEN c ELSE BreakpointUpdate(c, data)
           e == IF d.threw THEN d ELSE HighlightLocation(d, data)
           f == IF e.threw THEN e ELSE IF data.done THEN StopAction(e) ELSE e
<1>1. CommonStateUpdate(u, data) = f
  BY DEF CommonStateUpdate, Then
<1>2. /\ OnlyEditors(u, h) /\ SameListing(u, h) /\ EditorsAgree(h)
      /\ h.threw = u.threw /\ h.source = u.source
  BY HighlightInstructionPage
<1>3. /\ SameText(u.compiled, h.compiled) /\ SameMarked(u.compiled, h.compiled)
      /\ Highlighted(h.compiled)
           = IF data.done THEN {} ELSE {data.pc} \intersect DOMAIN u.disasmMap
  BY HighlightInstructionShows
<1> HIDE DEF h
<1>4. PageTypes(h) /\ ~h.threw /\ h.popup = u.popup
  BY <1>2 DEF OnlyEditors, SameTables
<1>5. /\ u.popup = "loading" => c.threw
      /\ u.popup # "loading" => ~c.threw
      /\ OnlyTables(h, c)
  <2>1. data.pc \in Data \ {NoData}
    BY DEF AnswerType, Data, Addresses, NoData, Unlisted
  <2>2. /\ a = ReceiveTable(h, "regs", data.pc)
        /\ b = a \/ (~a.threw /\ b = ReceiveTable(a, "vars", data.pc))
        /\ c = IF b.threw THEN b ELSE ReceiveTable(b, "stack", data.pc)
    OBVIOUS
  <2> HIDE DEF a, b, c
  <2> QED BY <1>4, <2>1, <2>2, TablesThrow
<1> HIDE DEF a, b, c
<1>13. SameEditors(h, c) /\ SameControl(h, c) /\ SameExchange(h, c) /\ PageTypes(c)
  BY <1>5 DEF OnlyTables
<1>6. CASE u.popup = "loading"
  <2>1. f = c
    BY <1>5, <1>6
  <2> HIDE DEF f
  <2> QED BY <1>1, <1>5, <1>6, <2>1
<1>7. CASE u.popup # "loading"
  <2>1. ~c.threw /\ EditorsAgree(c) /\ data.bkpts \subseteq DOMAIN c.disasmMap
    BY <1>2, <1>13, <1>5, <1>7, PagesAlike DEF SameEditors, SameListing
  <2>2. d = BreakpointUpdate(c, data)
    BY <2>1
  <2>3. /\ OnlyEditors(c, d) /\ SameListing(c, d) /\ EditorsAgree(d)
        /\ SameHighlights(c, d)
    BY <1>13, <1>5, <2>1, <2>2, BreakpointUpdatePage
  <2>4. /\ ~d.threw /\ SameText(c.compiled, d.compiled)
        /\ SameLit(c.compiled, d.compiled) /\ Marked(d.compiled) = data.bkpts
        /\ data.bkptLines \subseteq DOMAIN c.source =>
             /\ SameText(c.source, d.source) /\ SameLit(c.source, d.source)
             /\ Marked(d.source) = {c.source[n].num : n \in data.bkptLines}
    BY <1>13, <1>5, <2>1, <2>2, BreakpointUpdateShows
  <2> HIDE DEF d
  <2>5. e = HighlightLocation(d, data) /\ PageTypes(d)
    BY <2>3, <2>4 DEF OnlyEditors
  <2>6. /\ OnlyEditors(d, e) /\ SameListing(d, e) /\ ~e.threw
        /\ e.compiled = d.compiled
    BY <2>3, <2>4, <2>5, HighlightLocationPage
  <2>7. Dark(d.source) /\ data.line \in DOMAIN d.source \union {0} =>
          /\ SameText(d.source, e.source) /\ SameMarked(d.source, e.source)
          /\ Highlighted(e.source)
               = IF data.done \/ data.line = 0 THEN {} ELSE {d.source[data.line].num}
    BY <2>3, <2>5, HighlightLocationShows
  <2> HIDE DEF e
  <2>8. Follows(u, e, data)
    <3>1. SameListing(u, e) /\ c.source = u.source /\ c.compiled = h.compiled
      BY <1>2, <1>13, <2>3, <2>6 DEF SameEditors, SameListing
    <3>2. /\ SameText(u.compiled, e.compiled) /\ Marked(e.compiled) = data.bkpts
          /\ Highlighted(e.compiled) = Highlighted(h.compiled)
      BY <1>3, <2>4, <2>6, <3>1 DEF SameText, SameLit
    <3>3. ASSUME Dark(u.source), data.line \in DOMAIN u.source \union {0},
                 data.bkptLines \subseteq DOMAIN u.source
          PROVE  /\ SameText(u.source, e.source)
                 /\ Marked(e.source) = {u.source[n].num : n \in data.bkptLines}
                 /\ Highlighted(e.source)
                      = IF data.done \/ data.line = 0 THEN {}
                        ELSE {u.source[data.line].num}
      <4>1. /\ SameText(u.source, d.source)
            /\ Marked(d.source) = {u.source[n].num : n \in data.bkptLines}
        BY <2>4, <3>1, <3>3
      <4>2. Dark(d.source) /\ DOMAIN d.source = DOMAIN u.source
        BY <2>3, <3>1, <3>3, <4>1 DEF SameHighlights, SameClasses, Dark, SameText
      <4>3. /\ SameText(d.source, e.source) /\ SameMarked(d.source, e.source)
            /\ Highlighted(e.source)
                 = IF data.done \/ data.line = 0 THEN {} ELSE {d.source[data.line].num}
        BY <2>7, <3>3, <4>2
      <4>4. SameText(u.source, e.source) /\ Marked(e.source) = Marked(d.source)
        BY <4>1, <4>3 DEF SameText, SameMarked
      <4>5. data.line # 0 => d.source[data.line].num = u.source[data.line].num
        BY <3>3, <4>1 DEF SameText
      <4> QED BY <4>1, <4>3, <4>4, <4>5
    <3> QED BY <1>3, <3>1, <3>2, <3>3 DEF Follows
  <2>9. /\ e.state = u.state /\ e.session = u.session /\ e.hash = u.hash
        /\ e.strayTimers = u.strayTimers /\ SamePolls(u, e)
        /\ e.autoTimer = u.autoTimer /\ e.requests = u.requests
    BY <1>2, <1>13, <2>3, <2>6 DEF OnlyEditors, SameControl, SameExchange, SamePolls
  <2>10. PageTypes(e)
    BY <2>6 DEF OnlyEditors
  <2>11. CASE ~data.done
    <3>1. f = e
      BY <2>6, <2>11
    <3> HIDE DEF f
    <3> QED BY <1>1, <1>7, <2>6, <2>8, <2>9, <2>11, <3>1 DEF EndsOrStops
  <2>12. CASE data.done
    <3>1. f = StopAction(e)
      BY <2>6, <2>12
    <3> HIDE DEF f
    <3>2. /\ SameEditors(e, f) /\ f.state = e.state /\ f.session = e.session
          /\ f.hash = e.hash /\ SamePolls(e, f) /\ f.threw = e.threw
          /\ f.strayTimers = e.strayTimers
          /\ Asks(e, f, Request("stop", e.session, Unlisted))
      BY <2>10, <3>1, StopActionPage
    <3>3. ~f.autoTimer
      BY <2>10, <3>1 DEF StopAction, Send, PageTypes, PageFields
    <3>4. Follows(u, f, data)
      BY <2>8, <3>2 DEF Follows, SameEditors, SameListing
    <3>5. SamePolls(u, f) /\ Asks(u, f, Request("stop", u.session, Unlisted))
      BY <2>9, <3>2 DEF SamePolls, Asks
    <3> QED BY <1>1, <1>7, <2>6, <2>9, <2>12, <3>2, <3>3, <3>4, <3>5 DEF EndsOrStops
  <2> QED BY <2>11, <2>12 DEF AnswerType
<1> QED BY <1>6, <1>7

(* clearAllHighlight leaves the documents and their markers.                 *)
LEMMA ClearAllHighlightShows ==
  ASSUME NEW u, PageTypes(u)
  PROVE  LET v == ClearAllHighlight(u) IN
         /\ SameListing(u, v) /\ SameControl(u, v) /\ SameExchange(u, v)
         /\ SameTables(u, v)
         /\ SameText(u.source, v.source) /\ SameMarked(u.source, v.source)
         /\ SameText(u.compiled, v.compiled) /\ SameMarked(u.compiled, v.compiled)
<1> DEFINE v == ClearAllHighlight(u)
           s == ClearHeldWidgets(RemoveHeldClasses(u.source))
           c == ClearHeldWidgets(RemoveHeldClasses(u.compiled))
<1>1. u.source \in SourceDocs /\ u.compiled \in CompiledDocs
  BY PageDocs
<1>2. ASSUME NEW nums, NEW d \in Docs(nums)
      PROVE  LET e == ClearHeldWidgets(RemoveHeldClasses(d)) IN
             SameText(d, e) /\ SameMarked(d, e)
  <2> DEFINE f == RemoveHeldClasses(d)
             e == ClearHeldWidgets(f)
  <2>1. f \in Docs(nums) /\ SameText(d, f) /\ SameMarkers(d, f)
    BY ClassesRemoved
  <2> HIDE DEF f
  <2>2. SameText(f, e) /\ SameMarkers(f, e)
    BY <2>1, WidgetsCleared
  <2> HIDE DEF e
  <2>3. SameText(d, e) /\ SameMarkers(d, e)
    BY <2>1, <2>2 DEF SameText, SameMarkers
  <2> QED BY <2>3, SameShown DEF e, f
<1>3. /\ SameText(u.source, s) /\ SameMarked(u.source, s)
      /\ SameText(u.compiled, c) /\ SameMarked(u.compiled, c)
  BY <1>1, <1>2 DEF SourceDocs, CompiledDocs
<1>4. v = [u EXCEPT !.source = s, !.compiled = c]
  BY DEF ClearAllHighlight
<1> HIDE DEF s, c, v
<1>5. /\ v.source = s /\ v.compiled = c /\ SameListing(u, v) /\ SameControl(u, v)
      /\ SameExchange(u, v) /\ SameTables(u, v)
  BY <1>4 DEF PageTypes, PageFields, SameListing, SameControl, SameExchange,
     SameTables
<1> QED BY <1>3, <1>5 DEF v

(* The editor of a listing has its lines, each instruction with its address. *)
LEMMA ListingSet ==
  ASSUME NEW u, PageTypes(u),
         NEW l \in {<<>>, NoProgram.listing} \union {p.listing : p \in Programs}
  PROVE  LET v == ShowListing(u, l) IN
         ListingIs(v, l) /\ DOMAIN v.disasmMap = Instructions(l)
<1> DEFINE v == ShowListing(u, l)
           t == Contents(l)
<1>1. l \in Seq(Addresses \union {-1})
  BY ListingTypes
<1>2. t \in Seq(Addresses \union {0}) /\ t # <<>>
  <2> DEFINE k == [i \in DOMAIN l |-> IF l[i] = -1 THEN 0 ELSE l[i]]
  <2>1. DOMAIN l = 1..Len(l) /\ Len(l) \in Nat
        /\ \A i \in DOMAIN l : l[i] \in Addresses \union {-1}
    BY <1>1
  <2>2. k \in [1..Len(l) -> Addresses \union {0}]
    BY <2>1
  <2>3. k \in Seq(Addresses \union {0})
    BY <2>1, <2>2
  <2> HIDE DEF k
  <2>4. t = Append(k, 0)
    BY DEF Contents, k
  <2> QED BY <2>3, <2>4
<1> HIDE DEF t
<1>3. DocIs(SetValue(t), t)
  BY <1>2, TextSet
<1>4. /\ v.lineNumbers = l /\ v.disasmMap = DisasmMap(l) /\ v.compiled = SetValue(t)
  BY DEF ShowListing, t, PageTypes, PageFields
<1>5. DOMAIN DisasmMap(l) = Instructions(l)
  BY DEF DisasmMap, Instructions
<1> HIDE DEF v
<1> QED BY <1>3, <1>4, <1>5 DEF ListingIs, v, t

(* What is left of a listing is its listing.                                 *)
LEMMA ListingLeft ==
  ASSUME NEW u, NEW v, SameListing(u, v), SameText(u.compiled, v.compiled), NEW l,
         ListingIs(u, l)
  PROVE  ListingIs(v, l)
BY SameShown DEF ListingIs, SameListing

(* What the server's answers say of position and breakpoints.                *)
LEMMA PositionFields ==
  ASSUME NEW x
  PROVE  LET a == WithPosition(Answer, x) IN
         /\ DOMAIN a = DOMAIN Answer
         /\ a.ok /\ a.done = x.done /\ a.pc = x.pc /\ a.line = LineOf(x, x.pc)
         /\ a.bkpts = x.map \union x.add
         /\ a.bkptLines = {LineOf(x, b) : b \in x.map \union x.add} \ {0}
         /\ a.retry = FALSE /\ a.is = "data"
<1> DEFINE p == [Answer EXCEPT !.ok = TRUE, !.done = x.done, !.pc = x.pc,
                               !.line = LineOf(x, x.pc)]
           a == WithPosition(Answer, x)
<1>1. /\ DOMAIN p = DOMAIN Answer /\ p.ok /\ p.done = x.done /\ p.pc = x.pc
      /\ p.line = LineOf(x, x.pc) /\ p.retry = FALSE /\ p.is = "data"
  BY DEF Answer
<1>2. {"bkpts", "queued", "bkptLines"} \subseteq DOMAIN p
  BY DEF Answer
<1>3. a = [p EXCEPT !.bkpts = x.map \union x.add, !.queued = x.add \ x.map,
                    !.bkptLines = {LineOf(x, b) : b \in x.map \union x.add} \ {0}]
  BY DEF WithPosition, WithBreakpoints
<1> HIDE DEF p, a
<1> QED BY <1>1, <1>2, <1>3 DEF a

(* What its answers with a state say.                                        *)
LEMMA StateFields ==
  ASSUME NEW x
  PROVE  /\ LET a == StepState(x) IN
              /\ a.ok /\ a.done = x.done /\ a.pc = x.pc /\ a.line = LineOf(x, x.pc)
              /\ a.bkpts = x.map \union x.add
              /\ a.bkptLines = {LineOf(x, b) : b \in x.map \union x.add} \ {0}
         /\ LET a == FullState(x) IN
              /\ a.ok /\ a.done = x.done /\ a.pc = x.pc /\ a.line = LineOf(x, x.pc)
              /\ a.bkpts = x.map \union x.add
              /\ a.bkptLines = {LineOf(x, b) : b \in x.map \union x.add} \ {0}
              /\ a.compile /\ a.listing = x.program.listing
              /\ a.text = IF x.text THEN x.program.source ELSE <<>>
<1> DEFINE p == WithPosition(Answer, x)
<1>1. /\ p.ok /\ p.done = x.done /\ p.pc = x.pc /\ p.line = LineOf(x, x.pc)
      /\ p.bkpts = x.map \union x.add
      /\ p.bkptLines = {LineOf(x, b) : b \in x.map \union x.add} \ {0}
      /\ {"compile", "tables", "listing", "text"} \subseteq DOMAIN p
  BY PositionFields DEF Answer
<1>2. /\ StepState(x) = [p EXCEPT !.tables = Tables]
      /\ FullState(x) = [p EXCEPT !.compile = TRUE, !.tables = {"regs", "stack"},
           !.listing = x.program.listing,
           !.text = IF x.text THEN x.program.source ELSE <<>>]
  BY DEF StepState, FullState
<1> HIDE DEF p
<1> QED BY <1>1, <1>2

(* Every line of a program is a line of its source.                          *)
LEMMA ProgramLines ==
  ASSUME NEW x, x.program \in Programs
  PROVE  LET text == x.program.source IN
         /\ text \in Seq(LineNumbers \union {0}) /\ text # <<>>
         /\ \A i \in DOMAIN text : text[i] = i
         /\ \A pc : LineOf(x, pc) \in DOMAIN text \union {0}
         /\ \A B : {LineOf(x, b) : b \in B} \ {0} \subseteq DOMAIN text
<1> DEFINE text == x.program.source
<1>1. /\ text \in Seq(Nat) /\ text # <<>> /\ \A i \in DOMAIN text : text[i] = i
      /\ \A pc \in DOMAIN x.program.lineOf : x.program.lineOf[pc] \in 0..Len(text)
  BY WebUIAssumption, ProgramsAssumption
<1>2. DOMAIN text = 1..Len(text) /\ Len(text) \in Nat
  BY <1>1
<1>3. text \in Seq(LineNumbers \union {0})
  BY TextTypes
<1>4. \A pc : LineOf(x, pc) \in DOMAIN text \union {0}
  BY <1>1, <1>2 DEF LineOf
<1> HIDE DEF text
<1> QED BY <1>1, <1>3, <1>4 DEF text

(* What is shown of the state of a session is the session.                   *)
LEMMA SessionFollowed ==
  ASSUME NEW u, NEW v, NEW data, NEW x, x.st = "ready", x.program \in Programs,
         Follows(u, v, data), Dark(u.source),
         ListingIs(u, x.program.listing),
         DOMAIN u.disasmMap = Instructions(x.program.listing),
         Readable(x) => DocIs(u.source, x.program.source),
         data.done = x.done, data.pc = x.pc, data.line = LineOf(x, x.pc),
         data.bkpts = x.map \union x.add,
         data.bkptLines = {LineOf(x, b) : b \in x.map \union x.add} \ {0}
  PROVE  Documents(v, x) /\ PositionShown(v, x) /\ BreakpointsShown(v, x)
<1>1. ListingIs(v, x.program.listing)
  BY ListingLeft DEF Follows
<1>2. Instructions(x.program.listing) = Listed(x)
  BY DEF Instructions, Listed
<1>3. ASSUME Readable(x)
      PROVE  /\ DocIs(v.source, x.program.source)
             /\ Highlighted(v.source) = IF x.done THEN {} ELSE {LineOf(x, x.pc)} \ {0}
             /\ Marked(v.source) = {LineOf(x, b) : b \in x.map \union x.add} \ {0}
  <2> DEFINE text == x.program.source
  <2>1. DOMAIN u.source = DOMAIN text /\ \A i \in DOMAIN text : u.source[i].num = i
    BY <1>3, ProgramLines DEF DocIs
  <2>2. /\ data.line \in DOMAIN u.source \union {0}
        /\ data.bkptLines \subseteq DOMAIN u.source
    BY <2>1, ProgramLines
  <2> HIDE DEF text
  <2>3. /\ SameText(u.source, v.source)
        /\ Marked(v.source) = {u.source[n].num : n \in data.bkptLines}
        /\ Highlighted(v.source)
             = IF data.done \/ data.line = 0 THEN {} ELSE {u.source[data.line].num}
    BY <2>2 DEF Follows
  <2>4. {u.source[n].num : n \in data.bkptLines} = data.bkptLines
    BY <2>1, <2>2
  <2>5. data.line # 0 => u.source[data.line].num = data.line
    BY <2>1, <2>2
  <2>6. DocIs(v.source, x.program.source)
    BY <1>3, <2>3, SameShown
  <2> QED BY <2>3, <2>4, <2>5, <2>6
<1>4. /\ Marked(v.compiled) = x.map \union x.add
      /\ Highlighted(v.compiled) = IF x.done THEN {} ELSE {x.pc} \intersect Listed(x)
  BY <1>2 DEF Follows
<1> QED BY <1>1, <1>3, <1>4 DEF Documents, PositionShown, BreakpointsShown

(* The state of the session is shown, and the page debugs it.                *)
LEMMA SessionStatedShows ==
  ASSUME NEW u, PageTypes(u), PageAgrees(u), ~u.threw, Dark(u.source),
         NEW data \in AnswerType, data.ok, data.compile,
         data.bkpts \subseteq Instructions(data.listing), NEW retry
  PROVE  LET v == SessionStated(u, data, retry) IN
         /\ u.popup = "loading" => v.threw
         /\ u.popup # "loading" =>
              /\ v.state = "DEBUG" /\ EndsOrStops(u, v, data)
              /\ \A x : x.st = "ready" /\ x.program \in Programs
                         /\ data = FullState(x) =>
                   Documents(v, x) /\ PositionShown(v, x) /\ BreakpointsShown(v, x)
<1> DEFINE v == SessionStated(u, data, retry)
           t == ShowText(u, data)
           l == ShowListing(t, data.listing)
           c == CommonStateUpdate(l, data)
<1>1. /\ OnlyEditors(u, t) /\ EditorsAgree(t) /\ t.threw = u.threw
      /\ Dark(t.source)
      /\ data.text # <<>> => DocIs(t.source, data.text)
  <2>1. CASE data.text = <<>>
    BY <2>1 DEF ShowText, OnlyEditors, SameControl, SameExchange, SameTables,
       PageAgrees
  <2>2. CASE data.text # <<>>
    <3>1. data.text \in Seq(LineNumbers \union {0})
      BY <2>2, TextTypes DEF AnswerType
    <3>2. t = SetLanguageAndText(u, data.text)
      BY <2>2 DEF ShowText
    <3>3. t.source = SetValue(data.text)
      BY <3>2 DEF SetLanguageAndText, PageTypes, PageFields
    <3>4. DocIs(t.source, data.text)
      BY <2>2, <3>1, <3>3, TextSet
    <3> QED BY <2>2, <3>1, <3>2, <3>4, SetTextPage DEF PageAgrees
  <2> QED BY <2>1, <2>2
<1> HIDE DEF t
<1>2. PageTypes(t) /\ t.popup = u.popup
      /\ data.listing \in {<<>>, NoProgram.listing} \union {p.listing : p \in Programs}
  BY <1>1 DEF OnlyEditors, SameTables, AnswerType
<1>3. /\ OnlyEditors(t, l) /\ EditorsAgree(l) /\ l.source = t.source
      /\ l.threw = t.threw /\ Dark(l.compiled)
  BY <1>1, <1>2, ShowListingPage
<1>4. ListingIs(l, data.listing) /\ DOMAIN l.disasmMap = Instructions(data.listing)
  BY <1>2, ListingSet
<1> HIDE DEF l
<1>5. PageTypes(l) /\ ~l.threw /\ l.popup = u.popup /\ OnlyEditors(u, l)
  BY <1>1, <1>2, <1>3, OnlyEditorsChains DEF OnlyEditors, SameTables
<1>6. /\ l.popup = "loading" => c.threw
      /\ l.popup # "loading" =>
           /\ ~c.threw /\ c.state = l.state
           /\ Follows(l, c, data) /\ EndsOrStops(l, c, data)
  BY <1>3, <1>4, <1>5, CommonStateUpdateShows
<1>7. PageTypes(c) /\ EditorsAgree(c)
  <2>1. Mirrored(l)
    BY <1>5, PagesAlike DEF OnlyEditors, PageAgrees
  <2> QED BY <1>3, <1>5, <2>1, CommonStateUpdatePage DEF PageAgrees
<1> HIDE DEF c
<1>8. v = IF c.threw THEN c ELSE ChangeState(c, "DEBUG")
  BY DEF SessionStated, Then, c, l, t
<1> HIDE DEF v
<1>9. CASE u.popup = "loading"
  BY <1>5, <1>6, <1>8, <1>9 DEF v
<1>10. CASE u.popup # "loading"
  <2>1. v = ChangeState(c, "DEBUG") /\ Follows(l, c, data) /\ EndsOrStops(l, c, data)
    BY <1>5, <1>6, <1>8, <1>10
  <2>2. v = [c EXCEPT !.state = "DEBUG"]
    BY <2>1 DEF ChangeState
  <2>3. /\ v.state = "DEBUG" /\ SameEditors(c, v) /\ v.session = c.session
        /\ v.hash = c.hash /\ SameExchange(c, v)
    BY <1>7, <2>2 DEF PageTypes, PageFields, SameEditors, SameListing, SameExchange
  <2>4. EndsOrStops(u, v, data)
    <3>1. /\ l.session = u.session /\ l.hash = u.hash /\ SameExchange(u, l)
      BY <1>5 DEF OnlyEditors, SameControl
    <3> QED BY <2>1, <2>3, <3>1 DEF EndsOrStops, SameExchange, SamePolls, Asks
  <2>5. Follows(l, v, data)
    BY <2>1, <2>3 DEF Follows, SameEditors, SameListing
  <2>6. ASSUME NEW x, x.st = "ready", x.program \in Programs, data = FullState(x)
        PROVE  Documents(v, x) /\ PositionShown(v, x) /\ BreakpointsShown(v, x)
    <3>1. /\ data.done = x.done /\ data.pc = x.pc /\ data.line = LineOf(x, x.pc)
          /\ data.bkpts = x.map \union x.add
          /\ data.bkptLines = {LineOf(x, b) : b \in x.map \union x.add} \ {0}
          /\ data.listing = x.program.listing
          /\ data.text = IF x.text THEN x.program.source ELSE <<>>
      BY <2>6, StateFields
    <3>2. Readable(x) => DocIs(l.source, x.program.source)
      BY <1>1, <1>3, <2>6, <3>1, ProgramLines DEF Readable
    <3> QED BY <1>1, <1>3, <1>4, <2>5, <2>6, <3>1, <3>2, SessionFollowed
  <2> QED BY <1>10, <2>3, <2>4, <2>6 DEF v
<1> QED BY <1>9, <1>10

(* The state after a step is shown. A timer is started for the next          *)
(* automatic step, unless one runs.                                          *)
LEMMA StepStatedShows ==
  ASSUME NEW u, PageTypes(u), PageAgrees(u), ~u.threw,
         NEW data \in AnswerType, data.ok, data.bkpts \subseteq DOMAIN u.disasmMap
  PROVE  LET v == StepStated(u, data) IN
         /\ u.popup = "loading" => v.threw
         /\ u.popup # "loading" =>
              /\ v.state = u.state /\ v.session = u.session /\ v.hash = u.hash
              /\ SamePolls(u, v)
              /\ v.strayTimers = u.strayTimers \/ v.strayTimers = u.strayTimers + 1
              /\ ~data.done => v.requests = u.requests
              /\ data.done =>
                   ~v.autoTimer /\ Asks(u, v, Request("stop", u.session, Unlisted))
              /\ \A x : Documents(u, x) /\ x.program \in Programs
                         /\ data = StepState(x) =>
                   Documents(v, x) /\ PositionShown(v, x) /\ BreakpointsShown(v, x)
<1> DEFINE v == StepStated(u, data)
           l == ClearAllHighlight(u)
           c == CommonStateUpdate(l, data)
<1>1. /\ OnlyEditors(u, l) /\ EditorsAgree(l) /\ l.threw = u.threw
      /\ Dark(l.source) /\ Dark(l.compiled) /\ SameListing(u, l)
  BY ClearAllHighlightPage DEF PageAgrees
<1>2. SameText(u.source, l.source) /\ SameText(u.compiled, l.compiled)
  BY ClearAllHighlightShows
<1> HIDE DEF l
<1>3. PageTypes(l) /\ ~l.threw /\ l.popup = u.popup
      /\ data.bkpts \subseteq DOMAIN l.disasmMap
  BY <1>1 DEF OnlyEditors, SameTables, SameListing
<1>4. /\ l.popup = "loading" => c.threw
      /\ l.popup # "loading" =>
           /\ ~c.threw /\ c.state = l.state
           /\ Follows(l, c, data) /\ EndsOrStops(l, c, data)
  BY <1>1, <1>3, CommonStateUpdateShows
<1>5. PageTypes(c)
  <2>1. Mirrored(l)
    BY <1>1, PagesAlike DEF OnlyEditors, PageAgrees
  <2> QED BY <1>1, <1>3, <2>1, CommonStateUpdatePage
<1> HIDE DEF c
<1>6. v = IF c.threw THEN c ELSE AutoStep(c, data)
  BY DEF StepStated, Then, c, l
<1> HIDE DEF v
<1>7. CASE u.popup = "loading"
  BY <1>3, <1>4, <1>6, <1>7 DEF v
<1>8. CASE u.popup # "loading"
  <2>1. /\ v = AutoStep(c, data) /\ c.state = l.state
        /\ Follows(l, c, data) /\ EndsOrStops(l, c, data)
    BY <1>3, <1>4, <1>6, <1>8
  <2>2. /\ v.state = c.state /\ v.session = c.session /\ v.hash = c.hash
        /\ SamePolls(c, v) /\ v.requests = c.requests /\ SameEditors(c, v)
        /\ v.strayTimers = c.strayTimers \/ v.strayTimers = c.strayTimers + 1
        /\ data.done => v.autoTimer = c.autoTimer
    <3>1. CASE c.autoStep /\ ~data.done
      <4>1. v = [c EXCEPT !.autoTimer = TRUE,
                          !.strayTimers = IF c.autoTimer THEN @ + 1 ELSE @]
        BY <2>1, <3>1 DEF AutoStep, StartAutoTimer
      <4> QED BY <1>5, <3>1, <4>1 DEF PageTypes, PageFields, SamePolls, SameEditors,
           SameListing
    <3>2. CASE ~(c.autoStep /\ ~data.done)
      <4>1. v = c
        BY <2>1, <3>2 DEF AutoStep
      <4> QED BY <4>1 DEF SamePolls, SameEditors, SameListing
    <3> QED BY <3>1, <3>2
  <2>3. /\ l.state = u.state /\ l.session = u.session /\ l.hash = u.hash
        /\ SamePolls(u, l) /\ l.requests = u.requests /\ l.strayTimers = u.strayTimers
    BY <1>1 DEF OnlyEditors, SameControl, SameExchange, SamePolls
  <2>4. /\ v.state = u.state /\ v.session = u.session /\ v.hash = u.hash
        /\ SamePolls(u, v)
        /\ v.strayTimers = u.strayTimers \/ v.strayTimers = u.strayTimers + 1
        /\ ~data.done => v.requests = u.requests
        /\ data.done =>
             ~v.autoTimer /\ Asks(u, v, Request("stop", u.session, Unlisted))
    BY <2>1, <2>2, <2>3 DEF EndsOrStops, SamePolls, Asks
  <2>5. Follows(l, v, data)
    BY <2>1, <2>2 DEF Follows, SameEditors, SameListing
  <2>6. ASSUME NEW x, Documents(u, x), x.program \in Programs, data = StepState(x)
        PROVE  Documents(v, x) /\ PositionShown(v, x) /\ BreakpointsShown(v, x)
    <3>1. /\ data.done = x.done /\ data.pc = x.pc /\ data.line = LineOf(x, x.pc)
          /\ data.bkpts = x.map \union x.add
          /\ data.bkptLines = {LineOf(x, b) : b \in x.map \union x.add} \ {0}
      BY <2>6, StateFields
    <3>2. ListingIs(l, x.program.listing)
      BY <1>1, <1>2, <2>6, ListingLeft DEF Documents
    <3>3. DOMAIN l.disasmMap = Instructions(x.program.listing)
      BY <3>2 DEF ListingIs, DisasmMap, Instructions
    <3>4. Readable(x) => DocIs(l.source, x.program.source)
      BY <1>2, <2>6, SameShown DEF Documents
    <3>5. x.st = "ready"
      BY <2>6 DEF Documents
    <3> QED BY <1>1, <2>5, <2>6, <3>1, <3>2, <3>3, <3>4, <3>5, SessionFollowed
  <2> QED BY <1>8, <2>4, <2>6 DEF v
<1> QED BY <1>7, <1>8

-----------------------------------------------------------------------------
(* What the truth depends on *)

\* The same program, its position and its breakpoints.
SameView(x, y) ==
  /\ y.st = x.st /\ y.pc = x.pc /\ y.done = x.done /\ y.map = x.map
  /\ y.add = x.add /\ y.program = x.program /\ y.text = x.text

(* Sessions that look the same are told and shown the same.                  *)
LEMMA SeenAlike ==
  ASSUME NEW x, NEW y, SameView(x, y)
  PROVE  /\ FullState(y) = FullState(x) /\ StepState(y) = StepState(x)
         /\ WithBreakpoints(Answer, y) = WithBreakpoints(Answer, x)
         /\ Fits(x) => Fits(y)
         /\ \A u : /\ Documents(u, x) => Documents(u, y)
                   /\ PositionShown(u, x) => PositionShown(u, y)
                   /\ BreakpointsShown(u, x) => BreakpointsShown(u, y)
<1>1. /\ y.map \union y.add = x.map \union x.add /\ Listed(y) = Listed(x)
      /\ y.add \ y.map = x.add \ x.map
      /\ \A pc : LineOf(y, pc) = LineOf(x, pc)
  BY DEF SameView, Listed, LineOf
<1>2. \A a : WithBreakpoints(a, y) = WithBreakpoints(a, x)
  BY <1>1 DEF WithBreakpoints
<1>3. WithPosition(Answer, y) = WithPosition(Answer, x)
  BY <1>1, <1>2 DEF WithPosition, SameView
<1>4. FullState(y) = FullState(x) /\ StepState(y) = StepState(x)
  BY <1>3 DEF FullState, StepState, SameView
<1>5. Fits(x) => Fits(y)
  BY <1>1 DEF Fits, SameView
<1>6. Readable(y) = Readable(x)
  BY DEF Readable, SameView
<1>7. \A u : Documents(u, x) => Documents(u, y)
  BY <1>6 DEF Documents, SameView
<1>8. \A u : PositionShown(u, x) => PositionShown(u, y)
  BY <1>1, <1>6 DEF PositionShown, SameView
<1>9. \A u : BreakpointsShown(u, x) => BreakpointsShown(u, y)
  BY <1>1, <1>6 DEF BreakpointsShown
<1> QED BY <1>2, <1>4, <1>5, <1>7, <1>8, <1>9

\* The same page, but for its tables and a source that the user changes.
SamePage(u, v) ==
  /\ v.state = u.state /\ v.session = u.session /\ v.hash = u.hash
  /\ v.autoTimer = u.autoTimer /\ v.strayTimers = u.strayTimers
  /\ v.pollTries = u.pollTries /\ v.pollSession = u.pollSession
  /\ v.pollStep = u.pollStep /\ v.reading = u.reading /\ v.requests = u.requests
  /\ SameListing(u, v) /\ v.compiled = u.compiled
  /\ v.source = u.source \/ user.events \intersect {"edit", "example"} # {}

(* The documents a page shows are what it shows of a session.                *)
LEMMA ShownAlike ==
  ASSUME NEW u, NEW v, SameListing(u, v), v.compiled = u.compiled,
         v.source = u.source \/ user.events \intersect {"edit", "example"} # {}
  PROVE  \A x : /\ Documents(u, x) => Documents(v, x)
                /\ PositionShown(u, x) => PositionShown(v, x)
                /\ BreakpointsShown(u, x) => BreakpointsShown(v, x)
BY DEF Documents, ListingIs, PositionShown, BreakpointsShown, SameListing, Readable

(* What the same page tells is as true as before.                            *)
LEMMA TruthOfSame ==
  ASSUME NEW u, NEW v, SamePage(u, v), Truth(u)
  PROVE  Truth(v)
<1>1. LiveIn(v) = LiveIn(u)
  BY DEF LiveIn, Outstanding, SamePage
<1>2. /\ StoppedFor(v) <=> StoppedFor(u)
      /\ Moving(v) <=> Moving(u)
      /\ Marking(v) <=> Marking(u)
  BY <1>1 DEF StoppedFor, Moving, Marking, SamePage
<1>3. \A x : /\ Documents(u, x) => Documents(v, x)
             /\ PositionShown(u, x) => PositionShown(v, x)
             /\ BreakpointsShown(u, x) => BreakpointsShown(v, x)
  BY ShownAlike DEF SamePage
<1>4. PageTruth(v)
  BY <1>1, <1>2 DEF Truth, PageTruth, SamePage
<1>5. InitTruth(v) /\ IdleTruth(v)
  BY <1>1 DEF Truth, InitTruth, IdleTruth, SamePage
<1>6. DebugTruth(v)
  BY <1>2, <1>3 DEF Truth, DebugTruth, SamePage
<1>7. ASSUME NEW r \in LiveIn(v)
      PROVE  RequestTruth(v, r)
  <2>1. RequestTruth(u, r)
    BY <1>1, <1>7 DEF Truth
  <2>2. DOMAIN v.disasmMap = DOMAIN u.disasmMap
    BY DEF SamePage, SameListing
  <2>3. CompileTruth(v, r) /\ SessionTruth(v, r) /\ StepTruth(v, r)
    BY <2>1 DEF RequestTruth, CompileTruth, SessionTruth, StepTruth, SamePage
  <2>4. StepStateTruth(v, r) /\ StopTruth(v, r) /\ StdinTruth(v, r)
    BY <2>1, <2>2 DEF RequestTruth, StepStateTruth, StopTruth, StdinTruth, SamePage
  <2>5. BreakpointTruth(v, r)
    BY <2>1, <2>2, <1>3 DEF RequestTruth, BreakpointTruth, SamePage
  <2> QED BY <2>1, <2>3, <2>4, <2>5 DEF RequestTruth, SamePage
<1> QED BY <1>4, <1>5, <1>6, <1>7 DEF Truth

\* What a step of the server leaves true of who was told to stop.
Stands ==
  /\ user' = user /\ single' = single
  /\ AllStopped => AllStopped'
  /\ \A sid : /\ Others(sid) => Others(sid)'
              /\ Unstopped(sid) => Unstopped(sid)'
              /\ NotLost(sid) => NotLost(sid)'
              /\ Named(sid)' \subseteq Named(sid)

(* What is true of a page stays true if its session is not moved.            *)
LEMMA TruthStands ==
  ASSUME Stands, Truth(ui'),
         \A s \in Named(ui.session)' :
           server[s].st = "ready" => SameView(server[s], server'[s])
  PROVE  Truth(ui)'
<1>1. \A s \in Named(ui.session)' : s \in Named(ui'.session)
  BY DEF Stands
<1>2. \A s \in Named(ui.session)' :
        /\ Documents(ui', server[s]) => Documents(ui, server[s])'
        /\ Documents(ui', server[s]) /\ PositionShown(ui', server[s]) =>
             PositionShown(ui, server[s])'
        /\ Documents(ui', server[s]) /\ BreakpointsShown(ui', server[s]) =>
             BreakpointsShown(ui, server[s])'
        /\ server[s].st = "ready" =>
             /\ server'[s].st = "ready"
             /\ FullState(server[s])' = FullState(server[s])
             /\ StepState(server[s])' = StepState(server[s])
             /\ WithBreakpoints(Answer, server[s])' = WithBreakpoints(Answer, server[s])
  <2> SUFFICES ASSUME NEW s \in Named(ui.session)', server[s].st = "ready"
      PROVE  /\ Documents(ui', server[s]) => Documents(ui, server[s])'
             /\ PositionShown(ui', server[s]) => PositionShown(ui, server[s])'
             /\ BreakpointsShown(ui', server[s]) => BreakpointsShown(ui, server[s])'
             /\ server'[s].st = "ready"
             /\ FullState(server[s])' = FullState(server[s])
             /\ StepState(server[s])' = StepState(server[s])
             /\ WithBreakpoints(Answer, server[s])' = WithBreakpoints(Answer, server[s])
    BY DEF Documents
  <2>1. SameView(server[s], server'[s])
    OBVIOUS
  <2>2. /\ FullState(server'[s]) = FullState(server[s])
        /\ StepState(server'[s]) = StepState(server[s])
        /\ WithBreakpoints(Answer, server'[s]) = WithBreakpoints(Answer, server[s])
        /\ Documents(ui', server[s]) => Documents(ui', server'[s])
        /\ PositionShown(ui', server[s]) => PositionShown(ui', server'[s])
        /\ BreakpointsShown(ui', server[s]) => BreakpointsShown(ui', server'[s])
    BY <2>1, SeenAlike
  <2>3. server'[s].st = "ready" /\ user' = user
    BY <2>1 DEF SameView, Stands
  <2>4. /\ Documents(ui', server'[s]) => Documents(ui, server[s])'
        /\ PositionShown(ui', server'[s]) => PositionShown(ui, server[s])'
        /\ BreakpointsShown(ui', server'[s]) => BreakpointsShown(ui, server[s])'
    BY <2>3 DEF Documents, PositionShown, BreakpointsShown, Readable, ListingIs
  <2> QED BY <2>2, <2>3, <2>4
<1>3. PageTruth(ui)' /\ InitTruth(ui)' /\ IdleTruth(ui)'
  BY DEF Truth, PageTruth, InitTruth, IdleTruth, Stands, StoppedFor
<1>4. DebugTruth(ui)'
  BY <1>1, <1>2 DEF Truth, DebugTruth, Stands, StoppedFor, Moving, Marking
<1>5. ASSUME NEW r \in LiveIn(ui)'
      PROVE  RequestTruth(ui, r)'
  <2>1. RequestTruth(ui', r)
    BY <1>5 DEF Truth
  <2>2. ui'.state = "DEBUG" => \A s \in Named(ui.session)' : Documents(ui', server[s])
    BY <1>1 DEF Truth, DebugTruth
  <2>3. CompileTruth(ui, r)' /\ StepTruth(ui, r)' /\ StopTruth(ui, r)' /\ StdinTruth(ui, r)'
    BY <2>1 DEF RequestTruth, CompileTruth, StepTruth, StopTruth, StdinTruth, Stands
  <2>4. SessionTruth(ui, r)'
    BY <1>1, <1>2, <2>1 DEF RequestTruth, SessionTruth, Stands
  <2>5. StepStateTruth(ui, r)'
    BY <1>1, <1>2, <2>1, <2>2 DEF RequestTruth, StepStateTruth, Stands, Documents
  <2>6. BreakpointTruth(ui, r)'
    BY <1>1, <1>2, <2>1, <2>2 DEF RequestTruth, BreakpointTruth, Stands, Documents
  <2> QED BY <2>1, <2>3, <2>4, <2>5, <2>6 DEF RequestTruth
<1> QED BY <1>3, <1>4, <1>5 DEF Truth

-----------------------------------------------------------------------------
(* The page between two handlers *)

\* A page that is not about to lose its session.
AtEase(u) ==
  /\ u.strayTimers = 0 /\ u.hash = u.session /\ u.state \in {"IDLE", "DEBUG"}
  /\ Unstopped(u.session)
  /\ u.state = "IDLE" => ~u.autoTimer
  /\ u.state = "DEBUG" =>
       /\ Others(u.session) /\ NotLost(u.session)
       /\ \A s \in Named(u.session) : Documents(u, server[s])

\* What it shows is not about to change.
AtRest(u) ==
  u.state = "DEBUG" =>
    \A s \in Named(u.session) :
      PositionShown(u, server[s]) /\ BreakpointsShown(u, server[s])

(* A page that tells the truth, unless a stop is answered.                   *)
LEMMA TruthIsEase ==
  ASSUME NEW u, PageTypes(u), Truth(u), u.state # "INIT"
  PROVE  /\ (\A r \in LiveIn(u) : r.kind # "stop" \/ r.resp = NoAnswer) => AtEase(u)
         /\ /\ u.pollStep = 0
            /\ \A r \in LiveIn(u) :
                 /\ r.kind \notin {"stop", "step-state"}
                 /\ r.kind \in {"step", "breakpoint"} => r.resp = NoAnswer
            => AtRest(u)
<1>1. u.state \in {"IDLE", "DEBUG"}
  BY DEF PageTypes, ControlTypes
<1>2. ASSUME \A r \in LiveIn(u) : r.kind # "stop" \/ r.resp = NoAnswer
      PROVE  AtEase(u)
  BY <1>1, <1>2 DEF Truth, PageTruth, IdleTruth, DebugTruth, AtEase, StoppedFor
<1>3. ASSUME u.pollStep = 0,
             \A r \in LiveIn(u) :
               /\ r.kind \notin {"stop", "step-state"}
               /\ r.kind \in {"step", "breakpoint"} => r.resp = NoAnswer
      PROVE  AtRest(u)
  BY <1>3 DEF Truth, DebugTruth, AtRest, Moving, Marking
<1> QED BY <1>2, <1>3

(* The same page is as much at ease.                                         *)
LEMMA EaseAlike ==
  ASSUME NEW u, NEW v, v.state = u.state, v.session = u.session, v.hash = u.hash,
         v.strayTimers = u.strayTimers, v.autoTimer => u.autoTimer, SameEditors(u, v)
  PROVE  (AtEase(u) => AtEase(v)) /\ (AtRest(u) => AtRest(v))
<1>1. \A x : /\ Documents(u, x) => Documents(v, x)
             /\ PositionShown(u, x) => PositionShown(v, x)
             /\ BreakpointsShown(u, x) => BreakpointsShown(v, x)
  BY ShownAlike DEF SameEditors
<1> QED BY <1>1 DEF AtEase, AtRest

(* A page that asks tells the truth if what it asks for is true.             *)
LEMMA TruthAsked ==
  ASSUME NEW v, AtEase(v), NEW r, LiveIn(v) = {r}, r.resp = NoAnswer,
         v.pollSession = 0, v.pollStep = 0, ~v.reading,
         r.kind # "step-state" => AtRest(v), RequestTruth(v, r)
  PROVE  Truth(v)
<1>1. ~StoppedFor(v) /\ ~Marking(v) /\ (r.kind = "step-state" => Moving(v))
  BY DEF StoppedFor, Marking, Moving
<1>2. PageTruth(v) /\ InitTruth(v) /\ IdleTruth(v)
  BY DEF AtEase, PageTruth, InitTruth, IdleTruth
<1>3. DebugTruth(v)
  BY <1>1 DEF AtEase, AtRest, DebugTruth
<1> QED BY <1>2, <1>3 DEF Truth

(* A page at rest tells the truth if no session is left running that it does *)
(* not show.                                                                 *)
LEMMA TruthRests ==
  ASSUME NEW v, AtEase(v), AtRest(v), LiveIn(v) = {}, v.pollSession = 0,
         v.pollStep = 0, v.state = "IDLE" => AllStopped,
         v.reading => v.state = "IDLE"
  PROVE  Truth(v)
<1>1. PageTruth(v) /\ InitTruth(v) /\ IdleTruth(v)
  BY DEF AtEase, PageTruth, InitTruth, IdleTruth
<1>2. DebugTruth(v)
  BY DEF AtEase, AtRest, DebugTruth
<1> QED BY <1>1, <1>2 DEF Truth

(* A page that is to ask again knows no more than what it asked for.         *)
LEMMA TruthPolls ==
  ASSUME NEW v, AtEase(v), LiveIn(v) = {}, ~v.reading,
         \/ /\ v.pollSession > 0 /\ v.pollStep = 0
            /\ v.state = "IDLE" /\ Others(v.session)
         \/ v.pollSession = 0 /\ v.pollStep > 0 /\ v.state = "DEBUG"
  PROVE  Truth(v)
<1>1. /\ v.pollSession > 0 => v.state = "IDLE" /\ Others(v.session)
      /\ v.pollStep > 0 => v.state = "DEBUG"
      /\ v.state = "IDLE" => v.pollSession # 0
      /\ v.state = "DEBUG" => Moving(v)
  BY DEF Moving
<1>2. PageTruth(v) /\ InitTruth(v) /\ IdleTruth(v)
  BY <1>1 DEF AtEase, PageTruth, InitTruth, IdleTruth
<1>3. DebugTruth(v)
  BY <1>1 DEF AtEase, DebugTruth
<1> QED BY <1>2, <1>3 DEF Truth

-----------------------------------------------------------------------------
(* Steps of the page *)

(* A step of the page alone.                                                 *)
LEMMA PageTells ==
  ASSUME TruthInv, UNCHANGED <<server, single, user>>,
         ~overlap' /\ ~excused' => ~overlap /\ ~excused /\ Truth(ui')
  PROVE  TruthInv'
<1>1. CreatedInOrder'
  BY DEF TruthInv, CreatedInOrder, Live
<1>2. Stands
  BY DEF Stands, AllStopped, Others, Unstopped, NotLost, Named, Live, Stopping
<1>3. ASSUME ~overlap', ~excused'
      PROVE  /\ (\A s \in Session : Fits(server[s]))'
             /\ (\A s \in Session : server[s].stop => server[s].st \in {"ready", "gone"})'
             /\ Truth(ui)'
  <2>1. \A s : SameView(server[s], server'[s])
    BY DEF SameView
  <2>2. Truth(ui)'
    BY <1>2, <1>3, <2>1, TruthStands
  <2> QED BY <1>3, <2>2 DEF TruthInv, Fits, Listed
<1> QED BY <1>1, <1>3 DEF TruthInv

(* The end of a handler.                                                     *)
LEMMA HandlerTells ==
  ASSUME TruthInv, NEW base, NEW u, PageTypes(u), Handled(base, u),
         UNCHANGED <<server, single, user>>, ~excused' => ~excused,
         ~overlap' /\ ~excused' => Truth(u)
  PROVE  TruthInv'
<1>1. ui' = [u EXCEPT !.threw = FALSE] /\ (~overlap' => ~overlap)
  BY DEF Handled
<1>2. SamePage(u, ui')
  BY <1>1 DEF SamePage, SameListing, PageTypes, PageFields
<1>3. Truth(u) => Truth(ui')
  BY <1>2, TruthOfSame
<1> QED BY <1>1, <1>3, PageTells

(* A handler that asks for something.                                        *)
LEMMA AskingTells ==
  ASSUME TruthInv, NEW base, PageTypes(base), NEW u, PageTypes(u),
         NEW r, r.live, r.resp = NoAnswer, Asks(base, u, r),
         u.pollSession = base.pollSession, u.pollStep = base.pollStep,
         u.reading = base.reading, Handled(base, u),
         UNCHANGED <<server, single, user>>, ~excused' => ~excused,
         ~overlap /\ ~excused' /\ ~Busy(base) =>
           AtEase(u) /\ (r.kind # "step-state" => AtRest(u)) /\ RequestTruth(u, r)
  PROVE  TruthInv'
<1>1. ~overlap' => ~overlap /\ ~Busy(base)
  BY AskedIsSent DEF Handled
<1>2. ASSUME ~overlap', ~excused'
      PROVE  Truth(u)
  <2>1. LiveIn(u) = {r} /\ u.pollSession = 0 /\ u.pollStep = 0
    BY <1>1, <1>2, AskedAlone
  <2>2. ~u.reading
    BY <1>1, <1>2 DEF Busy
  <2> QED BY <1>1, <1>2, <2>1, <2>2, TruthAsked
<1> QED BY <1>2, HandlerTells

(* A handler that asks for nothing and changes nothing that is told.         *)
LEMMA QuietTells ==
  ASSUME TruthInv, NEW base, NEW u, PageTypes(u), SamePage(ui, u), Handled(base, u),
         UNCHANGED <<server, single, user>>, ~excused' => ~excused
  PROVE  TruthInv'
<1>1. ~overlap' => ~overlap
  BY DEF Handled
<1>2. Truth(ui) => Truth(u)
  BY TruthOfSame
<1>3. ~overlap' /\ ~excused' => Truth(u)
  BY <1>1, <1>2 DEF TruthInv
<1> QED BY <1>3, HandlerTells

(* What is asked for is true if it can be asked for in this state.           *)
LEMMA RequestMade ==
  ASSUME NEW u, NEW r, r.resp = NoAnswer,
         r.sid = IF r.kind = "stdin" THEN NoName ELSE u.session,
         r.kind \in {"compile", "upload"} => u.state = "IDLE" /\ AllStopped,
         r.kind = "session-state" =>
           u.state = "IDLE" /\ u.pollTries = 0 /\ Others(u.session),
         r.kind \in {"step", "step-state", "stop", "breakpoint", "stdin"} =>
           u.state = "DEBUG",
         r.kind = "stop" => ~u.autoTimer,
         r.kind = "breakpoint" =>
           \/ Named(u.session) = {} \/ r.arg.byLine
           \/ r.arg.at \in DOMAIN u.disasmMap \union {Unlisted}
  PROVE  RequestTruth(u, r)
<1>1. r.resp.is # "error"
  BY DEF NoAnswer
<1> QED BY <1>1 DEF RequestTruth, CompileTruth, SessionTruth, StepTruth,
     StepStateTruth, StopTruth, BreakpointTruth, StdinTruth

(* A page with nothing under way is at ease and at rest.                     *)
LEMMA IdleIsEase ==
  ASSUME Inv, TruthInv, ~overlap, ~excused, ~Busy(ui), ui.state # "INIT"
  PROVE  /\ PageTypes(ui) /\ Truth(ui) /\ LiveIn(ui) = {}
         /\ ui.pollSession = 0 /\ ui.pollStep = 0 /\ ~ui.reading
         /\ AtEase(ui) /\ AtRest(ui)
<1>1. PageTypes(ui) /\ Truth(ui)
  BY DEF Inv, PageInv, TruthInv
<1>2. /\ LiveIn(ui) = {} /\ ui.pollSession = 0 /\ ui.pollStep = 0 /\ ~ui.reading
  BY <1>1 DEF Busy, LiveIn, Outstanding, PageTypes, ControlTypes
<1> QED BY <1>1, <1>2, TruthIsEase

-----------------------------------------------------------------------------
(* The events of the user *)

(* A click that asks for something.                                          *)
LEMMA ClickTells ==
  ASSUME Inv, TruthInv, NEW u, PageTypes(u), NEW r, Asks(ui, u, r), r.live,
         r.resp = NoAnswer, r.kind # "step-state",
         u.pollSession = ui.pollSession, u.pollStep = ui.pollStep,
         u.reading = ui.reading, SameEditors(ui, u), u.state = ui.state,
         u.session = ui.session, u.hash = ui.hash, u.strayTimers = ui.strayTimers,
         u.autoTimer => ui.autoTimer,
         NEW feature, Event(feature, u), ~excused' => ~excused,
         ~excused' /\ Truth(ui) /\ LiveIn(ui) = {} /\ ui.pollSession = 0 =>
           RequestTruth(u, r)
  PROVE  TruthInv'
<1>1. PageTypes(ui)
  BY DEF Inv, PageInv
<1>2. ui.state # "INIT" /\ Handled(ui, u) /\ UNCHANGED <<server, single, user>>
  BY DEF Event
<1>3. ASSUME ~overlap, ~excused', ~Busy(ui)
      PROVE  AtEase(u) /\ AtRest(u) /\ RequestTruth(u, r)
  <2>1. /\ Truth(ui) /\ LiveIn(ui) = {} /\ ui.pollSession = 0
        /\ AtEase(ui) /\ AtRest(ui)
    BY <1>2, <1>3, IdleIsEase
  <2> QED BY <1>3, <2>1, EaseAlike
<1>4. ~overlap /\ ~excused' /\ ~Busy(ui) =>
        AtEase(u) /\ (r.kind # "step-state" => AtRest(u)) /\ RequestTruth(u, r)
  BY <1>3
<1> QED BY <1>1, <1>2, <1>4, AskingTells

(* A click that posts and changes nothing else.                              *)
LEMMA PostTells ==
  ASSUME Inv, TruthInv, NEW kind \in {"compile", "step", "breakpoint"}, NEW arg,
         kind = "breakpoint" =>
           /\ arg \in [set : BOOLEAN, byLine : BOOLEAN, at : Nat]
           /\ arg.byLine \/ arg.at \in Addresses \union {Unlisted}
           /\ Truth(ui) =>
                \/ Named(ui.session) = {} \/ arg.byLine
                \/ arg.at \in DOMAIN ui.disasmMap \union {Unlisted},
         kind = "compile" => ui.state = "IDLE",
         kind # "compile" => ui.state = "DEBUG",
         NEW feature, Click(feature, Send(ui, kind, arg))
  PROVE  TruthInv'
<1> DEFINE u == Send(ui, kind, arg)
           r == Request(kind, ui.session, arg)
<1>1. PageTypes(ui) /\ kind \in Kinds
  BY DEF Inv, PageInv, Kinds
<1>2. /\ PageTypes(u) /\ SameControl(ui, u) /\ SameEditors(ui, u) /\ SamePolls(ui, u)
      /\ u.autoTimer = ui.autoTimer /\ u.strayTimers = ui.strayTimers
      /\ Asks(ui, u, r)
  BY <1>1, SendPage
<1>3. /\ r.live /\ r.resp = NoAnswer /\ r.kind = kind /\ r.sid = ui.session
      /\ r.arg = arg
  BY DEF Request
<1>4. Event(feature, u) /\ excused' = excused
  BY DEF Click
<1> HIDE DEF u, r
<1>5. /\ u.pollSession = ui.pollSession /\ u.pollStep = ui.pollStep
      /\ u.reading = ui.reading /\ u.state = ui.state /\ u.session = ui.session
      /\ u.hash = ui.hash /\ u.disasmMap = ui.disasmMap
  BY <1>2 DEF SamePolls, SameControl, SameEditors, SameListing
<1>6. ASSUME Truth(ui), LiveIn(ui) = {}, ui.pollSession = 0
      PROVE  RequestTruth(u, r)
  <2>1. kind = "compile" => AllStopped
    BY <1>6 DEF Truth, IdleTruth
  <2> QED BY <1>3, <1>5, <1>6, <2>1, RequestMade
<1> QED BY <1>2, <1>3, <1>4, <1>5, <1>6, ClickTells

(* A compilation begins in IDLE, a step in DEBUG.                            *)
LEMMA PlayClickTells == ASSUME Inv, TruthInv, PlayClick PROVE TruthInv'
<1>1. CASE ui.state = "IDLE" /\ Click("play", CompileAction(ui))
  <2>1. Click("play", Send(ui, "compile", Unlisted))
    BY <1>1 DEF CompileAction
  <2> QED BY <1>1, <2>1, PostTells
<1>2. CASE ui.state = "DEBUG" /\ Click("play", StepAction(ui, "instruction"))
  <2>1. Click("play", Send(ui, "step", "instruction"))
    BY <1>2 DEF StepAction
  <2> QED BY <1>2, <2>1, PostTells
<1> QED BY <1>1, <1>2 DEF PlayClick

(* The other ways to step.                                                   *)
LEMMA FwdClickTells == ASSUME Inv, TruthInv, FwdClick PROVE TruthInv'
<1>1. PICK step \in {"line", "continue"} :
        ui.state = "DEBUG" /\ Click("skip", StepAction(ui, step))
  BY DEF FwdClick
<1>2. Click("skip", Send(ui, "step", step))
  BY <1>1 DEF StepAction
<1> QED BY <1>1, <1>2, PostTells

(* The button for the end takes the timer of the automatic steps with it.    *)
LEMMA StopClickTells == ASSUME Inv, TruthInv, StopClick PROVE TruthInv'
<1> DEFINE u == StopAction(ui)
           r == Request("stop", ui.session, Unlisted)
<1>1. PageTypes(ui) /\ ui.state = "DEBUG"
  BY DEF Inv, PageInv, StopClick
<1>2. /\ PageTypes(u) /\ SameEditors(ui, u) /\ SamePolls(ui, u) /\ Asks(ui, u, r)
      /\ u.state = ui.state /\ u.session = ui.session /\ u.hash = ui.hash
      /\ u.strayTimers = ui.strayTimers
  BY <1>1, StopActionPage
<1>3. ~u.autoTimer
  BY <1>1 DEF StopAction, Send, PageTypes, PageFields
<1>4. Event("stop", u) /\ (~excused' => ~excused)
  BY DEF StopClick, Click
<1>5. /\ r.live /\ r.resp = NoAnswer /\ r.kind = "stop" /\ r.sid = ui.session
  BY DEF Request
<1> HIDE DEF u, r
<1>6. RequestTruth(u, r)
  BY <1>1, <1>2, <1>3, <1>5, RequestMade
<1>7. /\ u.pollSession = ui.pollSession /\ u.pollStep = ui.pollStep
      /\ u.reading = ui.reading
  BY <1>2 DEF SamePolls
<1> QED BY <1>2, <1>3, <1>4, <1>5, <1>6, <1>7, ClickTells

(* Steps on their own begin with one step, and end where they are.           *)
LEMMA LoopClickTells == ASSUME Inv, TruthInv, LoopClick PROVE TruthInv'
<1>1. PageTypes(ui)
  BY DEF Inv, PageInv
<1>2. CASE Click("loop", [ui EXCEPT !.autoStep = FALSE])
  <2> DEFINE u == [ui EXCEPT !.autoStep = FALSE]
  <2>1. SamePage(ui, u)
    BY <1>1 DEF SamePage, SameListing, PageTypes, PageFields
  <2>2. PageTypes(u)
    BY <1>1 DEF PageTypes, PageFields, ControlTypes, EditorTypes, TableTypes,
       RequestTypes, Outstanding
  <2>3. Handled(ui, u) /\ UNCHANGED <<server, single, user, excused>>
    BY <1>2 DEF Click, Event
  <2> HIDE DEF u
  <2> QED BY <2>1, <2>2, <2>3, QuietTells
<1>3. CASE /\ Event("loop", [StepAction(ui, "instruction") EXCEPT !.autoStep = TRUE])
           /\ excused' = (excused \/ ui.state # "DEBUG")
  <2> DEFINE v == Send(ui, "step", "instruction")
             r == Request("step", ui.session, "instruction")
             u == [v EXCEPT !.autoStep = TRUE]
  <2>1. Event("loop", u) /\ (~excused' => ~excused /\ ui.state = "DEBUG")
    BY <1>3 DEF StepAction
  <2>2. /\ PageTypes(v) /\ SameControl(ui, v) /\ SameEditors(ui, v) /\ SamePolls(ui, v)
        /\ v.autoTimer = ui.autoTimer /\ v.strayTimers = ui.strayTimers
        /\ Asks(ui, v, r)
    BY <1>1, SendPage DEF Kinds
  <2>3. /\ r.live /\ r.resp = NoAnswer /\ r.kind = "step" /\ r.sid = ui.session
    BY DEF Request
  <2> HIDE DEF v, r
  <2>4. /\ DOMAIN u = DOMAIN v /\ ControlTypes(u) /\ SameTables(v, u)
        /\ SameEditors(v, u) /\ SameExchange(v, u) /\ u.session = v.session
        /\ u.state = v.state /\ u.hash = v.hash
    BY <2>2 DEF PageTypes, PageFields, ControlTypes, SameTables, SameEditors,
       SameListing, SameExchange
  <2> HIDE DEF u
  <2>5. PageTypes(u)
    BY <2>2, <2>4, ControlFrame DEF SameExchange
  <2>6. /\ Asks(ui, u, r) /\ u.pollSession = ui.pollSession
        /\ u.pollStep = ui.pollStep /\ u.reading = ui.reading
        /\ u.autoTimer = ui.autoTimer /\ u.strayTimers = ui.strayTimers
        /\ u.state = ui.state /\ u.session = ui.session /\ u.hash = ui.hash
        /\ SameEditors(ui, u)
    BY <2>2, <2>4 DEF Asks, SameExchange, SamePolls, SameControl, SameEditors,
       SameListing
  <2>7. ~excused' => RequestTruth(u, r)
    BY <2>1, <2>3, <2>6, RequestMade
  <2> QED BY <2>1, <2>3, <2>5, <2>6, <2>7, ClickTells
<1> QED BY <1>2, <1>3 DEF LoopClick

(* The address in the gutter of the listing shown is one of an instruction.  *)
LEMMA FormatterListed ==
  ASSUME NEW u, PageTypes(u), NEW i \in Nat \ {0}, ListingIs(u, u.lineNumbers)
  PROVE  Formatter(u, i) \in DOMAIN u.disasmMap \union {Unlisted}
<1>1. DOMAIN u.disasmMap = {u.lineNumbers[k] : k \in DOMAIN u.lineNumbers} \ {-1}
  BY DEF ListingIs, DisasmMap
<1>2. u.lineNumbers \in Seq(Addresses \union {-1})
  BY DEF PageTypes, EditorTypes
<1>3. CASE i > Len(u.lineNumbers)
  BY <1>3 DEF Formatter
<1>4. CASE ~(i > Len(u.lineNumbers)) /\ u.lineNumbers[i] < 0
  BY <1>4 DEF Formatter
<1>5. CASE ~(i > Len(u.lineNumbers)) /\ ~(u.lineNumbers[i] < 0)
  <2>1. i \in DOMAIN u.lineNumbers /\ u.lineNumbers[i] # -1
    BY <1>2, <1>5
  <2>2. Formatter(u, i) = u.lineNumbers[i]
    BY <1>5 DEF Formatter
  <2> QED BY <1>1, <2>1, <2>2
<1> QED BY <1>3, <1>4, <1>5

(* A breakpoint is asked for at a line, or at an address of the listing.     *)
LEMMA GutterClickTells == ASSUME Inv, TruthInv, GutterClick PROVE TruthInv'
<1>1. ui.state = "DEBUG"
  BY DEF GutterClick
<1>2. /\ PageTypes(ui) /\ ui.source \in SourceDocs /\ ui.compiled \in CompiledDocs
  BY PageDocs DEF Inv, PageInv
<1>3. ASSUME NEW nums, NEW d \in Docs(nums), NEW i \in DOMAIN d
      PROVE  i \in Nat \ {0} /\ HasMarker(d, i - 1) \in BOOLEAN
  <2>1. i \in Nat \ {0} /\ d[i] \in LineType(nums)
    BY <1>3 DEF Docs
  <2>2. (i - 1) + 1 = i
    BY <2>1
  <2> QED BY <2>1, <2>2, LineFields DEF HasMarker
<1>4. CASE \E i \in DOMAIN ui.source :
             Click("gutter", Send(ui, "breakpoint",
               [set |-> ~HasMarker(ui.source, i - 1), byLine |-> TRUE, at |-> i]))
  <2>1. PICK i \in DOMAIN ui.source :
          Click("gutter", Send(ui, "breakpoint",
            [set |-> ~HasMarker(ui.source, i - 1), byLine |-> TRUE, at |-> i]))
    BY <1>4
  <2> DEFINE arg == [set |-> ~HasMarker(ui.source, i - 1), byLine |-> TRUE, at |-> i]
  <2>2. i \in Nat
    BY <1>2, <1>3 DEF SourceDocs
  <2>3. arg \in [set : BOOLEAN, byLine : BOOLEAN, at : Nat] /\ arg.byLine
    BY <2>2
  <2>4. Click("gutter", Send(ui, "breakpoint", arg))
    BY <2>1
  <2> HIDE DEF arg
  <2> QED BY <1>1, <2>3, <2>4, PostTells
<1>5. CASE \E i \in DOMAIN ui.compiled :
             Click("gutter", Send(ui, "breakpoint",
               [set |-> ~HasMarker(ui.compiled, i - 1), byLine |-> FALSE,
                at |-> Formatter(ui, i)]))
  <2>1. PICK i \in DOMAIN ui.compiled :
          Click("gutter", Send(ui, "breakpoint",
            [set |-> ~HasMarker(ui.compiled, i - 1), byLine |-> FALSE,
             at |-> Formatter(ui, i)]))
    BY <1>5
  <2> DEFINE arg == [set |-> ~HasMarker(ui.compiled, i - 1), byLine |-> FALSE,
                     at |-> Formatter(ui, i)]
  <2>2. i \in Nat \ {0}
    BY <1>2, <1>3 DEF CompiledDocs
  <2>3. Formatter(ui, i) \in Nat /\ Formatter(ui, i) \in Addresses \union {Unlisted}
    BY <1>2, <2>2, FormatterTypes
  <2>4. /\ arg \in [set : BOOLEAN, byLine : BOOLEAN, at : Nat]
        /\ arg.at \in Addresses \union {Unlisted}
    BY <2>3
  <2>5. Click("gutter", Send(ui, "breakpoint", arg))
    BY <2>1
  <2>6. ASSUME Truth(ui), Named(ui.session) # {}
        PROVE  arg.at \in DOMAIN ui.disasmMap \union {Unlisted}
    <3>1. PICK s \in Named(ui.session) : Documents(ui, server[s])
      BY <1>1, <2>6 DEF Truth, DebugTruth
    <3>2. ListingIs(ui, ui.lineNumbers)
      BY <3>1 DEF Documents, ListingIs
    <3> QED BY <1>2, <2>2, <3>2, FormatterListed
  <2> HIDE DEF arg
  <2> QED BY <1>1, <2>4, <2>5, <2>6, PostTells
<1> QED BY <1>4, <1>5 DEF GutterClick

(* Input for the program.                                                    *)
LEMMA StdinEnterTells == ASSUME Inv, TruthInv, StdinEnter PROVE TruthInv'
<1> DEFINE a == [ui EXCEPT !.session = NoName]
           v == Send(a, "stdin", Unlisted)
           r == Request("stdin", a.session, Unlisted)
           u == [v EXCEPT !.session = ui.session]
<1>1. PageTypes(ui) /\ PageAgrees(ui) /\ ui.state = "DEBUG"
  BY DEF Inv, PageInv, StdinEnter
<1>2. Event("stdin", u) /\ (~excused' => ~excused)
  BY DEF StdinEnter, Click
<1>3. /\ DOMAIN a = DOMAIN ui /\ ControlTypes(a) /\ SameTables(ui, a)
      /\ SameEditors(ui, a) /\ SameExchange(ui, a)
      /\ a.state = ui.state /\ a.hash = ui.hash /\ a.session = NoName
  BY <1>1 DEF PageTypes, PageFields, ControlTypes, SameTables, SameEditors,
     SameListing, SameExchange
<1> HIDE DEF a
<1>4. PageTypes(a)
  BY <1>1, <1>3, ControlFrame DEF SameExchange
<1>5. /\ PageTypes(v) /\ SameControl(a, v) /\ SameEditors(a, v) /\ SamePolls(a, v)
      /\ v.autoTimer = a.autoTimer /\ v.strayTimers = a.strayTimers
      /\ Asks(a, v, r)
  BY <1>4, SendPage DEF Kinds
<1>6. /\ r.live /\ r.resp = NoAnswer /\ r.kind = "stdin" /\ r.sid = NoName
  BY <1>3 DEF Request
<1> HIDE DEF v, r
<1>7. /\ DOMAIN u = DOMAIN v /\ ControlTypes(u) /\ SameTables(v, u)
      /\ SameEditors(v, u) /\ SameExchange(v, u) /\ u.session = ui.session
      /\ u.state = v.state /\ u.hash = v.hash
  BY <1>1, <1>5 DEF PageTypes, PageFields, ControlTypes, SameTables, SameEditors,
     SameListing, SameExchange
<1> HIDE DEF u
<1>8. PageTypes(u)
  BY <1>5, <1>7, ControlFrame DEF SameExchange
<1>9. /\ Asks(ui, u, r) /\ u.pollSession = ui.pollSession
      /\ u.pollStep = ui.pollStep /\ u.reading = ui.reading
      /\ u.autoTimer = ui.autoTimer /\ u.strayTimers = ui.strayTimers
      /\ u.state = ui.state /\ u.hash = ui.hash /\ SameEditors(ui, u)
  BY <1>3, <1>5, <1>7 DEF Asks, SameExchange, SamePolls, SameControl, SameEditors,
     SameListing
<1>10. RequestTruth(u, r)
  BY <1>1, <1>6, <1>9, RequestMade
<1> QED BY <1>2, <1>6, <1>7, <1>8, <1>9, <1>10, ClickTells

(* A file is chosen while nothing is under way.                              *)
LEMMA UploadClickTells == ASSUME Inv, TruthInv, UploadClick PROVE TruthInv'
<1> DEFINE u == [ui EXCEPT !.reading = TRUE]
<1>1. PageTypes(ui) /\ PageAgrees(ui) /\ ui.state = "IDLE"
  BY DEF Inv, PageInv, UploadClick, Click, Event, PageTypes, ControlTypes
<1>2. Handled(ui, u) /\ UNCHANGED <<server, single, user, excused>> /\ ~ui.reading
  BY DEF UploadClick, Click, Event
<1>3. /\ DOMAIN u = DOMAIN ui /\ ControlTypes(u) /\ SameTables(ui, u)
      /\ SameEditors(ui, u) /\ SameControl(ui, u) /\ u.requests = ui.requests
      /\ u.pollSession = ui.pollSession /\ u.pollStep = ui.pollStep
      /\ u.autoTimer = ui.autoTimer /\ u.strayTimers = ui.strayTimers
      /\ u.reading
  BY <1>1 DEF PageTypes, PageFields, ControlTypes, SameTables, SameEditors,
     SameListing, SameControl
<1> HIDE DEF u
<1>4. PageTypes(u)
  BY <1>1, <1>3, ControlFrame
<1>5. ~overlap' => ~overlap /\ ~Busy(ui)
  BY <1>2, <1>3 DEF Handled, Chosen
<1>6. ASSUME ~overlap', ~excused'
      PROVE  Truth(u)
  <2>1. /\ Truth(ui) /\ LiveIn(ui) = {} /\ ui.pollSession = 0 /\ ui.pollStep = 0
        /\ AtEase(ui) /\ AtRest(ui)
    BY <1>1, <1>2, <1>5, <1>6, IdleIsEase
  <2>2. AtEase(u) /\ AtRest(u)
    BY <1>3, <2>1, EaseAlike DEF SameControl
  <2>3. LiveIn(u) = {}
    BY <1>3, <2>1 DEF LiveIn, Outstanding
  <2>4. AllStopped
    BY <1>1, <2>1 DEF Truth, IdleTruth
  <2>5. u.state = "IDLE"
    BY <1>1, <1>3 DEF SameControl
  <2> QED BY <1>3, <2>1, <2>2, <2>3, <2>4, <2>5, TruthRests
<1> QED BY <1>2, <1>4, <1>6, HandlerTells

(* Another source: nothing is told of it.                                    *)
LEMMA ExampleClickTells == ASSUME Inv, TruthInv, ExampleClick PROVE TruthInv'
<1> DEFINE u == LoadCode(ui)
           text == <<0, 0>>
<1>1. PageTypes(ui) /\ PageAgrees(ui)
  BY DEF Inv, PageInv
<1>2. /\ Handled(ui, u) /\ UNCHANGED <<server, single, user, excused>>
      /\ "example" \in user.events
  BY DEF ExampleClick, Click, Event
<1>3. text \in Seq(LineNumbers \union {0}) /\ text # <<>>
  OBVIOUS
<1>4. u = SetLanguageAndText(ui, text)
  BY DEF LoadCode
<1> HIDE DEF u, text
<1>5. /\ OnlyEditors(ui, u) /\ SameListing(ui, u) /\ u.compiled = ui.compiled
  BY <1>1, <1>3, <1>4, SetTextPage DEF PageAgrees
<1>6. SamePage(ui, u)
  BY <1>2, <1>5 DEF SamePage, OnlyEditors, SameControl, SameExchange
<1> QED BY <1>2, <1>5, <1>6, QuietTells DEF OnlyEditors

(* An edit: nothing is told of the source from then on.                      *)
LEMMA EditTells == ASSUME Inv, TruthInv, Edit PROVE TruthInv'
<1>1. PageTypes(ui) /\ PageAgrees(ui) /\ ui.source \in SourceDocs
  BY PageDocs DEF Inv, PageInv
<1>2. ASSUME NEW doc \in SourceDocs, Click("edit", [ui EXCEPT !.source = doc])
      PROVE  TruthInv'
  <2> DEFINE u == [ui EXCEPT !.source = doc]
  <2>1. /\ Handled(ui, u) /\ UNCHANGED <<server, single, user, excused>>
        /\ "edit" \in user.events
    BY <1>2 DEF Click, Event
  <2>2. /\ DOMAIN u = DOMAIN ui /\ SameControl(ui, u) /\ SameExchange(ui, u)
        /\ SameTables(ui, u) /\ SameListing(ui, u) /\ u.compiled = ui.compiled
        /\ u.source = doc /\ u.threw = ui.threw
    BY <1>1 DEF PageTypes, PageFields, SameControl, SameExchange, SameTables,
       SameListing
  <2> HIDE DEF u
  <2>3. u.threw \in BOOLEAN /\ u.compiled \in CompiledDocs
    BY <1>1, <2>2, PageDocs DEF PageTypes, ControlTypes
  <2>4. OnlyEditors(ui, u)
    BY <1>1, <1>2, <2>2, <2>3, DocumentFrame
  <2>5. SamePage(ui, u)
    BY <2>1, <2>2 DEF SamePage, SameControl, SameExchange
  <2> QED BY <2>1, <2>4, <2>5, QuietTells DEF OnlyEditors
<1>3. Held(ui.source)
  BY <1>1 DEF PageAgrees, EditorsAgree
<1>4. ASSUME NEW i \in DOMAIN ui.source,
             Click("edit", [ui EXCEPT !.source = InsertLine(@, i - 1)])
      PROVE  TruthInv'
  <2>1. InsertLine(ui.source, i - 1) \in SourceDocs
    BY <1>1, <1>3, LineInserted DEF SourceDocs
  <2>2. Click("edit", [ui EXCEPT !.source = InsertLine(ui.source, i - 1)])
    BY <1>4
  <2> QED BY <2>1, <2>2, <1>2
<1>5. ASSUME NEW i \in DOMAIN ui.source, Len(ui.source) > 1,
             Click("edit", [ui EXCEPT !.source = DeleteLine(@, i - 1)])
      PROVE  TruthInv'
  <2>1. DeleteLine(ui.source, i - 1) \in SourceDocs
    BY <1>1, <1>3, <1>5, LineDeleted DEF SourceDocs
  <2>2. Click("edit", [ui EXCEPT !.source = DeleteLine(ui.source, i - 1)])
    BY <1>5
  <2> QED BY <2>1, <2>2, <1>2
<1> QED BY <1>4, <1>5 DEF Edit

(* The popup is no part of what is told.                                     *)
LEMMA PopupTells ==
  ASSUME Inv, TruthInv, NEW base, NEW u, DOMAIN u = DOMAIN ui, SameControl(ui, u),
         SameExchange(ui, u), SameEditors(ui, u), u.threw \in BOOLEAN, TableTypes(u),
         Handled(base, u), UNCHANGED <<server, single, user, excused>>
  PROVE  TruthInv'
<1>1. PageTypes(ui)
  BY DEF Inv, PageInv
<1>2. PageTypes(u)
  BY <1>1 DEF PageTypes, ControlTypes, EditorTypes, RequestTypes, Outstanding,
     SameControl, SameExchange, SameEditors, SameListing
<1>3. SamePage(ui, u)
  BY DEF SamePage, SameControl, SameExchange, SameEditors
<1> QED BY <1>2, <1>3, QuietTells

(* The popup is opened.                                                      *)
LEMMA MoreClickTells == ASSUME Inv, TruthInv, MoreClick PROVE TruthInv'
<1> DEFINE w == [t \in Tables |-> NoData]
           u == [ui EXCEPT !.popup = "loading", !.window = w]
<1>1. PageTypes(ui)
  BY DEF Inv, PageInv
<1>2. Handled(ui, u) /\ UNCHANGED <<server, single, user, excused>>
  BY DEF MoreClick, Click, Event
<1>3. /\ DOMAIN u = DOMAIN ui /\ SameControl(ui, u) /\ SameExchange(ui, u)
      /\ SameEditors(ui, u) /\ u.threw = ui.threw /\ u.popup = "loading"
      /\ u.last = ui.last /\ u.main = ui.main /\ u.window = w
  BY <1>1 DEF PageTypes, PageFields, SameControl, SameExchange, SameEditors,
     SameListing
<1>4. w \in [Tables -> Data]
  BY DEF Data
<1> HIDE DEF u, w
<1>5. TableTypes(u) /\ u.threw \in BOOLEAN
  BY <1>1, <1>3, <1>4 DEF PageTypes, TableTypes, ControlTypes
<1> QED BY <1>2, <1>3, <1>5, PopupTells

(* The popup is closed.                                                      *)
LEMMA PopupClosedTells == ASSUME Inv, TruthInv, PopupClosed PROVE TruthInv'
<1> DEFINE u == [ui EXCEPT !.popup = "closed"]
<1>1. PageTypes(ui)
  BY DEF Inv, PageInv
<1>2. Handled(ui, u) /\ UNCHANGED <<server, single, user, excused>>
  BY DEF PopupClosed, Click, Event
<1>3. /\ DOMAIN u = DOMAIN ui /\ SameControl(ui, u) /\ SameExchange(ui, u)
      /\ SameEditors(ui, u) /\ u.threw = ui.threw /\ u.popup = "closed"
      /\ u.last = ui.last /\ u.main = ui.main /\ u.window = ui.window
  BY <1>1 DEF PageTypes, PageFields, SameControl, SameExchange, SameEditors,
     SameListing
<1> HIDE DEF u
<1>4. TableTypes(u) /\ u.threw \in BOOLEAN
  BY <1>1, <1>3 DEF PageTypes, TableTypes, ControlTypes
<1> QED BY <1>2, <1>3, <1>4, PopupTells

(* Its tables are filled in.                                                 *)
LEMMA PopupLoadedTells == ASSUME Inv, TruthInv, PopupLoaded PROVE TruthInv'
<1> DEFINE a == [ui EXCEPT !.popup = "open"]
           b == UpdateTable(a, "regs")
           c == IF b.threw THEN b ELSE UpdateTable(b, "vars")
           d == IF c.threw THEN c ELSE UpdateTable(c, "stack")
<1>1. PageTypes(ui) /\ PageAgrees(ui) /\ ~ui.threw /\ ui.popup = "loading"
  BY DEF Inv, PageInv, PopupLoaded
<1>2. Handled(a, d) /\ UNCHANGED <<server, single, user, excused>>
  BY DEF PopupLoaded, Timer, Then
<1>3. /\ DOMAIN a = DOMAIN ui /\ SameControl(ui, a) /\ SameExchange(ui, a)
      /\ SameEditors(ui, a) /\ a.last = ui.last /\ a.main = ui.main
      /\ a.window = ui.window /\ a.popup = "open" /\ a.threw = ui.threw
  BY <1>1 DEF PageTypes, PageFields, SameControl, SameExchange, SameEditors,
     SameListing
<1> HIDE DEF a
<1>4. OnlyTables(a, d)
  <2>1. PageTypes(a)
    BY <1>1, <1>3 DEF PageTypes, ControlTypes, EditorTypes, TableTypes,
       RequestTypes,
       Outstanding, SameControl, SameExchange, SameEditors, SameListing
  <2>2. /\ \A t \in Tables : a.window[t] = NoData
        /\ a.last["vars"] # NoData => a.last["regs"] # NoData
        /\ \A t \in Tables : a.main[t] # NoData => a.last[t] # NoData
    BY <1>1, <1>3 DEF PageAgrees, Mirrored
  <2>3. /\ b = UpdateTable(a, "regs")
        /\ c = IF b.threw THEN b ELSE UpdateTable(b, "vars")
        /\ d = IF c.threw THEN c ELSE UpdateTable(c, "stack")
    BY DEF b, c, d
  <2> HIDE DEF b, c, d
  <2> QED BY <1>1, <1>3, <2>1, <2>2, <2>3, PopupFilled
<1> HIDE DEF a, b, c, d
<1>5. PageTypes(d) /\ SameControl(ui, d) /\ SameExchange(ui, d) /\ SameEditors(ui, d)
  BY <1>3, <1>4 DEF OnlyTables, SameControl, SameExchange, SameEditors,
     SameListing
<1>6. DOMAIN d = DOMAIN ui /\ TableTypes(d) /\ d.threw \in BOOLEAN
  BY <1>1, <1>5 DEF PageTypes, ControlTypes
<1> QED BY <1>2, <1>5, <1>6, PopupTells

-----------------------------------------------------------------------------
(* The events of the browser *)

(* A timer of the polls, whose handler resets the count of the tries.        *)
LEMMA PollTells ==
  ASSUME Inv, TruthInv, NEW base, DOMAIN base = DOMAIN ui, SameRest(ui, base),
         ControlTypes(base), base.reading = ui.reading,
         base.autoTimer = ui.autoTimer, base.strayTimers = ui.strayTimers,
         NEW kind \in {"session-state", "step-state"}, NEW arg,
         Handled(base, Send([base EXCEPT !.pollTries = 0], kind, arg)),
         UNCHANGED <<server, single, user, excused>>,
         Truth(ui) => (IF kind = "session-state"
                       THEN ui.state = "IDLE" /\ Others(ui.session)
                       ELSE ui.state = "DEBUG")
  PROVE  TruthInv'
<1> DEFINE a == [base EXCEPT !.pollTries = 0]
           u == Send(a, kind, arg)
           r == Request(kind, a.session, arg)
<1>1. PageTypes(ui) /\ Handled(base, u)
  BY DEF Inv, PageInv
<1>2. PageTypes(base)
  BY <1>1, ControlFrame DEF SameRest
<1>3. /\ DOMAIN a = DOMAIN base /\ SameRest(base, a) /\ ControlTypes(a)
      /\ a.pollSession = base.pollSession /\ a.pollStep = base.pollStep
      /\ a.reading = base.reading /\ a.pollTries = 0
      /\ a.autoTimer = base.autoTimer /\ a.strayTimers = base.strayTimers
  BY <1>2, WebUIAssumption DEF PageTypes, PageFields, ControlTypes, SameRest,
     SameControl, SameTables, SameEditors, SameListing
<1> HIDE DEF a
<1>4. PageTypes(a)
  BY <1>2, <1>3, ControlFrame DEF SameRest
<1>5. /\ PageTypes(u) /\ SameControl(a, u) /\ SameEditors(a, u) /\ SamePolls(a, u)
      /\ u.autoTimer = a.autoTimer /\ u.strayTimers = a.strayTimers /\ Asks(a, u, r)
  BY <1>4, SendPage DEF Kinds
<1>6. r.live /\ r.resp = NoAnswer /\ r.kind = kind /\ r.sid = a.session
  BY DEF Request
<1> HIDE DEF u, r
<1>7. /\ Asks(base, u, r) /\ u.pollSession = base.pollSession
      /\ u.pollStep = base.pollStep /\ u.reading = base.reading /\ u.pollTries = 0
      /\ u.state = ui.state /\ u.session = ui.session /\ u.hash = ui.hash
      /\ u.autoTimer = ui.autoTimer /\ u.strayTimers = ui.strayTimers
      /\ SameEditors(ui, u) /\ r.sid = u.session
  BY <1>3, <1>5, <1>6 DEF SameRest, SameControl, SameEditors, SameListing,
     SamePolls, Asks
<1>8. ASSUME ~overlap, ~excused', ~Busy(base)
      PROVE  /\ AtEase(u) /\ RequestTruth(u, r)
             /\ r.kind # "step-state" => AtRest(u)
  <2>1. Truth(ui) /\ ui.state \in {"IDLE", "DEBUG"}
    BY <1>8 DEF TruthInv
  <2>2. LiveIn(ui) = {}
    BY <1>8 DEF Busy, LiveIn, Outstanding, SameRest
  <2>3. AtEase(u)
    BY <1>1, <1>7, <2>1, <2>2, TruthIsEase, EaseAlike
  <2>4. RequestTruth(u, r)
    BY <1>6, <1>7, <2>1, RequestMade
  <2>5. r.kind # "step-state" => AtRest(u)
    BY <1>6, <1>7, <2>1 DEF AtRest
  <2> QED BY <2>3, <2>4, <2>5
<1> QED BY <1>2, <1>5, <1>6, <1>7, <1>8, <1>1, AskingTells

(* The state of the session is asked for again.                              *)
LEMMA PollSessionTimerTells == ASSUME Inv, TruthInv, PollSessionTimer PROVE TruthInv'
<1> DEFINE base == [ui EXCEPT !.pollSession = @ - 1]
           again == TRUE
<1>1. PageTypes(ui) /\ ui.pollSession > 0
  BY DEF Inv, PageInv, PollSessionTimer
<1>2. /\ DOMAIN base = DOMAIN ui /\ SameRest(ui, base) /\ ControlTypes(base)
      /\ base.reading = ui.reading /\ base.autoTimer = ui.autoTimer
      /\ base.strayTimers = ui.strayTimers
  BY <1>1 DEF PageTypes, PageFields, ControlTypes, SameRest, SameControl,
     SameTables, SameEditors, SameListing
<1>3. /\ Handled(base, Send([base EXCEPT !.pollTries = 0], "session-state", again))
      /\ UNCHANGED <<server, single, user, excused>>
  BY DEF PollSessionTimer, Timer, PollSessionState
<1>4. Truth(ui) => ui.state = "IDLE" /\ Others(ui.session)
  BY <1>1 DEF Truth, PageTruth
<1> HIDE DEF base, again
<1> QED BY <1>2, <1>3, <1>4, PollTells

(* The state of the step is asked for.                                       *)
LEMMA PollStepTimerTells == ASSUME Inv, TruthInv, PollStepTimer PROVE TruthInv'
<1> DEFINE base == [ui EXCEPT !.pollStep = @ - 1]
<1>1. PageTypes(ui) /\ ui.pollStep > 0
  BY DEF Inv, PageInv, PollStepTimer
<1>2. /\ DOMAIN base = DOMAIN ui /\ SameRest(ui, base) /\ ControlTypes(base)
      /\ base.reading = ui.reading /\ base.autoTimer = ui.autoTimer
      /\ base.strayTimers = ui.strayTimers
  BY <1>1 DEF PageTypes, PageFields, ControlTypes, SameRest, SameControl,
     SameTables, SameEditors, SameListing
<1>3. /\ Handled(base, Send([base EXCEPT !.pollTries = 0], "step-state", Unlisted))
      /\ UNCHANGED <<server, single, user, excused>>
  BY DEF PollStepTimer, Timer, PollStepState
<1>4. Truth(ui) => ui.state = "DEBUG"
  BY <1>1 DEF Truth, PageTruth
<1> HIDE DEF base
<1> QED BY <1>2, <1>3, <1>4, PollTells

(* A timer that posts.                                                       *)
LEMMA TimerTells ==
  ASSUME Inv, TruthInv, NEW base, DOMAIN base = DOMAIN ui, SameRest(ui, base),
         ControlTypes(base), base.pollSession = ui.pollSession,
         base.pollStep = ui.pollStep, base.strayTimers = ui.strayTimers,
         base.autoTimer => ui.autoTimer,
         NEW kind \in {"step", "upload"}, NEW arg,
         Handled(base, Send(base, kind, arg)),
         UNCHANGED <<server, single, user, excused>>,
         Truth(ui) => (IF kind = "upload"
                       THEN ui.state = "IDLE" /\ AllStopped
                       ELSE ui.state = "DEBUG")
  PROVE  TruthInv'
<1> DEFINE u == Send(base, kind, arg)
           r == Request(kind, base.session, arg)
<1>1. PageTypes(ui) /\ Handled(base, u)
  BY DEF Inv, PageInv
<1>2. PageTypes(base)
  BY <1>1, ControlFrame DEF SameRest
<1>3. /\ PageTypes(u) /\ SameControl(base, u) /\ SameEditors(base, u)
      /\ SamePolls(base, u) /\ u.autoTimer = base.autoTimer
      /\ u.strayTimers = base.strayTimers /\ Asks(base, u, r)
  BY <1>2, SendPage DEF Kinds
<1>4. r.live /\ r.resp = NoAnswer /\ r.kind = kind /\ r.sid = base.session
  BY DEF Request
<1> HIDE DEF u, r
<1>5. /\ u.pollSession = base.pollSession /\ u.pollStep = base.pollStep
      /\ u.reading = base.reading
      /\ u.state = ui.state /\ u.session = ui.session /\ u.hash = ui.hash
      /\ (u.autoTimer => ui.autoTimer) /\ u.strayTimers = ui.strayTimers
      /\ SameEditors(ui, u) /\ r.sid = u.session
  BY <1>3, <1>4 DEF SameRest, SameControl, SameEditors, SameListing, SamePolls
<1>6. ASSUME ~overlap, ~excused', ~Busy(base)
      PROVE  AtEase(u) /\ AtRest(u) /\ RequestTruth(u, r)
  <2>1. Truth(ui) /\ ui.state \in {"IDLE", "DEBUG"}
    BY <1>6 DEF TruthInv
  <2>2. LiveIn(ui) = {} /\ ui.pollStep = 0
    BY <1>1, <1>6 DEF Busy, LiveIn, Outstanding, SameRest, PageTypes, ControlTypes
  <2>3. AtEase(u) /\ AtRest(u)
    BY <1>1, <1>5, <2>1, <2>2, TruthIsEase, EaseAlike
  <2>4. RequestTruth(u, r)
    BY <1>4, <1>5, <2>1, RequestMade
  <2> QED BY <2>3, <2>4
<1> QED BY <1>1, <1>2, <1>3, <1>4, <1>5, <1>6, AskingTells

(* The timer of the automatic steps, if no other was left behind.            *)
LEMMA AutoStepTimerTells == ASSUME Inv, TruthInv, AutoStepTimer PROVE TruthInv'
<1>1. PageTypes(ui)
  BY DEF Inv, PageInv
<1>2. CASE ui.autoTimer /\ LET base == [ui EXCEPT !.autoTimer = FALSE] IN
             Timer(base, StepAction(base, "instruction"))
  <2> DEFINE base == [ui EXCEPT !.autoTimer = FALSE]
  <2>1. /\ DOMAIN base = DOMAIN ui /\ SameRest(ui, base) /\ ControlTypes(base)
        /\ base.pollSession = ui.pollSession /\ base.pollStep = ui.pollStep
        /\ base.strayTimers = ui.strayTimers /\ ~base.autoTimer
    BY <1>1 DEF PageTypes, PageFields, ControlTypes, SameRest, SameControl,
       SameTables, SameEditors, SameListing
  <2>2. /\ Handled(base, Send(base, "step", "instruction"))
        /\ UNCHANGED <<server, single, user, excused>>
    BY <1>2 DEF Timer, StepAction
  <2>3. Truth(ui) => ui.state = "DEBUG"
    BY <1>1, <1>2 DEF Truth, InitTruth, IdleTruth, PageTypes, ControlTypes
  <2> HIDE DEF base
  <2> QED BY <2>1, <2>2, <2>3, TimerTells
<1>3. CASE ui.strayTimers > 0 /\ LET base == [ui EXCEPT !.strayTimers = @ - 1] IN
             Timer(base, StepAction(base, "instruction"))
  <2> DEFINE base == [ui EXCEPT !.strayTimers = @ - 1]
             u == Send(base, "step", "instruction")
  <2>1. /\ DOMAIN base = DOMAIN ui /\ SameRest(ui, base) /\ ControlTypes(base)
    BY <1>1, <1>3 DEF PageTypes, PageFields, ControlTypes, SameRest, SameControl,
       SameTables, SameEditors, SameListing
  <2>2. /\ Handled(base, u) /\ UNCHANGED <<server, single, user, excused>>
    BY <1>3 DEF Timer, StepAction
  <2> HIDE DEF base
  <2>3. PageTypes(base)
    BY <1>1, <2>1, ControlFrame DEF SameRest
  <2>4. PageTypes(u)
    BY <2>3, SendPage DEF Kinds
  <2>5. ~Truth(ui)
    BY <1>3 DEF Truth, PageTruth
  <2>6. ~overlap' => ~overlap
    BY <2>2 DEF Handled
  <2> HIDE DEF u
  <2> QED BY <2>2, <2>4, <2>5, <2>6, HandlerTells DEF TruthInv
<1> QED BY <1>2, <1>3 DEF AutoStepTimer

(* The file was read: it is posted.                                          *)
LEMMA FileReadTells == ASSUME Inv, TruthInv, FileRead PROVE TruthInv'
<1> DEFINE base == [ui EXCEPT !.reading = FALSE]
<1>1. PageTypes(ui) /\ ui.reading
  BY DEF Inv, PageInv, FileRead
<1>2. /\ DOMAIN base = DOMAIN ui /\ SameRest(ui, base) /\ ControlTypes(base)
      /\ base.pollSession = ui.pollSession /\ base.pollStep = ui.pollStep
      /\ base.strayTimers = ui.strayTimers /\ base.autoTimer = ui.autoTimer
  BY <1>1 DEF PageTypes, PageFields, ControlTypes, SameRest, SameControl,
     SameTables, SameEditors, SameListing
<1>3. /\ Handled(base, Send(base, "upload", Unlisted))
      /\ UNCHANGED <<server, single, user, excused>>
  BY DEF FileRead, Timer
<1>4. Truth(ui) => ui.state = "IDLE" /\ AllStopped
  BY <1>1 DEF Truth, PageTruth, IdleTruth
<1> HIDE DEF base
<1> QED BY <1>2, <1>3, <1>4, TimerTells

(* The state IDLE has no session, and the address none if it had its name.   *)
LEMMA ChangedToIdle ==
  ASSUME NEW u, PageTypes(u), EditorsAgree(u)
  PROVE  LET v == ChangeState(u, "IDLE") IN
         /\ PageTypes(v) /\ SameExchange(u, v) /\ v.state = "IDLE"
         /\ v.session = NoName
         /\ v.hash = IF u.session = NoName THEN u.hash ELSE NoName
<1> DEFINE a == ClearAllHighlight(u)
           b == ClearGutters(a)
           v == ChangeState(u, "IDLE")
<1>1. OnlyEditors(u, a) /\ EditorsAgree(a)
  BY ClearAllHighlightPage
<1> HIDE DEF a
<1>2. OnlyEditors(a, b)
  BY <1>1, ClearGuttersPage DEF OnlyEditors
<1> HIDE DEF b
<1>3. /\ b.session = u.session /\ b.hash = u.hash
      /\ {"session", "hash", "autoStep", "state"} \subseteq DOMAIN b
  BY <1>1, <1>2 DEF OnlyEditors, SameControl, PageTypes, PageFields
<1>4. v = [ForgetSession(b) EXCEPT !.autoStep = FALSE, !.state = "IDLE"]
  BY DEF ChangeState, a, b
<1> HIDE DEF v
<1>5. v.session = NoName /\ v.hash = IF u.session = NoName THEN u.hash ELSE NoName
  BY <1>3, <1>4 DEF ForgetSession
<1>6. PageTypes(v) /\ SameExchange(u, v) /\ v.state = "IDLE"
  BY ChangeStatePage DEF v
<1> QED BY <1>5, <1>6 DEF v

(* startApp asks for the session the address names.                          *)
LEMMA StartAppTells == ASSUME Inv, TruthInv, StartApp PROVE TruthInv'
<1> DEFINE c == ChangeState(ui, "IDLE")
           a == [[c EXCEPT !.session = ui.hash] EXCEPT !.pollTries = 0]
           again == FALSE
           w == Send(a, "session-state", again)
           r == Request("session-state", a.session, again)
           u == LoadCode(w)
<1>1. PageTypes(ui) /\ PageAgrees(ui) /\ ui.state = "INIT"
  BY DEF Inv, PageInv, StartApp
<1>2. Handled(ui, u) /\ UNCHANGED <<server, single, user, excused>>
  BY DEF StartApp, Timer, PollSessionState
<1>3. /\ PageTypes(c) /\ SameExchange(ui, c) /\ SameTables(ui, c) /\ EditorsAgree(c)
      /\ Dark(c.compiled) /\ c.state = "IDLE"
  BY <1>1, ChangeStatePage DEF PageAgrees
<1>4. ui.session = NoName => c.hash = ui.hash
  BY <1>1, ChangedToIdle DEF PageAgrees
<1> HIDE DEF c
<1>5. PageAgrees(c)
  BY <1>1, <1>3, PagesAlike DEF PageAgrees, Dark, OneLit
<1>6. /\ DOMAIN a = DOMAIN c /\ SameTables(c, a) /\ SameEditors(c, a)
      /\ a.requests = c.requests /\ ControlTypes(a) /\ a.state = c.state
      /\ a.session = ui.hash /\ a.hash = c.hash /\ a.pollTries = 0
      /\ a.pollSession = c.pollSession /\ a.pollStep = c.pollStep
      /\ a.reading = c.reading
      /\ a.autoTimer = c.autoTimer /\ a.strayTimers = c.strayTimers
  BY <1>1, <1>3, WebUIAssumption DEF PageTypes, PageFields, ControlTypes,
     SameTables, SameEditors, SameListing
<1> HIDE DEF a, again
<1>7. PageTypes(a) /\ PageAgrees(a)
  BY <1>3, <1>5, <1>6, ControlFrame
<1>8. /\ PageTypes(w) /\ PageAgrees(w) /\ SamePolls(a, w) /\ Asks(a, w, r)
      /\ SameControl(a, w)
      /\ r.live /\ r.resp = NoAnswer /\ r.kind = "session-state" /\ r.sid = a.session
  BY <1>7, Posted DEF Kinds
<1>9. w.autoTimer = a.autoTimer /\ w.strayTimers = a.strayTimers
  BY <1>7, SendPage DEF Kinds
<1> HIDE DEF w, r
<1>10. PageTypes(u) /\ SameExchange(w, u) /\ SameControl(w, u)
  BY <1>8, LoadCodePage
<1> HIDE DEF u
<1>11. /\ Asks(ui, u, r) /\ u.pollSession = ui.pollSession /\ u.pollStep = ui.pollStep
       /\ u.reading = ui.reading /\ u.pollTries = 0
       /\ u.autoTimer = ui.autoTimer /\ u.strayTimers = ui.strayTimers
       /\ u.state = "IDLE" /\ u.session = ui.hash /\ u.hash = c.hash
       /\ r.sid = u.session
  BY <1>3, <1>6, <1>8, <1>9, <1>10 DEF SameExchange, SamePolls, SameControl, Asks
<1>12. ASSUME ~overlap, ~excused', ~Busy(ui)
       PROVE  AtEase(u) /\ AtRest(u) /\ RequestTruth(u, r)
  <2>1. Truth(ui)
    BY <1>2, <1>12 DEF TruthInv
  <2>2. /\ LiveIn(ui) = {} /\ ui.session = NoName /\ Others(ui.hash)
        /\ ~ui.autoTimer /\ ui.strayTimers = 0
    BY <1>1, <2>1 DEF Truth, InitTruth, PageTruth
  <2>3. Unstopped(ui.hash)
    BY <2>1, <2>2 DEF Truth, PageTruth, StoppedFor
  <2>4. AtEase(u) /\ AtRest(u)
    BY <1>4, <1>11, <2>2, <2>3 DEF AtEase, AtRest
  <2>5. RequestTruth(u, r)
    BY <1>8, <1>11, <2>2, RequestMade
  <2> QED BY <2>4, <2>5
<1> QED BY <1>1, <1>2, <1>8, <1>10, <1>11, <1>12, AskingTells

(* The page is loaded again while nothing is under way.                      *)
LEMMA ReloadTells == ASSUME Inv, TruthInv, Reload PROVE TruthInv'
<1> DEFINE B == Abandoned(ui.requests)
           u == [Page(ui.hash) EXCEPT !.requests = B]
<1>1. PageTypes(ui) /\ ui.state # "INIT"
  BY DEF Inv, PageInv, Reload, Event
<1>2. /\ Handled(ui, u) /\ UNCHANGED <<server, single, user>>
      /\ ~overlap' => ~overlap
      /\ ~excused' => ~excused /\ ~Busy(ui) /\ ~ui.autoTimer
  BY DEF Reload, Event, Handled
<1>3. /\ IsABag(B)
      /\ \A d \in BagToSet(B) : RequestType(d) /\ ~d.live
  BY <1>1, AbandonedTypes
<1> HIDE DEF B
<1>4. Fresh(u) /\ u.requests = B /\ u.hash = ui.hash
  BY DEF Page, PageFields, Fresh
<1> HIDE DEF u
<1>5. Outstanding(u) = BagToSet(B) /\ LiveIn(u) = {}
  BY <1>3, <1>4 DEF Outstanding, LiveIn
<1>6. PageTypes(u)
  <2>1. ui.hash \in Session \union {NoName} /\ RequestTypes(u)
    BY <1>1, <1>3, <1>4, <1>5 DEF PageTypes, ControlTypes, RequestTypes
  <2> QED BY <1>4, <2>1, FreshPage
<1>7. ASSUME ~overlap', ~excused'
      PROVE  Truth(u)
  <2>1. AtEase(ui) /\ Truth(ui) /\ LiveIn(ui) = {} /\ ui.pollSession = 0
    BY <1>1, <1>2, <1>7, IdleIsEase
  <2>2. Others(ui.hash)
    <3>1. CASE ui.state = "DEBUG"
      BY <2>1, <3>1 DEF AtEase
    <3>2. CASE ui.state = "IDLE"
      BY <2>1, <3>2 DEF Truth, IdleTruth, AllStopped, Others
    <3> QED BY <2>1, <3>1, <3>2 DEF AtEase
  <2>3. Unstopped(ui.hash)
    BY <2>1 DEF AtEase
  <2>4. PageTruth(u)
    BY <1>4, <2>3 DEF PageTruth, Fresh
  <2>5. InitTruth(u)
    BY <1>4, <1>5, <2>2 DEF InitTruth, Fresh
  <2>6. IdleTruth(u) /\ DebugTruth(u)
    BY <1>4 DEF IdleTruth, DebugTruth, Fresh
  <2> QED BY <1>5, <2>4, <2>5, <2>6 DEF Truth
<1>8. ~excused' => ~excused
  BY <1>2
<1>9. ~overlap' /\ ~excused' => Truth(u)
  BY <1>7
<1> QED BY <1>2, <1>6, <1>8, <1>9, HandlerTells

-----------------------------------------------------------------------------
(* An answer is applied *)

\* The page as its exchange ends, and the answer it was alone with.
Answering(base, r) ==
  /\ PageTypes(base) /\ PageAgrees(base) /\ ~base.threw
  /\ RequestType(r) /\ r.resp \in AnswerType /\ RequestTruth(base, r)
  /\ LiveIn(base) = {} /\ base.pollSession = 0 /\ base.pollStep = 0 /\ ~base.reading
  /\ base.strayTimers = 0 /\ base.hash = base.session
  /\ r.kind = "session-state" => Dark(base.source)
  /\ r.kind = "step-state" => base.pollTries = 0
  /\ r.kind # "stop" => AtEase(base)
  /\ r.kind = "stdin" => AtRest(base)
  /\ r.kind = "breakpoint" =>
       \A s \in Named(base.session) : PositionShown(base, server[s])
  /\ \A s \in Session : Fits(server[s])

(* What is true of the page an answer is applied to.                         *)
LEMMA AnsweringAlone ==
  ASSUME Inv, TruthInv, ~overlap, ~excused, NEW r \in Outstanding(ui),
         r.resp # NoAnswer,
         NEW base, base = [ui EXCEPT !.requests = @ (-) SetToBag({r})]
  PROVE  Answering(base, r)
<1>1. PageTypes(ui) /\ PageAgrees(ui) /\ ~ui.threw /\ r.live
  BY DEF Inv, PageInv, AnswersLive
<1>2. /\ PageTypes(base) /\ SameControl(ui, base) /\ SameTables(ui, base)
      /\ SameEditors(ui, base) /\ SamePolls(ui, base) /\ base.threw = ui.threw
      /\ Lone(ui) => LiveIn(base) = {} /\ base.pollSession = 0 /\ base.pollStep = 0
  BY <1>1, AnsweredIsGone
<1>3. base.autoTimer = ui.autoTimer /\ base.strayTimers = ui.strayTimers
  BY <1>1 DEF PageTypes, PageFields
<1>4. PageAgrees(base)
  BY <1>1, <1>2, PagesAlike DEF PageAgrees, SameEditors
<1>5. RequestType(r)
  BY <1>1 DEF PageTypes, RequestTypes
<1>6. OneExchange(ui) /\ r \in LiveIn(ui)
  BY <1>1 DEF Inv, LiveIn
<1>7. LiveIn(ui) = {r} /\ ui.pollSession = 0 /\ ui.pollStep = 0
  BY <1>6 DEF OneExchange, Lone
<1>8. Truth(ui) /\ RequestTruth(ui, r) /\ \A s \in Session : Fits(server[s])
  BY <1>6 DEF TruthInv, Truth
<1>9. r.resp \in AnswerType
  <2>1. r.resp.is # "error" /\ r.resp.is \in {"none", "error", "data"}
    BY <1>5, <1>8 DEF RequestTruth, RequestType
  <2> QED BY <1>5, <2>1 DEF RequestType
<1>10. ui.state # "INIT" /\ ui.state \in {"IDLE", "DEBUG"}
  BY <1>1, <1>7, <1>8 DEF Truth, InitTruth, PageTypes, ControlTypes
<1>11. ui.strayTimers = 0 /\ ui.hash = ui.session /\ ~ui.reading
  BY <1>7, <1>8, <1>10 DEF Truth, PageTruth
<1>12. RequestTruth(base, r)
  <2>1. \A x : BreakpointsShown(ui, x) => BreakpointsShown(base, x)
    BY <1>2, ShownAlike DEF SameEditors
  <2> QED BY <1>2, <1>3, <1>8, <2>1 DEF RequestTruth, CompileTruth, SessionTruth,
       StepTruth, StepStateTruth, StopTruth, BreakpointTruth, StdinTruth,
       SameControl, SamePolls, SameEditors, SameListing
<1>13. r.kind = "session-state" => Dark(base.source)
  BY <1>2, <1>6 DEF OneExchange, SourceLit, AwaitsSession, SameEditors
<1>14. r.kind = "step-state" => base.pollTries = 0
  BY <1>2, <1>6 DEF OneExchange, Own, SamePolls
<1>15. r.kind # "stop" => AtEase(base)
  <2>1. r.kind # "stop" => AtEase(ui)
    BY <1>1, <1>7, <1>8, <1>10, TruthIsEase
  <2> QED BY <1>2, <1>3, <2>1, EaseAlike DEF SameControl
<1>16. r.kind = "stdin" => AtRest(base)
  <2>1. r.kind = "stdin" => AtRest(ui)
    BY <1>1, <1>7, <1>8, <1>10, TruthIsEase
  <2> QED BY <1>2, <1>3, <2>1, EaseAlike DEF SameControl
<1>17. ASSUME r.kind = "breakpoint", NEW s \in Named(base.session)
       PROVE  PositionShown(base, server[s])
  <2>1. ui.state = "DEBUG" /\ ~Moving(ui) /\ s \in Named(ui.session)
    BY <1>2, <1>7, <1>8, <1>17 DEF RequestTruth, BreakpointTruth, Moving, SameControl
  <2>2. PositionShown(ui, server[s])
    BY <1>8, <2>1 DEF Truth, DebugTruth
  <2> QED BY <1>2, <2>2, ShownAlike DEF SameEditors
<1> QED BY <1>1, <1>2, <1>3, <1>4, <1>5, <1>6, <1>8, <1>9, <1>11, <1>12, <1>13,
        <1>14, <1>15, <1>16, <1>17 DEF Answering, OneExchange, SameControl, SamePolls

(* The page has failed or was stopped: nothing is left running.              *)
LEMMA FailureTells ==
  ASSUME NEW u, PageTypes(u), PageAgrees(u), LiveIn(u) = {}, u.pollSession = 0,
         u.pollStep = 0, ~u.reading, u.strayTimers = 0, u.hash = u.session,
         AllStopped, NEW v, v = ChangeState(u, "IDLE"), ~v.autoTimer
  PROVE  Truth(v)
<1>1. /\ SameExchange(u, v) /\ v.state = "IDLE" /\ v.session = NoName
      /\ v.hash = IF u.session = NoName THEN u.hash ELSE NoName
  BY ChangedToIdle DEF PageAgrees
<1>2. v.hash = NoName
  BY <1>1
<1>3. Unstopped(NoName)
  <2>1. NoName \notin Session
    BY DEF NoName, Session
  <2> QED BY <2>1 DEF Unstopped, Named, Live
<1>4. LiveIn(v) = {} /\ v.pollSession = 0 /\ v.pollStep = 0 /\ ~v.reading
      /\ v.strayTimers = 0
  BY <1>1 DEF LiveIn, Outstanding, SameExchange
<1>5. AtEase(v) /\ AtRest(v)
  BY <1>1, <1>2, <1>3, <1>4 DEF AtEase, AtRest
<1> QED BY <1>4, <1>5, TruthRests

(* A session was created: its state is to be asked for.                      *)
LEMMA CreatedTells ==
  ASSUME NEW base, NEW r, Answering(base, r), r.kind \in {"compile", "upload"},
         r.resp.ok
  PROVE  Truth(Compiled(base, r.resp))
<1> DEFINE data == r.resp
           c == ClearAllHighlight(base)
           n == [c EXCEPT !.session = data.session, !.hash = data.session]
           v == LaterPollSession(n)
<1>1. /\ base.state = "IDLE" /\ data.ok /\ Others(data.session)
      /\ Unstopped(data.session)
  <2>1. data # NoAnswer
    BY DEF Answering, AnswerType, NoAnswer
  <2> QED BY <2>1 DEF Answering, RequestTruth, CompileTruth
<1>2. /\ PageTypes(base) /\ ~base.autoTimer /\ base.strayTimers = 0
      /\ LiveIn(base) = {} /\ base.pollSession = 0 /\ base.pollStep = 0 /\ ~base.reading
  BY <1>1 DEF Answering, AtEase
<1>3. PageTypes(c) /\ SameControl(base, c) /\ SameExchange(base, c)
  BY <1>2, ClearAllHighlightPage DEF OnlyEditors, Answering, PageAgrees
<1>4. Compiled(base, data) = v
  BY <1>1 DEF Compiled
<1> HIDE DEF c
<1>5. /\ v.session = data.session /\ v.hash = data.session /\ v.state = c.state
      /\ v.autoTimer = c.autoTimer /\ v.strayTimers = c.strayTimers
      /\ v.pollSession = c.pollSession + 1 /\ v.pollStep = c.pollStep
      /\ v.reading = c.reading /\ v.requests = c.requests
  BY <1>3 DEF LaterPollSession, PageTypes, PageFields
<1> HIDE DEF v
<1>6. /\ v.session = data.session /\ v.hash = data.session /\ v.state = "IDLE"
      /\ ~v.autoTimer /\ v.strayTimers = 0 /\ v.pollSession = 1 /\ v.pollStep = 0
      /\ ~v.reading /\ LiveIn(v) = {}
  BY <1>1, <1>2, <1>3, <1>5 DEF SameControl, SameExchange, LiveIn, Outstanding
<1>7. AtEase(v)
  BY <1>1, <1>6 DEF AtEase
<1> QED BY <1>1, <1>4, <1>6, <1>7, TruthPolls

(* A session was created, or none could be.                                  *)
LEMMA CompiledTells ==
  ASSUME NEW base, NEW r, Answering(base, r), r.kind \in {"compile", "upload"},
         NEW v, v = Compiled(base, r.resp), v.state = "IDLE" => ~v.autoTimer
  PROVE  Truth(v)
<1> DEFINE c == ClearAllHighlight(base)
<1>1. CASE r.resp.ok
  BY <1>1, CreatedTells
<1>2. CASE ~r.resp.ok
  <2>1. v = ChangeState(c, "IDLE")
    BY <1>2 DEF Compiled, RequestFailure
  <2>2. r.resp # NoAnswer
    BY DEF Answering, AnswerType, NoAnswer
  <2>3. AllStopped
    BY <1>2, <2>2 DEF Answering, RequestTruth, CompileTruth
  <2>4. PageTypes(base) /\ PageAgrees(base)
    BY DEF Answering
  <2>5. /\ PageTypes(c) /\ SameControl(base, c) /\ SameExchange(base, c) /\ PageAgrees(c)
    <3>1. /\ PageTypes(c) /\ SameControl(base, c) /\ SameExchange(base, c)
          /\ SameTables(base, c) /\ EditorsAgree(c) /\ Dark(c.compiled)
      BY <2>4, ClearAllHighlightPage DEF OnlyEditors, PageAgrees
    <3> HIDE DEF c
    <3>2. OneLit(c.compiled) /\ Mirrored(c)
      BY <2>4, <3>1, PagesAlike DEF PageAgrees, OneLit, Dark
    <3> QED BY <3>1, <3>2 DEF PageAgrees
  <2>6. c.strayTimers = base.strayTimers
    BY <2>4 DEF ClearAllHighlight, PageTypes, PageFields
  <2> HIDE DEF c
  <2>7. /\ LiveIn(c) = {} /\ c.pollSession = 0 /\ c.pollStep = 0 /\ ~c.reading
        /\ c.strayTimers = 0 /\ c.hash = c.session
    BY <2>5, <2>6 DEF Answering, SameControl, SameExchange, LiveIn, Outstanding
  <2>8. v.state = "IDLE"
    BY <2>1, <2>5, ChangedToIdle DEF PageAgrees
  <2> QED BY <2>1, <2>3, <2>5, <2>7, <2>8, FailureTells
<1> QED BY <1>1, <1>2

(* A page that shows what it was told, and asks for the end if it was told   *)
(* of the end.                                                               *)
LEMMA ShownTells ==
  ASSUME NEW u, PageTypes(u), ~Busy(u), LiveIn(u) = {}, u.pollSession = 0,
         u.pollStep = 0, ~u.reading, u.strayTimers = 0, u.hash = u.session,
         Unstopped(u.session), Others(u.session), NotLost(u.session),
         NEW data, data.done \in BOOLEAN, NEW v, v.state = "DEBUG",
         v.session = u.session, v.hash = u.hash, v.strayTimers = 0, SamePolls(u, v),
         ~data.done => v.requests = u.requests,
         data.done => ~v.autoTimer /\ Asks(u, v, Request("stop", u.session, Unlisted)),
         \A s \in Named(u.session) :
           /\ Documents(v, server[s]) /\ PositionShown(v, server[s])
           /\ BreakpointsShown(v, server[s])
  PROVE  Truth(v)
<1>1. AtEase(v) /\ AtRest(v)
  BY DEF AtEase, AtRest
<1>2. v.pollSession = 0 /\ v.pollStep = 0 /\ ~v.reading
  BY DEF SamePolls
<1>3. CASE ~data.done
  <2>1. LiveIn(v) = {}
    BY <1>3 DEF LiveIn, Outstanding
  <2> QED BY <1>1, <1>2, <2>1, TruthRests
<1>4. CASE data.done
  <2> DEFINE q == Request("stop", u.session, Unlisted)
  <2>1. q.live /\ q.resp = NoAnswer /\ q.kind = "stop" /\ q.sid = u.session
    BY DEF Request
  <2>2. Asks(u, v, q)
    BY <1>4
  <2> HIDE DEF q
  <2>3. LiveIn(v) = {q}
    BY <1>2, <2>1, <2>2, AskedAlone
  <2>4. RequestTruth(v, q)
    BY <1>4, <2>1, RequestMade
  <2> QED BY <1>1, <1>2, <2>1, <2>3, <2>4, TruthAsked
<1> QED BY <1>3, <1>4

(* The state of the session: it is shown, it is asked for again, or there    *)
(* is none.                                                                  *)
LEMMA SessionStatedTells ==
  ASSUME NEW base, NEW r, Answering(base, r), r.kind = "session-state",
         NEW again, again = r.arg, NEW v, v = SessionStated(base, r.resp, again),
         base.popup = "loading" => ~v.threw
  PROVE  Truth(v)
<1> DEFINE data == r.resp
<1>1. /\ data # NoAnswer /\ data \in AnswerType
      /\ data.ok \in BOOLEAN /\ data.compile \in BOOLEAN /\ data.done \in BOOLEAN
  BY DEF Answering, AnswerType, NoAnswer
<1>2. /\ base.state = "IDLE" /\ base.pollTries = 0 /\ Others(base.session)
      /\ IF data.ok /\ data.compile
         THEN /\ NotLost(base.session)
              /\ data.bkpts \subseteq Instructions(data.listing)
              /\ \A s \in Named(base.session) :
                   server[s].st = "ready" /\ data = FullState(server[s])
         ELSE AllStopped \/ (~data.ok /\ (data.retry \/ again))
  BY <1>1 DEF Answering, RequestTruth, SessionTruth
<1>3. /\ PageTypes(base) /\ PageAgrees(base) /\ ~base.threw /\ Dark(base.source)
      /\ LiveIn(base) = {} /\ base.pollSession = 0 /\ base.pollStep = 0
      /\ ~base.reading /\ base.strayTimers = 0 /\ base.hash = base.session
      /\ AtEase(base) /\ Unstopped(base.session)
  BY DEF Answering, AtEase
<1>4. ~Busy(base)
  BY <1>3 DEF Busy, LiveIn
<1> HIDE DEF data
<1>5. v = SessionStated(base, data, again)
  BY DEF data
<1>6. CASE data.ok /\ data.compile
  <2>1. /\ base.popup = "loading" => v.threw
        /\ base.popup # "loading" =>
             /\ v.state = "DEBUG" /\ EndsOrStops(base, v, data)
             /\ \A x : x.st = "ready" /\ x.program \in Programs
                        /\ data = FullState(x) =>
                  Documents(v, x) /\ PositionShown(v, x) /\ BreakpointsShown(v, x)
    BY <1>1, <1>2, <1>3, <1>5, <1>6, SessionStatedShows
  <2>2. /\ v.state = "DEBUG" /\ EndsOrStops(base, v, data)
        /\ \A x : x.st = "ready" /\ x.program \in Programs
                   /\ data = FullState(x) =>
             Documents(v, x) /\ PositionShown(v, x) /\ BreakpointsShown(v, x)
    BY <2>1
  <2>3. ASSUME NEW s \in Named(base.session)
        PROVE  /\ Documents(v, server[s]) /\ PositionShown(v, server[s])
               /\ BreakpointsShown(v, server[s])
    <3>1. s \in Session
      BY DEF Named, Live
    <3>2. server[s].st = "ready" /\ server[s].program \in Programs
          /\ data = FullState(server[s])
      BY <1>2, <1>6, <3>1 DEF Answering, Fits
    <3> QED BY <2>2, <3>2
  <2> QED BY <1>1, <1>2, <1>3, <1>4, <1>6, <2>2, <2>3, ShownTells DEF EndsOrStops
<1>7. CASE data.ok /\ ~data.compile
  <2>1. v = ShowFailures(base, data)
    BY <1>5, <1>7 DEF SessionStated
  <2>2. OnlyEditors(base, v) /\ AllStopped
    BY <1>1, <1>2, <1>3, <1>7, <2>1, ShowFailuresPage DEF PageAgrees
  <2>3. /\ AtEase(v) /\ AtRest(v) /\ LiveIn(v) = {} /\ v.pollSession = 0
        /\ v.pollStep = 0 /\ ~v.reading
    BY <1>2, <1>3, <2>2 DEF AtEase, AtRest, OnlyEditors, SameControl, SameExchange,
       LiveIn, Outstanding
  <2> QED BY <2>2, <2>3, TruthRests
<1>8. CASE ~data.ok /\ (again \/ data.retry)
  <2> DEFINE a == [base EXCEPT !.pollTries = @ + 1]
  <2>1. ~(base.pollTries > MaxPollTries)
    BY <1>2, WebUIAssumption
  <2>2. v = LaterPollSession(a)
    BY <1>5, <1>8, <2>1 DEF SessionStated
  <2>3. /\ PageTypes(a) /\ SameControl(base, a) /\ a.requests = base.requests
        /\ a.reading = base.reading /\ a.pollStep = base.pollStep
        /\ a.pollSession = base.pollSession
    BY <1>3, <2>1, TryCounted
  <2>4. a.autoTimer = base.autoTimer /\ a.strayTimers = base.strayTimers
    BY <1>3 DEF PageTypes, PageFields
  <2> HIDE DEF a
  <2>5. /\ SameControl(a, v) /\ v.requests = a.requests /\ v.reading = a.reading
        /\ v.pollSession = a.pollSession + 1 /\ v.pollStep = a.pollStep
    BY <2>2, <2>3, LaterPollSessionPage
  <2>6. v.autoTimer = a.autoTimer /\ v.strayTimers = a.strayTimers
    BY <2>2, <2>3 DEF LaterPollSession, PageTypes, PageFields
  <2>7. /\ AtEase(v) /\ LiveIn(v) = {} /\ v.pollSession = 1 /\ v.pollStep = 0
        /\ ~v.reading /\ v.state = "IDLE" /\ Others(v.session)
    BY <1>2, <1>3, <2>3, <2>4, <2>5, <2>6 DEF AtEase, SameControl, LiveIn, Outstanding
  <2> QED BY <2>7, TruthPolls
<1>9. CASE ~data.ok /\ ~(again \/ data.retry)
  <2>1. v = base /\ AllStopped
    BY <1>2, <1>5, <1>9 DEF SessionStated
  <2>2. AtRest(v)
    BY <1>2, <2>1 DEF AtRest
  <2> QED BY <1>3, <2>1, <2>2, TruthRests
<1> QED BY <1>1, <1>6, <1>7, <1>8, <1>9

(* A step is under way: its state is to be asked for.                        *)
LEMMA StepPolled ==
  ASSUME NEW base, PageTypes(base), AtEase(base), LiveIn(base) = {},
         base.pollSession = 0, base.pollStep = 0, ~base.reading,
         base.state = "DEBUG", NEW a, a = base \/ a = [base EXCEPT !.pollTries = @ + 1],
         PageTypes(a), NEW v, v = LaterPollStep(a)
  PROVE  Truth(v)
<1>1. /\ SameControl(base, a) /\ SameEditors(base, a) /\ a.requests = base.requests
      /\ a.reading = base.reading /\ a.pollStep = base.pollStep
      /\ a.pollSession = base.pollSession
      /\ a.autoTimer = base.autoTimer /\ a.strayTimers = base.strayTimers
  BY DEF PageTypes, PageFields, SameControl, SameEditors, SameListing
<1>2. /\ SameControl(a, v) /\ SameEditors(a, v) /\ v.requests = a.requests
      /\ v.reading = a.reading /\ v.pollStep = a.pollStep + 1
      /\ v.pollSession = a.pollSession
  BY LaterPollStepPage
<1>3. v.autoTimer = a.autoTimer /\ v.strayTimers = a.strayTimers
  BY DEF LaterPollStep, PageTypes, PageFields
<1>4. /\ LiveIn(v) = {} /\ v.pollStep = 1 /\ v.pollSession = 0 /\ ~v.reading
      /\ v.state = "DEBUG"
  BY <1>1, <1>2 DEF SameControl, LiveIn, Outstanding
<1>5. AtEase(v)
  <2>1. /\ v.state = base.state /\ v.session = base.session /\ v.hash = base.hash
        /\ v.strayTimers = base.strayTimers /\ v.autoTimer = base.autoTimer
        /\ SameEditors(base, v)
    BY <1>1, <1>2, <1>3 DEF SameControl, SameEditors, SameListing
  <2> QED BY <2>1, EaseAlike
<1> QED BY <1>4, <1>5, TruthPolls

(* The state after a step: it is shown, or asked for again.                  *)
LEMMA StepStatedTells ==
  ASSUME NEW base, NEW r, Answering(base, r), r.kind = "step-state",
         NEW v, v = StepStated(base, r.resp),
         base.popup = "loading" => ~v.threw, ~(v.strayTimers > base.strayTimers)
  PROVE  Truth(v)
<1> DEFINE data == r.resp
<1>1. data # NoAnswer /\ data \in AnswerType /\ data.ok \in BOOLEAN /\ data.done \in BOOLEAN
  BY DEF Answering, AnswerType, NoAnswer
<1>2. /\ base.state = "DEBUG" /\ base.pollTries = 0
      /\ data.ok => data.bkpts \subseteq DOMAIN base.disasmMap
                    /\ \A s \in Named(base.session) : data = StepState(server[s])
  BY <1>1 DEF Answering, RequestTruth, StepStateTruth
<1>3. /\ PageTypes(base) /\ PageAgrees(base) /\ ~base.threw
      /\ LiveIn(base) = {} /\ base.pollSession = 0 /\ base.pollStep = 0
      /\ ~base.reading /\ base.strayTimers = 0 /\ base.hash = base.session
      /\ AtEase(base) /\ Unstopped(base.session)
  BY DEF Answering, AtEase
<1>4. ~Busy(base)
  BY <1>3 DEF Busy, LiveIn
<1>5. /\ Others(base.session) /\ NotLost(base.session)
      /\ \A s \in Named(base.session) : Documents(base, server[s])
  BY <1>2, <1>3 DEF AtEase
<1> HIDE DEF data
<1>6. v = StepStated(base, data)
  BY DEF data
<1>7. CASE data.ok
  <2>1. /\ base.popup = "loading" => v.threw
        /\ base.popup # "loading" =>
             /\ v.state = base.state /\ v.session = base.session /\ v.hash = base.hash
             /\ SamePolls(base, v)
             /\ v.strayTimers = base.strayTimers \/ v.strayTimers = base.strayTimers + 1
             /\ ~data.done => v.requests = base.requests
             /\ data.done =>
                  ~v.autoTimer /\ Asks(base, v, Request("stop", base.session, Unlisted))
             /\ \A x : Documents(base, x) /\ x.program \in Programs
                        /\ data = StepState(x) =>
                  Documents(v, x) /\ PositionShown(v, x) /\ BreakpointsShown(v, x)
    BY <1>1, <1>2, <1>3, <1>6, <1>7, StepStatedShows
  <2>2. base.popup # "loading" /\ v.strayTimers = 0
    BY <1>3, <2>1
  <2>3. ASSUME NEW s \in Named(base.session)
        PROVE  /\ Documents(v, server[s]) /\ PositionShown(v, server[s])
               /\ BreakpointsShown(v, server[s])
    <3>1. s \in Session /\ Documents(base, server[s])
      BY <1>5 DEF Named, Live
    <3>2. server[s].program \in Programs /\ data = StepState(server[s])
      BY <1>2, <1>7, <3>1 DEF Answering, Fits, Documents
    <3> QED BY <2>1, <2>2, <3>1, <3>2
  <2> QED BY <1>1, <1>2, <1>3, <1>4, <1>5, <2>1, <2>2, <2>3, ShownTells
<1>8. CASE ~data.ok
  <2> DEFINE a == [base EXCEPT !.pollTries = @ + 1]
  <2>1. ~(base.pollTries > MaxPollTries)
    BY <1>2, WebUIAssumption
  <2>2. v = LaterPollStep(a)
    BY <1>6, <1>8, <2>1 DEF StepStated
  <2>3. PageTypes(a)
    BY <1>3, <2>1, TryCounted
  <2> QED BY <1>2, <1>3, <2>2, <2>3, StepPolled
<1> QED BY <1>1, <1>7, <1>8

(* A page whose exchange failed, or ended with the session.                  *)
LEMMA EndTells ==
  ASSUME NEW base, NEW r, Answering(base, r), AllStopped,
         NEW v, v = ChangeState(base, "IDLE"), ~v.autoTimer
  PROVE  Truth(v)
BY FailureTells DEF Answering

(* The breakpoints are shown, or could not be set.                           *)
LEMMA BreakpointAnsweredTells ==
  ASSUME NEW base, NEW r, Answering(base, r), r.kind = "breakpoint",
         NEW v, v = BreakpointAnswered(base, r.resp),
         v.state = "IDLE" => ~v.autoTimer
  PROVE  Truth(v)
<1> DEFINE data == r.resp
<1>1. /\ data # NoAnswer /\ data \in AnswerType /\ data.ok \in BOOLEAN
      /\ data.error \in BOOLEAN
  BY DEF Answering, AnswerType, NoAnswer
<1>2. /\ base.state = "DEBUG" /\ data.bkpts \subseteq DOMAIN base.disasmMap
      /\ \A s \in Named(base.session) :
           IF data.ok THEN data.bkpts = WithBreakpoints(Answer, server[s]).bkpts
             /\ data.bkptLines = WithBreakpoints(Answer, server[s]).bkptLines
           ELSE BreakpointsShown(base, server[s])
      /\ data.error => ~data.ok /\ AllStopped
  BY <1>1 DEF Answering, RequestTruth, BreakpointTruth
<1>3. /\ PageTypes(base) /\ PageAgrees(base) /\ ~base.threw
      /\ LiveIn(base) = {} /\ base.pollSession = 0 /\ base.pollStep = 0
      /\ ~base.reading /\ AtEase(base)
      /\ \A s \in Named(base.session) : PositionShown(base, server[s])
  BY DEF Answering
<1>4. \A s \in Named(base.session) : Documents(base, server[s])
  BY <1>2, <1>3 DEF AtEase
<1> HIDE DEF data
<1>5. v = BreakpointAnswered(base, data)
  BY DEF data
<1>6. CASE data.ok
  <2> DEFINE w == BreakpointUpdate(base, data)
  <2>1. /\ OnlyEditors(base, w) /\ SameListing(base, w)
    BY <1>1, <1>3, BreakpointUpdatePage DEF PageAgrees
  <2>2. /\ ~w.threw
        /\ SameText(base.compiled, w.compiled) /\ SameLit(base.compiled, w.compiled)
        /\ Marked(w.compiled) = data.bkpts
        /\ data.bkptLines \subseteq DOMAIN base.source =>
             /\ SameText(base.source, w.source) /\ SameLit(base.source, w.source)
             /\ Marked(w.source) = {base.source[n].num : n \in data.bkptLines}
    BY <1>1, <1>2, <1>3, BreakpointUpdateShows DEF PageAgrees
  <2> HIDE DEF w
  <2>3. v = w
    BY <1>2, <1>5, <1>6, <2>2 DEF BreakpointAnswered, Then, w
  <2>4. ASSUME NEW s \in Named(base.session)
        PROVE  /\ Documents(v, server[s]) /\ PositionShown(v, server[s])
               /\ BreakpointsShown(v, server[s])
    <3> DEFINE x == server[s]
    <3>1. /\ Documents(base, x) /\ PositionShown(base, x)
          /\ data.bkpts = x.map \union x.add
          /\ data.bkptLines = {LineOf(x, b) : b \in x.map \union x.add} \ {0}
      BY <1>2, <1>3, <1>4, <1>6 DEF WithBreakpoints, Answer
    <3>2. x.st = "ready" /\ x.program \in Programs
      BY <3>1 DEF Answering, Fits, Documents, Named, Live
    <3>3. ListingIs(v, x.program.listing)
      BY <2>1, <2>2, <2>3, <3>1, ListingLeft DEF Documents
    <3>4. ASSUME Readable(x)
          PROVE  /\ DocIs(v.source, x.program.source)
                 /\ Highlighted(v.source)
                      = IF x.done THEN {} ELSE {LineOf(x, x.pc)} \ {0}
                 /\ Marked(v.source) = {LineOf(x, b) : b \in x.map \union x.add} \ {0}
      <4> DEFINE text == x.program.source
      <4>1. DocIs(base.source, text)
        BY <3>1, <3>4 DEF Documents
      <4>2. DOMAIN base.source = DOMAIN text
            /\ \A i \in DOMAIN text : base.source[i].num = i
        BY <3>2, <4>1, ProgramLines DEF DocIs
      <4>3. data.bkptLines \subseteq DOMAIN base.source
        BY <3>1, <3>2, <4>2, ProgramLines
      <4>4. /\ SameText(base.source, v.source) /\ SameLit(base.source, v.source)
            /\ Marked(v.source) = {base.source[n].num : n \in data.bkptLines}
        BY <2>2, <2>3, <4>3
      <4>5. {base.source[n].num : n \in data.bkptLines} = data.bkptLines
        BY <4>2, <4>3
      <4>6. DocIs(v.source, text)
        BY <4>1, <4>4, SameShown
      <4>7. Highlighted(v.source) = IF x.done THEN {} ELSE {LineOf(x, x.pc)} \ {0}
        BY <3>1, <3>4, <4>4 DEF PositionShown, SameLit
      <4> QED BY <3>1, <4>4, <4>5, <4>6, <4>7
    <3>5. Highlighted(v.compiled) = Highlighted(base.compiled)
          /\ Marked(v.compiled) = x.map \union x.add
      BY <2>2, <2>3, <3>1 DEF SameLit
    <3> HIDE DEF x
    <3>6. Documents(v, x)
      BY <3>2, <3>3, <3>4 DEF Documents
    <3>7. PositionShown(v, x)
      BY <3>1, <3>4, <3>5 DEF PositionShown
    <3>8. BreakpointsShown(v, x)
      BY <3>4, <3>5 DEF BreakpointsShown
    <3> QED BY <3>6, <3>7, <3>8 DEF x
  <2>5. /\ v.state = base.state /\ v.session = base.session /\ v.hash = base.hash
        /\ v.autoTimer = base.autoTimer /\ v.strayTimers = base.strayTimers
        /\ LiveIn(v) = {} /\ v.pollSession = 0 /\ v.pollStep = 0 /\ ~v.reading
    BY <1>3, <2>1, <2>3 DEF OnlyEditors, SameControl, SameExchange, LiveIn, Outstanding
  <2>6. AtEase(v) /\ AtRest(v)
    BY <1>2, <1>3, <2>4, <2>5 DEF AtEase, AtRest
  <2> QED BY <1>2, <2>5, <2>6, TruthRests
<1>7. CASE ~data.ok /\ data.error
  <2>1. v = ChangeState(base, "IDLE")
    BY <1>3, <1>5, <1>7 DEF BreakpointAnswered, Then, RequestFailure
  <2>2. v.state = "IDLE" /\ AllStopped
    BY <1>2, <1>3, <1>7, <2>1, ChangedToIdle DEF PageAgrees
  <2> QED BY <2>1, <2>2, EndTells
<1>8. CASE ~data.ok /\ ~data.error
  <2>1. v = base
    BY <1>3, <1>5, <1>8 DEF BreakpointAnswered, Then
  <2>2. AtRest(base)
    BY <1>2, <1>3, <1>8 DEF AtRest
  <2> QED BY <1>2, <1>3, <2>1, <2>2, TruthRests
<1> QED BY <1>1, <1>6, <1>7, <1>8

(* An answer is applied.                                                     *)
LEMMA AnswerTells ==
  ASSUME NEW base, NEW r, Answering(base, r), NEW u, u = Answers(base, r),
         ~Excuse(base, r, u)
  PROVE  Truth(u)
<1>1. /\ r.resp.is = "data" /\ r.kind \in Kinds /\ r.resp \in AnswerType
      /\ r.resp # NoAnswer /\ r.resp.ok \in BOOLEAN
  BY DEF Answering, AnswerType, RequestType, Kinds, NoAnswer
<1>2. /\ base.popup = "loading" => ~u.threw
      /\ ~(r.kind = "stdin" /\ ~single)
      /\ ~(u.strayTimers > base.strayTimers)
      /\ r.kind # "stop" /\ u.state = "IDLE" => ~u.autoTimer
  BY DEF Excuse
<1>3. /\ PageTypes(base) /\ PageAgrees(base) /\ EditorsAgree(base)
      /\ LiveIn(base) = {} /\ base.pollSession = 0 /\ base.pollStep = 0
      /\ ~base.reading
  BY DEF Answering, PageAgrees
<1>4. ASSUME AllStopped, u = ChangeState(base, "IDLE"), r.kind # "stop"
      PROVE  Truth(u)
  <2>1. u.state = "IDLE"
    BY <1>3, <1>4, ChangedToIdle
  <2> QED BY <1>2, <1>4, <2>1, EndTells
<1>5. CASE r.kind \in {"compile", "upload"}
  <2>1. u = Compiled(base, r.resp)
    BY <1>1, <1>5 DEF Answers
  <2> QED BY <1>2, <1>5, <2>1, CompiledTells
<1>6. CASE r.kind = "session-state"
  <2>1. u = SessionStated(base, r.resp, r.arg)
    BY <1>1, <1>6 DEF Answers
  <2> QED BY <1>2, <1>6, <2>1, SessionStatedTells
<1>7. CASE r.kind = "step-state"
  <2>1. u = StepStated(base, r.resp)
    BY <1>1, <1>7 DEF Answers
  <2> QED BY <1>2, <1>7, <2>1, StepStatedTells
<1>8. CASE r.kind = "step"
  <2>1. u = IF r.resp.ok THEN LaterPollStep(base) ELSE ChangeState(base, "IDLE")
    BY <1>1, <1>8 DEF Answers, RequestFailure
  <2>2. AtEase(base) /\ base.state = "DEBUG" /\ (~r.resp.ok => AllStopped)
    BY <1>1, <1>8 DEF Answering, RequestTruth, StepTruth
  <2>3. CASE r.resp.ok
    BY <1>3, <2>1, <2>2, <2>3, StepPolled
  <2>4. CASE ~r.resp.ok
    BY <1>4, <1>8, <2>1, <2>2, <2>4
  <2> QED BY <2>3, <2>4
<1>9. CASE r.kind = "stop"
  <2>1. u = ChangeState(base, "IDLE")
    BY <1>1, <1>9 DEF Answers
  <2>2. AllStopped /\ ~base.autoTimer
    BY <1>1, <1>9 DEF Answering, RequestTruth, StopTruth
  <2>3. SameExchange(base, u)
    BY <1>3, <2>1, ChangedToIdle
  <2> QED BY <2>1, <2>2, <2>3, EndTells DEF SameExchange
<1>10. CASE r.kind = "breakpoint"
  <2>1. u = BreakpointAnswered(base, r.resp)
    BY <1>1, <1>10 DEF Answers
  <2> QED BY <1>2, <1>10, <2>1, BreakpointAnsweredTells
<1>11. CASE r.kind = "stdin"
  <2>1. u = IF r.resp.ok THEN base ELSE ChangeState(base, "IDLE")
    BY <1>1, <1>11 DEF Answers, RequestFailure
  <2>2. /\ AtEase(base) /\ AtRest(base) /\ base.state = "DEBUG"
        /\ ~r.resp.ok => AllStopped
    BY <1>1, <1>2, <1>11 DEF Answering, RequestTruth, StdinTruth
  <2>3. CASE r.resp.ok
    BY <1>3, <2>1, <2>2, <2>3, TruthRests
  <2>4. CASE ~r.resp.ok
    BY <1>4, <1>11, <2>1, <2>2, <2>4
  <2> QED BY <2>3, <2>4
<1> QED BY <1>1, <1>5, <1>6, <1>7, <1>8, <1>9, <1>10, <1>11 DEF Kinds

(* The handler of an answer.                                                 *)
LEMMA DeliverTells == ASSUME Inv, TruthInv, Deliver PROVE TruthInv'
<1>1. PICK r \in Outstanding(ui) :
        /\ r.resp # NoAnswer
        /\ LET base == [ui EXCEPT !.requests = @ (-) SetToBag({r})]
               u == Answers(base, r)
           IN Handled(base, u) /\ excused' = (excused \/ Excuse(base, r, u))
        /\ UNCHANGED <<server, single, user, clicks, losses>>
  BY DEF Deliver
<1> DEFINE base == [ui EXCEPT !.requests = @ (-) SetToBag({r})]
           u == Answers(base, r)
<1>2. Handled(base, u) /\ excused' = (excused \/ Excuse(base, r, u))
  BY <1>1
<1> HIDE DEF u
<1>3. u = Answers(base, r)
  BY DEF u
<1> HIDE DEF base
<1>4. base = [ui EXCEPT !.requests = @ (-) SetToBag({r})]
  BY DEF base
<1>5. (~overlap' => ~overlap) /\ (~excused' => ~excused /\ ~Excuse(base, r, u))
  BY <1>2 DEF Handled
<1>6. ~overlap' /\ ~excused' => Truth(u)
  BY <1>1, <1>3, <1>4, <1>5, AnsweringAlone, AnswerTells
<1>7. PageTypes(u)
  <2>1. PageTypes(ui) /\ PageAgrees(ui) /\ ~ui.threw
    BY DEF Inv, PageInv
  <2>2. /\ PageTypes(base) /\ SameTables(ui, base) /\ SameEditors(ui, base)
        /\ base.threw = ui.threw
    BY <1>4, <2>1, AnsweredIsGone
  <2>3. PageAgrees(base) /\ ~base.threw
    BY <2>1, <2>2, PagesAlike DEF PageAgrees, SameEditors
  <2>4. RequestType(r)
    BY <2>1 DEF PageTypes, RequestTypes
  <2> QED BY <1>1, <1>3, <2>2, <2>3, <2>4, AnswersPage
<1> QED BY <1>1, <1>2, <1>5, <1>6, <1>7, HandlerTells

-----------------------------------------------------------------------------
(* The server answers *)

\* A request that is alone is answered, and the page is as it was.
Serving(r) ==
  /\ ~overlap /\ ~excused /\ Truth(ui) /\ RequestTruth(ui, r)
  /\ LiveIn(ui) = {r} /\ ui.pollSession = 0 /\ ui.pollStep = 0
  /\ ui.state \in {"IDLE", "DEBUG"} /\ ui.hash = ui.session
  /\ SameControl(ui, ui') /\ SameEditors(ui, ui')
  /\ \A s \in Session : Fits(server[s])
  /\ \A s \in Session : server[s].stop => server[s].st \in {"ready", "gone"}

\* What is true of the sessions then.
StaysTrue(r) ==
  /\ (\A s \in Session : Fits(server[s]))'
  /\ (\A s \in Session : server[s].stop => server[s].st \in {"ready", "gone"})'
  /\ r.kind # "stop" => Unstopped(ui.hash)'
  /\ ui.state = "DEBUG" =>
       /\ Others(ui.session)' /\ (r.kind # "stop" => NotLost(ui.session)')
       /\ \A s \in Named(ui.session)' :
            /\ Documents(ui, server[s])'
            /\ r.kind \notin {"stop", "step-state", "step"} =>
                 /\ PositionShown(ui, server[s])'
                 /\ r.kind # "breakpoint" => BreakpointsShown(ui, server[s])'

\* And of the answer.
AnswerIsTrue(r, a) ==
  /\ r.kind \in {"compile", "upload"} =>
       IF a.ok THEN \A sid : sid = a.session => Others(sid)' /\ Unstopped(sid)'
       ELSE AllStopped'
  /\ r.kind = "session-state" =>
       /\ Others(ui.session)'
       /\ IF a.ok /\ a.compile
          THEN /\ NotLost(ui.session)' /\ a.bkpts \subseteq Instructions(a.listing)
               /\ \A s \in Named(ui.session)' :
                    server'[s].st = "ready" /\ a = FullState(server[s])'
          ELSE AllStopped' \/ (~a.ok /\ (a.retry \/ r.arg))
  /\ r.kind = "step" => a.ok \/ AllStopped'
  /\ r.kind = "step-state" /\ a.ok =>
       /\ a.bkpts \subseteq DOMAIN ui.disasmMap
       /\ \A s \in Named(ui.session)' : a = StepState(server[s])'
  /\ r.kind = "stop" => AllStopped'
  /\ r.kind = "breakpoint" =>
       /\ a.bkpts \subseteq DOMAIN ui.disasmMap
       /\ \A s \in Named(ui.session)' :
            IF a.ok THEN a.bkpts = WithBreakpoints(Answer, server[s])'.bkpts
              /\ a.bkptLines = WithBreakpoints(Answer, server[s])'.bkptLines
            ELSE BreakpointsShown(ui, server[s])'
       /\ a.error => ~a.ok /\ AllStopped'
  /\ r.kind = "stdin" => a.ok \/ AllStopped' \/ ~single

(* The page a request is answered of.                                        *)
LEMMA AnswerLeaves ==
  ASSUME Inv, TruthInv, ~overlap, ~excused, NEW r \in Outstanding(ui),
         r.resp = NoAnswer, NEW a \in AnswerType, Answered(r, a)
  PROVE  LET q == [r EXCEPT !.resp = a] IN
         /\ Serving(r) /\ LiveIn(ui') = {q}
         /\ q.kind = r.kind /\ q.sid = r.sid /\ q.arg = r.arg /\ q.resp = a
         /\ ui'.autoTimer = ui.autoTimer /\ ui'.strayTimers = ui.strayTimers
         /\ ui'.pollSession = 0 /\ ui'.pollStep = 0 /\ ~ui'.reading
         /\ ui'.pollTries = ui.pollTries
<1> DEFINE q == [r EXCEPT !.resp = a]
           v == [ui EXCEPT !.requests = (@ (-) SetToBag({r})) (+) SetToBag({q})]
<1>1. PageTypes(ui) /\ r.live
  BY DEF Inv, PageInv
<1>11. q.arg = r.arg
  BY <1>1 DEF PageTypes, PageFields, RequestTypes, RequestType
<1>2. ui' = v
  BY <1>1 DEF Answered
<1>3. OneExchange(ui) /\ r \in LiveIn(ui)
  BY <1>1 DEF Inv, LiveIn
<1>4. LiveIn(ui) = {r} /\ ui.pollSession = 0 /\ ui.pollStep = 0
  BY <1>3 DEF OneExchange, Lone
<1>5. /\ PageTypes(v) /\ SameControl(ui, v) /\ SameTables(ui, v)
      /\ SameEditors(ui, v) /\ SamePolls(ui, v) /\ v.threw = ui.threw
      /\ q.kind = r.kind /\ q.sid = r.sid /\ q.live = r.live /\ q.resp = a
      /\ q \in Outstanding(v) /\ Outstanding(v) \subseteq Outstanding(ui) \union {q}
      /\ Lone(ui) /\ r.live => Lone(v) /\ LiveIn(v) = {q}
  BY <1>1, AnswerComes
<1> HIDE DEF q
<1>6. v.autoTimer = ui.autoTimer /\ v.strayTimers = ui.strayTimers
  BY <1>1 DEF PageTypes, PageFields
<1>7. /\ Truth(ui) /\ RequestTruth(ui, r) /\ \A s \in Session : Fits(server[s])
      /\ \A s \in Session : server[s].stop => server[s].st \in {"ready", "gone"}
  BY <1>3 DEF TruthInv, Truth
<1>8. ui.state \in {"IDLE", "DEBUG"} /\ ui.hash = ui.session /\ ~ui.reading
  BY <1>1, <1>4, <1>7 DEF Truth, InitTruth, PageTruth, PageTypes, ControlTypes
<1> HIDE DEF v
<1>9. Serving(r)
  BY <1>2, <1>4, <1>5, <1>7, <1>8 DEF Serving
<1>10. LiveIn(v) = {q}
  BY <1>1, <1>3, <1>5 DEF OneExchange
<1> QED BY <1>2, <1>4, <1>5, <1>6, <1>8, <1>9, <1>10, <1>11 DEF SamePolls, q

(* An answer that is true is known to the page.                              *)
LEMMA ServedTruth ==
  ASSUME Inv, TruthInv, NEW r \in Outstanding(ui), r.resp = NoAnswer,
         NEW a \in AnswerType, Answered(r, a), Remaining, user' = user,
         CreatedInOrder',
         Serving(r) /\ ~excused' => StaysTrue(r) /\ AnswerIsTrue(r, a)
  PROVE  TruthInv'
<1>1. UNCHANGED <<single, user, overlap>> /\ (~excused' => ~excused)
  BY DEF Remaining
<1>2. ASSUME ~overlap, ~excused, ~excused'
      PROVE  /\ (\A s \in Session : Fits(server[s]))'
             /\ (\A s \in Session : server[s].stop => server[s].st \in {"ready", "gone"})'
             /\ Truth(ui)'
  <2> DEFINE q == [r EXCEPT !.resp = a]
  <2>1. /\ Serving(r) /\ LiveIn(ui') = {q}
        /\ q.kind = r.kind /\ q.sid = r.sid /\ q.arg = r.arg /\ q.resp = a
        /\ ui'.autoTimer = ui.autoTimer /\ ui'.strayTimers = ui.strayTimers
        /\ ui'.pollSession = 0 /\ ui'.pollStep = 0 /\ ~ui'.reading
        /\ ui'.pollTries = ui.pollTries
    BY <1>2, AnswerLeaves
  <2> HIDE DEF q
  <2>2. StaysTrue(r) /\ AnswerIsTrue(r, a)
    BY <1>2, <2>1
  <2>3. LiveIn(ui)' = {q} /\ a # NoAnswer /\ a.is = "data"
    BY <2>1 DEF LiveIn, Outstanding, AnswerType, NoAnswer
  <2>4. /\ StoppedFor(ui)' <=> r.kind = "stop"
        /\ Marking(ui)' <=> r.kind = "breakpoint"
        /\ Moving(ui)' <=> r.kind \in {"stop", "step-state", "step"}
    BY <2>1, <2>3 DEF StoppedFor, Marking, Moving
  <2>5. /\ ui'.state = ui.state /\ ui'.session = ui.session /\ ui'.hash = ui.hash
        /\ ui'.disasmMap = ui.disasmMap
    BY <2>1 DEF Serving, SameControl, SameEditors, SameListing
  <2>6. PageTruth(ui)' /\ InitTruth(ui)' /\ IdleTruth(ui)'
    BY <2>1, <2>2, <2>3, <2>4, <2>5 DEF Serving, StaysTrue, Truth, PageTruth,
       InitTruth, IdleTruth
  <2>7. DebugTruth(ui)'
    BY <2>2, <2>4, <2>5 DEF StaysTrue, DebugTruth
  <2>8. RequestTruth(ui, q)'
    <3>1. q.resp.is # "error" /\ q.sid = IF q.kind = "stdin" THEN NoName ELSE ui'.session
      BY <2>1, <2>3, <2>5 DEF Serving, RequestTruth
    <3>2. CompileTruth(ui, q)' /\ SessionTruth(ui, q)'
      BY <2>1, <2>2, <2>3, <2>5 DEF Serving, RequestTruth, CompileTruth, SessionTruth,
         AnswerIsTrue
    <3>3. StepTruth(ui, q)' /\ StepStateTruth(ui, q)'
      BY <2>1, <2>2, <2>3, <2>5 DEF Serving, RequestTruth, StepTruth, StepStateTruth,
         AnswerIsTrue
    <3>4. StopTruth(ui, q)' /\ StdinTruth(ui, q)'
      BY <1>1, <2>1, <2>2, <2>3, <2>5 DEF Serving, RequestTruth, StopTruth, StdinTruth,
         AnswerIsTrue
    <3>5. BreakpointTruth(ui, q)'
      BY <2>1, <2>2, <2>3, <2>5 DEF Serving, RequestTruth, BreakpointTruth,
         AnswerIsTrue
    <3> QED BY <3>1, <3>2, <3>3, <3>4, <3>5 DEF RequestTruth
  <2>9. Truth(ui)'
    BY <2>3, <2>6, <2>7, <2>8 DEF Truth
  <2> QED BY <2>2, <2>9 DEF StaysTrue
<1> QED BY <1>1, <1>2 DEF TruthInv

(* So it is when nothing else moves.                                         *)
LEMMA ServedTells ==
  ASSUME Inv, TruthInv, NEW r \in Outstanding(ui), r.resp = NoAnswer,
         NEW a \in AnswerType, Answered(r, a), Unchanging, CreatedInOrder',
         Serving(r) => StaysTrue(r) /\ AnswerIsTrue(r, a)
  PROVE  TruthInv'
<1>1. Remaining /\ user' = user
  BY DEF Unchanging, Remaining
<1> QED BY <1>1, ServedTruth

\* No session comes, goes or is told to stop.
SameStanding ==
  /\ user' = user /\ single' = single
  /\ \A s \in Session : server'[s].st = server[s].st /\ server'[s].stop = server[s].stop

(* What is true of who was told to stop stays true then.                     *)
LEMMA StandingKept ==
  ASSUME SameStanding
  PROVE  /\ \A sid : /\ Named(sid)' = Named(sid)
                     /\ Others(sid) => Others(sid)'
                     /\ Unstopped(sid) => Unstopped(sid)'
                     /\ NotLost(sid) => NotLost(sid)'
         /\ AllStopped => AllStopped'
         /\ CreatedInOrder => CreatedInOrder'
         /\ (\A s \in Session : server[s].stop => server[s].st \in {"ready", "gone"}) =>
              (\A s \in Session : server[s].stop => server[s].st \in {"ready", "gone"})'
         /\ Stands
<1>1. Live' = Live /\ \A s \in Live : s \in Session
  BY DEF SameStanding, Live
<1>2. \A sid : Named(sid)' = Named(sid) /\ \A s \in Named(sid) : s \in Session
  BY <1>1 DEF SameStanding, Named
<1>3. AllStopped => AllStopped'
  BY <1>1 DEF SameStanding, AllStopped
<1>4. \A sid : Others(sid) => Others(sid)'
  BY <1>1, <1>2 DEF SameStanding, Others
<1>5. \A sid : Unstopped(sid) => Unstopped(sid)'
  BY <1>2 DEF SameStanding, Unstopped
<1>6. Stopping => Stopping'
  BY DEF SameStanding, Stopping
<1>7. \A sid : NotLost(sid) => NotLost(sid)'
  BY <1>2, <1>6 DEF SameStanding, NotLost
<1>8. CreatedInOrder => CreatedInOrder'
  BY <1>1 DEF SameStanding, CreatedInOrder
<1>9. Stands
  BY <1>2, <1>3, <1>4, <1>5, <1>7 DEF Stands, SameStanding
<1> QED BY <1>2, <1>3, <1>4, <1>5, <1>7, <1>8, <1>9 DEF SameStanding

(* A request that moves nothing.                                             *)
LEMMA ServedUnmoved ==
  ASSUME SameStanding, \A s \in Session : SameView(server[s], server'[s]),
         NEW r, r.resp = NoAnswer, Serving(r)
  PROVE  StaysTrue(r)
<1>1. \A sid : /\ Named(sid)' = Named(sid)
               /\ Others(sid) => Others(sid)'
               /\ Unstopped(sid) => Unstopped(sid)'
               /\ NotLost(sid) => NotLost(sid)'
  BY StandingKept
<1>2. ui'.state = ui.state /\ ui'.session = ui.session /\ ui'.hash = ui.hash
  BY DEF Serving, SameControl
<1>3. \A s \in Session : Fits(server'[s])
  BY SeenAlike DEF Serving
<1>4. (\A s \in Session : Fits(server[s]))'
  BY <1>3 DEF Fits, Listed
<1>5. (\A s \in Session : server[s].stop => server[s].st \in {"ready", "gone"})'
  BY StandingKept DEF Serving
<1>6. /\ r.kind # "stop" => ~StoppedFor(ui)
      /\ ~Marking(ui)
      /\ r.kind \notin {"stop", "step-state"} => ~Moving(ui)
  BY DEF Serving, StoppedFor, Marking, Moving
<1>7. r.kind # "stop" => Unstopped(ui.hash)'
  BY <1>1, <1>2, <1>6 DEF Serving, Truth, PageTruth
<1>8. ASSUME ui.state = "DEBUG"
      PROVE  Others(ui.session)' /\ (r.kind # "stop" => NotLost(ui.session)')
  BY <1>1, <1>2, <1>6, <1>8 DEF Serving, Truth, DebugTruth
<1>9. ASSUME ui.state = "DEBUG", NEW s \in Named(ui.session)'
      PROVE  /\ Documents(ui, server[s])'
             /\ r.kind \notin {"stop", "step-state", "step"} =>
                  PositionShown(ui, server[s])' /\ BreakpointsShown(ui, server[s])'
  <2>1. s \in Named(ui.session) /\ s \in Session
    BY <1>1, <1>2, <1>9 DEF Named, Live
  <2>2. /\ Documents(ui, server[s])
        /\ r.kind \notin {"stop", "step-state", "step"} =>
             PositionShown(ui, server[s]) /\ BreakpointsShown(ui, server[s])
    BY <1>6, <1>9, <2>1 DEF Serving, Truth, DebugTruth
  <2>3. /\ Documents(ui', server[s])
        /\ r.kind \notin {"stop", "step-state", "step"} =>
             PositionShown(ui', server[s]) /\ BreakpointsShown(ui', server[s])
    BY <2>2, ShownAlike DEF Serving, SameEditors
  <2>4. /\ Documents(ui', server'[s])
        /\ r.kind \notin {"stop", "step-state", "step"} =>
             PositionShown(ui', server'[s]) /\ BreakpointsShown(ui', server'[s])
    BY <2>1, <2>3, SeenAlike
  <2> QED BY <2>4 DEF Documents, PositionShown, BreakpointsShown, Readable, ListingIs,
       SameStanding
<1> QED BY <1>4, <1>5, <1>7, <1>8, <1>9 DEF StaysTrue

(* A page that asked of the session it is attached to.                       *)
LEMMA ServingDebug ==
  ASSUME NEW r, Serving(r), r.resp = NoAnswer, ui.state = "DEBUG"
  PROVE  /\ Others(ui.session) /\ (r.kind # "stop" => NotLost(ui.session))
         /\ \A s \in Named(ui.session) :
              /\ s \in Session /\ server[s].st = "ready" /\ Documents(ui, server[s])
              /\ r.kind \notin {"stop", "step-state"} =>
                   PositionShown(ui, server[s]) /\ BreakpointsShown(ui, server[s])
         /\ (\A s \in Named(ui.session) : server[s].st # "ready") =>
              Named(ui.session) = {} /\ AllStopped
<1>1. /\ r.kind # "stop" => ~StoppedFor(ui)
      /\ ~Marking(ui)
      /\ r.kind \notin {"stop", "step-state"} => ~Moving(ui)
  BY DEF Serving, StoppedFor, Marking, Moving
<1>2. DebugTruth(ui)
  BY DEF Serving, Truth
<1>3. \A s \in Named(ui.session) : s \in Session
  BY DEF Named, Live
<1>4. Others(ui.session) /\ (r.kind # "stop" => NotLost(ui.session))
  BY <1>1, <1>2 DEF DebugTruth
<1>5. \A s \in Named(ui.session) :
        /\ Documents(ui, server[s])
        /\ r.kind \notin {"stop", "step-state"} =>
             PositionShown(ui, server[s]) /\ BreakpointsShown(ui, server[s])
  BY <1>1, <1>2 DEF DebugTruth
<1>6. \A s \in Named(ui.session) : server[s].st = "ready"
  BY <1>5 DEF Documents
<1>7. Named(ui.session) = {} => AllStopped
  BY <1>4 DEF Others, AllStopped
<1> QED BY <1>3, <1>4, <1>5, <1>6, <1>7

(* The sessions are as they were.                                            *)
LEMMA Unmoved ==
  ASSUME UNCHANGED server, Unchanging
  PROVE  SameStanding /\ \A s \in Session : SameView(server[s], server'[s])
BY DEF SameStanding, SameView, Unchanging

(* An answer that says nothing.                                              *)
LEMMA PlainAnswer ==
  /\ Answer \in AnswerType /\ ~Answer.ok /\ ~Answer.compile /\ ~Answer.retry
  /\ ~Answer.error /\ Answer.bkpts = {}
BY DEF Answer, AnswerType

(* There is no state to tell: the session is gone, or there is to be one.    *)
LEMMA ServeNoStateTells ==
  ASSUME Inv, TruthInv, NEW r \in Outstanding(ui), ServeNoState(r) PROVE TruthInv'
<1>1. /\ r.resp = NoAnswer /\ r.kind \in {"session-state", "step-state"}
      /\ Unchanging /\ UNCHANGED server
  BY DEF ServeNoState, Waiting
<1>2. SameStanding /\ \A s \in Session : SameView(server[s], server'[s])
  BY <1>1, Unmoved
<1>3. CreatedInOrder'
  BY <1>2, StandingKept DEF TruthInv
<1> DEFINE again == TRUE
           a == [Answer EXCEPT !.retry = again]
<1>4. \/ Named(r.sid) = {} /\ Answered(r, Answer)
      \/ Answered(r, a)
      \/ r.kind = "step-state" /\ Answered(r, Answer)
  BY DEF ServeNoState
<1>5. again \in BOOLEAN /\ again
  OBVIOUS
<1> HIDE DEF again
<1>6. a \in AnswerType /\ ~a.ok /\ a.retry
  BY <1>5 DEF Answer, AnswerType
<1> HIDE DEF a
<1>7. ASSUME Serving(r)
      PROVE  StaysTrue(r) /\ (r.kind = "session-state" => Others(ui.session)')
  <2>1. r.kind = "session-state" => Others(ui.session)
    BY <1>7 DEF Serving, RequestTruth, SessionTruth
  <2>2. ui'.session = ui.session
    BY <1>7 DEF Serving, SameControl
  <2>3. r.kind = "session-state" => Others(ui.session)'
    BY <1>2, <2>1, <2>2, StandingKept
  <2> QED BY <1>1, <1>2, <1>7, <2>3, ServedUnmoved
<1>8. CASE Answered(r, a)
  <2>1. Serving(r) => AnswerIsTrue(r, a)
    BY <1>1, <1>6, <1>7 DEF AnswerIsTrue
  <2> QED BY <1>1, <1>3, <1>6, <1>7, <1>8, <2>1, ServedTells
<1>9. CASE /\ Answered(r, Answer)
           /\ r.kind = "session-state" => Named(r.sid) = {}
  <2>1. ASSUME Serving(r), r.kind = "session-state"
        PROVE  AllStopped'
    <3>1. Others(ui.session) /\ r.sid = ui.session
      BY <2>1 DEF Serving, RequestTruth, SessionTruth
    <3>2. AllStopped
      BY <1>9, <2>1, <3>1 DEF Others, AllStopped
    <3> QED BY <1>2, <3>2, StandingKept
  <2>2. Serving(r) => AnswerIsTrue(r, Answer)
    BY <1>1, <1>7, <2>1, PlainAnswer DEF AnswerIsTrue
  <2> QED BY <1>1, <1>3, <1>7, <1>9, <2>2, PlainAnswer, ServedTells
<1> QED BY <1>1, <1>4, <1>8, <1>9

\* A command of session s ends and leaves x.
Leaves(s, x) ==
  /\ server'[s] = x /\ \A t \in Session \ {s} : server'[t] = server[t]
  /\ x.stop = server[s].stop
  /\ x.st = server[s].st \/ (server[s].st = "compile" /\ x.st \in {"failed", "ready"})
  /\ server[s].st = "ready" =>
       x.program = server[s].program /\ x.text = server[s].text
  /\ Fits(server[s]) => Fits(x)

(* What the end of a compilation leaves.                                     *)
LEMMA CompileLeaves ==
  ASSUME Inv, NEW s \in Session, EndCompile(s) PROVE \E x : Leaves(s, x)
<1>1. server[s].st = "compile" /\ server[s] \in SessionType
      /\ server \in [Session -> SessionType]
  BY SessionTypes DEF EndCompile
<1>2. CASE server' = [server EXCEPT ![s].st = "failed"]
  <2> DEFINE x == [server[s] EXCEPT !.st = "failed"]
  <2>1. server' = [server EXCEPT ![s] = x]
    BY <1>2
  <2>2. x.st = "failed" /\ x.stop = server[s].stop
    BY <1>1 DEF SessionType
  <2> HIDE DEF x
  <2>3. Fits(x)
    BY <2>2 DEF Fits
  <2> QED BY <1>1, <2>1, <2>2, <2>3 DEF Leaves
<1>3. CASE \E p \in Programs : LET entry == Min(DOMAIN p.lineOf) IN
             server' = [server EXCEPT ![s].st = "ready", ![s].program = p,
                                      ![s].pc = entry, ![s].map = {entry}]
  <2>1. PICK p \in Programs : LET entry == Min(DOMAIN p.lineOf) IN
          server' = [server EXCEPT ![s].st = "ready", ![s].program = p,
                                   ![s].pc = entry, ![s].map = {entry}]
    BY <1>3
  <2> DEFINE entry == Min(DOMAIN p.lineOf)
             map == {entry}
             x == [server[s] EXCEPT !.st = "ready", !.program = p, !.pc = entry,
                                    !.map = map]
  <2>2. server' = [server EXCEPT ![s] = x]
    BY <2>1
  <2>3. map \subseteq {p.listing[i] : i \in DOMAIN p.listing} \ {-1}
    <3>1. DOMAIN p.lineOf \subseteq Nat \ {0} /\ DOMAIN p.lineOf # {}
      BY WebUIAssumption
    <3>2. entry \in DOMAIN p.lineOf
      BY <3>1, MinIsMember
    <3> QED BY <3>1, <3>2, ProgramsAssumption
  <2> HIDE DEF entry, map
  <2>4. /\ x.st = "ready" /\ x.stop = server[s].stop /\ x.program = p
        /\ x.map = map /\ x.add = server[s].add
    BY <1>1 DEF SessionType
  <2> HIDE DEF x
  <2>5. Fits(server[s]) => Fits(x)
    BY <1>1, <2>3, <2>4 DEF Fits, Listed
  <2> QED BY <1>1, <2>2, <2>4, <2>5 DEF Leaves
<1> QED BY <1>2, <1>3 DEF EndCompile

(* The breakpoints after a step are at instructions.                         *)
LEMMA StepMapsListed ==
  ASSUME NEW x, x.st = "ready", Fits(x), NEW map \in StepMaps(x)
  PROVE  map \subseteq Listed(x)
<1> DEFINE applied == (x.map \union x.add) \ x.remove
<1>1. map \subseteq applied \union x.program.returns
  BY DEF StepMaps
<1>2. applied \subseteq Listed(x)
  BY DEF Fits
<1>3. x.program.returns \subseteq Listed(x)
  BY WebUIAssumption DEF Fits, Listed
<1> QED BY <1>1, <1>2, <1>3

(* What a step leaves: its breakpoints are at instructions.                  *)
LEMMA StepLeaves ==
  ASSUME Inv, NEW s \in Session, EndStep(s) PROVE \E x : Leaves(s, x)
<1>1. server[s].st = "ready" /\ server[s] \in SessionType
      /\ server \in [Session -> SessionType]
  BY SessionTypes DEF EndStep, Inv, ServerAgrees
<1>2. CASE server' = [server EXCEPT ![s].steps = @ - 1, ![s].done = TRUE]
  <2> DEFINE n == server[s].steps - 1
             end == TRUE
             x == [server[s] EXCEPT !.steps = n, !.done = end]
  <2>1. server' = [server EXCEPT ![s] = x]
    BY <1>2
  <2> HIDE DEF n, end
  <2>2. /\ x.st = server[s].st /\ x.stop = server[s].stop
        /\ x.program = server[s].program /\ x.text = server[s].text
        /\ x.map = server[s].map /\ x.add = server[s].add
    BY <1>1 DEF SessionType
  <2> HIDE DEF x
  <2>3. Fits(server[s]) => Fits(x)
    BY <2>2 DEF Fits, Listed
  <2> QED BY <1>1, <2>1, <2>2, <2>3 DEF Leaves
<1>3. CASE \E map \in StepMaps(server[s]), pc \in Listed(server[s]) \union {Unlisted},
              done \in BOOLEAN :
             server' = [server EXCEPT ![s] = Stepped(@, map, pc, done)]
  <2>1. PICK map \in StepMaps(server[s]), pc \in Listed(server[s]) \union {Unlisted},
             done \in BOOLEAN :
          server' = [server EXCEPT ![s] = Stepped(@, map, pc, done)]
    BY <1>3
  <2> DEFINE n == server[s].steps - 1
             none == {}
             x == [server[s] EXCEPT !.steps = n, !.map = map, !.add = none,
                                    !.remove = none, !.pc = pc, !.done = done]
  <2>2. server' = [server EXCEPT ![s] = x] /\ none = {}
    BY <2>1 DEF Stepped
  <2> HIDE DEF n, none
  <2>3. /\ x.st = server[s].st /\ x.stop = server[s].stop
        /\ x.program = server[s].program /\ x.text = server[s].text
        /\ x.map = map /\ x.add = {}
    BY <1>1, <2>2 DEF SessionType
  <2> HIDE DEF x
  <2>4. ASSUME Fits(server[s])
        PROVE  map \subseteq Listed(server[s])
    BY <1>1, <2>1, <2>4, StepMapsListed
  <2>5. Fits(server[s]) => Fits(x)
    BY <1>1, <2>3, <2>4 DEF Fits, Listed
  <2> QED BY <1>1, <2>2, <2>3, <2>5 DEF Leaves
<1> QED BY <1>2, <1>3 DEF EndStep

(* What a line of input leaves.                                              *)
LEMMA InputLeaves ==
  ASSUME Inv, NEW s \in Session, EndInput(s)
  PROVE  \E x : Leaves(s, x) /\ SameView(server[s], x)
<1>1. server[s] \in SessionType /\ server \in [Session -> SessionType]
  BY SessionTypes
<1> DEFINE n == server[s].inputs - 1
           x == [server[s] EXCEPT !.inputs = n]
<1>2. server' = [server EXCEPT ![s] = x]
  BY DEF EndInput
<1> HIDE DEF n
<1>3. SameView(server[s], x) /\ x.stop = server[s].stop
  BY <1>1 DEF SameView, SessionType
<1> HIDE DEF x
<1>4. Fits(server[s]) => Fits(x)
  BY <1>3, SeenAlike
<1> QED BY <1>1, <1>2, <1>3, <1>4 DEF Leaves, SameView

(* What the end of a command leaves.                                         *)
LEMMA CommandLeaves ==
  ASSUME Inv, NEW s \in Session, EndCommand(s) PROVE \E x : Leaves(s, x)
BY CompileLeaves, StepLeaves, InputLeaves DEF EndCommand

(* No command tells a session to stop, or ends it.                           *)
LEMMA LeftStanding ==
  ASSUME NEW s \in Session, NEW x, Leaves(s, x), UNCHANGED <<single, user>>
  PROVE  /\ CreatedInOrder => CreatedInOrder'
         /\ \A sid : Named(sid)' = Named(sid)
         /\ Stands
         /\ (\A t \in Session : Fits(server[t])) => \A t \in Session : Fits(server'[t])
         /\ (\A t \in Session : server[t].stop => server[t].st \in {"ready", "gone"}) =>
              \A t \in Session : server'[t].stop => server'[t].st \in {"ready", "gone"}
<1>1. /\ Live' = Live
      /\ \A t \in Session : /\ server'[t].stop = server[t].stop
                            /\ server'[t].st = "none" <=> server[t].st = "none"
  BY DEF Live, Leaves
<1>2. \A sid : Named(sid)' = Named(sid) /\ \A t \in Named(sid) : t \in Session
  BY <1>1 DEF Named, Live
<1>3. CreatedInOrder => CreatedInOrder'
  BY <1>1 DEF CreatedInOrder
<1>4. Stands
  <2>1. Stopping => Stopping'
    BY <1>1 DEF Stopping
  <2>2. AllStopped => AllStopped'
    BY <1>1 DEF AllStopped, Live
  <2>3. \A sid : /\ Others(sid) => Others(sid)'
                 /\ Unstopped(sid) => Unstopped(sid)'
                 /\ NotLost(sid) => NotLost(sid)'
    BY <1>1, <1>2, <2>1 DEF Others, Unstopped, NotLost, Live
  <2> QED BY <1>2, <2>2, <2>3 DEF Stands
<1>5. (\A t \in Session : Fits(server[t])) => \A t \in Session : Fits(server'[t])
  BY DEF Leaves
<1>6. (\A t \in Session : server[t].stop => server[t].st \in {"ready", "gone"}) =>
        \A t \in Session : server'[t].stop => server'[t].st \in {"ready", "gone"}
  BY DEF Leaves
<1> QED BY <1>2, <1>3, <1>4, <1>5, <1>6

(* The last command ends between the two looks: what was told to retry is    *)
(* still to, and what was not is excused.                                    *)
LEMMA ServeLateTells ==
  ASSUME Inv, TruthInv, NEW r \in Outstanding(ui), ServeLate(r) PROVE TruthInv'
<1>1. /\ r.resp = NoAnswer /\ r.kind \in {"session-state", "step-state"}
      /\ Answered(r, Answer) /\ UNCHANGED <<single, user, clicks, losses, overlap>>
      /\ excused' = (excused \/ (r.kind = "session-state" /\ ~r.arg))
  BY DEF ServeLate, Waiting
<1>2. PICK s \in Named(r.sid) : EndCommand(s)
  BY DEF ServeLate
<1>3. s \in Session
  BY DEF Named, Live
<1>4. PICK x : Leaves(s, x)
  BY <1>2, <1>3, CommandLeaves
<1>5. CreatedInOrder'
  BY <1>1, <1>3, <1>4, LeftStanding DEF TruthInv
<1>6. ASSUME Serving(r), ~excused'
      PROVE  StaysTrue(r) /\ AnswerIsTrue(r, Answer)
  <2>1. /\ ui'.state = ui.state /\ ui'.session = ui.session /\ ui'.hash = ui.hash
        /\ Stands /\ Named(ui.session)' = Named(ui.session)
    BY <1>1, <1>3, <1>4, <1>6, LeftStanding DEF Serving, SameControl
  <2>2. /\ (\A t \in Session : Fits(server[t]))'
        /\ (\A t \in Session : server[t].stop => server[t].st \in {"ready", "gone"})'
    <3>1. /\ \A t \in Session : Fits(server'[t])
          /\ \A t \in Session : server'[t].stop => server'[t].st \in {"ready", "gone"}
      BY <1>1, <1>3, <1>4, <1>6, LeftStanding DEF Serving
    <3>2. (\A t \in Session : Fits(server[t]))'
      BY <3>1 DEF Fits, Listed
    <3> QED BY <3>1, <3>2
  <2>3. Unstopped(ui.hash)'
    <3>1. Unstopped(ui.hash)
      BY <1>1, <1>6 DEF Serving, Truth, PageTruth, StoppedFor
    <3> QED BY <2>1, <3>1 DEF Stands
  <2>4. CASE r.kind = "session-state"
    <3>1. ui.state = "IDLE" /\ Others(ui.session)
      BY <1>6, <2>4 DEF Serving, RequestTruth, SessionTruth
    <3>2. Others(ui.session)' /\ r.arg
      BY <1>1, <1>6, <2>1, <2>4, <3>1 DEF Stands
    <3>3. AnswerIsTrue(r, Answer)
      BY <2>4, <3>2, PlainAnswer DEF AnswerIsTrue
    <3> QED BY <2>2, <2>3, <3>1, <3>3 DEF StaysTrue
  <2>5. CASE r.kind = "step-state"
    <3>1. ui.state = "DEBUG"
      BY <1>6, <2>5 DEF Serving, RequestTruth, StepStateTruth
    <3>2. /\ Others(ui.session) /\ NotLost(ui.session)
          /\ \A t \in Named(ui.session) :
               t \in Session /\ server[t].st = "ready" /\ Documents(ui, server[t])
      BY <1>1, <1>6, <2>5, <3>1, ServingDebug
    <3>3. Others(ui.session)' /\ NotLost(ui.session)'
      BY <2>1, <3>2 DEF Stands
    <3>4. ASSUME NEW t \in Named(ui.session)
          PROVE  Documents(ui, server[t])'
      <4>1. Documents(ui', server[t])
        BY <1>6, <3>2, ShownAlike DEF Serving, SameEditors
      <4>2. /\ server[t].st = "ready" /\ server'[t].st = server[t].st
            /\ server'[t].program = server[t].program
            /\ server'[t].text = server[t].text
        BY <1>4, <3>2 DEF Leaves
      <4> QED BY <1>1, <4>1, <4>2 DEF Documents, Readable, ListingIs
    <3>5. AnswerIsTrue(r, Answer)
      BY <2>5, PlainAnswer DEF AnswerIsTrue
    <3> QED BY <2>1, <2>2, <2>3, <2>5, <3>3, <3>4, <3>5 DEF StaysTrue
  <2> QED BY <1>1, <2>4, <2>5
<1>7. Remaining /\ user' = user
  BY <1>1 DEF Remaining
<1> QED BY <1>1, <1>5, <1>6, <1>7, PlainAnswer, ServedTruth

(* The state is told of a session that is ready.                             *)
LEMMA ServeStateTells ==
  ASSUME Inv, TruthInv, NEW r \in Outstanding(ui), ServeState(r) PROVE TruthInv'
<1>1. /\ r.resp = NoAnswer /\ r.kind \in {"session-state", "step-state"}
      /\ Unchanging /\ UNCHANGED server
  BY DEF ServeState, Waiting
<1>2. SameStanding /\ \A s \in Session : SameView(server[s], server'[s])
  BY <1>1, Unmoved
<1>3. CreatedInOrder /\ CreatedInOrder'
  BY <1>2, StandingKept DEF TruthInv
<1>4. PICK s \in Named(r.sid) :
        /\ server[s].st = "ready"
        /\ Answered(r, IF r.kind = "session-state" THEN FullState(server[s])
                      ELSE StepState(server[s]))
  BY DEF ServeState
<1>5. s \in Live /\ s \in Session /\ server[s] \in SessionType
  BY <1>4, SessionTypes DEF Named, Live
<1> DEFINE x == server[s]
           a == IF r.kind = "session-state" THEN FullState(x) ELSE StepState(x)
<1>6. a \in AnswerType /\ Answered(r, a)
  BY <1>4, <1>5, StateTypes
<1>7. /\ r.kind = "session-state" => a = FullState(x)
      /\ r.kind = "step-state" => a = StepState(x)
  OBVIOUS
<1>8. /\ a.bkpts = x.map \union x.add /\ a.ok
      /\ r.kind = "session-state" => a.compile /\ a.listing = x.program.listing
  BY <1>5, <1>7, StateFields
<1> HIDE DEF a
<1>9. ASSUME Serving(r)
      PROVE  StaysTrue(r) /\ AnswerIsTrue(r, a)
  <2>1. r.sid = ui.session /\ ui'.session = ui.session /\ ui'.disasmMap = ui.disasmMap
    BY <1>1, <1>9 DEF Serving, RequestTruth, SameControl, SameEditors, SameListing
  <2>2. Named(ui.session)' = Named(ui.session)
    BY <1>2, <2>1, StandingKept
  <2>3. \A t \in Named(ui.session) : t = s
    BY <1>4, <2>1, NamedIsOne DEF Inv
  <2>4. x.program \in Programs /\ a.bkpts \subseteq Instructions(x.program.listing)
    BY <1>4, <1>5, <1>8, <1>9 DEF Serving, Fits, Listed, Instructions
  <2>5. CASE r.kind = "session-state"
    <3>1. Others(ui.session)' /\ Unstopped(ui.session)
      <4>1. Others(ui.session)
        BY <1>9, <2>5 DEF Serving, RequestTruth, SessionTruth
      <4>2. Unstopped(ui.session)
        BY <1>9, <2>5 DEF Serving, Truth, PageTruth, StoppedFor
      <4> QED BY <1>2, <2>1, <4>1, <4>2, StandingKept
    <3>2. NotLost(ui.session)
      <4>1. CASE ~single
        BY <1>4, <2>1, <3>1, <4>1 DEF Unstopped, NotLost
      <4>2. CASE single
        <5>1. \A t \in Session : server[t].st # "none" => t <= s
          BY <1>3, <1>5, <4>2 DEF CreatedInOrder
        <5>2. server[s].stop => Stopping
          BY <1>4, <1>5, <4>2, <5>1 DEF Stopping
        <5> QED BY <1>4, <2>1, <5>2 DEF NotLost
      <4> QED BY <4>1, <4>2
    <3>3. NotLost(ui.session)'
      BY <1>2, <2>1, <3>2, StandingKept
    <3>4. \A t \in Named(ui.session)' : t = s /\ server'[t].st = "ready"
      BY <1>1, <1>4, <2>2, <2>3
    <3>5. \A t \in Named(ui.session)' : a = FullState(server[t])'
      <4>1. a = FullState(server'[s])
        BY <1>1, <1>7, <2>5
      <4> QED BY <3>4, <4>1
    <3>6. AnswerIsTrue(r, a)
      BY <1>8, <2>4, <2>5, <3>1, <3>3, <3>4, <3>5 DEF AnswerIsTrue
    <3> QED BY <1>1, <1>2, <1>9, <3>6, ServedUnmoved
  <2>6. CASE r.kind = "step-state"
    <3>1. ui.state = "DEBUG"
      BY <1>9, <2>6 DEF Serving, RequestTruth, StepStateTruth
    <3>2. Documents(ui, x)
      BY <1>1, <1>4, <1>9, <2>1, <3>1, ServingDebug
    <3>3. DOMAIN ui.disasmMap = Instructions(x.program.listing)
      BY <3>2 DEF Documents, ListingIs, DisasmMap, Instructions
    <3>4. \A t \in Named(ui.session)' : a = StepState(server[t])'
      <4>1. \A t \in Named(ui.session)' : t = s
        BY <2>2, <2>3
      <4>2. a = StepState(server'[s])
        BY <1>1, <1>7, <2>6
      <4> QED BY <4>1, <4>2 DEF StepState, WithPosition, WithBreakpoints, LineOf
    <3>5. AnswerIsTrue(r, a)
      BY <2>4, <2>6, <3>3, <3>4 DEF AnswerIsTrue
    <3> QED BY <1>1, <1>2, <1>9, <3>5, ServedUnmoved
  <2> QED BY <1>1, <2>5, <2>6
<1> QED BY <1>1, <1>3, <1>6, <1>9, ServedTells

(* A step is queued, or there is nothing left to step.                       *)
LEMMA ServeStepTells ==
  ASSUME Inv, TruthInv, NEW r \in Outstanding(ui), ServeStep(r) PROVE TruthInv'
<1>1. r.resp = NoAnswer /\ r.kind = "step" /\ Unchanging
  BY DEF ServeStep, Waiting
<1>2. CASE /\ \A s \in Named(r.sid) : server[s].st # "ready"
           /\ Answered(r, Answer) /\ UNCHANGED server
  <2>1. SameStanding /\ \A s \in Session : SameView(server[s], server'[s])
    BY <1>1, <1>2, Unmoved
  <2>2. CreatedInOrder'
    BY <2>1, StandingKept DEF TruthInv
  <2>3. ASSUME Serving(r)
        PROVE  StaysTrue(r) /\ AnswerIsTrue(r, Answer)
    <3>1. ui.state = "DEBUG" /\ r.sid = ui.session
      BY <1>1, <2>3 DEF Serving, RequestTruth, StepTruth
    <3>2. AllStopped
      BY <1>1, <1>2, <2>3, <3>1, ServingDebug
    <3>3. AllStopped'
      BY <2>1, <3>2, StandingKept
    <3> QED BY <1>1, <2>1, <2>3, <3>3, ServedUnmoved DEF AnswerIsTrue
  <2> QED BY <1>1, <1>2, <2>2, <2>3, PlainAnswer, ServedTells
<1>3. CASE \E s \in Named(r.sid) :
             /\ server[s].st = "ready" /\ server[s].steps < MaxPending
             /\ server' = [server EXCEPT ![s].steps = @ + 1]
             /\ Answered(r, [Answer EXCEPT !.ok = TRUE])
  <2>1. PICK s \in Named(r.sid) :
          /\ server' = [server EXCEPT ![s].steps = @ + 1]
          /\ Answered(r, [Answer EXCEPT !.ok = TRUE])
    BY <1>3
  <2>2. s \in Session /\ server \in [Session -> SessionType] /\ server[s] \in SessionType
    BY <2>1, SessionTypes DEF Named, Live
  <2> DEFINE n == server[s].steps + 1
             x == [server[s] EXCEPT !.steps = n]
             ok == TRUE
             a == [Answer EXCEPT !.ok = ok]
  <2>3. server' = [server EXCEPT ![s] = x] /\ Answered(r, a)
    BY <2>1
  <2>4. ok \in BOOLEAN /\ ok
    OBVIOUS
  <2> HIDE DEF n, ok
  <2>5. SameView(server[s], x) /\ x.stop = server[s].stop
    BY <2>2 DEF SameView, SessionType
  <2>6. a \in AnswerType /\ a.ok
    BY <2>4 DEF Answer, AnswerType
  <2> HIDE DEF x, a
  <2>7. server'[s] = x /\ \A t \in Session \ {s} : server'[t] = server[t]
    BY <2>2, <2>3
  <2>8. SameStanding /\ \A t \in Session : SameView(server[t], server'[t])
    BY <1>1, <2>5, <2>7 DEF SameStanding, SameView, Unchanging
  <2>9. CreatedInOrder'
    BY <2>8, StandingKept DEF TruthInv
  <2>10. Serving(r) => StaysTrue(r) /\ AnswerIsTrue(r, a)
    BY <1>1, <2>6, <2>8, ServedUnmoved DEF AnswerIsTrue
  <2> QED BY <1>1, <2>3, <2>6, <2>9, <2>10, ServedTells
<1> QED BY <1>2, <1>3 DEF ServeStep

(* A line of input is queued, or there is nothing left to read it.           *)
LEMMA ServeStdinTells ==
  ASSUME Inv, TruthInv, NEW r \in Outstanding(ui), ServeStdin(r) PROVE TruthInv'
<1>1. r.resp = NoAnswer /\ r.kind = "stdin" /\ Unchanging
  BY DEF ServeStdin, Waiting
<1>2. CASE /\ \A s \in Named(r.sid) : server[s].st # "ready"
           /\ Answered(r, Answer) /\ UNCHANGED server
  <2>1. SameStanding /\ \A s \in Session : SameView(server[s], server'[s])
    BY <1>1, <1>2, Unmoved
  <2>2. CreatedInOrder'
    BY <2>1, StandingKept DEF TruthInv
  <2>3. ASSUME Serving(r)
        PROVE  StaysTrue(r) /\ AnswerIsTrue(r, Answer)
    <3>1. ui.state = "DEBUG"
      BY <1>1, <2>3 DEF Serving, RequestTruth, StdinTruth
    <3>2. single => AllStopped
      <4>1. single => Named(r.sid) = Named(ui.session)
        BY DEF Named
      <4> QED BY <1>1, <1>2, <2>3, <3>1, <4>1, ServingDebug
    <3>3. AllStopped => AllStopped'
      BY <2>1, StandingKept
    <3> QED BY <1>1, <2>1, <2>3, <3>2, <3>3, ServedUnmoved DEF AnswerIsTrue
  <2> QED BY <1>1, <1>2, <2>2, <2>3, PlainAnswer, ServedTells
<1>3. CASE \E s \in Named(r.sid) :
             /\ server[s].st = "ready" /\ server[s].inputs < MaxPending
             /\ server' = [server EXCEPT ![s].inputs = @ + 1]
             /\ Answered(r, [Answer EXCEPT !.ok = TRUE])
  <2>1. PICK s \in Named(r.sid) :
          /\ server' = [server EXCEPT ![s].inputs = @ + 1]
          /\ Answered(r, [Answer EXCEPT !.ok = TRUE])
    BY <1>3
  <2>2. s \in Session /\ server \in [Session -> SessionType] /\ server[s] \in SessionType
    BY <2>1, SessionTypes DEF Named, Live
  <2> DEFINE n == server[s].inputs + 1
             x == [server[s] EXCEPT !.inputs = n]
             ok == TRUE
             a == [Answer EXCEPT !.ok = ok]
  <2>3. server' = [server EXCEPT ![s] = x] /\ Answered(r, a)
    BY <2>1
  <2>4. ok \in BOOLEAN /\ ok
    OBVIOUS
  <2> HIDE DEF n, ok
  <2>5. SameView(server[s], x) /\ x.stop = server[s].stop
    BY <2>2 DEF SameView, SessionType
  <2>6. a \in AnswerType /\ a.ok
    BY <2>4 DEF Answer, AnswerType
  <2> HIDE DEF x, a
  <2>7. server'[s] = x /\ \A t \in Session \ {s} : server'[t] = server[t]
    BY <2>2, <2>3
  <2>8. SameStanding /\ \A t \in Session : SameView(server[t], server'[t])
    BY <1>1, <2>5, <2>7 DEF SameStanding, SameView, Unchanging
  <2>9. CreatedInOrder'
    BY <2>8, StandingKept DEF TruthInv
  <2>10. Serving(r) => StaysTrue(r) /\ AnswerIsTrue(r, a)
    BY <1>1, <2>6, <2>8, ServedUnmoved DEF AnswerIsTrue
  <2> QED BY <1>1, <2>3, <2>6, <2>9, <2>10, ServedTells
<1> QED BY <1>2, <1>3 DEF ServeStdin

(* A session is told to stop: the one that was left.                         *)
LEMMA ServeStopTells ==
  ASSUME Inv, TruthInv, NEW r \in Outstanding(ui), ServeStop(r) PROVE TruthInv'
<1>1. /\ r.resp = NoAnswer /\ r.kind = "stop" /\ Unchanging /\ Answered(r, Answer)
      /\ server' = [s \in Session |-> IF s \in Named(r.sid)
                                      THEN [server[s] EXCEPT !.stop = TRUE] ELSE server[s]]
  BY DEF ServeStop, Waiting
<1>2. server \in [Session -> SessionType]
  BY DEF Inv
<1>3. \A s \in Session :
        /\ SameView(server[s], server'[s])
        /\ s \in Named(r.sid) => server'[s].stop
        /\ s \notin Named(r.sid) => server'[s] = server[s]
  BY <1>1, <1>2 DEF SameView, SessionType
<1>4. Live' = Live /\ single' = single /\ user' = user
  BY <1>1, <1>3 DEF Live, SameView, Unchanging
<1>5. \A s \in Named(r.sid) : s \in Live /\ s \in Session /\ server[s].st # "none"
  BY DEF Named, Live
<1>6. CreatedInOrder'
  <2>1. CreatedInOrder
    BY DEF TruthInv
  <2>2. \A s \in Session : server'[s].st = server[s].st
    BY <1>3 DEF SameView
  <2> QED BY <1>3, <1>4, <1>5, <2>1, <2>2 DEF CreatedInOrder
<1>7. ASSUME Serving(r)
      PROVE  StaysTrue(r) /\ AnswerIsTrue(r, Answer)
  <2>1. ui.state = "DEBUG" /\ r.sid = ui.session /\ ui'.session = ui.session
    BY <1>1, <1>7 DEF Serving, RequestTruth, StopTruth, SameControl
  <2>2. /\ Others(ui.session)
        /\ \A s \in Named(ui.session) : server[s].st = "ready" /\ Documents(ui, server[s])
    BY <1>1, <1>7, <2>1, ServingDebug
  <2>3. Named(ui.session)' = Named(ui.session)
    BY <1>4, <2>1 DEF Named
  <2>4. AllStopped' /\ Others(ui.session)'
    BY <1>3, <1>4, <2>1, <2>2 DEF AllStopped, Others, Live
  <2>5. (\A s \in Session : server[s].stop => server[s].st \in {"ready", "gone"})'
    BY <1>3, <1>7, <2>1, <2>2 DEF Serving, SameView
  <2>6. (\A s \in Session : Fits(server[s]))'
    <3>1. \A s \in Session : Fits(server'[s])
      BY <1>3, <1>7, SeenAlike DEF Serving
    <3> QED BY <3>1 DEF Fits, Listed
  <2>7. \A s \in Named(ui.session)' : Documents(ui, server[s])'
    <3> SUFFICES ASSUME NEW s \in Named(ui.session)' PROVE Documents(ui, server[s])'
      OBVIOUS
    <3>1. s \in Session /\ Documents(ui, server[s])
      BY <1>5, <2>1, <2>2, <2>3
    <3>2. Documents(ui', server[s])
      BY <1>7, <3>1, ShownAlike DEF Serving, SameEditors
    <3>3. Documents(ui', server'[s])
      BY <1>3, <3>1, <3>2, SeenAlike
    <3> QED BY <1>4, <3>3 DEF Documents, Readable, ListingIs
  <2> QED BY <1>1, <2>4, <2>5, <2>6, <2>7, PlainAnswer DEF StaysTrue, AnswerIsTrue
<1> QED BY <1>1, <1>6, <1>7, PlainAnswer, ServedTells

(* The breakpoint that is asked for is at an instruction.                    *)
LEMMA BreakpointListed ==
  ASSUME NEW x \in SessionType, x.program \in Programs,
         NEW r, RequestType(r), r.kind = "breakpoint",
         r.arg.byLine \/ r.arg.at \in Listed(x) \union {Unlisted}
  PROVE  BkptAddress(x, r.arg) \in Listed(x) \union {Unlisted}
<1> DEFINE code == {pc \in DOMAIN x.program.lineOf :
                      x.program.lineOf[pc] = r.arg.at}
<1>1. DOMAIN x.program.lineOf \subseteq Nat \ {0}
  BY WebUIAssumption
<1>2. DOMAIN x.program.lineOf \subseteq Listed(x)
  BY <1>1, ProgramsAssumption DEF Listed
<1>3. BkptAddress(x, r.arg) = IF ~r.arg.byLine THEN r.arg.at
                              ELSE IF code = {} THEN Unlisted ELSE Min(code)
  BY DEF BkptAddress
<1>4. code \subseteq Listed(x) /\ code \subseteq Nat
  BY <1>1, <1>2
<1> HIDE DEF code
<1>5. code # {} => Min(code) \in code
  BY <1>4, MinIsMember
<1> QED BY <1>3, <1>4, <1>5

(* What a breakpoint leaves of the session.                                  *)
LEMMA BreakpointSet ==
  ASSUME NEW x \in SessionType, NEW r, RequestType(r), r.kind = "breakpoint"
  PROVE  LET y == Breakpoint(x, r.arg) IN
         /\ y.st = x.st /\ y.stop = x.stop /\ y.pc = x.pc /\ y.done = x.done
         /\ y.map = x.map /\ y.program = x.program /\ y.text = x.text
         /\ y.add \subseteq x.add \union ({BkptAddress(x, r.arg)} \ {Unlisted})
         /\ BkptAddress(x, r.arg) = Unlisted => y = x
<1> DEFINE a == BkptAddress(x, r.arg)
           add == x.add \union {a}
           left == x.add \ {a}
           remove == x.remove \union {a}
           y == Breakpoint(x, r.arg)
<1>1. y = IF a = Unlisted THEN x
          ELSE IF r.arg.set THEN [x EXCEPT !.add = add]
          ELSE [x EXCEPT !.add = left, !.remove = remove]
  BY DEF Breakpoint
<1> HIDE DEF a, y
<1>2. CASE a = Unlisted
  BY <1>1, <1>2 DEF y, a
<1>3. CASE a # Unlisted /\ r.arg.set
  <2>1. y = [x EXCEPT !.add = add]
    BY <1>1, <1>3
  <2>2. add \subseteq x.add \union ({a} \ {Unlisted})
    BY <1>3
  <2> HIDE DEF add
  <2> QED BY <1>3, <2>1, <2>2 DEF SessionType, y, a
<1>4. CASE a # Unlisted /\ ~r.arg.set
  <2>1. y = [x EXCEPT !.add = left, !.remove = remove]
    BY <1>1, <1>4
  <2>2. left \subseteq x.add \union ({a} \ {Unlisted})
    OBVIOUS
  <2> HIDE DEF left, remove
  <2> QED BY <1>4, <2>1, <2>2 DEF SessionType, y, a
<1> QED BY <1>2, <1>3, <1>4

(* The session has the breakpoint that was asked for.                        *)
LEMMA BreakpointServed ==
  ASSUME Inv, TruthInv, NEW r \in Outstanding(ui), r.resp = NoAnswer,
         r.kind = "breakpoint", Unchanging, NEW s \in Named(r.sid),
         NEW y, y = Breakpoint(server[s], r.arg),
         server'[s] = y, \A t \in Session \ {s} : server'[t] = server[t],
         NEW a \in AnswerType, ~a.error, a.bkpts = y.map \union y.add,
         a.bkptLines = {LineOf(y, b) : b \in y.map \union y.add} \ {0},
         a.ok \/ (~r.arg.byLine /\ r.arg.at = Unlisted), Serving(r)
  PROVE  StaysTrue(r) /\ AnswerIsTrue(r, a)
<1> DEFINE x == server[s]
<1>1. s \in Session /\ x \in SessionType /\ RequestType(r)
  BY SessionTypes DEF Named, Live, Inv, PageInv, PageTypes, RequestTypes
<1>2. /\ ui.state = "DEBUG" /\ r.sid = ui.session
      /\ \/ Named(ui.session) = {} \/ r.arg.byLine
         \/ r.arg.at \in DOMAIN ui.disasmMap \union {Unlisted}
  BY DEF Serving, RequestTruth, BreakpointTruth
<1>3. /\ Documents(ui, x) /\ PositionShown(ui, x) /\ BreakpointsShown(ui, x)
      /\ x.st = "ready" /\ Others(ui.session) /\ NotLost(ui.session)
  BY <1>2, ServingDebug
<1>4. /\ x.program \in Programs /\ x.map \subseteq Listed(x) /\ x.add \subseteq Listed(x)
      /\ Fits(x)
  BY <1>1, <1>3 DEF Serving, Fits
<1>5. DOMAIN ui.disasmMap = Listed(x)
  BY <1>3 DEF Documents, ListingIs, DisasmMap, Listed
<1>6. BkptAddress(x, r.arg) \in Listed(x) \union {Unlisted}
  <2>1. r.arg.byLine \/ r.arg.at \in Listed(x) \union {Unlisted}
    BY <1>2, <1>5
  <2> QED BY <1>1, <1>4, <2>1, BreakpointListed
<1>7. /\ y.st = x.st /\ y.stop = x.stop /\ y.pc = x.pc /\ y.done = x.done
      /\ y.map = x.map /\ y.program = x.program /\ y.text = x.text
      /\ y.add \subseteq x.add \union ({BkptAddress(x, r.arg)} \ {Unlisted})
      /\ BkptAddress(x, r.arg) = Unlisted => y = x
  BY <1>1, BreakpointSet
<1> HIDE DEF x
<1>8. /\ Listed(y) = Listed(x) /\ (\A pc : LineOf(y, pc) = LineOf(x, pc))
      /\ y.map \union y.add \subseteq Listed(y)
  BY <1>4, <1>6, <1>7 DEF Listed, LineOf
<1>9. Fits(y)
  BY <1>3, <1>4, <1>7, <1>8 DEF Fits
<1>10. SameStanding
  BY <1>1, <1>7 DEF SameStanding, Unchanging, x
<1>11. /\ ui'.state = ui.state /\ ui'.session = ui.session /\ ui'.hash = ui.hash
       /\ Named(ui.session)' = Named(ui.session) /\ \A t \in Named(ui.session) : t = s
  BY <1>2, <1>10, StandingKept, NamedIsOne DEF Serving, SameControl, Inv
<1>12. /\ (\A t \in Session : Fits(server[t]))'
       /\ (\A t \in Session : server[t].stop => server[t].st \in {"ready", "gone"})'
       /\ Unstopped(ui.hash)' /\ Others(ui.session)' /\ NotLost(ui.session)'
  <2>1. \A t \in Session : Fits(server'[t])
    BY <1>9 DEF Serving
  <2>2. Unstopped(ui.hash)
    BY DEF Serving, Truth, PageTruth, StoppedFor
  <2>3. (\A t \in Session : server[t].stop => server[t].st \in {"ready", "gone"})'
    BY <1>10, StandingKept DEF Serving
  <2>4. Unstopped(ui.hash)' /\ Others(ui.session)' /\ NotLost(ui.session)'
    BY <1>3, <1>10, <1>11, <2>2, StandingKept
  <2> QED BY <2>1, <2>3, <2>4
<1>13. Documents(ui', y) /\ PositionShown(ui', y)
  <2>1. Documents(ui', x) /\ PositionShown(ui', x)
    BY <1>3, ShownAlike DEF Serving, SameEditors
  <2>2. Readable(y) = Readable(x)
    BY <1>7 DEF Readable
  <2>3. Documents(ui', y)
    BY <1>7, <2>1, <2>2 DEF Documents
  <2>4. PositionShown(ui', y)
    BY <1>7, <1>8, <2>1, <2>2 DEF PositionShown
  <2> QED BY <2>3, <2>4
<1>14. /\ Documents(ui, server[s])' /\ PositionShown(ui, server[s])'
  BY <1>13 DEF Documents, PositionShown, ListingIs, Readable, Unchanging
<1>15. StaysTrue(r)
  BY <1>11, <1>12, <1>14 DEF StaysTrue
<1>16. a.bkpts \subseteq DOMAIN ui.disasmMap
  BY <1>5, <1>8
<1>17. ASSUME a.ok
       PROVE  /\ a.bkpts = WithBreakpoints(Answer, server'[s]).bkpts
              /\ a.bkptLines = WithBreakpoints(Answer, server'[s]).bkptLines
  BY DEF WithBreakpoints, Answer
<1>18. ASSUME ~a.ok
       PROVE  BreakpointsShown(ui, server[s])'
  <2>1. y = x
    BY <1>7, <1>18 DEF BkptAddress
  <2>2. BreakpointsShown(ui', x)
    BY <1>3, ShownAlike DEF Serving, SameEditors
  <2>3. BreakpointsShown(ui', server'[s])
    BY <2>1, <2>2
  <2> QED BY <2>3 DEF BreakpointsShown, Readable, Unchanging
<1>19. \A t \in Named(ui.session)' :
         IF a.ok THEN a.bkpts = WithBreakpoints(Answer, server[t])'.bkpts
           /\ a.bkptLines = WithBreakpoints(Answer, server[t])'.bkptLines
         ELSE BreakpointsShown(ui, server[t])'
  BY <1>11, <1>17, <1>18
<1>20. AnswerIsTrue(r, a)
  BY <1>16, <1>19 DEF AnswerIsTrue
<1> QED BY <1>15, <1>20

(* A breakpoint is queued, or there is nothing left to stop.                 *)
LEMMA ServeBkptTells ==
  ASSUME Inv, TruthInv, NEW r \in Outstanding(ui), ServeBkpt(r) PROVE TruthInv'
<1>1. r.resp = NoAnswer /\ r.kind = "breakpoint" /\ Unchanging
  BY DEF ServeBkpt, Waiting
<1>2. RequestType(r)
  BY DEF Inv, PageInv, PageTypes, RequestTypes
<1>3. CASE /\ \A s \in Named(r.sid) : server[s].st # "ready"
           /\ Answered(r, [Answer EXCEPT !.error = TRUE]) /\ UNCHANGED server
  <2> DEFINE error == TRUE
             a == [Answer EXCEPT !.error = error]
  <2>1. error \in BOOLEAN /\ Answered(r, a)
    BY <1>3
  <2> HIDE DEF error
  <2>2. a \in AnswerType /\ ~a.ok /\ a.bkpts = {}
    BY <2>1 DEF Answer, AnswerType
  <2> HIDE DEF a
  <2>3. SameStanding /\ \A s \in Session : SameView(server[s], server'[s])
    BY <1>1, <1>3, Unmoved
  <2>4. CreatedInOrder'
    BY <2>3, StandingKept DEF TruthInv
  <2>5. ASSUME Serving(r)
        PROVE  StaysTrue(r) /\ AnswerIsTrue(r, a)
    <3>1. ui.state = "DEBUG" /\ r.sid = ui.session /\ ui'.session = ui.session
      BY <1>1, <2>5 DEF Serving, RequestTruth, BreakpointTruth, SameControl
    <3>2. AllStopped /\ Named(ui.session) = {}
      BY <1>1, <1>3, <2>5, <3>1, ServingDebug
    <3>3. AllStopped' /\ Named(ui.session)' = {}
      BY <2>3, <3>1, <3>2, StandingKept
    <3>4. AnswerIsTrue(r, a)
      BY <1>1, <2>2, <3>3 DEF AnswerIsTrue
    <3> QED BY <1>1, <2>3, <2>5, <3>4, ServedUnmoved
  <2> QED BY <1>1, <2>1, <2>2, <2>4, <2>5, ServedTells
<1>4. CASE \E s \in Named(r.sid) :
             /\ server[s].st = "ready"
             /\ server' = [server EXCEPT ![s] = Breakpoint(@, r.arg)]
             /\ Answered(r, WithBreakpoints(
                  [Answer EXCEPT !.ok = r.arg.byLine \/ r.arg.at # Unlisted],
                  server'[s]))
  <2>1. PICK s \in Named(r.sid) :
          /\ server' = [server EXCEPT ![s] = Breakpoint(@, r.arg)]
          /\ Answered(r, WithBreakpoints(
               [Answer EXCEPT !.ok = r.arg.byLine \/ r.arg.at # Unlisted],
               server'[s]))
    BY <1>4
  <2>2. s \in Session /\ server \in [Session -> SessionType] /\ server[s] \in SessionType
    BY <2>1, SessionTypes DEF Named, Live
  <2> DEFINE y == Breakpoint(server[s], r.arg)
             ok == r.arg.byLine \/ r.arg.at # Unlisted
             b == [Answer EXCEPT !.ok = ok]
             a == WithBreakpoints(b, y)
  <2>3. server' = [server EXCEPT ![s] = y]
    BY <2>1
  <2>4. y \in SessionType /\ y.st = server[s].st /\ y.stop = server[s].stop
    BY <1>1, <1>2, <2>2, BreakpointType, BreakpointSet
  <2>5. server'[s] = y /\ \A t \in Session \ {s} : server'[t] = server[t]
    BY <2>2, <2>3
  <2>6. ok \in BOOLEAN /\ (ok \/ (~r.arg.byLine /\ r.arg.at = Unlisted))
    BY <1>1, <1>2 DEF RequestType
  <2> HIDE DEF y
  <2>7. Answered(r, a)
    BY <2>1, <2>5
  <2> HIDE DEF ok
  <2>8. b \in AnswerType /\ ~b.error /\ (b.ok <=> ok)
    BY <2>6 DEF Answer, AnswerType
  <2> HIDE DEF b
  <2>9. /\ a \in AnswerType /\ ~a.error /\ (a.ok <=> ok)
        /\ a.bkpts = y.map \union y.add
        /\ a.bkptLines = {LineOf(y, pc) : pc \in y.map \union y.add} \ {0}
    <3>1. a \in AnswerType
      BY <2>4, <2>8, BreakpointsType
    <3> QED BY <2>8, <3>1 DEF WithBreakpoints, AnswerType
  <2> HIDE DEF a
  <2>10. SameStanding
    BY <1>1, <2>4, <2>5 DEF SameStanding, Unchanging
  <2>11. CreatedInOrder'
    BY <2>10, StandingKept DEF TruthInv
  <2>12. a.ok \/ (~r.arg.byLine /\ r.arg.at = Unlisted)
    BY <2>6, <2>9
  <2>13. y = Breakpoint(server[s], r.arg)
    BY DEF y
  <2>14. Serving(r) => StaysTrue(r) /\ AnswerIsTrue(r, a)
    BY <1>1, <2>5, <2>9, <2>12, <2>13, BreakpointServed
  <2> QED BY <1>1, <2>7, <2>9, <2>11, <2>14, ServedTells
<1> QED BY <1>3, <1>4 DEF ServeBkpt

(* A new session: the page is to ask for its state.                          *)
LEMMA NewSessionTells ==
  ASSUME Inv, TruthInv, NEW r \in Outstanding(ui), r.resp = NoAnswer,
         r.kind \in {"compile", "upload"}, Unchanging, NEW s \in Session,
         NewSession(r, s), \A t \in 1..(s - 1) : server[t].st # "none"
  PROVE  TruthInv'
<1>1. r.resp = NoAnswer /\ r.kind \in {"compile", "upload"} /\ Unchanging
  OBVIOUS
<1>2. NewSession(r, s) /\ server[s].st = "none" /\ \A t \in 1..(s - 1) : server[t].st # "none"
  BY DEF NewSession
<1> DEFINE name == IF single THEN NoName ELSE s
           ok == TRUE
           a == [Answer EXCEPT !.ok = ok, !.session = name]
           text == r.kind = "compile"
           new == [NoSession EXCEPT !.st = "compile", !.text = text]
           gone == [NoSession EXCEPT !.st = "gone"]
<1>3. ok \in BOOLEAN /\ ok /\ name \in Session \union {NoName}
  OBVIOUS
<1>4. Answered(r, a)
  BY <1>2 DEF NewSession
<1>5. server' = [t \in Session |->
        IF t = s THEN new ELSE IF single /\ t \in Live THEN gone ELSE server[t]]
  BY <1>2 DEF NewSession
<1> HIDE DEF name, ok
<1>6. a \in AnswerType /\ a.ok /\ a.session = name
  BY <1>3 DEF Answer, AnswerType
<1> HIDE DEF a, text
<1>7. /\ new.st = "compile" /\ ~new.stop /\ new.map = {} /\ new.add = {}
      /\ gone.st = "gone" /\ ~gone.stop
  BY DEF NoSession
<1> HIDE DEF new, gone
<1>8. /\ server'[s] = new
      /\ \A t \in Session \ {s} :
           \/ single /\ t \in Live /\ server'[t] = gone
           \/ server'[t] = server[t] /\ ~(single /\ t \in Live)
  BY <1>5
<1>9. /\ single' = single /\ (single => Live' = {s})
      /\ Live' \subseteq Live \union {s}
  BY <1>1, <1>7, <1>8 DEF Live, Unchanging
<1>10. /\ \A t \in Session \ {s} : server'[t].st = "none" <=> server[t].st = "none"
       /\ \A t \in Session \ {s} : server'[t].stop => server'[t] = server[t]
       /\ \A t \in Live' \ {s} : server'[t] = server[t] /\ t \in Session
  BY <1>7, <1>8, <1>9 DEF Live
<1>11. CreatedInOrder'
  <2>1. CreatedInOrder /\ s \in Nat /\ \A t \in Session : t \in Nat /\ t >= 1
    BY WebUIAssumption DEF TruthInv, Session
  <2>2. \A t \in Session : server'[t].st = "none" => ~server'[t].stop
    BY <1>7, <1>8, <1>10, <2>1 DEF CreatedInOrder
  <2>3. ASSUME NEW t \in Session, NEW u \in Session,
               server'[t].st # "none", server'[u].st = "none"
        PROVE  t < u
    <3>1. u # s /\ server[u].st = "none"
      BY <1>7, <1>8, <1>10, <2>3
    <3>2. CASE t = s
      <4>1. u \notin 1..(s - 1) /\ u \in Nat /\ u >= 1
        BY <1>2, <2>1, <3>1
      <4> QED BY <2>1, <3>1, <3>2, <4>1
    <3>3. CASE t # s
      <4>1. server[t].st # "none"
        BY <1>10, <2>3, <3>3
      <4> QED BY <2>1, <3>1, <4>1 DEF CreatedInOrder
    <3> QED BY <3>2, <3>3
  <2>4. ASSUME single', NEW u \in Live', NEW t \in Session, server'[t].st # "none"
        PROVE  t <= u
    <3>1. u = s
      BY <1>9, <2>4
    <3>2. t # s => server[t].st # "none"
      BY <1>10, <2>4
    <3>3. t # s => t < s
      BY <1>2, <2>1, <3>2 DEF CreatedInOrder
    <3> QED BY <2>1, <3>1, <3>3
  <2> QED BY <2>2, <2>3, <2>4 DEF CreatedInOrder
<1>12. ASSUME Serving(r)
       PROVE  StaysTrue(r) /\ AnswerIsTrue(r, a)
  <2>1. ui.state = "IDLE" /\ AllStopped /\ ui'.hash = ui.hash
    BY <1>1, <1>12 DEF Serving, RequestTruth, CompileTruth, SameControl
  <2>2. (\A t \in Session : Fits(server[t]))'
    <3>1. \A t \in Session : Fits(server[t])
      BY <1>12 DEF Serving
    <3>2. \A t \in Session : Fits(server'[t])
      BY <1>7, <1>8, <3>1 DEF Fits
    <3> QED BY <3>2
  <2>3. (\A t \in Session : server[t].stop => server[t].st \in {"ready", "gone"})'
    BY <1>7, <1>8, <1>12 DEF Serving
  <2>4. \A sid : Unstopped(sid) => Unstopped(sid)'
    <3> SUFFICES ASSUME NEW sid, Unstopped(sid), ~single', NEW t \in Named(sid)'
                 PROVE  ~server'[t].stop
      BY DEF Unstopped
    <3>1. t \in Live' /\ (t # s => t \in Named(sid))
      BY <1>7, <1>8, <1>9, <1>10 DEF Named, Live
    <3>2. CASE t = s
      BY <1>7, <1>8, <3>2
    <3>3. CASE t # s
      BY <1>9, <1>10, <3>1, <3>3 DEF Unstopped
    <3> QED BY <3>2, <3>3
  <2>5. Unstopped(ui.hash)'
    <3>1. Unstopped(ui.hash)
      BY <1>1, <1>12 DEF Serving, Truth, PageTruth, StoppedFor
    <3> QED BY <2>1, <2>4, <3>1
  <2>6. ASSUME NEW sid, sid = name
        PROVE  Others(sid)' /\ Unstopped(sid)'
    <3>1. s \in Named(sid)' /\ (~single => Named(sid)' \subseteq {s})
      BY <1>7, <1>8, <1>9, <2>6 DEF Named, Live, name
    <3>2. \A t \in Live' : t # s => server'[t].stop
      BY <1>10, <2>1, <1>9 DEF AllStopped
    <3> QED BY <1>7, <1>8, <1>9, <3>1, <3>2 DEF Others, Unstopped
  <2>7. StaysTrue(r)
    BY <2>1, <2>2, <2>3, <2>5 DEF StaysTrue
  <2>8. AnswerIsTrue(r, a)
    BY <1>1, <1>6, <2>6 DEF AnswerIsTrue
  <2> QED BY <2>7, <2>8
<1> QED BY <1>1, <1>4, <1>6, <1>11, <1>12, ServedTells

(* A compilation is refused, or gets a session.                              *)
LEMMA ServeCompileTells ==
  ASSUME Inv, TruthInv, NEW r \in Outstanding(ui), ServeCompile(r) PROVE TruthInv'
<1>1. r.resp = NoAnswer /\ r.kind \in {"compile", "upload"} /\ Unchanging
  BY DEF ServeCompile, Waiting
<1>2. CASE Answered(r, Answer) /\ UNCHANGED server
  <2>1. SameStanding /\ \A s \in Session : SameView(server[s], server'[s])
    BY <1>1, <1>2, Unmoved
  <2>2. CreatedInOrder'
    BY <2>1, StandingKept DEF TruthInv
  <2>3. ASSUME Serving(r)
        PROVE  StaysTrue(r) /\ AnswerIsTrue(r, Answer)
    <3>1. AllStopped
      BY <1>1, <2>3 DEF Serving, RequestTruth, CompileTruth
    <3>2. AllStopped'
      BY <2>1, <3>1, StandingKept
    <3>3. AnswerIsTrue(r, Answer)
      BY <1>1, <3>2, PlainAnswer DEF AnswerIsTrue
    <3> QED BY <1>1, <2>1, <2>3, <3>3, ServedUnmoved
  <2> QED BY <1>1, <1>2, <2>2, <2>3, PlainAnswer, ServedTells
<1>3. CASE \E s \in Session :
             NewSession(r, s) /\ \A t \in 1..(s - 1) : server[t].st # "none"
  BY <1>1, <1>3, NewSessionTells
<1> QED BY <1>2, <1>3 DEF ServeCompile, NewSession

(* Its failures are the last that is read of a session.                      *)
LEMMA ServeFailuresTells ==
  ASSUME Inv, TruthInv, NEW r \in Outstanding(ui), ServeFailures(r) PROVE TruthInv'
<1>1. r.resp = NoAnswer /\ r.kind = "session-state" /\ Unchanging
  BY DEF ServeFailures, Waiting
<1>2. PICK s \in Named(r.sid), line \in {0, 1} :
        /\ server[s].st = "failed"
        /\ server' = [server EXCEPT ![s] = [NoSession EXCEPT !.st = "gone"]]
        /\ Answered(r, Failures(line))
  BY DEF ServeFailures
<1> DEFINE x == [NoSession EXCEPT !.st = "gone"]
           ok == TRUE
           a == [Answer EXCEPT !.ok = ok, !.line = line]
<1>3. x.st = "gone" /\ ~x.stop
  BY DEF NoSession
<1>4. Answered(r, a) /\ ok \in BOOLEAN /\ ok /\ line \in Nat
  BY <1>2 DEF Failures
<1> HIDE DEF ok
<1>5. a \in AnswerType /\ ~a.compile
  BY <1>4 DEF Answer, AnswerType
<1> HIDE DEF a
<1>6. s \in Session /\ s \in Live /\ server' = [server EXCEPT ![s] = x]
      /\ server \in [Session -> SessionType]
  BY <1>2 DEF Named, Live, Inv
<1> HIDE DEF x
<1>7. server'[s] = x /\ \A t \in Session \ {s} : server'[t] = server[t]
  BY <1>6
<1>8. Live' = Live \ {s} /\ single' = single
  BY <1>1, <1>3, <1>7 DEF Live, Unchanging
<1>9. CreatedInOrder'
  <2>1. CreatedInOrder
    BY DEF TruthInv
  <2>2. \A t \in Session : server'[t].st = "none" <=> server[t].st = "none"
    BY <1>2, <1>3, <1>7
  <2> QED BY <1>3, <1>7, <1>8, <2>1, <2>2 DEF CreatedInOrder
<1>10. ASSUME Serving(r)
       PROVE  StaysTrue(r) /\ AnswerIsTrue(r, a)
  <2>1. /\ ui.state = "IDLE" /\ Others(ui.session) /\ r.sid = ui.session
        /\ ui'.hash = ui.hash
    BY <1>1, <1>10 DEF Serving, RequestTruth, SessionTruth, SameControl
  <2>2. \A t \in Named(ui.session) : t = s
    BY <1>2, <2>1, NamedIsOne DEF Inv
  <2>3. AllStopped' /\ Others(ui.session)'
    <3>1. \A t \in Live' : server'[t].stop
      BY <1>7, <1>8, <2>1, <2>2 DEF Others, Live
    <3> QED BY <3>1 DEF AllStopped, Others
  <2>4. (\A t \in Session : Fits(server[t]))'
    <3>1. \A t \in Session : Fits(server'[t])
      BY <1>3, <1>7, <1>10 DEF Serving, Fits
    <3> QED BY <3>1
  <2>5. (\A t \in Session : server[t].stop => server[t].st \in {"ready", "gone"})'
    BY <1>3, <1>7, <1>10 DEF Serving
  <2>6. Unstopped(ui.hash)'
    <3>1. Unstopped(ui.hash)
      BY <1>1, <1>10 DEF Serving, Truth, PageTruth, StoppedFor
    <3>2. Named(ui.hash)' = Named(ui.hash) \ {s}
      BY <1>8, <2>1 DEF Named
    <3>3. \A t \in Named(ui.hash) : t \in Session
      BY DEF Named, Live
    <3> QED BY <1>7, <1>8, <3>1, <3>2, <3>3 DEF Unstopped
  <2> QED BY <1>1, <1>5, <2>1, <2>3, <2>4, <2>5, <2>6 DEF StaysTrue, AnswerIsTrue
<1> QED BY <1>1, <1>4, <1>5, <1>9, <1>10, ServedTells

(* The server answers one request at a time.                                 *)
LEMMA ServeTells == ASSUME Inv, TruthInv, Serve PROVE TruthInv'
BY ServeCompileTells, ServeNoStateTells, ServeLateTells, ServeStateTells,
   ServeFailuresTells, ServeStepTells, ServeStopTells, ServeBkptTells, ServeStdinTells DEF Serve

-----------------------------------------------------------------------------
(* The worker of a session, and the network *)

(* The page does not see what the worker does.                               *)
LEMMA WorkTells ==
  ASSUME TruthInv, Unchanging, CreatedInOrder',
         ~overlap /\ ~excused =>
           /\ \A s \in Session : Fits(server'[s])
           /\ \A s \in Session : server'[s].stop => server'[s].st \in {"ready", "gone"}
           /\ Truth(ui)'
  PROVE  TruthInv'
<1>1. UNCHANGED <<overlap, excused>>
  BY DEF Unchanging
<1>2. (\A s \in Session : Fits(server'[s])) => (\A s \in Session : Fits(server[s]))'
  BY DEF Fits, Listed
<1> QED BY <1>1, <1>2 DEF TruthInv

(* The compilation ends.                                                     *)
LEMMA CompileDoneTells ==
  ASSUME Inv, TruthInv, NEW s \in Session, CompileDone(s) PROVE TruthInv'
<1>1. UNCHANGED ui /\ Unchanging /\ server[s].st = "compile"
  BY DEF CompileDone, EndCompile
<1>2. PICK x : Leaves(s, x)
  BY CompileLeaves DEF CompileDone
<1>3. UNCHANGED <<single, user>>
  BY <1>1 DEF Unchanging
<1>4. CreatedInOrder' /\ Stands
  BY <1>2, <1>3, LeftStanding DEF TruthInv
<1>5. ASSUME ~overlap, ~excused
      PROVE  /\ \A t \in Session : Fits(server'[t])
             /\ \A t \in Session : server'[t].stop => server'[t].st \in {"ready", "gone"}
             /\ Truth(ui)'
  <2>1. Truth(ui')
    BY <1>1, <1>5 DEF TruthInv
  <2>2. \A t \in Named(ui.session)' :
          server[t].st = "ready" => SameView(server[t], server'[t])
    BY <1>1, <1>2 DEF SameView, Leaves, Named, Live
  <2>3. Truth(ui)'
    BY <1>4, <2>1, <2>2, TruthStands
  <2> QED BY <1>2, <1>3, <1>5, <2>3, LeftStanding DEF TruthInv
<1> QED BY <1>1, <1>4, <1>5, WorkTells

(* A line of input is read.                                                  *)
LEMMA InputDoneTells ==
  ASSUME Inv, TruthInv, NEW s \in Session, InputDone(s) PROVE TruthInv'
<1>1. UNCHANGED ui /\ Unchanging
  BY DEF InputDone
<1>2. PICK x : Leaves(s, x) /\ SameView(server[s], x)
  BY InputLeaves DEF InputDone
<1>3. UNCHANGED <<single, user>>
  BY <1>1 DEF Unchanging
<1>4. CreatedInOrder' /\ Stands
  BY <1>2, <1>3, LeftStanding DEF TruthInv
<1>5. ASSUME ~overlap, ~excused
      PROVE  /\ \A t \in Session : Fits(server'[t])
             /\ \A t \in Session : server'[t].stop => server'[t].st \in {"ready", "gone"}
             /\ Truth(ui)'
  <2>1. Truth(ui')
    BY <1>1, <1>5 DEF TruthInv
  <2>2. \A t \in Named(ui.session)' : SameView(server[t], server'[t])
    BY <1>2 DEF SameView, Leaves, Named, Live
  <2>3. Truth(ui)'
    BY <1>4, <2>1, <2>2, TruthStands
  <2> QED BY <1>2, <1>3, <1>5, <2>3, LeftStanding DEF TruthInv
<1> QED BY <1>1, <1>4, <1>5, WorkTells

(* A session that was told to stop goes away.                                *)
LEMMA ReapTells ==
  ASSUME Inv, TruthInv, NEW s \in Session, Reap(s) PROVE TruthInv'
<1>1. UNCHANGED ui /\ Unchanging /\ server[s].stop
  BY DEF Reap
<1> DEFINE stop == TRUE
           x == [NoSession EXCEPT !.st = "gone", !.stop = stop]
<1>2. stop /\ server \in [Session -> SessionType]
  BY DEF Inv
<1>3. server' = [server EXCEPT ![s] = x]
  BY DEF Reap
<1> HIDE DEF stop
<1>4. x.st = "gone" /\ x.stop
  BY <1>2 DEF NoSession
<1> HIDE DEF x
<1>5. server'[s] = x /\ \A t \in Session \ {s} : server'[t] = server[t]
  BY <1>2, <1>3
<1>6. CreatedInOrder /\ server[s].st # "none"
  BY <1>1 DEF TruthInv, CreatedInOrder
<1>7. /\ Live' = Live \ {s} /\ single' = single /\ user' = user
      /\ \A t \in Session : /\ server[t].stop => server'[t].stop
                            /\ server'[t].st = "none" <=> server[t].st = "none"
  BY <1>1, <1>4, <1>5, <1>6 DEF Live, Unchanging
<1>8. \A sid : Named(sid)' = Named(sid) \ {s} /\ \A t \in Named(sid) : t \in Session
  BY <1>7 DEF Named, Live
<1>9. CreatedInOrder'
  BY <1>4, <1>5, <1>6, <1>7 DEF CreatedInOrder
<1>10. Stands
  <2>1. Stopping => Stopping'
    BY <1>7 DEF Stopping
  <2>2. AllStopped => AllStopped'
    BY <1>7 DEF AllStopped, Live
  <2>3. \A sid : /\ Others(sid) => Others(sid)'
                 /\ Unstopped(sid) => Unstopped(sid)'
    BY <1>5, <1>7, <1>8 DEF Others, Unstopped, Live
  <2>4. \A sid : NotLost(sid) => NotLost(sid)'
    BY <1>1, <1>5, <1>8, <2>1 DEF NotLost
  <2> QED BY <1>7, <1>8, <2>2, <2>3, <2>4 DEF Stands
<1>11. ASSUME ~overlap, ~excused
       PROVE  /\ \A t \in Session : Fits(server'[t])
              /\ \A t \in Session : server'[t].stop => server'[t].st \in {"ready", "gone"}
              /\ Truth(ui)'
  <2>1. /\ \A t \in Session : Fits(server[t])
        /\ \A t \in Session : server[t].stop => server[t].st \in {"ready", "gone"}
        /\ Truth(ui')
    BY <1>1, <1>11 DEF TruthInv
  <2>2. \A t \in Named(ui.session)' : SameView(server[t], server'[t])
    BY <1>1, <1>5, <1>8 DEF SameView
  <2>3. Truth(ui)'
    BY <1>10, <2>1, <2>2, TruthStands
  <2>4. Fits(x)
    BY <1>4 DEF Fits
  <2> QED BY <1>4, <1>5, <2>1, <2>3, <2>4
<1> QED BY <1>1, <1>9, <1>11, WorkTells

(* A step is executed: the page is about to ask for it.                      *)
LEMMA StepDoneTells ==
  ASSUME Inv, TruthInv, NEW s \in Session, StepDone(s) PROVE TruthInv'
<1>1. UNCHANGED ui /\ Unchanging /\ server[s].steps > 0
  BY DEF StepDone, EndStep
<1>2. server[s].st = "ready"
  BY <1>1 DEF Inv, ServerAgrees
<1>3. PICK x : Leaves(s, x)
  BY StepLeaves DEF StepDone
<1>4. /\ x.st = server[s].st /\ x.stop = server[s].stop
      /\ x.program = server[s].program /\ x.text = server[s].text
      /\ Fits(server[s]) => Fits(x)
  BY <1>2, <1>3 DEF Leaves
<1>5. server'[s] = x /\ \A t \in Session \ {s} : server'[t] = server[t]
  BY <1>3 DEF Leaves
<1>6. SameStanding
  BY <1>1, <1>4, <1>5 DEF SameStanding, Unchanging
<1>7. CreatedInOrder' /\ Stands
  BY <1>6, StandingKept DEF TruthInv
<1>8. \A t \in Session : Documents(ui, server[t]) => Documents(ui, server[t])'
  <2>1. \A t \in Session : /\ server'[t].st = server[t].st
                           /\ server'[t].program = server[t].program
                           /\ server'[t].text = server[t].text
    BY <1>4, <1>5
  <2> QED BY <1>1, <2>1 DEF Documents, Readable, ListingIs, Unchanging
<1>9. ASSUME ~overlap, ~excused
      PROVE  /\ \A t \in Session : Fits(server'[t])
             /\ \A t \in Session : server'[t].stop => server'[t].st \in {"ready", "gone"}
             /\ Truth(ui)'
  <2>1. /\ \A t \in Session : Fits(server[t])
        /\ \A t \in Session : server[t].stop => server[t].st \in {"ready", "gone"}
        /\ Truth(ui)
    BY <1>9 DEF TruthInv
  <2>2. Fits(x)
    BY <1>4, <2>1
  <2>3. StepUnderWay(ui, s) /\ OneExchange(ui)
    BY <1>1, <1>9 DEF Inv, StepsAsked
  <2>4. /\ Moving(ui) /\ ui.state = "DEBUG" /\ ui.pollSession = 0
        /\ \A r \in LiveIn(ui) :
             \/ r.kind = "step" /\ r.resp # NoAnswer /\ r.resp.ok
             \/ r.kind = "step-state" /\ (r.resp # NoAnswer => ~r.resp.ok)
    <3>1. CASE ui.pollStep > 0
      <4>1. LiveIn(ui) = {} /\ ui.pollSession = 0
        <5>1. ui.pollStep # 0
          BY <3>1
        <5> QED BY <2>3, <5>1 DEF OneExchange, Lone
      <4> QED BY <2>1, <3>1, <4>1 DEF Truth, PageTruth, Moving
    <3>2. CASE \E r \in LiveIn(ui) :
                 \/ r.kind = "step" /\ r.resp.is = "data" /\ r.resp.ok
                 \/ /\ r.kind = "step-state" /\ r.resp.is # "error"
                    /\ r.resp.is = "data" => ~r.resp.ok
      <4>1. PICK r \in LiveIn(ui) :
              \/ r.kind = "step" /\ r.resp.is = "data" /\ r.resp.ok
              \/ /\ r.kind = "step-state" /\ r.resp.is # "error"
                 /\ r.resp.is = "data" => ~r.resp.ok
        BY <3>2
      <4>2. /\ ui.pollSession = 0 /\ \A q \in LiveIn(ui) : q = r
        BY <2>3, <4>1 DEF OneExchange, Lone
      <4>3. RequestTruth(ui, r)
        BY <2>1, <4>1 DEF Truth
      <4>4. ui.state = "DEBUG"
        BY <4>1, <4>3 DEF RequestTruth, StepTruth, StepStateTruth
      <4>5. \/ r.kind = "step" /\ r.resp # NoAnswer /\ r.resp.ok
            \/ r.kind = "step-state" /\ (r.resp # NoAnswer => ~r.resp.ok)
        <5>1. RequestType(r)
          BY <4>1 DEF Inv, PageInv, PageTypes, RequestTypes, LiveIn
        <5>2. r.resp.is = "data" => r.resp # NoAnswer
          BY DEF NoAnswer
        <5> QED BY <4>1, <5>1, <5>2 DEF RequestType
      <4>6. Moving(ui)
        BY <4>1, <4>5 DEF Moving
      <4> QED BY <4>2, <4>4, <4>5, <4>6
    <3> QED BY <2>3, <3>1, <3>2 DEF StepUnderWay
  <2>5. PageTruth(ui)' /\ InitTruth(ui)' /\ IdleTruth(ui)'
    BY <1>1, <1>7, <2>1, <2>4 DEF Truth, PageTruth, InitTruth, IdleTruth, Stands,
       StoppedFor
  <2>6. DebugTruth(ui)'
    <3>1. DebugTruth(ui) /\ Moving(ui)'
      BY <1>1, <2>1, <2>4 DEF Truth, Moving
    <3>2. Named(ui.session)' = Named(ui.session) /\ \A t \in Named(ui.session) : t \in Session
      BY <1>1, <1>6, StandingKept DEF Named, Live
    <3>3. \A t \in Named(ui.session)' : Documents(ui, server[t])'
      BY <1>8, <2>4, <3>1, <3>2 DEF DebugTruth
    <3>4. /\ Others(ui.session)' /\ (~StoppedFor(ui)' => NotLost(ui.session)')
      BY <1>1, <1>7, <2>4, <3>1 DEF DebugTruth, Stands, StoppedFor
    <3> QED BY <3>1, <3>3, <3>4 DEF DebugTruth
  <2>7. ASSUME NEW r \in LiveIn(ui)'
        PROVE  RequestTruth(ui, r)'
    <3>1. /\ RequestTruth(ui, r)
          /\ \/ r.kind = "step" /\ r.resp # NoAnswer /\ r.resp.ok
             \/ r.kind = "step-state" /\ (r.resp # NoAnswer => ~r.resp.ok)
      BY <1>1, <2>1, <2>4, <2>7 DEF Truth
    <3> QED BY <1>1, <2>4, <3>1 DEF RequestTruth, CompileTruth, SessionTruth,
         StepTruth, StepStateTruth, StopTruth, BreakpointTruth, StdinTruth
  <2>8. Truth(ui)'
    BY <2>5, <2>6, <2>7 DEF Truth
  <2> QED BY <1>4, <1>5, <2>1, <2>2, <2>8
<1> QED BY <1>1, <1>7, <1>9, WorkTells

(* Whatever the worker of a session does.                                    *)
LEMMA SessionTells == ASSUME Inv, TruthInv, NEW s \in Session, Work(s) PROVE TruthInv'
BY CompileDoneTells, StepDoneTells, InputDoneTells, ReapTells DEF Work

(* A request that fails is excused.                                          *)
LEMMA LoseTells ==
  ASSUME TruthInv, NEW r \in Outstanding(ui), Lose(r) PROVE TruthInv'
BY DEF Lose, TruthInv, CreatedInOrder, Live

-----------------------------------------------------------------------------
(* The theorems *)

(* At the beginning there is no session, and the page shows none.            *)
LEMMA InitTells == Init => TruthInv
<1> SUFFICES ASSUME Init PROVE TruthInv
  OBVIOUS
<1>1. ui = Page(NoName) /\ \A s \in Session : server[s] = NoSession
  BY DEF Init
<1>2. NoSession.st = "none" /\ ~NoSession.stop
  BY DEF NoSession
<1>3. Live = {}
  BY <1>1, <1>2 DEF Live
<1>4. CreatedInOrder
  BY <1>1, <1>2, <1>3 DEF CreatedInOrder
<1>5. /\ \A s \in Session : Fits(server[s])
      /\ \A s \in Session : server[s].stop => server[s].st \in {"ready", "gone"}
  BY <1>1, <1>2 DEF Fits
<1>6. /\ ui.state = "INIT" /\ ui.session = NoName /\ ui.hash = NoName
      /\ ui.requests = EmptyBag /\ ui.pollSession = 0 /\ ui.pollStep = 0
      /\ ~ui.autoTimer /\ ui.strayTimers = 0 /\ ~ui.reading
  BY <1>1 DEF Page
<1>7. LiveIn(ui) = {}
  BY <1>6 DEF LiveIn, Outstanding, EmptyBag, SetToBag, BagToSet
<1>8. Others(ui.hash) /\ Unstopped(ui.hash)
  BY <1>3 DEF Others, Unstopped, Named
<1>9. Truth(ui)
  BY <1>6, <1>7, <1>8 DEF Truth, PageTruth, InitTruth, IdleTruth, DebugTruth
<1> QED BY <1>4, <1>5, <1>9 DEF TruthInv

(* Every step keeps what the page tells true.                                *)
LEMMA NextTells == Inv /\ TruthInv /\ [Next]_vars => TruthInv'
<1> SUFFICES ASSUME Inv, TruthInv, [Next]_vars PROVE TruthInv'
  OBVIOUS
<1>1. CASE Serve
  BY <1>1, ServeTells
<1>2. CASE Browser
  BY <1>2, DeliverTells, PollSessionTimerTells, PollStepTimerTells,
     AutoStepTimerTells, FileReadTells, StartAppTells, PopupLoadedTells DEF Browser
<1>3. CASE User
  BY <1>3, PlayClickTells, FwdClickTells, StopClickTells, LoopClickTells,
     GutterClickTells, StdinEnterTells, UploadClickTells, ExampleClickTells,
     EditTells, MoreClickTells, PopupClosedTells, ReloadTells DEF User
<1>4. CASE \E s \in Session : Work(s)
  BY <1>4, SessionTells
<1>5. CASE \E r \in Outstanding(ui) : Lose(r)
  BY <1>5, LoseTells
<1>6. CASE UNCHANGED vars
  <2>1. UNCHANGED <<ui, server, single, user, overlap, excused>>
    BY <1>6 DEF vars
  <2>2. ~overlap' /\ ~excused' => ~overlap /\ ~excused /\ Truth(ui')
    BY <2>1 DEF TruthInv
  <2> QED BY <2>1, <2>2, PageTells
<1> QED BY <1>1, <1>2, <1>3, <1>4, <1>5, <1>6 DEF Next

(* What a page with nothing under way tells is what a patient user sees.     *)
LEMMA PatientSees == Inv /\ TruthInv => TruthWhenPatient
<1> SUFFICES ASSUME Inv, TruthInv, ~overlap, ~excused, ~Busy(ui)
             PROVE  /\ ui.state = "DEBUG" => Stopping \/ \E s \in Attached : Shown(s)
                    /\ ui.state = "IDLE" =>
                         /\ \A s \in Live : server[s].stop
                         /\ ~ui.autoTimer /\ ui.strayTimers = 0
  BY DEF TruthWhenPatient
<1>1. PageTypes(ui) /\ Truth(ui)
  BY DEF Inv, PageInv, TruthInv
<1>2. LiveIn(ui) = {} /\ ui.pollSession = 0 /\ ui.pollStep = 0
  BY <1>1 DEF Busy, LiveIn, Outstanding, PageTypes, ControlTypes
<1>3. ~StoppedFor(ui) /\ ~Moving(ui) /\ ~Marking(ui)
  BY <1>2 DEF StoppedFor, Moving, Marking
<1>4. CASE ui.state = "IDLE"
  BY <1>1, <1>2, <1>4 DEF Truth, PageTruth, IdleTruth, AllStopped
<1>5. CASE ui.state = "DEBUG"
  <2>1. /\ NotLost(ui.session)
        /\ \A s \in Named(ui.session) :
             /\ Documents(ui, server[s]) /\ PositionShown(ui, server[s])
             /\ BreakpointsShown(ui, server[s])
    BY <1>1, <1>3, <1>5 DEF Truth, DebugTruth
  <2>2. \A s \in Named(ui.session) : Shown(s)
    BY <2>1 DEF Documents, PositionShown, BreakpointsShown, Readable, Shown
  <2> QED BY <1>5, <2>1, <2>2 DEF NotLost, Attached
<1> QED BY <1>4, <1>5

(* The invariant holds: whatever is under way, the page knows which sessions *)
(* were told to stop, what it awaits of its own, and which of the lines it   *)
(* shows are still those of the server.                                      *)
THEOREM TruthIsKept == Spec => [](Inv /\ TruthInv)
<1>1. Init => Inv /\ TruthInv
  BY InitInv, InitTells
<1>2. Inv /\ TruthInv /\ [Next]_vars => (Inv /\ TruthInv)'
  BY NextInv, NextTells
<1> QED BY <1>1, <1>2, PTL DEF Spec

(* To a user who waits for each answer the page tells the truth: the session *)
(* it shows is the server's, at the position and with the breakpoints shown, *)
(* and a page without one has left no session running that still runs.       *)
THEOREM PatientUsersAreTold == Spec => []TruthWhenPatient
BY TruthIsKept, PatientSees, PTL
=============================================================================
