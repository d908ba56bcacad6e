---------------------------- MODULE EditorView ----------------------------
(***************************************************************************)
(* How CodeMirror keeps the highlighted lines that penguinTrace's users    *)
(* see: the states its mode saves after lines, the styles it caches on     *)
(* them, the frontiers up to which they are right, the worker that moves   *)
(* the frontier in the background, and the view of the lines that are      *)
(* drawn.  A block comment (of the modes clike and gas) is what makes the  *)
(* style of a line depend on lines far above it.  Lines are numbered from  *)
(* 0, and all are indented alike.                                          *)
(***************************************************************************)
EXTENDS Integers, Sequences, SequencesExt

CONSTANTS
  Texts,      \* of a line: "plain", "opens" and "closes"
  MaxLines,   \* of a document; the worker's 500 lines past the view are more
  Height,     \* lines that are visible
  Margins,    \* viewportMargin: Infinity in penguinTrace's editors, 10 by default
  Slack,      \* 20: lines by which a view may stay larger
  SaveEvery,  \* 5: lines between those whose states are kept out of view
  Search,     \* 100: lines in which a saved state is looked for
  Early       \* the retreat looks at this many lines behind: 10

\* A state is saved often enough to be found.
ASSUME ViewAssumption ==
  /\ MaxLines \in Nat \ {0} /\ Height \in Nat \ {0} /\ Margins \subseteq Nat
  /\ Slack \in Nat /\ Early \in Nat
  /\ SaveEvery \in Nat \ {0} /\ Search \in Nat /\ SaveEvery <= Search

\* lines:   text "opens" or "closes" a comment or is "plain"; after: the saved
\*          state, "none" without one; styles: the state it was styled from
\* top:     the first visible line; margin: viewportMargin
\* from, to, shown: display.view, the styles each of its lines is drawn with
\* highlightFrontier, modeFrontier, timer (state.highlight)
\* skipped: the worker has passed lines above the view, whose styles it leaves
VARIABLE ed

States == {"code", "comment"}
Blank == [text |-> "none", styles |-> "none"]

Line(text) == [text |-> text, after |-> "none", styles |-> "none"]

Lesser(a, b) == IF a < b THEN a ELSE b
Greater(a, b) == IF a > b THEN a ELSE b

Size(e) == Len(e.lines)
InView(e, n) == n >= e.from /\ n < e.to

\* token: the state after a line.
Token(text, state) ==
  CASE text = "opens" -> "comment" [] text = "closes" -> "code" [] OTHER -> state

\* The state before line n, read from the one before line start.
StateAt(lines, start, state, n) ==
  LET before[i \in Nat] ==
        IF i <= start THEN state ELSE Token(lines[i].text, before[i - 1])
  IN before[n]

\* And by reading all lines above it.
TrueBefore(lines, n) == StateAt(lines, 0, "code", n)

-----------------------------------------------------------------------------
(* Highlighting *)

\* A mutant trusts a saved state wherever it is.
StaleStartLine(e, n, precise) ==
  LET good == {s \in 1..n : e.lines[s].after # "none"}
  IN IF good # {} THEN CHOOSE s \in good : \A t \in good : t <= s ELSE 0

\* findStartLine: the line below the nearest saved state, which for a precise
\* answer must be above the frontier, or the line above.
FindStartLine(e, n, precise) ==
  LET near == {s \in 1..n : precise \/ s > n - Search}
      good == {s \in near : e.lines[s].after # "none" /\ (precise => s <= e.modeFrontier)}
  IN IF good # {} THEN CHOOSE s \in good : \A t \in good : t <= s
     ELSE IF precise \/ n < Search THEN 0 ELSE n - 1

\* getContextBefore: the state before line n, and what is saved on the way.
ContextBefore(e, n, precise) ==
  LET start == FindStartLine(e, n, precise)
      saved == start > 0 /\ e.lines[start].after # "none"
      first == IF saved THEN e.lines[start].after ELSE "code"
      Kept(i) == i = n - 1 \/ i % SaveEvery = 0 \/ InView(e, i)
  IN [state |-> StateAt(e.lines, start, first, n),
      ed |-> [e EXCEPT
        !.lines = [i \in DOMAIN @ |->
          IF i > start /\ i <= n
          THEN [@[i] EXCEPT !.after =
                 IF Kept(i - 1) THEN StateAt(e.lines, start, first, i) ELSE "none"]
          ELSE @[i]],
        !.modeFrontier = IF precise THEN n ELSE @]]

\* getLineStyles: a line that is drawn at the frontier moves it.
LineStyled(e, n) ==
  IF e.lines[n + 1].styles # "none" THEN e
  ELSE LET context == ContextBefore(e, n, FALSE)
           moves == e.highlightFrontier = n
       IN [context.ed EXCEPT
            !.lines[n + 1] =
              [@ EXCEPT !.styles = context.state,
                        !.after = Token(e.lines[n + 1].text, context.state)],
            !.highlightFrontier = IF moves THEN n + 1 ELSE @,
            !.modeFrontier = IF moves THEN Greater(@, n + 1) ELSE @]

RetreatFrontier(e, n) ==
  LET kept == {i \in 1..(n - 1) : e.lines[i + 1].after # "none"}
      start == IF kept = {} THEN 0
               ELSE 1 + CHOOSE i \in kept : \A j \in kept : j <= i
  IN [e EXCEPT
       !.modeFrontier = Lesser(@, n),
       !.highlightFrontier = IF @ < n - Early THEN @ ELSE Lesser(@, start)]

\* A mutant lets the worker rest when it has come to the view.
StartWorkerAbove(e) == [e EXCEPT !.timer = @ \/ e.highlightFrontier < e.from]

StartWorker(e) == [e EXCEPT !.timer = @ \/ e.highlightFrontier < e.to]

-----------------------------------------------------------------------------
(* The view *)

ResetView(e) == [e EXCEPT !.from = 0, !.to = 0, !.shown = <<>>]

Blanks(n) == [i \in 1..n |-> Blank]

RegLineChange(e, n) ==
  IF InView(e, n) THEN [e EXCEPT !.shown[n - e.from + 1] = Blank] ELSE e

\* A mutant forgets that what is below a change has moved.
RegChangeInPlace(e, from, to, lendiff) ==
  IF to <= e.from \/ from >= e.to THEN e
  ELSE [e EXCEPT !.shown = [i \in DOMAIN @ |->
         IF i - 1 + e.from \in from..(to - 1) THEN Blank ELSE @[i]]]

\* regChange: lines from..to - 1 have become lendiff more.
RegChange(e, from, to, lendiff) ==
  LET above == SubSeq(e.shown, 1, from - e.from)
      below == SubSeq(e.shown, to - e.from + 1, Len(e.shown))
  IN CASE from >= e.to -> e
       [] from < e.to /\ to <= e.from ->
            [e EXCEPT !.from = @ + lendiff, !.to = @ + lendiff]
       [] from <= e.from /\ to > e.from /\ to >= e.to -> ResetView(e)
       [] from <= e.from /\ to > e.from /\ to < e.to ->
            [e EXCEPT !.shown = below, !.from = to + lendiff, !.to = @ + lendiff]
       [] from > e.from /\ from < e.to /\ to >= e.to ->
            [e EXCEPT !.shown = above, !.to = from]
       [] from > e.from /\ to < e.to ->
            [e EXCEPT !.shown = above \o Blanks(to + lendiff - from) \o below,
                      !.to = @ + lendiff]

\* adjustView: what is drawn of the lines that stay in view.
AdjustView(e, from, to) ==
  [e EXCEPT !.from = from, !.to = to,
            !.shown = [i \in 1..(to - from) |->
              IF InView(e, from + i - 1) THEN e.shown[from + i - e.from] ELSE Blank]]

\* buildLineElement, for a line that is not drawn.
DrawLine(e, n) ==
  LET styled == LineStyled(e, n)
      line == styled.lines[n + 1]
  IN IF e.shown[n - e.from + 1] # Blank THEN e
     ELSE [styled EXCEPT !.shown[n - e.from + 1] =
             [text |-> line.text, styles |-> line.styles]]

\* patchDisplay: the lines of the view, in order.
PatchDisplay(e) ==
  LET drawn[n \in e.from..e.to] ==
        IF n = e.from THEN e ELSE DrawLine(drawn[n - 1], n - 1)
  IN drawn[e.to]

\* updateDisplayIfNeeded, at the end of an operation.
UpdateDisplay(scrolled) ==
  LET e == [scrolled EXCEPT !.top = Lesser(@, Size(scrolled) - 1)]
      last == Lesser(Size(e), e.top + Height)
      above == Greater(e.top - e.margin, 0)
      below == Lesser(Size(e), last + e.margin)
      from == IF e.from < above /\ above - e.from < Slack THEN e.from ELSE above
      to == IF e.to > below /\ e.to - below < Slack THEN Lesser(Size(e), e.to) ELSE below
      bails == /\ e.top >= e.from /\ last <= e.to
               /\ \A i \in DOMAIN e.shown : e.shown[i] # Blank
      drawn == PatchDisplay(AdjustView(e, from, to))
  IN IF bails THEN e
     ELSE IF from # e.from \/ to # e.to THEN StartWorker(drawn) ELSE drawn

-----------------------------------------------------------------------------
(* Operations *)

Open(texts, margin) ==
  [lines |-> [i \in DOMAIN texts |-> Line(texts[i])], top |-> 0, margin |-> margin,
   from |-> 0, to |-> 0, shown |-> <<>>,
   highlightFrontier |-> 0, modeFrontier |-> 0, timer |-> FALSE, skipped |-> FALSE]

ViewInit == \E margin \in Margins : ed = UpdateDisplay(Open(<<"plain">>, margin))

\* makeChangeSingleDocInEditor: the frontier goes back to the change, then the
\* view is told of it.
Edited(lines, n) == StartWorker(RetreatFrontier([ed EXCEPT !.lines = lines], n))

\* Users edit the lines they see.
Seen == ed.top..(Lesser(Size(ed), ed.top + Height) - 1)

EditLine ==
  \E n \in Seen, text \in Texts :
    ed' = UpdateDisplay(RegLineChange(
            Edited([ed.lines EXCEPT ![n + 1] = Line(text)], n), n))

\* The line object keeps the first part; the cursor is in the second.
SplitLine ==
  \E n \in Seen, text \in Texts :
    LET e == Edited(InsertAt([ed.lines EXCEPT ![n + 1] = Line("plain")],
                             n + 2, Line(text)), n)
        top == IF n + 1 < ed.top + Height THEN ed.top ELSE n + 2 - Height
    IN /\ Size(ed) < MaxLines
       /\ ed' = UpdateDisplay([RegChange(e, n, n + 1, 1) EXCEPT !.top = top])

JoinLines ==
  \E n \in Seen, text \in Texts :
    /\ n + 1 \in Seen
    /\ ed' = UpdateDisplay(RegChange(
               Edited(RemoveAt([ed.lines EXCEPT ![n + 1] = Line(text)], n + 2), n),
               n, n + 2, -1))

\* setValue: a full change, which scrolls to the top.
SetValue ==
  \E n \in {1, MaxLines}, text \in Texts :
    LET lines == [i \in 1..n |-> Line(IF i = 1 THEN text ELSE "plain")]
        e == [Edited(lines, 0) EXCEPT !.top = 0, !.skipped = FALSE]
    IN ed' = UpdateDisplay(ResetView(e))

\* loadMode, when the language is chosen.
ResetModeState ==
  LET e == [ed EXCEPT !.lines = [i \in DOMAIN @ |-> Line(@[i].text)],
                      !.modeFrontier = 0, !.highlightFrontier = 0,
                      !.skipped = FALSE]
  IN ed' = UpdateDisplay(ResetView(StartWorker(e)))

Scroll ==
  \E top \in 0..(Size(ed) - 1) :
    /\ top # ed.top
    /\ ed' = UpdateDisplay([ed EXCEPT !.top = top])

\* getTokenAt and indentLine read the state before a line.
ReadToken ==
  \E n \in 0..(Size(ed) - 1), precise \in BOOLEAN :
    ed' = ContextBefore(ed, n, precise).ed

\* The worker's lines from first to the one before last, each from the state
\* before it; out of view it saves states only.
Worked(e, first, state, last) ==
  LET Before(n) == StateAt(e.lines, first, state, n)
      Works(n) == n >= first /\ n < last
      Changes(n) == Works(n) /\ n >= e.from /\ e.lines[n + 1].styles # Before(n)
  IN [e EXCEPT
       !.lines = [i \in DOMAIN @ |->
         IF ~Works(i - 1) THEN e.lines[i]
         ELSE [e.lines[i] EXCEPT
                !.styles = IF i - 1 >= e.from THEN Before(i - 1) ELSE e.lines[i].styles,
                !.after = IF i - 1 >= e.from \/ (i - 1) % SaveEvery = 0
                          THEN Before(i) ELSE "none"]],
       !.shown = [i \in DOMAIN @ |-> IF Changes(e.from + i - 1) THEN Blank ELSE @[i]]]

\* The worker's timer: the work may end after any line, when its time is over,
\* and then goes on later.
HighlightWorker ==
  /\ ed.timer
  /\ IF ed.highlightFrontier >= ed.to THEN ed' = [ed EXCEPT !.timer = FALSE]
     ELSE \E last \in (ed.highlightFrontier + 1)..Size(ed) :
       LET n == ed.highlightFrontier
           context == ContextBefore(ed, n, FALSE)
           worked == Worked(context.ed, n, context.state, last)
       IN \E later \in BOOLEAN :
            /\ later \/ last = Size(ed)
            /\ ed' = UpdateDisplay([worked EXCEPT
                    !.timer = later, !.skipped = @ \/ n < ed.from,
                    !.highlightFrontier = last,
                    !.modeFrontier = Greater(@, last)])

ViewNext ==
  \/ EditLine \/ SplitLine \/ JoinLines \/ SetValue \/ ResetModeState
  \/ Scroll \/ ReadToken \/ HighlightWorker

ViewSpec == ViewInit /\ [][ViewNext]_ed

-----------------------------------------------------------------------------
(* Whatever is edited, scrolled or read between two runs of the worker, and  *)
(* wherever they end, the state saved after a line above one of the          *)
(* frontiers is the one that reading the document from its start gives.      *)
FrontierSound ==
  \A n \in 0..(Size(ed) - 1) :
    n < Greater(ed.highlightFrontier, ed.modeFrontier) =>
      ed.lines[n + 1].after \in {"none", TrueBefore(ed.lines, n + 1)}

(* After every operation the view is of the lines it is numbered for, covers *)
(* what is visible, and each line is drawn with its text and cached styles.  *)
ViewShowsDocument ==
  /\ ed.from <= ed.top /\ Lesser(Size(ed), ed.top + Height) <= ed.to
  /\ ed.to <= Size(ed) /\ Len(ed.shown) = ed.to - ed.from
  /\ \A i \in DOMAIN ed.shown :
       LET line == ed.lines[ed.from + i] IN
       ed.shown[i] = [text |-> line.text, styles |-> line.styles]

(* The worker is due or every line in view is drawn with the right           *)
(* highlighting; with a margin smaller than the document, unless lines were  *)
(* scrolled out of view before the worker came to them.                      *)
SettledIsRight ==
  \/ ed.timer \/ (ed.skipped /\ ed.margin < MaxLines)
  \/ \A n \in ed.from..(ed.to - 1) : ed.lines[n + 1].styles = TrueBefore(ed.lines, n)
=============================================================================
