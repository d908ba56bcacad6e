---------------------------- MODULE EditorLines ----------------------------
(***************************************************************************)
(* What the web interface sees of a CodeMirror document: a sequence of     *)
(* line objects, each with its classes, its widgets and its gutter marker. *)
(* A handle is a line object: it follows its text when lines are inserted  *)
(* above it, and is dead once the line is removed from the document.  What *)
(* the interface keeps of a line (the handles in sourceHighlighted, the    *)
(* widgets in sourceWidgets) is therefore kept here as a mark of the line: *)
(* dead handles have no effect, and the order of the lists has none.       *)
(***************************************************************************)
EXTENDS Integers, Sequences, SequencesExt

\* num:     which line of the text this is, 0 for a line of another text
\* classes: the classes of its wrapper element
\* held:    a handle to it is in the interface's list of highlighted lines
\* widget:  it has line widgets
\* wheld:   they are in the interface's list of widgets
\* bkpt:    it has a marker in the gutter "breakpoints"
Line(n) == [num |-> n, classes |-> {}, held |-> FALSE, widget |-> FALSE,
            wheld |-> FALSE, bkpt |-> FALSE]

LineType(nums) == [num : nums, classes : SUBSET {"highlight", "compile-error"},
                   held : BOOLEAN, widget : BOOLEAN, wheld : BOOLEAN,
                   bkpt : BOOLEAN]

EmptyDoc == <<Line(0)>>

\* Lines are numbered from 0; a number outside the document is clipped.
ClipLine(doc, n) ==
  IF n < 0 THEN 0 ELSE IF n >= Len(doc) THEN Len(doc) - 1 ELSE n

\* The line object that changeLine hands to its operation.
At(doc, n) == ClipLine(doc, n) + 1

\* A full change puts in new lines and removes every old one, marks and all.
SetValue(nums) == [i \in 1..Len(nums) |-> Line(nums[i])]

\* A user's edits.  Entering a line break leaves the line object with one of
\* the parts and makes a new one for the other; the new one is n.
InsertLine(doc, n) == InsertAt(doc, n + 1, Line(0))
DeleteLine(doc, n) == RemoveAt(doc, n + 1)

\* addLineClass with a number; the interface keeps the handle it returns.
AddLineClass(doc, n, cls) ==
  [doc EXCEPT ![At(doc, n)].classes = @ \union {cls}, ![At(doc, n)].held = TRUE]

\* addLineWidget; the interface keeps the widget it returns.
AddLineWidget(doc, n) ==
  [doc EXCEPT ![At(doc, n)].widget = TRUE, ![At(doc, n)].wheld = TRUE]

\* removeLineClass for the handles kept: without a class it removes them all.
RemoveHeldClasses(doc) ==
  [i \in DOMAIN doc |->
     IF doc[i].held THEN [doc[i] EXCEPT !.classes = {}, !.held = FALSE] ELSE doc[i]]

\* LineWidget.clear for the widgets kept.
ClearHeldWidgets(doc) ==
  [i \in DOMAIN doc |->
     IF doc[i].wheld THEN [doc[i] EXCEPT !.widget = FALSE, !.wheld = FALSE]
     ELSE doc[i]]

\* setGutterMarker for each of the lines.
SetGutterMarkers(doc, lines) ==
  [i \in DOMAIN doc |-> IF \E n \in lines : i = At(doc, n)
                        THEN [doc[i] EXCEPT !.bkpt = TRUE] ELSE doc[i]]

ClearGutter(doc) == [i \in DOMAIN doc |-> [doc[i] EXCEPT !.bkpt = FALSE]]

\* lineInfo of a line that exists: whether the gutter has a marker.
HasMarker(doc, n) == doc[n + 1].bkpt

Marked(doc) == {doc[i].num : i \in {j \in DOMAIN doc : doc[j].bkpt}}
Highlighted(doc) ==
  {doc[i].num : i \in {j \in DOMAIN doc : "highlight" \in doc[j].classes}}
=============================================================================
