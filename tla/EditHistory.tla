---------------------------- MODULE EditHistory ----------------------------
(***************************************************************************)
(* The undo history of a CodeMirror document, which penguinTrace's source  *)
(* editor gives its users and fills itself with every setValue.  The       *)
(* arrays done and undone hold selections and change events; a change      *)
(* event holds the inverses of the changes that are undone together.       *)
(* Positions are offsets in the text, and the selection is one range.      *)
(***************************************************************************)
EXTENDS Integers, Sequences, SequencesExt

CONSTANTS
  Letters,         \* what texts are made of, each once
  UndoDepths,      \* undoDepth, 200 by default: events kept when a change is added
  MaxSelections,   \* selections in done and undone
  MaxChanges       \* changes in done and undone

\* text, sel:                 the document
\* undoDepth, done, undone:   the history
\* sameOp, sameSelOp:         lastOp, lastSelOp are the operation under way
\* lastOrigin, lastSelOrigin: "+" for an origin that starts with it ("+input",
\*                            "+move") while lastModTime, lastSelTime are within
\*                            the delay, "*" for "*compose" and "*mouse", "none"
\*                            for one that allows no merging.  No selection has
\*                            the origin of a change.
VARIABLE doc

\* A text that a change puts in: none, or the next letter that is not there.
Pieces(text) ==
  {<<>>} \cup
    IF Letters = ToSet(text) THEN {} ELSE {<<CHOOSE l \in Letters : l \notin ToSet(text)>>}

-----------------------------------------------------------------------------
(* Changes and selections *)

Splice(text, c) ==
  SubSeq(text, 1, c.from) \o c.text \o SubSeq(text, c.to + 1, Len(text))

ChangeEnd(c) == c.from + Len(c.text)

AdjustForChange(pos, c) ==
  IF pos < c.from THEN pos
  ELSE IF pos <= c.to THEN ChangeEnd(c)
  ELSE pos + ChangeEnd(c) - c.to

ComputeSelAfterChange(sel, c) ==
  [anchor |-> AdjustForChange(sel.anchor, c), head |-> AdjustForChange(sel.head, c)]

Cursor(pos) == [anchor |-> pos, head |-> pos]
Empty(sel) == sel.anchor = sel.head

\* historyChangeFromChange: the change that takes c back.
HistoryChange(text, c) ==
  [from |-> c.from, to |-> ChangeEnd(c), text |-> SubSeq(text, c.from + 1, c.to)]

IsSel(event) == "head" \in DOMAIN event

\* The last event that satisfies a test, 0 if none does.
LastSuch(events, Test(_)) ==
  LET such == {i \in DOMAIN events : Test(events[i])} IN
  IF such = {} THEN 0 ELSE CHOOSE i \in such : \A j \in such : j <= i

TopIsSel(events) == events # <<>> /\ IsSel(Last(events))

PushSelection(events, sel) ==
  IF events # <<>> /\ Last(events) = sel THEN events ELSE Append(events, sel)

ClearSelectionEvents(events) ==
  SubSeq(events, 1, LastSuch(events, LAMBDA e : ~IsSel(e)))

-----------------------------------------------------------------------------
(* Recording *)

\* lastChangeEvent: done without the selections that are popped to find a change.
LastChangeEvent(done, force) ==
  IF force THEN ClearSelectionEvents(done)
  ELSE IF TopIsSel(done) /\ Len(done) > 1 /\ ~IsSel(done[Len(done) - 1])
  THEN Front(done)
  ELSE done

MayMerge(d, origin) ==
  \/ d.sameOp
  \/ origin # "none" /\ d.lastOrigin = origin

\* A mutant looks at where the text goes and not at what it replaces.
MergedOver(event, text, c) ==
  LET last == Last(event.changes) IN
  [changes |-> IF c.from = last.to
               THEN Append(Front(event.changes), [last EXCEPT !.to = ChangeEnd(c)])
               ELSE Append(event.changes, HistoryChange(text, c))]

\* A typed character makes the last inverse longer; any other change adds one.
Merged(event, text, c) ==
  LET last == Last(event.changes) IN
  [changes |-> IF c.from = c.to /\ c.from = last.to
               THEN Append(Front(event.changes), [last EXCEPT !.to = ChangeEnd(c)])
               ELSE Append(event.changes, HistoryChange(text, c))]

\* A mutant leaves a change without the selection it was made from.
ShiftedOne(done, depth) ==
  IF Len(done) <= depth THEN done ELSE Tail(done)

RECURSIVE Shifted(_, _)
\* Too old events go, and the history keeps a selection first.
Shifted(done, depth) ==
  IF Len(done) <= depth THEN done
  ELSE Shifted(IF IsSel(done[2]) THEN Tail(done) ELSE Tail(Tail(done)), depth)

AddChangeToHistory(d, c, origin, selAfter) ==
  LET found == IF MayMerge(d, origin) THEN LastChangeEvent(d.done, d.sameOp) ELSE d.done
      merges == MayMerge(d, origin) /\ found # <<>> /\ ~TopIsSel(found)
      before == IF TopIsSel(found) THEN found ELSE PushSelection(found, d.sel)
      events == IF merges
                THEN Append(Front(found), Merged(Last(found), d.text, c))
                ELSE Shifted(Append(before, [changes |-> <<HistoryChange(d.text, c)>>]),
                             d.undoDepth)
  IN [d EXCEPT !.undone = <<>>, !.done = Append(events, selAfter),
               !.sameOp = TRUE, !.sameSelOp = TRUE,
               !.lastOrigin = origin, !.lastSelOrigin = "none"]

\* A change that inserts nothing nowhere is none.
MakeChange(d, c, origin) ==
  IF c.text = <<>> /\ c.from = c.to THEN d
  ELSE LET selAfter == ComputeSelAfterChange(d.sel, c) IN
       [AddChangeToHistory(d, c, origin, selAfter) EXCEPT
         !.text = Splice(@, c), !.sel = selAfter]

SelectionEventCanBeMerged(d, origin, sel) ==
  \/ origin = "*"
  \/ origin = "+" /\ Empty(Last(d.done)) = Empty(sel)

AddSelectionToHistory(d, sel, origin) ==
  LET replaces ==
        \/ d.sameSelOp
        \/ /\ origin # "none" /\ d.lastSelOrigin = origin
           /\ SelectionEventCanBeMerged(d, origin, sel)
  IN [d EXCEPT !.done = IF replaces THEN Append(Front(@), sel) ELSE PushSelection(@, sel),
               !.lastSelOrigin = origin, !.sameSelOp = TRUE]

\* options: none given, given, or given with clearRedo off.
SetSelection(d, sel, origin, options) ==
  LET added == AddSelectionToHistory([d EXCEPT !.sel = sel], sel, origin) IN
  IF options = "given"
  THEN [added EXCEPT !.undone = ClearSelectionEvents(@)] ELSE added

SetSelectionReplaceHistory(d, sel) ==
  IF TopIsSel(d.done)
  THEN [d EXCEPT !.done = Append(Front(@), sel), !.sel = sel]
  ELSE SetSelection(d, sel, "none", "none")

-----------------------------------------------------------------------------
(* Undoing and redoing *)

RECURSIVE TextsBack(_, _)
\* The texts before, between and after the changes of an event, last change first.
TextsBack(text, changes) ==
  IF changes = <<>> THEN <<text>>
  ELSE <<text>> \o TextsBack(Splice(text, Last(changes)), Front(changes))

\* The inverses of an event's changes as they are taken back.
AntiChanges(text, changes) ==
  LET texts == TextsBack(text, changes) IN
  [i \in DOMAIN changes |-> HistoryChange(texts[i], Reverse(changes)[i])]

\* The event that ends the search: a change, or for selectionOnly a selection
\* other than the present one.
Ends(d, selectionOnly, event) == ~IsSel(event) \/ (selectionOnly /\ event # d.sel)

\* Without one, undoing does nothing and clears no selections.
Usable(d, selectionOnly, source) ==
  \E i \in DOMAIN source :
    IF selectionOnly THEN IsSel(source[i]) /\ source[i] # d.sel ELSE ~IsSel(source[i])

MakeChangeFromHistory(d, type, selectionOnly) ==
  LET source == IF type = "undo" THEN d.done ELSE d.undone
      dest == IF type = "undo" THEN d.undone ELSE d.done
      at == LastSuch(source, LAMBDA e : Ends(d, selectionOnly, e))
      event == source[at]
      left == SubSeq(source, 1, at - 1)
      popped == Reverse(SubSeq(source, at + 1, Len(source)))
      moved == FoldLeft(PushSelection, dest, popped)
      With(from, to) ==
        [d EXCEPT !.lastOrigin = "none", !.lastSelOrigin = "none",
                  !.done = IF type = "undo" THEN from ELSE to,
                  !.undone = IF type = "undo" THEN to ELSE from]
      selAfter == IF popped = <<>> THEN d.sel ELSE Last(popped)
      first == Head(event.changes)
      between == FoldLeft(ComputeSelAfterChange, d.sel, Reverse(Tail(event.changes)))
  IN IF IsSel(event)
     THEN SetSelection(With(left, PushSelection(moved, event)), event, "none", "kept")
     ELSE [With(left, Append(PushSelection(moved, selAfter),
                             [changes |-> AntiChanges(d.text, event.changes)])) EXCEPT
            !.text = Last(TextsBack(d.text, event.changes)),
            !.sel = IF left = <<>> THEN ComputeSelAfterChange(between, first)
                    ELSE Last(left)]

-----------------------------------------------------------------------------
(* Operations *)

Init ==
  \E depth \in UndoDepths :
    doc = [text |-> <<>>, sel |-> Cursor(0), undoDepth |-> depth,
           done |-> <<>>, undone |-> <<>>, sameOp |-> FALSE, sameSelOp |-> FALSE,
           lastOrigin |-> "none", lastSelOrigin |-> "none"]

\* The next call is an operation of its own.
EndOperation ==
  /\ doc.sameSelOp
  /\ doc' = [doc EXCEPT !.sameOp = FALSE, !.sameSelOp = FALSE]

Forgotten(origin) == IF origin = "+" THEN "none" ELSE origin

\* The delay after the last change, or after the last change and selection, is over.
Delay ==
  \E sel \in {doc.lastSelOrigin, Forgotten(doc.lastSelOrigin)} :
    /\ "+" \in {doc.lastOrigin, doc.lastSelOrigin} /\ ~doc.sameSelOp
    /\ doc' = [doc EXCEPT !.lastOrigin = Forgotten(@), !.lastSelOrigin = sel]

RECURSIVE Changes(_)
Changes(events) ==
  IF events = <<>> THEN 0
  ELSE Changes(Tail(events))
         + IF IsSel(Head(events)) THEN 0 ELSE Len(Head(events).changes)

Becomes(d) ==
  /\ Len(SelectSeq(d.done \o d.undone, IsSel)) <= MaxSelections
  /\ Changes(d.done) + Changes(d.undone) <= MaxChanges
  /\ doc' = d

Selections(text) == [anchor : 0..Len(text), head : 0..Len(text)]

From(sel) == IF sel.anchor < sel.head THEN sel.anchor ELSE sel.head
To(sel) == sel.anchor + sel.head - From(sel)

\* A letter is inserted, or some are deleted.
ReplaceRange ==
  \E from, to \in 0..Len(doc.text), text \in Pieces(doc.text), o \in {"none", "+"} :
    /\ IF text = <<>> THEN from < to /\ o = "none" ELSE from = to
    /\ Becomes(MakeChange(doc, [from |-> from, to |-> to, text |-> text], o))

\* replaceSelections: the new text is left selected, without an event of its own.
ReplaceSelection ==
  \E text \in Pieces(doc.text) :
    LET c == [from |-> From(doc.sel), to |-> To(doc.sel), text |-> text] IN
    Becomes(SetSelectionReplaceHistory(MakeChange(doc, c, "none"),
              [anchor |-> c.from, head |-> ChangeEnd(c)]))

SetValue ==
  \E text \in Pieces(doc.text) :
    Becomes(SetSelection(
      MakeChange(doc, [from |-> 0, to |-> Len(doc.text), text |-> text], "none"),
      Cursor(0), "none", "given"))

\* The cursor is moved to the start by a key.
Select == Becomes(SetSelection(doc, Cursor(0), "+", "given"))

\* undo, redo, undoSelection and redoSelection, not inside another operation.
History ==
  \E type \in {"undo", "redo"}, selectionOnly \in BOOLEAN :
    /\ ~doc.sameSelOp
    /\ Usable(doc, selectionOnly, IF type = "undo" THEN doc.done ELSE doc.undone)
    /\ Becomes(MakeChangeFromHistory(doc, type, selectionOnly))

Next ==
  \/ EndOperation \/ Delay
  \/ ReplaceRange \/ ReplaceSelection \/ SetValue \/ Select \/ History

Spec == Init /\ [][Next]_doc

-----------------------------------------------------------------------------
\* The texts that undoing the events of a history restores, oldest first.
Unwound(text, events) ==
  LET Restored[i \in 0..Len(events)] ==
        IF i = Len(events) THEN text
        ELSE IF IsSel(events[i + 1]) THEN Restored[i + 1]
        ELSE Last(TextsBack(Restored[i + 1], events[i + 1].changes))
      at == SelectSeq([i \in DOMAIN events |-> i], LAMBDA i : ~IsSel(events[i]))
  IN [j \in DOMAIN at |-> Restored[at[j] - 1]]

TextsOnly ==
  INSTANCE TextHistory WITH Texts <- Seq(Letters),
                            text <- doc.text,
                            past <- Unwound(doc.text, doc.done),
                            future <- Unwound(doc.text, doc.undone)

(* However changes merge into events, and whatever selections are recorded,  *)
(* dropped or replaced between them, undoing restores the texts the document *)
(* has had in their order, redoing returns along them, and only a change     *)
(* forgets the texts undone.                                                 *)
UndoRestoresTexts == TextsOnly!Spec

RECURSIVE FitsBack(_, _)
FitsBack(text, events) ==
  IF events = <<>> THEN TRUE
  ELSE LET event == Last(events) IN
    IF IsSel(event)
    THEN event \in Selections(text) /\ FitsBack(text, Front(events))
    ELSE LET texts == TextsBack(text, event.changes) IN
      /\ \A i \in DOMAIN event.changes :
           LET c == Reverse(event.changes)[i] IN
           c.from <= c.to /\ c.to <= Len(texts[i])
      /\ TopIsSel(Front(events))
      /\ FitsBack(Last(texts), Front(events))

(* Every selection in the history lies in the text that undoing brings it    *)
(* back to, every inverse change in the text it is applied to, and under     *)
(* every change event is the selection that undoing it restores.             *)
HistoryFitsTexts ==
  /\ doc.sel \in Selections(doc.text)
  /\ FitsBack(doc.text, doc.done) /\ FitsBack(doc.text, doc.undone)
=============================================================================
