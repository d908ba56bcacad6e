-------------------------- MODULE WebUIPageProofs --------------------------
(***************************************************************************)
(* What the functions of the web interface do to a page: lemmas about the  *)
(* operators of EditorLines and WebUI, from the lines of a document to the *)
(* handler of an answer.  The invariant and its theorems are in            *)
(* WebUIProofs.                                                            *)
(***************************************************************************)
EXTENDS WebUIProps, SequenceTheorems, FiniteSetTheorems, WellFoundedInduction,
        TLAPS

-----------------------------------------------------------------------------
(* Documents *)

Docs(nums) == Seq(LineType(nums)) \ {<<>>}

\* The same text: nothing but the marks of its lines may differ.
SameText(d, e) ==
  DOMAIN e = DOMAIN d /\ \A i \in DOMAIN d : e[i].num = d[i].num

SameMarkers(d, e) == \A i \in DOMAIN d : e[i].bkpt = d[i].bkpt
SameClasses(d, e) ==
  \A i \in DOMAIN d : e[i].classes = d[i].classes /\ e[i].held = d[i].held

\* Every highlighted line is in the interface's list.
Held(doc) == \A i \in DOMAIN doc : "highlight" \in doc[i].classes => doc[i].held
Dark(doc) == \A i \in DOMAIN doc : "highlight" \notin doc[i].classes
OneLit(doc) ==
  \A i, j \in DOMAIN doc :
    "highlight" \in doc[i].classes /\ "highlight" \in doc[j].classes => i = j

(* The minimum of a set of numbers is one of them.                           *)
LEMMA MinIsMember ==
  ASSUME NEW S, S \subseteq Nat, S # {}
  PROVE  Min(S) \in S
<1> DEFINE R == {ss \in Nat \X Nat : ss[1] < ss[2]}
<1>1. R = OpToRel(<, Nat)
  BY Zenon DEF OpToRel
<1>2. IsWellFoundedOn(R, Nat)
  BY <1>1, NatLessThanWellFounded, Zenon
<1> HIDE DEF R
<1>3. PICK x \in S : \A y \in S : ~(<<y, x>> \in R)
  BY <1>2, WFMin
<1>4. ASSUME NEW y \in S
      PROVE  x =< y
  <2>1. <<y, x>> \in Nat \X Nat /\ <<y, x>>[1] = y /\ <<y, x>>[2] = x
    OBVIOUS
  <2>2. ~(y < x)
    BY <1>3, <2>1 DEF R
  <2> QED BY <2>2
<1> QED BY <1>4 DEF Min

(* A document changed line by line is a document.                            *)
LEMMA LineByLine ==
  ASSUME NEW nums, NEW d \in Docs(nums), NEW e,
         e = [i \in DOMAIN d |-> e[i]],
         \A i \in DOMAIN d : e[i] \in LineType(nums)
  PROVE  e \in Docs(nums)
<1>1. Len(d) \in Nat /\ Len(d) # 0 /\ DOMAIN d = 1..Len(d)
  BY EmptySeq DEF Docs
<1>2. e \in [1..Len(d) -> LineType(nums)]
  BY <1>1
<1>3. e \in Seq(LineType(nums)) /\ Len(e) = Len(d)
  BY <1>1, <1>2
<1>4. e # <<>>
  BY <1>1, <1>3, EmptySeq
<1> QED BY <1>3, <1>4 DEF Docs

(* What the operations do to a line.                                         *)
LEMMA LineUpdates ==
  ASSUME NEW nums, NEW l \in LineType(nums), NEW cls \in {"highlight", "compile-error"}
  PROVE  /\ [l EXCEPT !.classes = {}, !.held = FALSE] \in LineType(nums)
         /\ [l EXCEPT !.classes = @ \union {cls}, !.held = TRUE] \in LineType(nums)
         /\ [l EXCEPT !.widget = FALSE, !.wheld = FALSE] \in LineType(nums)
         /\ [l EXCEPT !.widget = TRUE, !.wheld = TRUE] \in LineType(nums)
         /\ [l EXCEPT !.bkpt = FALSE] \in LineType(nums)
         /\ [l EXCEPT !.bkpt = TRUE] \in LineType(nums)
BY DEF LineType

(* A line of a document has the fields of a line.                            *)
LEMMA LineFields ==
  ASSUME NEW nums, NEW l \in LineType(nums)
  PROVE  /\ DOMAIN l = {"num", "classes", "held", "widget", "wheld", "bkpt"}
         /\ l.num \in nums /\ l.classes \subseteq {"highlight", "compile-error"}
         /\ l.held \in BOOLEAN /\ l.widget \in BOOLEAN /\ l.wheld \in BOOLEAN
         /\ l.bkpt \in BOOLEAN
BY DEF LineType

(* A line number is clipped into the document.                               *)
LEMMA AtIsALine ==
  ASSUME NEW nums, NEW d \in Docs(nums), NEW n \in Int
  PROVE  /\ At(d, n) \in DOMAIN d
         /\ n + 1 \in DOMAIN d => At(d, n) = n + 1
<1>1. Len(d) \in Nat /\ Len(d) # 0 /\ DOMAIN d = 1..Len(d)
  BY EmptySeq DEF Docs
<1> QED BY <1>1 DEF At, ClipLine

(* removeLineClass takes back every highlight.                               *)
LEMMA ClassesRemoved ==
  ASSUME NEW nums, NEW d \in Docs(nums)
  PROVE  LET e == RemoveHeldClasses(d) IN
         /\ e \in Docs(nums) /\ SameText(d, e) /\ SameMarkers(d, e)
         /\ Held(d) => Dark(e)
<1>1. ASSUME NEW i \in DOMAIN d
      PROVE  d[i] \in LineType(nums)
  BY DEF Docs
<1>2. ASSUME NEW i \in DOMAIN d
      PROVE  (IF d[i].held THEN [d[i] EXCEPT !.classes = {}, !.held = FALSE]
              ELSE d[i]) \in LineType(nums)
  BY <1>1, LineUpdates
<1>3. RemoveHeldClasses(d) \in Docs(nums)
  <2> DEFINE e == RemoveHeldClasses(d)
  <2>1. e = [i \in DOMAIN d |-> e[i]] /\ \A i \in DOMAIN d : e[i] \in LineType(nums)
    BY <1>2 DEF RemoveHeldClasses
  <2> HIDE DEF e
  <2> QED BY <2>1, LineByLine DEF e
<1>4. ASSUME NEW i \in DOMAIN d
      PROVE  LET l == RemoveHeldClasses(d)[i] IN
             /\ l.num = d[i].num /\ l.bkpt = d[i].bkpt
             /\ l.classes = IF d[i].held THEN {} ELSE d[i].classes
  BY <1>1, LineFields DEF RemoveHeldClasses
<1>5. DOMAIN RemoveHeldClasses(d) = DOMAIN d
  BY DEF RemoveHeldClasses
<1> QED BY <1>3, <1>4, <1>5 DEF SameText, SameMarkers, Held, Dark

(* LineWidget.clear leaves text, classes and markers.                        *)
LEMMA WidgetsCleared ==
  ASSUME NEW nums, NEW d \in Docs(nums)
  PROVE  LET e == ClearHeldWidgets(d) IN
         /\ e \in Docs(nums) /\ SameText(d, e) /\ SameMarkers(d, e)
         /\ SameClasses(d, e)
<1>1. ASSUME NEW i \in DOMAIN d
      PROVE  d[i] \in LineType(nums)
  BY DEF Docs
<1>2. ASSUME NEW i \in DOMAIN d
      PROVE  (IF d[i].wheld THEN [d[i] EXCEPT !.widget = FALSE, !.wheld = FALSE]
              ELSE d[i]) \in LineType(nums)
  BY <1>1, LineUpdates
<1>3. ClearHeldWidgets(d) \in Docs(nums)
  <2> DEFINE e == ClearHeldWidgets(d)
  <2>1. e = [i \in DOMAIN d |-> e[i]] /\ \A i \in DOMAIN d : e[i] \in LineType(nums)
    BY <1>2 DEF ClearHeldWidgets
  <2> HIDE DEF e
  <2> QED BY <2>1, LineByLine DEF e
<1>4. ASSUME NEW i \in DOMAIN d
      PROVE  LET l == ClearHeldWidgets(d)[i] IN
             /\ l.num = d[i].num /\ l.bkpt = d[i].bkpt
             /\ l.classes = d[i].classes /\ l.held = d[i].held
  BY <1>1, LineFields DEF ClearHeldWidgets
<1>5. DOMAIN ClearHeldWidgets(d) = DOMAIN d
  BY DEF ClearHeldWidgets
<1> QED BY <1>3, <1>4, <1>5 DEF SameText, SameMarkers, SameClasses

(* clearGutter leaves text and classes, and no marker.                       *)
LEMMA GutterCleared ==
  ASSUME NEW nums, NEW d \in Docs(nums)
  PROVE  LET e == ClearGutter(d) IN
         /\ e \in Docs(nums) /\ SameText(d, e) /\ SameClasses(d, e)
         /\ \A i \in DOMAIN d : ~e[i].bkpt
<1>1. ASSUME NEW i \in DOMAIN d
      PROVE  d[i] \in LineType(nums)
  BY DEF Docs
<1>2. ASSUME NEW i \in DOMAIN d
      PROVE  [d[i] EXCEPT !.bkpt = FALSE] \in LineType(nums)
  BY <1>1, LineUpdates
<1>3. ClearGutter(d) \in Docs(nums)
  <2> DEFINE e == ClearGutter(d)
  <2>1. e = [i \in DOMAIN d |-> e[i]] /\ \A i \in DOMAIN d : e[i] \in LineType(nums)
    BY <1>2 DEF ClearGutter
  <2> HIDE DEF e
  <2> QED BY <2>1, LineByLine DEF e
<1>4. ASSUME NEW i \in DOMAIN d
      PROVE  LET l == ClearGutter(d)[i] IN
             /\ l.num = d[i].num /\ ~l.bkpt
             /\ l.classes = d[i].classes /\ l.held = d[i].held
  BY <1>1, LineFields DEF ClearGutter
<1>5. DOMAIN ClearGutter(d) = DOMAIN d
  BY DEF ClearGutter
<1> QED BY <1>3, <1>4, <1>5 DEF SameText, SameClasses

(* setGutterMarker leaves text and classes; a new marker is where it was put.*)
LEMMA GutterMarked ==
  ASSUME NEW nums, NEW d \in Docs(nums), NEW lines
  PROVE  LET e == SetGutterMarkers(d, lines) IN
         /\ e \in Docs(nums) /\ SameText(d, e) /\ SameClasses(d, e)
         /\ \A i \in DOMAIN d :
              e[i].bkpt => d[i].bkpt \/ \E n \in lines : i = At(d, n)
<1>1. ASSUME NEW i \in DOMAIN d
      PROVE  d[i] \in LineType(nums)
  BY DEF Docs
<1>2. ASSUME NEW i \in DOMAIN d
      PROVE  (IF \E n \in lines : i = At(d, n)
              THEN [d[i] EXCEPT !.bkpt = TRUE] ELSE d[i]) \in LineType(nums)
  BY <1>1, LineUpdates
<1>3. SetGutterMarkers(d, lines) \in Docs(nums)
  <2> DEFINE e == SetGutterMarkers(d, lines)
  <2>1. e = [i \in DOMAIN d |-> e[i]] /\ \A i \in DOMAIN d : e[i] \in LineType(nums)
    BY <1>2 DEF SetGutterMarkers
  <2> HIDE DEF e
  <2> QED BY <2>1, LineByLine DEF e
<1>4. ASSUME NEW i \in DOMAIN d
      PROVE  LET l == SetGutterMarkers(d, lines)[i] IN
             /\ l.num = d[i].num
             /\ l.bkpt => d[i].bkpt \/ \E n \in lines : i = At(d, n)
             /\ l.classes = d[i].classes /\ l.held = d[i].held
  BY <1>1, LineFields DEF SetGutterMarkers
<1>5. DOMAIN SetGutterMarkers(d, lines) = DOMAIN d
  BY DEF SetGutterMarkers
<1> QED BY <1>3, <1>4, <1>5 DEF SameText, SameClasses

(* addLineClass: the line is kept in the list, the others are left.          *)
LEMMA ClassAdded ==
  ASSUME NEW nums, NEW d \in Docs(nums), NEW n \in Int,
         NEW cls \in {"highlight", "compile-error"}
  PROVE  LET e == AddLineClass(d, n, cls) IN
         /\ e \in Docs(nums) /\ SameText(d, e) /\ SameMarkers(d, e)
         /\ Held(d) => Held(e)
         /\ cls = "compile-error" /\ OneLit(d) => OneLit(e)
         /\ cls = "compile-error" /\ Dark(d) => Dark(e)
         /\ Dark(d) => OneLit(e)
<1> DEFINE a == At(d, n)
           e == AddLineClass(d, n, cls)
<1>1. a \in DOMAIN d
  BY AtIsALine
<1>2. ASSUME NEW i \in DOMAIN d
      PROVE  d[i] \in LineType(nums)
  BY DEF Docs
<1>3. PICK l \in LineType(nums) : l = d[a]
  BY <1>1, <1>2
<1>9. /\ e[a] = [l EXCEPT !.classes = @ \union {cls}, !.held = TRUE]
      /\ \A i \in DOMAIN d \ {a} : e[i] = d[i]
  BY <1>1, <1>3 DEF AddLineClass
<1>4. DOMAIN e = DOMAIN d
  BY DEF AddLineClass
<1>6. e = [i \in DOMAIN d |-> e[i]]
  BY <1>4 DEF AddLineClass
<1> HIDE DEF a, e
<1>5. ASSUME NEW i \in DOMAIN d
      PROVE  e[i] \in LineType(nums)
  <2>1. CASE i = a
    <3>1. [l EXCEPT !.classes = @ \union {cls}, !.held = TRUE] \in LineType(nums)
      BY LineUpdates, Zenon
    <3> QED BY <2>1, <1>9, <3>1
  <2>2. CASE i # a
    BY <2>2, <1>2, <1>9
  <2> QED BY <2>1, <2>2
<1>7. e \in Docs(nums)
  BY <1>5, <1>6, LineByLine
<1>8. ASSUME NEW i \in DOMAIN d
      PROVE  /\ e[i].num = d[i].num /\ e[i].bkpt = d[i].bkpt
             /\ i # a => e[i].classes = d[i].classes /\ e[i].held = d[i].held
             /\ i = a => e[i].classes = d[i].classes \union {cls} /\ e[i].held
  <2>1. CASE i = a
    BY <2>1, <1>3, <1>9, LineFields
  <2>2. CASE i # a
    BY <2>2, <1>2, <1>9
  <2> QED BY <2>1, <2>2
<1> QED BY <1>4, <1>7, <1>8 DEF e, SameText, SameMarkers, Held, Dark, OneLit

(* addLineWidget leaves text, classes and markers.                           *)
LEMMA WidgetAdded ==
  ASSUME NEW nums, NEW d \in Docs(nums), NEW n \in Int
  PROVE  LET e == AddLineWidget(d, n) IN
         /\ e \in Docs(nums) /\ SameText(d, e) /\ SameMarkers(d, e)
         /\ SameClasses(d, e)
<1> DEFINE a == At(d, n)
           e == AddLineWidget(d, n)
<1>1. a \in DOMAIN d
  BY AtIsALine
<1>2. ASSUME NEW i \in DOMAIN d
      PROVE  d[i] \in LineType(nums)
  BY DEF Docs
<1>3. PICK l \in LineType(nums) : l = d[a]
  BY <1>1, <1>2
<1>9. /\ e[a] = [l EXCEPT !.widget = TRUE, !.wheld = TRUE]
      /\ \A i \in DOMAIN d \ {a} : e[i] = d[i]
  BY <1>1, <1>3 DEF AddLineWidget
<1>4. DOMAIN e = DOMAIN d
  BY DEF AddLineWidget
<1>6. e = [i \in DOMAIN d |-> e[i]]
  BY <1>4 DEF AddLineWidget
<1> HIDE DEF a, e
<1>5. ASSUME NEW i \in DOMAIN d
      PROVE  e[i] \in LineType(nums)
  <2>1. CASE i = a
    BY <2>1, <1>9, LineUpdates
  <2>2. CASE i # a
    BY <2>2, <1>2, <1>9
  <2> QED BY <2>1, <2>2
<1>7. e \in Docs(nums)
  BY <1>5, <1>6, LineByLine
<1>8. ASSUME NEW i \in DOMAIN d
      PROVE  /\ e[i].num = d[i].num /\ e[i].bkpt = d[i].bkpt
             /\ e[i].classes = d[i].classes /\ e[i].held = d[i].held
  <2>1. CASE i = a
    BY <2>1, <1>3, <1>9, LineFields
  <2>2. CASE i # a
    BY <2>2, <1>2, <1>9
  <2> QED BY <2>1, <2>2
<1> QED BY <1>4, <1>7, <1>8 DEF e, SameText, SameMarkers, SameClasses

(* A new document has no marks.                                              *)
LEMMA ValueSet ==
  ASSUME NEW nums, NEW text \in Seq(nums), text # <<>>
  PROVE  LET e == SetValue(text) IN
         /\ e \in Docs(nums) /\ DOMAIN e = DOMAIN text
         /\ \A i \in DOMAIN e : e[i] = Line(text[i])
         /\ Dark(e) /\ Held(e) /\ \A i \in DOMAIN e : ~e[i].bkpt
<1> DEFINE e == SetValue(text)
<1>1. Len(text) \in Nat /\ Len(text) # 0 /\ DOMAIN text = 1..Len(text)
  BY EmptySeq
<1>2. DOMAIN e = 1..Len(text) /\ \A i \in DOMAIN e : e[i] = Line(text[i])
  BY DEF SetValue
<1>3. ASSUME NEW i \in 1..Len(text)
      PROVE  Line(text[i]) \in LineType(nums)
  BY <1>1 DEF Line, LineType
<1>4. e \in [1..Len(text) -> LineType(nums)]
  BY <1>3 DEF SetValue
<1>5. e \in Seq(LineType(nums)) /\ Len(e) = Len(text)
  BY <1>1, <1>4
<1>6. e # <<>>
  BY <1>1, <1>5, EmptySeq
<1>7. ASSUME NEW i \in DOMAIN e
      PROVE  e[i].classes = {} /\ ~e[i].bkpt
  BY <1>2 DEF Line
<1> HIDE DEF e
<1> QED BY <1>1, <1>2, <1>5, <1>6, <1>7 DEF e, Docs, Dark, Held

-----------------------------------------------------------------------------
(* Requests *)

(* A request is sent.                                                        *)
LEMMA Added ==
  ASSUME NEW B, IsABag(B), NEW r
  PROVE  LET C == B (+) SetToBag({r}) IN
         /\ IsABag(C) /\ BagToSet(C) = BagToSet(B) \union {r}
         /\ \A q \in BagToSet(B) \ {r} : C[q] = B[q]
         /\ C[r] = IF r \in BagToSet(B) THEN B[r] + 1 ELSE 1
<1> DEFINE C == B (+) SetToBag({r})
<1>1. /\ DOMAIN SetToBag({r}) = {r}
      /\ SetToBag({r})[r] = 1
  BY DEF SetToBag
<1>2. /\ DOMAIN C = DOMAIN B \union {r}
      /\ \A e \in DOMAIN C :
           C[e] = (IF e \in DOMAIN B THEN B[e] ELSE 0)
                + (IF e \in DOMAIN SetToBag({r}) THEN SetToBag({r})[e] ELSE 0)
      /\ C = [e \in DOMAIN C |-> C[e]]
  BY <1>1 DEF (+)
<1>3. \A e \in DOMAIN B : B[e] \in Nat /\ B[e] > 0
  BY DEF IsABag
<1> HIDE DEF C
<1>4. ASSUME NEW q \in DOMAIN B \ {r}
      PROVE  C[q] = B[q]
  <2>1. q \in DOMAIN C /\ q \notin DOMAIN SetToBag({r}) /\ B[q] \in Nat
    BY <1>1, <1>2, <1>3
  <2> QED BY <2>1, <1>2
<1>5. C[r] = IF r \in DOMAIN B THEN B[r] + 1 ELSE 1
  <2>1. r \in DOMAIN C /\ r \in DOMAIN SetToBag({r})
    BY <1>1, <1>2
  <2>2. C[r] = (IF r \in DOMAIN B THEN B[r] ELSE 0) + 1
    BY <2>1, <1>1, <1>2
  <2>3. CASE r \in DOMAIN B
    BY <2>2, <2>3, <1>3
  <2>4. CASE r \notin DOMAIN B
    BY <2>2, <2>4
  <2> QED BY <2>3, <2>4
<1>6. \A e \in DOMAIN C : C[e] \in {n \in Nat : n > 0}
  BY <1>2, <1>3, <1>4, <1>5
<1>7. IsABag(C)
  BY <1>2, <1>6 DEF IsABag
<1> QED BY <1>2, <1>4, <1>5, <1>7 DEF BagToSet, C

(* A request is taken away.                                                  *)
LEMMA Removed ==
  ASSUME NEW B, IsABag(B), NEW r \in BagToSet(B)
  PROVE  LET C == B (-) SetToBag({r}) IN
         /\ IsABag(C)
         /\ BagToSet(C) = IF B[r] = 1 THEN BagToSet(B) \ {r} ELSE BagToSet(B)
         /\ \A q \in BagToSet(C) \ {r} : C[q] = B[q]
         /\ r \in BagToSet(C) => C[r] = B[r] - 1
<1> DEFINE C == B (-) SetToBag({r})
           D == [e \in DOMAIN B |-> IF e \in DOMAIN SetToBag({r})
                                    THEN B[e] - SetToBag({r})[e] ELSE B[e]]
<1>1. /\ DOMAIN SetToBag({r}) = {r}
      /\ SetToBag({r})[r] = 1
  BY DEF SetToBag
<1>2. /\ DOMAIN D = DOMAIN B /\ D[r] = B[r] - 1
      /\ \A e \in DOMAIN B \ {r} : D[e] = B[e]
  BY <1>1 DEF BagToSet
<1>3. C = [e \in {d \in DOMAIN D : D[d] > 0} |-> D[e]]
  BY DEF (-)
<1>4. \A e \in DOMAIN B : B[e] \in Nat /\ B[e] > 0
  BY DEF IsABag
<1> HIDE DEF C, D
<1>5. DOMAIN C = IF B[r] = 1 THEN DOMAIN B \ {r} ELSE DOMAIN B
  <2>1. DOMAIN C = {d \in DOMAIN D : D[d] > 0}
    BY <1>3
  <2>2. r \in DOMAIN B /\ B[r] \in Nat /\ B[r] > 0
    BY <1>4 DEF BagToSet
  <2>3. CASE B[r] = 1
    BY <2>1, <2>2, <2>3, <1>2, <1>4
  <2>4. CASE B[r] # 1
    BY <2>1, <2>2, <2>4, <1>2, <1>4
  <2> QED BY <2>3, <2>4
<1>6. \A e \in DOMAIN C : C[e] = D[e] /\ D[e] > 0
  BY <1>3
<1>7. IsABag(C)
  <2>1. \A e \in DOMAIN C : C[e] \in {n \in Nat : n > 0}
    BY <1>2, <1>4, <1>5, <1>6
  <2> QED BY <2>1, <1>3 DEF IsABag
<1> QED BY <1>2, <1>5, <1>6, <1>7 DEF BagToSet, C

-----------------------------------------------------------------------------
(* The page *)

SourceDocs == Docs(LineNumbers \union {0})
CompiledDocs == Docs(Addresses \union {0})

SameControl(u, v) ==
  /\ v.state = u.state /\ v.session = u.session /\ v.hash = u.hash
  /\ v.autoStep = u.autoStep
SameExchange(u, v) ==
  /\ v.autoTimer = u.autoTimer /\ v.strayTimers = u.strayTimers
  /\ v.pollTries = u.pollTries /\ v.pollSession = u.pollSession
  /\ v.pollStep = u.pollStep /\ v.reading = u.reading
  /\ v.requests = u.requests
SameTables(u, v) ==
  /\ v.popup = u.popup /\ v.last = u.last /\ v.main = u.main
  /\ v.window = u.window
SameListing(u, v) == v.lineNumbers = u.lineNumbers /\ v.disasmMap = u.disasmMap
SameEditors(u, v) ==
  v.source = u.source /\ v.compiled = u.compiled /\ SameListing(u, v)

\* The listing and what the gutter and the markers know of it.
ListingAgrees(u) ==
  /\ Len(u.lineNumbers) <= Len(u.compiled)
  /\ \A i \in DOMAIN u.lineNumbers :
       u.lineNumbers[i] # -1 => u.compiled[i].num = u.lineNumbers[i]
  /\ \A pc \in DOMAIN u.disasmMap :
       /\ u.disasmMap[pc] + 1 \in DOMAIN u.lineNumbers
       /\ u.lineNumbers[u.disasmMap[pc] + 1] = pc
  /\ \A i \in DOMAIN u.compiled :
       u.compiled[i].bkpt => i \in DOMAIN u.lineNumbers /\ u.lineNumbers[i] # -1

EditorsAgree(u) == ListingAgrees(u) /\ Held(u.source) /\ Held(u.compiled)

\* What a function of the interface that changes the editors leaves alone.
OnlyEditors(u, v) ==
  /\ PageTypes(v) /\ SameControl(u, v) /\ SameExchange(u, v) /\ SameTables(u, v)

(* New documents in the editors change nothing else of the page.             *)
LEMMA EditorFrame ==
  ASSUME NEW u, PageTypes(u), NEW v, DOMAIN v = DOMAIN u, v.threw \in BOOLEAN,
         SameControl(u, v), SameExchange(u, v), SameTables(u, v), EditorTypes(v)
  PROVE  OnlyEditors(u, v)
BY DEF OnlyEditors, PageTypes, ControlTypes, TableTypes, RequestTypes,
   Outstanding,
       SameControl, SameExchange, SameTables

(* New documents of the same listing change nothing else of the page.        *)
LEMMA DocumentFrame ==
  ASSUME NEW u, PageTypes(u), NEW v, DOMAIN v = DOMAIN u, v.threw \in BOOLEAN,
         SameControl(u, v), SameExchange(u, v), SameTables(u, v), SameListing(u, v),
         v.source \in SourceDocs, v.compiled \in CompiledDocs
  PROVE  OnlyEditors(u, v)
<1>1. EditorTypes(v)
  BY DEF PageTypes, EditorTypes, SameListing, SourceDocs, CompiledDocs, Docs
<1> QED BY <1>1, EditorFrame

(* The documents of a page.                                                  *)
LEMMA PageDocs ==
  ASSUME NEW u, PageTypes(u)
  PROVE  u.source \in SourceDocs /\ u.compiled \in CompiledDocs
BY DEF PageTypes, EditorTypes, SourceDocs, CompiledDocs, Docs

(* Marks that change keep the listing in agreement, unless a marker is new.  *)
LEMMA ListingKept ==
  ASSUME NEW u, NEW v, PageTypes(u), PageTypes(v), ListingAgrees(u),
         SameListing(u, v), SameText(u.compiled, v.compiled),
         \A i \in DOMAIN u.compiled :
           v.compiled[i].bkpt => i \in DOMAIN u.lineNumbers /\ u.lineNumbers[i] # -1
  PROVE  ListingAgrees(v)
<1>1. /\ u.compiled \in CompiledDocs /\ v.compiled \in CompiledDocs
      /\ u.lineNumbers \in Seq(Addresses \union {-1})
  BY PageDocs DEF PageTypes, EditorTypes
<1>2. /\ Len(u.compiled) \in Nat /\ DOMAIN u.compiled = 1..Len(u.compiled)
      /\ Len(v.compiled) \in Nat /\ DOMAIN v.compiled = 1..Len(v.compiled)
  BY <1>1 DEF CompiledDocs, Docs
<1>3. Len(v.compiled) = Len(u.compiled)
  BY <1>2 DEF SameText
<1>4. /\ Len(u.lineNumbers) \in Nat /\ DOMAIN u.lineNumbers = 1..Len(u.lineNumbers)
      /\ Len(u.lineNumbers) <= Len(u.compiled)
  BY <1>1 DEF ListingAgrees
<1>5. \A i \in DOMAIN u.lineNumbers : i \in DOMAIN u.compiled
  BY <1>2, <1>4
<1> QED BY <1>3, <1>5 DEF ListingAgrees, SameListing, SameText

(* clearAllHighlight takes back every highlight.                             *)
LEMMA ClearAllHighlightPage ==
  ASSUME NEW u, PageTypes(u), EditorsAgree(u)
  PROVE  LET v == ClearAllHighlight(u) IN
         /\ OnlyEditors(u, v) /\ SameListing(u, v) /\ EditorsAgree(v)
         /\ Dark(v.source) /\ Dark(v.compiled) /\ v.threw = u.threw
<1> DEFINE s == ClearHeldWidgets(RemoveHeldClasses(u.source))
           c == ClearHeldWidgets(RemoveHeldClasses(u.compiled))
           v == ClearAllHighlight(u)
<1>1. u.source \in SourceDocs /\ u.compiled \in CompiledDocs
  BY PageDocs
<1>2. /\ s \in SourceDocs /\ SameText(u.source, s) /\ Dark(s)
  <2>1. /\ RemoveHeldClasses(u.source) \in SourceDocs
        /\ SameText(u.source, RemoveHeldClasses(u.source))
        /\ Dark(RemoveHeldClasses(u.source))
    BY <1>1, ClassesRemoved DEF SourceDocs, EditorsAgree
  <2>2. /\ s \in SourceDocs /\ SameText(RemoveHeldClasses(u.source), s)
        /\ SameClasses(RemoveHeldClasses(u.source), s)
    BY <2>1, WidgetsCleared DEF SourceDocs
  <2> QED BY <2>1, <2>2 DEF SameText, SameClasses, Dark
<1>3. /\ c \in CompiledDocs /\ SameText(u.compiled, c) /\ Dark(c)
      /\ SameMarkers(u.compiled, c)
  <2>1. /\ RemoveHeldClasses(u.compiled) \in CompiledDocs
        /\ SameText(u.compiled, RemoveHeldClasses(u.compiled))
        /\ SameMarkers(u.compiled, RemoveHeldClasses(u.compiled))
        /\ Dark(RemoveHeldClasses(u.compiled))
    BY <1>1, ClassesRemoved DEF CompiledDocs, EditorsAgree
  <2>2. /\ c \in CompiledDocs /\ SameText(RemoveHeldClasses(u.compiled), c)
        /\ SameMarkers(RemoveHeldClasses(u.compiled), c)
        /\ SameClasses(RemoveHeldClasses(u.compiled), c)
    BY <2>1, WidgetsCleared DEF CompiledDocs
  <2> QED BY <2>1, <2>2 DEF SameText, SameClasses, SameMarkers, Dark
<1>4. /\ OnlyEditors(u, v) /\ SameListing(u, v)
      /\ v.source = s /\ v.compiled = c /\ v.threw = u.threw
  <2> HIDE DEF s, c
  <2>1. v = [u EXCEPT !.source = s, !.compiled = c]
    BY DEF ClearAllHighlight, s, c
  <2>2. /\ DOMAIN v = DOMAIN u /\ SameControl(u, v) /\ SameExchange(u, v)
        /\ SameTables(u, v) /\ SameListing(u, v)
        /\ v.source = s /\ v.compiled = c /\ v.threw = u.threw
    BY <2>1 DEF PageTypes, PageFields, SameControl, SameExchange, SameTables,
       SameListing
  <2> HIDE DEF v
  <2>3. v.threw \in BOOLEAN
    BY <2>2 DEF PageTypes, ControlTypes
  <2> QED BY <2>2, <2>3, <1>2, <1>3, DocumentFrame
<1> HIDE DEF s, c, v
<1>5. ListingAgrees(v)
  <2>1. ListingAgrees(u) /\ PageTypes(v)
    BY <1>4 DEF EditorsAgree, OnlyEditors
  <2>2. \A i \in DOMAIN u.compiled :
          v.compiled[i].bkpt => i \in DOMAIN u.lineNumbers /\ u.lineNumbers[i] # -1
    BY <2>1, <1>3, <1>4 DEF SameMarkers, ListingAgrees
  <2> QED BY <2>1, <2>2, <1>3, <1>4, ListingKept
<1>6. Held(v.source) /\ Held(v.compiled)
  BY <1>2, <1>3, <1>4 DEF Dark, Held
<1> QED BY <1>2, <1>3, <1>4, <1>5, <1>6 DEF EditorsAgree, v

(* clearGutters takes back every marker.                                     *)
LEMMA ClearGuttersPage ==
  ASSUME NEW u, PageTypes(u), EditorsAgree(u)
  PROVE  LET v == ClearGutters(u) IN
         /\ OnlyEditors(u, v) /\ SameListing(u, v) /\ EditorsAgree(v)
         /\ v.threw = u.threw
         /\ Dark(u.source) => Dark(v.source)
         /\ Dark(u.compiled) => Dark(v.compiled)
<1> DEFINE s == ClearGutter(u.source)
           c == ClearGutter(u.compiled)
           v == ClearGutters(u)
<1>1. u.source \in SourceDocs /\ u.compiled \in CompiledDocs
  BY PageDocs
<1>2. /\ s \in SourceDocs /\ SameText(u.source, s) /\ SameClasses(u.source, s)
  BY <1>1, GutterCleared DEF SourceDocs
<1>3. /\ c \in CompiledDocs /\ SameText(u.compiled, c) /\ SameClasses(u.compiled, c)
      /\ \A i \in DOMAIN u.compiled : ~c[i].bkpt
  BY <1>1, GutterCleared DEF CompiledDocs
<1>4. /\ OnlyEditors(u, v) /\ SameListing(u, v)
      /\ v.source = s /\ v.compiled = c /\ v.threw = u.threw
  <2> HIDE DEF s, c
  <2>1. v = [u EXCEPT !.source = s, !.compiled = c]
    BY DEF ClearGutters, s, c
  <2>2. /\ DOMAIN v = DOMAIN u /\ SameControl(u, v) /\ SameExchange(u, v)
        /\ SameTables(u, v) /\ SameListing(u, v)
        /\ v.source = s /\ v.compiled = c /\ v.threw = u.threw
    BY <2>1 DEF PageTypes, PageFields, SameControl, SameExchange, SameTables,
       SameListing
  <2> HIDE DEF v
  <2>3. v.threw \in BOOLEAN
    BY <2>2 DEF PageTypes, ControlTypes
  <2> QED BY <2>2, <2>3, <1>2, <1>3, DocumentFrame
<1> HIDE DEF s, c, v
<1>5. ListingAgrees(v)
  <2>1. ListingAgrees(u) /\ PageTypes(v)
    BY <1>4 DEF EditorsAgree, OnlyEditors
  <2> QED BY <2>1, <1>3, <1>4, ListingKept
<1>6. /\ Held(v.source) /\ Held(v.compiled)
      /\ Dark(u.source) => Dark(v.source)
      /\ Dark(u.compiled) => Dark(v.compiled)
  BY <1>2, <1>3, <1>4 DEF Dark, Held, EditorsAgree, SameText, SameClasses
<1> QED BY <1>4, <1>5, <1>6 DEF EditorsAgree, v

(* The first two conjuncts of what the operators below keep are transitive.  *)
LEMMA OnlyEditorsChains ==
  ASSUME NEW u, NEW v, NEW w, OnlyEditors(u, v), OnlyEditors(v, w)
  PROVE  OnlyEditors(u, w)
BY DEF OnlyEditors, SameControl, SameExchange, SameTables

(* changeState takes back every highlight and marker, except for DEBUG.      *)
LEMMA ChangeStatePage ==
  ASSUME NEW u, PageTypes(u), EditorsAgree(u), NEW next \in {"IDLE", "DEBUG"}
  PROVE  LET v == ChangeState(u, next) IN
         /\ PageTypes(v) /\ SameExchange(u, v) /\ SameTables(u, v)
         /\ EditorsAgree(v) /\ v.threw = u.threw /\ v.state = next
         /\ next = "DEBUG" => SameEditors(u, v) /\ v.session = u.session
         /\ next = "IDLE" => Dark(v.source) /\ Dark(v.compiled)
<1> DEFINE v == ChangeState(u, next)
<1>1. CASE next = "DEBUG"
  <2>1. v = [u EXCEPT !.state = "DEBUG"]
    BY <1>1 DEF ChangeState
  <2>2. /\ PageTypes(v) /\ SameExchange(u, v) /\ SameTables(u, v)
        /\ SameEditors(u, v) /\ v.threw = u.threw /\ v.state = "DEBUG"
        /\ v.session = u.session
    BY <2>1 DEF PageTypes, PageFields, ControlTypes, EditorTypes, TableTypes,
       RequestTypes, Outstanding, SameExchange, SameTables, SameEditors, SameListing
  <2>3. EditorsAgree(v)
    BY <2>2 DEF EditorsAgree, ListingAgrees, SameEditors, SameListing
  <2> HIDE DEF v
  <2> QED BY <2>2, <2>3, <1>1 DEF v
<1>2. CASE next = "IDLE"
  <2> DEFINE a == ClearAllHighlight(u)
             b == ClearGutters(a)
             c == ForgetSession(b)
  <2>1. /\ OnlyEditors(u, a) /\ EditorsAgree(a) /\ a.threw = u.threw
        /\ Dark(a.source) /\ Dark(a.compiled)
    BY ClearAllHighlightPage
  <2> HIDE DEF a
  <2>2. /\ OnlyEditors(a, b) /\ EditorsAgree(b) /\ b.threw = a.threw
        /\ Dark(b.source) /\ Dark(b.compiled)
    BY <2>1, ClearGuttersPage DEF OnlyEditors
  <2> HIDE DEF b
  <2>3. OnlyEditors(u, b) /\ PageTypes(b)
    BY <2>1, <2>2, OnlyEditorsChains DEF OnlyEditors
  <2>4. v = [c EXCEPT !.autoStep = FALSE, !.state = "IDLE"]
    BY <1>2 DEF ChangeState, a, b
  <2>5. /\ PageTypes(c) /\ SameExchange(b, c) /\ SameTables(b, c)
        /\ SameEditors(b, c) /\ c.threw = b.threw
    <3>1. CASE b.session = NoName
      BY <3>1, <2>3 DEF ForgetSession, SameExchange, SameTables, SameEditors,
         SameListing
    <3>2. CASE b.session # NoName
      BY <3>2, <2>3 DEF ForgetSession, PageTypes, PageFields, ControlTypes,
         EditorTypes, TableTypes, RequestTypes, Outstanding, SameExchange,
         SameTables, SameEditors, SameListing
    <3> QED BY <3>1, <3>2
  <2> HIDE DEF c
  <2>6. /\ PageTypes(v) /\ SameExchange(c, v) /\ SameTables(c, v)
        /\ SameEditors(c, v) /\ v.threw = c.threw /\ v.state = "IDLE"
    BY <2>4, <2>5 DEF PageTypes, PageFields, ControlTypes, EditorTypes,
       TableTypes,
       RequestTypes, Outstanding, SameExchange, SameTables, SameEditors, SameListing
  <2> HIDE DEF v
  <2>7. SameExchange(u, v) /\ SameTables(u, v) /\ SameEditors(b, v)
    BY <2>3, <2>5, <2>6 DEF OnlyEditors, SameExchange, SameTables, SameEditors,
       SameListing
  <2>8. EditorsAgree(v) /\ Dark(v.source) /\ Dark(v.compiled)
    BY <2>2, <2>7 DEF EditorsAgree, ListingAgrees, SameEditors, SameListing
  <2> QED BY <2>1, <2>2, <2>5, <2>6, <2>7, <2>8, <1>2 DEF v
<1> QED BY <1>1, <1>2

(* setLanguageAndText: a new text has no marks.                              *)
LEMMA SetTextPage ==
  ASSUME NEW u, PageTypes(u), EditorsAgree(u),
         NEW text \in Seq(LineNumbers \union {0}), text # <<>>
  PROVE  LET v == SetLanguageAndText(u, text) IN
         /\ OnlyEditors(u, v) /\ SameListing(u, v) /\ EditorsAgree(v)
         /\ v.compiled = u.compiled /\ v.threw = u.threw
         /\ Dark(v.source)
<1> DEFINE s == SetValue(text)
           v == SetLanguageAndText(u, text)
<1>1. s \in SourceDocs /\ Dark(s) /\ Held(s)
  BY ValueSet DEF SourceDocs
<1> HIDE DEF s
<1>2. /\ DOMAIN v = DOMAIN u /\ SameControl(u, v) /\ SameExchange(u, v)
      /\ SameTables(u, v) /\ SameListing(u, v)
      /\ v.source = s /\ v.compiled = u.compiled /\ v.threw = u.threw
  BY DEF SetLanguageAndText, s, PageTypes, PageFields, SameControl,
     SameExchange,
     SameTables, SameListing
<1> HIDE DEF v
<1>3. OnlyEditors(u, v)
  <2>1. v.threw \in BOOLEAN
    BY <1>2 DEF PageTypes, ControlTypes
  <2> QED BY <2>1, <1>1, <1>2, PageDocs, DocumentFrame
<1>4. EditorsAgree(v)
  BY <1>1, <1>2 DEF EditorsAgree, ListingAgrees, SameListing
<1> QED BY <1>1, <1>2, <1>3, <1>4 DEF v

(* The listing of an answer.                                                 *)
LEMMA ListingTypes ==
  ASSUME NEW l \in {<<>>, NoProgram.listing} \union {p.listing : p \in Programs}
  PROVE  /\ l \in Seq(Addresses \union {-1})
         /\ Addresses \subseteq Nat \ {0}
<1>1. ASSUME NEW p \in Programs
      PROVE  p.listing \in Seq(Addresses \union {-1})
  <2>1. p.listing \in Seq((Nat \ {0}) \union {-1})
    BY WebUIAssumption
  <2>2. \A i \in DOMAIN p.listing : p.listing[i] \in Addresses \union {-1}
    BY DEF Addresses
  <2> QED BY <2>1, <2>2
<1>2. /\ NoProgram.listing \in Seq(Addresses \union {-1})
      /\ <<>> \in Seq(Addresses \union {-1})
  BY DEF NoProgram
<1>3. ASSUME NEW a \in Addresses
      PROVE  a \in Nat \ {0}
  <2>1. PICK p \in Programs :
          a \in DOMAIN p.lineOf \union {p.listing[i] : i \in DOMAIN p.listing}
    BY DEF Addresses
  <2>2. CASE a \in DOMAIN p.lineOf
    BY <2>2, WebUIAssumption
  <2>3. CASE a \in {p.listing[i] : i \in DOMAIN p.listing}
    <3>1. p.listing \in Seq((Nat \ {0}) \union {-1}) /\ a # -1
      BY WebUIAssumption DEF Addresses
    <3>2. \A i \in DOMAIN p.listing : p.listing[i] \in (Nat \ {0}) \union {-1}
      BY <3>1
    <3> QED BY <3>1, <3>2, <2>3
  <2> QED BY <2>1, <2>2, <2>3
<1> QED BY <1>1, <1>2, <1>3

(* A new listing: each instruction is in the line its address has in the map.*)
LEMMA ShowListingPage ==
  ASSUME NEW u, PageTypes(u), EditorsAgree(u),
         NEW l \in {<<>>, NoProgram.listing} \union {p.listing : p \in Programs}
  PROVE  LET v == ShowListing(u, l) IN
         /\ OnlyEditors(u, v) /\ EditorsAgree(v)
         /\ v.source = u.source /\ v.threw = u.threw
         /\ Dark(v.compiled)
<1> DEFINE t == Contents(l)
           c == SetValue(t)
           m == DisasmMap(l)
           v == ShowListing(u, l)
<1>1. /\ l \in Seq(Addresses \union {-1}) /\ Addresses \subseteq Nat \ {0}
      /\ Len(l) \in Nat /\ DOMAIN l = 1..Len(l)
  BY ListingTypes
<1>2. /\ t \in Seq(Addresses \union {0}) /\ Len(t) = Len(l) + 1 /\ t # <<>>
      /\ \A i \in DOMAIN l : l[i] # -1 => t[i] = l[i]
  <2> DEFINE k == [i \in DOMAIN l |-> IF l[i] = -1 THEN 0 ELSE l[i]]
  <2>1. \A i \in DOMAIN l : l[i] \in Addresses \union {-1}
    BY <1>1
  <2>2. \A i \in DOMAIN l : k[i] \in Addresses \union {0}
    BY <2>1
  <2>3. k \in [1..Len(l) -> Addresses \union {0}]
    BY <1>1, <2>2
  <2>4. k \in Seq(Addresses \union {0}) /\ Len(k) = Len(l)
    BY <1>1, <2>3
  <2>5. \A i \in DOMAIN l : l[i] # -1 => k[i] = l[i]
    OBVIOUS
  <2> HIDE DEF k
  <2>6. t = Append(k, 0)
    BY DEF Contents, k
  <2>7. /\ t \in Seq(Addresses \union {0}) /\ Len(t) = Len(l) + 1
        /\ \A i \in 1..Len(k) : t[i] = k[i]
    BY <2>4, <2>6
  <2> QED BY <2>4, <2>5, <2>7, <1>1, EmptySeq
<1> HIDE DEF t
<1>3. /\ c \in CompiledDocs /\ DOMAIN c = DOMAIN t
      /\ \A i \in DOMAIN c : c[i] = Line(t[i])
      /\ Dark(c) /\ Held(c) /\ \A i \in DOMAIN c : ~c[i].bkpt
  BY <1>2, ValueSet DEF CompiledDocs
<1> HIDE DEF c
<1>4. /\ DOMAIN m \subseteq Addresses
      /\ \A pc \in DOMAIN m : m[pc] \in Nat /\ m[pc] + 1 \in DOMAIN l /\ l[m[pc] + 1] = pc
  <2>1. DOMAIN m = {l[i] : i \in DOMAIN l} \ {-1}
    BY DEF DisasmMap
  <2>2. \A i \in DOMAIN l : l[i] \in Addresses \union {-1}
    BY <1>1
  <2>3. ASSUME NEW pc \in DOMAIN m
        PROVE  m[pc] \in Nat /\ m[pc] + 1 \in DOMAIN l /\ l[m[pc] + 1] = pc
    <3> DEFINE j == CHOOSE i \in DOMAIN l : l[i] = pc
    <3>1. \E i \in DOMAIN l : l[i] = pc
      BY <2>1
    <3>2. j \in DOMAIN l /\ l[j] = pc
      BY <3>1
    <3>3. m[pc] = j - 1
      BY <2>1 DEF DisasmMap
    <3> HIDE DEF j, m
    <3> QED BY <3>2, <3>3, <1>1
  <2> QED BY <2>1, <2>2, <2>3
<1> HIDE DEF m
<1>5. /\ DOMAIN v = DOMAIN u /\ SameControl(u, v) /\ SameExchange(u, v)
      /\ SameTables(u, v) /\ v.lineNumbers = l /\ v.disasmMap = m
      /\ v.source = u.source /\ v.compiled = c /\ v.threw = u.threw
  BY DEF ShowListing, c, t, m, PageTypes, PageFields, SameControl, SameExchange,
     SameTables
<1> HIDE DEF v
<1>6. OnlyEditors(u, v)
  <2>1. EditorTypes(v)
    BY <1>1, <1>3, <1>4, <1>5 DEF PageTypes, EditorTypes, CompiledDocs, Docs
  <2>2. v.threw \in BOOLEAN
    BY <1>5 DEF PageTypes, ControlTypes
  <2> QED BY <2>1, <2>2, <1>5, EditorFrame
<1>7. ListingAgrees(v)
  <2>1. Len(c) = Len(l) + 1 /\ DOMAIN c = 1..Len(c)
    BY <1>1, <1>2, <1>3 DEF CompiledDocs, Docs
  <2>2. \A i \in DOMAIN l : i \in DOMAIN c /\ c[i].num = t[i]
    BY <2>1, <1>1, <1>3 DEF Line
  <2> QED BY <2>1, <2>2, <1>1, <1>2, <1>3, <1>4, <1>5 DEF ListingAgrees
<1>8. EditorsAgree(v)
  BY <1>3, <1>5, <1>7 DEF EditorsAgree
<1> QED BY <1>3, <1>5, <1>6, <1>8 DEF v

(* A page whose listing's editor has the same text and highlights, and       *)
(* markers at instructions of the listing only, still agrees.                *)
LEMMA MarkersAgree ==
  ASSUME NEW u, PageTypes(u), EditorsAgree(u), NEW v, PageTypes(v),
         SameListing(u, v), NEW lines,
         lines \subseteq {u.disasmMap[pc] : pc \in DOMAIN u.disasmMap},
         v.compiled = SetGutterMarkers(ClearGutter(u.compiled), lines),
         v.source = u.source
  PROVE  EditorsAgree(v) /\ SameClasses(u.compiled, v.compiled)
         /\ DOMAIN v.compiled = DOMAIN u.compiled
<1> DEFINE c == ClearGutter(u.compiled)
           e == SetGutterMarkers(c, lines)
<1>1. u.compiled \in CompiledDocs
  BY PageDocs
<1>2. /\ c \in CompiledDocs /\ SameText(u.compiled, c) /\ SameClasses(u.compiled, c)
      /\ \A i \in DOMAIN u.compiled : ~c[i].bkpt
  BY <1>1, GutterCleared DEF CompiledDocs
<1> HIDE DEF c
<1>3. /\ e \in CompiledDocs /\ SameText(c, e) /\ SameClasses(c, e)
      /\ \A i \in DOMAIN c : e[i].bkpt => c[i].bkpt \/ \E n \in lines : i = At(c, n)
  BY <1>2, GutterMarked DEF CompiledDocs
<1>4. v.compiled = e
  BY DEF c
<1> HIDE DEF e
<1>5. /\ SameText(u.compiled, e) /\ SameClasses(u.compiled, e)
      /\ DOMAIN e = DOMAIN u.compiled
  BY <1>2, <1>3 DEF SameText, SameClasses
<1>6. /\ u.lineNumbers \in Seq(Addresses \union {-1})
      /\ DOMAIN u.disasmMap \subseteq Addresses
      /\ Len(u.lineNumbers) \in Nat /\ DOMAIN u.lineNumbers = 1..Len(u.lineNumbers)
      /\ Len(u.compiled) \in Nat /\ DOMAIN u.compiled = 1..Len(u.compiled)
      /\ Len(u.lineNumbers) <= Len(u.compiled)
  BY <1>1 DEF PageTypes, EditorTypes, EditorsAgree, ListingAgrees, CompiledDocs,
     Docs
<1>7. ASSUME NEW i \in DOMAIN u.compiled, e[i].bkpt
      PROVE  i \in DOMAIN u.lineNumbers /\ u.lineNumbers[i] # -1
  <2>1. PICK n \in lines : i = At(c, n)
    BY <1>2, <1>3, <1>7 DEF SameText
  <2>2. PICK pc \in DOMAIN u.disasmMap : n = u.disasmMap[pc]
    OBVIOUS
  <2>3. /\ n \in Nat /\ n + 1 \in DOMAIN u.lineNumbers /\ u.lineNumbers[n + 1] = pc
        /\ pc # -1
    BY <2>2, <1>6 DEF PageTypes, EditorTypes, EditorsAgree, ListingAgrees,
       Addresses
  <2>4. n + 1 \in DOMAIN c
    BY <2>3, <1>2, <1>6 DEF SameText
  <2>5. i = n + 1
    BY <2>1, <2>3, <2>4, <1>2, AtIsALine DEF CompiledDocs
  <2> QED BY <2>3, <2>5
<1>8. ListingAgrees(v)
  BY <1>4, <1>5, <1>7, ListingKept DEF EditorsAgree
<1>9. Held(v.source) /\ Held(v.compiled)
  BY <1>4, <1>5 DEF Held, EditorsAgree, SameClasses
<1> QED BY <1>4, <1>5, <1>8, <1>9 DEF EditorsAgree

\* The marks of the two editors that a change of the gutters leaves.
SameHighlights(u, v) ==
  /\ DOMAIN v.source = DOMAIN u.source /\ SameClasses(u.source, v.source)
  /\ DOMAIN v.compiled = DOMAIN u.compiled /\ SameClasses(u.compiled, v.compiled)

(* The markers of the listing are at its instructions.                       *)
LEMMA CompiledMarkersPage ==
  ASSUME NEW u, PageTypes(u), EditorsAgree(u), ~u.threw, NEW data \in AnswerType
  PROVE  LET v == CompiledMarkers(u, data) IN
         /\ OnlyEditors(u, v) /\ SameListing(u, v) /\ EditorsAgree(v)
         /\ SameHighlights(u, v) /\ v.source = u.source
<1> DEFINE v == CompiledMarkers(u, data)
           known == data.bkpts \intersect DOMAIN u.disasmMap
           before == {b \in known : \A c \in data.bkpts \ known : Earlier(data, b, c)}
           shown == {u.disasmMap[pc] : pc \in before}
           e == SetGutterMarkers(ClearGutter(u.compiled), shown)
<1> HIDE DEF before
<1>1. shown \subseteq {u.disasmMap[pc] : pc \in DOMAIN u.disasmMap}
  BY Zenon DEF before
<1>2. e \in CompiledDocs
  <2>1. ClearGutter(u.compiled) \in CompiledDocs
    BY PageDocs, GutterCleared DEF CompiledDocs
  <2> QED BY <2>1, GutterMarked DEF CompiledDocs
<1>3. /\ DOMAIN v = DOMAIN u /\ SameControl(u, v) /\ SameExchange(u, v)
      /\ SameTables(u, v) /\ SameListing(u, v)
      /\ v.source = u.source /\ v.compiled = e /\ v.threw \in BOOLEAN
  <2> USE DEF PageTypes, PageFields, SameControl, SameExchange, SameTables,
       SameListing
  <2> DEFINE w == [[u EXCEPT !.compiled = ClearGutter(@)]
                     EXCEPT !.compiled = SetGutterMarkers(@, shown)]
  <2>1. v = w \/ v = [w EXCEPT !.threw = TRUE]
    BY Zenon DEF CompiledMarkers, before, Throw
  <2>2. /\ DOMAIN w = DOMAIN u /\ SameControl(u, w) /\ SameExchange(u, w)
        /\ SameTables(u, w) /\ SameListing(u, w)
        /\ w.source = u.source /\ w.compiled = e /\ w.threw \in BOOLEAN
    BY DEF ControlTypes
  <2> HIDE DEF v, w, e
  <2> QED BY <2>1, <2>2
<1> HIDE DEF v, shown
<1>4. OnlyEditors(u, v)
  <2> HIDE DEF e
  <2> QED BY <1>2, <1>3, PageDocs, DocumentFrame
<1>5. EditorsAgree(v) /\ SameClasses(u.compiled, v.compiled)
      /\ DOMAIN v.compiled = DOMAIN u.compiled
  <2>1. PageTypes(v)
    BY <1>4 DEF OnlyEditors
  <2> QED BY <2>1, <1>1, <1>3, MarkersAgree
<1> QED BY <1>3, <1>4, <1>5 DEF SameHighlights, SameClasses, v

(* breakpointUpdate changes the gutters only.                                *)
LEMMA BreakpointUpdatePage ==
  ASSUME NEW u, PageTypes(u), EditorsAgree(u), ~u.threw, NEW data \in AnswerType
  PROVE  LET v == BreakpointUpdate(u, data) IN
         /\ OnlyEditors(u, v) /\ SameListing(u, v) /\ EditorsAgree(v)
         /\ SameHighlights(u, v)
<1> DEFINE a == CompiledMarkers(u, data)
           g == ClearGutter(a.source)
           lines == {n - 1 : n \in data.bkptLines}
           s == SetGutterMarkers(g, lines)
           v == BreakpointUpdate(u, data)
<1>2. /\ OnlyEditors(u, a) /\ SameListing(u, a) /\ EditorsAgree(a)
      /\ SameHighlights(u, a) /\ a.source = u.source
  BY CompiledMarkersPage
<1>3. v = IF a.threw THEN a ELSE [a EXCEPT !.source = s]
  BY DEF BreakpointUpdate, Then
<1> HIDE DEF a
<1>4. PageTypes(a)
  BY <1>2 DEF OnlyEditors
<1>5. CASE a.threw
  BY <1>2, <1>3, <1>5
<1>6. CASE ~a.threw
  <2>1. g \in SourceDocs /\ SameText(a.source, g) /\ SameClasses(a.source, g)
    BY <1>4, PageDocs, GutterCleared DEF SourceDocs
  <2> HIDE DEF g
  <2>2. s \in SourceDocs /\ SameText(g, s) /\ SameClasses(g, s)
    BY <2>1, GutterMarked DEF SourceDocs
  <2> HIDE DEF s
  <2>3. /\ DOMAIN v = DOMAIN a /\ SameControl(a, v) /\ SameExchange(a, v)
        /\ SameTables(a, v) /\ SameListing(a, v)
        /\ v.source = s /\ v.compiled = a.compiled /\ v.threw = a.threw
    BY <1>3, <1>4, <1>6 DEF PageTypes, PageFields, SameControl, SameExchange,
       SameTables, SameListing
  <2> HIDE DEF v
  <2>4. OnlyEditors(a, v)
    <3>1. v.threw \in BOOLEAN
      BY <1>4, <2>3 DEF PageTypes, ControlTypes
    <3> QED BY <3>1, <1>4, <2>2, <2>3, PageDocs, DocumentFrame
  <2>5. SameHighlights(a, v)
    BY <2>1, <2>2, <2>3 DEF SameHighlights, SameClasses, SameText
  <2>6. EditorsAgree(v)
    BY <1>2, <2>3, <2>5 DEF EditorsAgree, ListingAgrees, SameListing, Held,
       SameHighlights, SameClasses
  <2>7. SameHighlights(u, v) /\ SameListing(u, v)
    BY <1>2, <2>3, <2>5 DEF SameHighlights, SameClasses, SameListing
  <2> QED BY <1>2, <2>4, <2>6, <2>7, OnlyEditorsChains DEF v
<1> QED BY <1>5, <1>6

(* The instruction to run next is highlighted in a listing without highlight.*)
LEMMA HighlightInstructionPage ==
  ASSUME NEW u, PageTypes(u), EditorsAgree(u), NEW data \in AnswerType,
         Dark(u.compiled)
  PROVE  LET v == HighlightInstruction(u, data) IN
         /\ OnlyEditors(u, v) /\ SameListing(u, v) /\ EditorsAgree(v)
         /\ v.threw = u.threw /\ v.source = u.source /\ OneLit(v.compiled)
<1> DEFINE v == HighlightInstruction(u, data)
           n == u.disasmMap[data.pc]
           c == AddLineClass(u.compiled, n, "highlight")
<1>1. CASE ~data.done /\ data.pc \in DOMAIN u.disasmMap
  <2>1. n \in Int
    BY <1>1 DEF PageTypes, EditorTypes
  <2> HIDE DEF n
  <2>2. /\ c \in CompiledDocs /\ SameText(u.compiled, c) /\ SameMarkers(u.compiled, c)
        /\ Held(c) /\ OneLit(c)
    BY <2>1, PageDocs, ClassAdded DEF CompiledDocs, EditorsAgree
  <2>3. v = [u EXCEPT !.compiled = c]
    BY <1>1 DEF HighlightInstruction, n
  <2> HIDE DEF c
  <2>4. /\ DOMAIN v = DOMAIN u /\ SameControl(u, v) /\ SameExchange(u, v)
        /\ SameTables(u, v) /\ SameListing(u, v)
        /\ v.source = u.source /\ v.compiled = c /\ v.threw = u.threw
    BY <2>3 DEF PageTypes, PageFields, SameControl, SameExchange, SameTables,
       SameListing
  <2> HIDE DEF v
  <2>5. OnlyEditors(u, v)
    <3>1. v.threw \in BOOLEAN
      BY <2>4 DEF PageTypes, ControlTypes
    <3> QED BY <3>1, <2>2, <2>4, PageDocs, DocumentFrame
  <2>6. ListingAgrees(v)
    <3>1. \A i \in DOMAIN u.compiled :
            v.compiled[i].bkpt => i \in DOMAIN u.lineNumbers /\ u.lineNumbers[i] # -1
      BY <2>2, <2>4 DEF SameMarkers, ListingAgrees, EditorsAgree
    <3> QED BY <3>1, <2>2, <2>4, <2>5, ListingKept DEF EditorsAgree, OnlyEditors
  <2> QED BY <2>2, <2>4, <2>5, <2>6 DEF EditorsAgree, v
<1>2. CASE ~(~data.done /\ data.pc \in DOMAIN u.disasmMap)
  <2>1. v = u
    BY <1>2 DEF HighlightInstruction
  <2> HIDE DEF v
  <2> QED BY <2>1 DEF OnlyEditors, SameControl, SameExchange, SameTables,
          SameListing, Dark, OneLit, v
<1> QED BY <1>1, <1>2

(* A line of the source gets a class and a widget.                           *)
LEMMA SourceLineMarked ==
  ASSUME NEW u, PageTypes(u), EditorsAgree(u), NEW s \in SourceDocs, Held(s),
         NEW v, v = [u EXCEPT !.source = s]
  PROVE  /\ OnlyEditors(u, v) /\ SameListing(u, v) /\ EditorsAgree(v)
         /\ v.threw = u.threw /\ v.source = s /\ v.compiled = u.compiled
<1>1. /\ DOMAIN v = DOMAIN u /\ SameControl(u, v) /\ SameExchange(u, v)
      /\ SameTables(u, v) /\ SameListing(u, v)
      /\ v.source = s /\ v.compiled = u.compiled /\ v.threw = u.threw
  BY DEF PageTypes, PageFields, SameControl, SameExchange, SameTables,
     SameListing
<1>2. v.threw \in BOOLEAN
  BY <1>1 DEF PageTypes, ControlTypes
<1>3. OnlyEditors(u, v)
  BY <1>1, <1>2, PageDocs, DocumentFrame
<1>4. EditorsAgree(v)
  BY <1>1 DEF EditorsAgree, ListingAgrees, SameListing
<1> QED BY <1>1, <1>3, <1>4

(* The line to run next is highlighted in the source.                        *)
LEMMA HighlightLocationPage ==
  ASSUME NEW u, PageTypes(u), EditorsAgree(u), NEW data \in AnswerType
  PROVE  LET v == HighlightLocation(u, data) IN
         /\ OnlyEditors(u, v) /\ SameListing(u, v) /\ EditorsAgree(v)
         /\ v.threw = u.threw /\ v.compiled = u.compiled
         /\ Dark(u.source) => OneLit(v.source)
<1> DEFINE v == HighlightLocation(u, data)
           n == data.line - 1
           w == AddLineWidget(u.source, n)
           s == AddLineClass(w, n, "highlight")
<1>1. CASE ~data.done /\ data.line > 0
  <2>1. n \in Int
    BY DEF AnswerType
  <2>2. v = [u EXCEPT !.source = s]
    BY <1>1 DEF HighlightLocation
  <2> HIDE DEF n
  <2>3. w \in SourceDocs /\ SameText(u.source, w) /\ SameClasses(u.source, w)
    BY <2>1, PageDocs, WidgetAdded DEF SourceDocs
  <2>4. Held(w) /\ (Dark(u.source) => Dark(w))
    BY <2>3 DEF EditorsAgree, Held, Dark, SameText, SameClasses
  <2> HIDE DEF w
  <2>5. s \in SourceDocs /\ Held(s) /\ (Dark(w) => OneLit(s))
    BY <2>1, <2>3, <2>4, ClassAdded DEF SourceDocs
  <2> HIDE DEF s, v
  <2>6. /\ OnlyEditors(u, v) /\ SameListing(u, v) /\ EditorsAgree(v)
        /\ v.threw = u.threw /\ v.source = s /\ v.compiled = u.compiled
    BY <2>2, <2>5, SourceLineMarked
  <2> QED BY <2>4, <2>5, <2>6 DEF v
<1>2. CASE ~(~data.done /\ data.line > 0)
  <2>1. v = u
    BY <1>2 DEF HighlightLocation
  <2> HIDE DEF v
  <2> QED BY <2>1 DEF OnlyEditors, SameControl, SameExchange, SameTables,
          SameListing, Dark, OneLit, v
<1> QED BY <1>1, <1>2

(* The lines of failures get a class of their own.                           *)
LEMMA ShowFailuresPage ==
  ASSUME NEW u, PageTypes(u), EditorsAgree(u), NEW data \in AnswerType
  PROVE  LET v == ShowFailures(u, data) IN
         /\ OnlyEditors(u, v) /\ SameListing(u, v) /\ EditorsAgree(v)
         /\ v.threw = u.threw /\ v.compiled = u.compiled
         /\ OneLit(u.source) => OneLit(v.source)
<1> DEFINE v == ShowFailures(u, data)
           n == data.line - 1
           e == AddLineClass(u.source, n, "compile-error")
           s == AddLineWidget(e, n)
<1>1. CASE data.line # 0
  <2>1. n \in Int
    BY DEF AnswerType
  <2>2. v = [u EXCEPT !.source = s]
    BY <1>1 DEF ShowFailures
  <2> HIDE DEF n
  <2>3. e \in SourceDocs /\ Held(e) /\ (OneLit(u.source) => OneLit(e))
    BY <2>1, PageDocs, ClassAdded DEF SourceDocs, EditorsAgree
  <2> HIDE DEF e
  <2>4. s \in SourceDocs /\ SameText(e, s) /\ SameClasses(e, s)
    BY <2>1, <2>3, WidgetAdded DEF SourceDocs
  <2>5. Held(s) /\ (OneLit(e) => OneLit(s))
    BY <2>3, <2>4 DEF Held, OneLit, SameText, SameClasses
  <2> HIDE DEF s, v
  <2>6. /\ OnlyEditors(u, v) /\ SameListing(u, v) /\ EditorsAgree(v)
        /\ v.threw = u.threw /\ v.source = s /\ v.compiled = u.compiled
    BY <2>2, <2>4, <2>5, SourceLineMarked
  <2> QED BY <2>3, <2>5, <2>6 DEF v
<1>2. CASE data.line = 0
  <2>1. v = u
    BY <1>2 DEF ShowFailures
  <2> HIDE DEF v
  <2> QED BY <2>1 DEF OnlyEditors, SameControl, SameExchange, SameTables,
          SameListing, v
<1> QED BY <1>1, <1>2

-----------------------------------------------------------------------------
(* The tables and their mirror in the popup *)

\* What an open popup shows.  One that is loading shows nothing yet, and what
\* was never received is not shown anywhere.
Mirrored(u) ==
  /\ u.popup = "open" =>
       /\ u.window["regs"] = u.main["regs"] /\ u.window["vars"] = u.main["vars"]
       /\ u.last["vars"] # NoData => u.window["stack"] = u.main["stack"]
  /\ u.popup = "loading" => \A t \in Tables : u.window[t] = NoData
  /\ u.last["vars"] # NoData => u.last["regs"] # NoData
  /\ \A t \in Tables : u.main[t] # NoData => u.last[t] # NoData

\* What a function of the interface that fills in tables leaves alone.
OnlyTables(u, v) ==
  /\ PageTypes(v) /\ SameControl(u, v) /\ SameExchange(u, v)
  /\ SameEditors(u, v) /\ v.popup = u.popup

(* What two functions leave alone one after the other is left alone.         *)
LEMMA OnlyTablesChains ==
  ASSUME NEW u, NEW v, NEW w, OnlyTables(u, v), OnlyTables(v, w)
  PROVE  OnlyTables(u, w)
BY DEF OnlyTables, SameControl, SameExchange, SameEditors, SameListing

(* An update of a table fills it in here and in the popup, or throws.        *)
LEMMA UpdateTablePage ==
  ASSUME NEW u, PageTypes(u), NEW t \in Tables
  PROVE  LET v == UpdateTable(u, t)
             fails == u.popup = "loading" \/ (u.last[t] = NoData /\ t # "stack")
         IN /\ OnlyTables(u, v) /\ v.last = u.last
            /\ fails => v.threw /\ v.main = u.main /\ v.window = u.window
            /\ ~fails =>
                 /\ v.threw = u.threw /\ v.main = [u.main EXCEPT ![t] = u.last[t]]
                 /\ v.window = IF u.popup = "open"
                               THEN [u.window EXCEPT ![t] = u.last[t]] ELSE u.window
<1> DEFINE v == UpdateTable(u, t)
           fails == u.popup = "loading" \/ (u.last[t] = NoData /\ t # "stack")
<1>1. CASE fails
  <2>1. v = [u EXCEPT !.threw = TRUE]
    BY <1>1 DEF UpdateTable, Throw
  <2>2. /\ OnlyTables(u, v) /\ v.last = u.last
        /\ v.threw /\ v.main = u.main /\ v.window = u.window
    BY <2>1 DEF OnlyTables, PageTypes, PageFields, ControlTypes, EditorTypes,
       TableTypes,
       RequestTypes, Outstanding, SameControl, SameExchange, SameEditors, SameListing
  <2> HIDE DEF v, fails
  <2> QED BY <2>2, <1>1 DEF v, fails
<1>2. CASE ~fails
  <2> DEFINE m == [u.main EXCEPT ![t] = u.last[t]]
             w == IF u.popup = "open" THEN [u.window EXCEPT ![t] = u.last[t]]
                  ELSE u.window
  <2>1. m \in [Tables -> Data] /\ w \in [Tables -> Data]
    BY DEF PageTypes, TableTypes
  <2>2. v = [[u EXCEPT !.window = w] EXCEPT !.main = m]
    <3>1. CASE u.popup = "open"
      BY <3>1, <1>2 DEF UpdateTable, PageTypes, PageFields
    <3>2. CASE u.popup # "open"
      BY <3>2, <1>2 DEF UpdateTable, PageTypes, PageFields, TableTypes
    <3> QED BY <3>1, <3>2
  <2> HIDE DEF v, fails, m, w
  <2>3. /\ DOMAIN v = DOMAIN u /\ v.last = u.last /\ v.main = m /\ v.window = w
        /\ SameControl(u, v) /\ SameExchange(u, v) /\ SameEditors(u, v)
        /\ v.popup = u.popup /\ v.threw = u.threw
    BY <2>2 DEF PageTypes, PageFields, SameControl, SameExchange, SameEditors,
       SameListing
  <2>4. PageTypes(v)
    BY <2>1, <2>3 DEF PageTypes, ControlTypes, EditorTypes, TableTypes,
       RequestTypes, Outstanding, SameControl, SameExchange, SameEditors, SameListing
  <2> QED BY <2>3, <2>4, <1>2 DEF OnlyTables, v, fails, m, w
<1> QED BY <1>1, <1>2

(* A table is received.                                                      *)
LEMMA ReceiveTablePage ==
  ASSUME NEW u, PageTypes(u), NEW t \in Tables, NEW x \in Data \ {NoData}
  PROVE  LET v == ReceiveTable(u, t, x) IN
         /\ OnlyTables(u, v) /\ v.last = [u.last EXCEPT ![t] = x]
         /\ u.popup = "loading" => v.threw /\ v.main = u.main /\ v.window = u.window
         /\ u.popup # "loading" =>
              /\ v.threw = u.threw /\ v.main = [u.main EXCEPT ![t] = x]
              /\ v.window = IF u.popup = "open"
                            THEN [u.window EXCEPT ![t] = x] ELSE u.window
<1> DEFINE a == [u EXCEPT !.last[t] = x]
           v == ReceiveTable(u, t, x)
<1>1. /\ DOMAIN a = DOMAIN u /\ a.last = [u.last EXCEPT ![t] = x]
      /\ a.main = u.main /\ a.window = u.window
      /\ SameControl(u, a) /\ SameExchange(u, a) /\ SameEditors(u, a)
      /\ a.popup = u.popup /\ a.threw = u.threw
  BY DEF PageTypes, PageFields, SameControl, SameExchange, SameEditors,
     SameListing
<1>2. v = UpdateTable(a, t)
  BY DEF ReceiveTable
<1> HIDE DEF a
<1>3. a.last \in [Tables -> Data] /\ a.last[t] = x
  BY <1>1 DEF PageTypes, TableTypes
<1>4. PageTypes(a) /\ OnlyTables(u, a)
  BY <1>1, <1>3 DEF OnlyTables, PageTypes, ControlTypes, EditorTypes,
     TableTypes,
     RequestTypes, Outstanding, SameControl, SameExchange, SameEditors, SameListing
<1> HIDE DEF v
<1>5. /\ OnlyTables(a, v) /\ v.last = a.last
      /\ a.popup = "loading" => v.threw /\ v.main = a.main /\ v.window = a.window
      /\ a.popup # "loading" =>
           /\ v.threw = a.threw /\ v.main = [a.main EXCEPT ![t] = a.last[t]]
           /\ v.window = IF a.popup = "open"
                         THEN [a.window EXCEPT ![t] = a.last[t]] ELSE a.window
  BY <1>2, <1>3, <1>4, UpdateTablePage
<1>6. OnlyTables(u, v)
  BY <1>4, <1>5, OnlyTablesChains
<1> QED BY <1>1, <1>3, <1>5, <1>6 DEF v

(* An answer's tables keep the popup the mirror of the page.                 *)
LEMMA TablesReceived ==
  ASSUME NEW u, PageTypes(u), Mirrored(u), ~u.threw, NEW x \in Data \ {NoData},
         NEW withVars \in BOOLEAN, NEW a, NEW b, NEW c,
         a = ReceiveTable(u, "regs", x),
         b = IF a.threw THEN a
             ELSE IF withVars THEN ReceiveTable(a, "vars", x) ELSE a,
         c = IF b.threw THEN b ELSE ReceiveTable(b, "stack", x)
  PROVE  OnlyTables(u, c) /\ Mirrored(c)
<1>1. "regs" \in Tables /\ "vars" \in Tables /\ "stack" \in Tables
  BY DEF Tables
<1>2. /\ u.last \in [Tables -> Data] /\ u.main \in [Tables -> Data]
      /\ u.window \in [Tables -> Data]
  BY DEF PageTypes, TableTypes
<1>3. /\ OnlyTables(u, a) /\ a.last = [u.last EXCEPT !["regs"] = x]
      /\ u.popup = "loading" => a.threw /\ a.main = u.main /\ a.window = u.window
      /\ u.popup # "loading" =>
           /\ a.threw = u.threw /\ a.main = [u.main EXCEPT !["regs"] = x]
           /\ a.window = IF u.popup = "open"
                         THEN [u.window EXCEPT !["regs"] = x] ELSE u.window
  BY <1>1, ReceiveTablePage
<1>4. a.popup = u.popup /\ PageTypes(a)
  BY <1>3 DEF OnlyTables
<1>5. CASE u.popup = "loading"
  <2>1. c = a /\ a.main = u.main /\ a.window = u.window
    BY <1>3, <1>5
  <2>2. Mirrored(a)
    BY <2>1, <1>1, <1>2, <1>3, <1>4, <1>5 DEF Mirrored, Tables
  <2> QED BY <2>1, <2>2, <1>3
<1>6. CASE u.popup # "loading"
  <2>1. ~a.threw
    BY <1>3, <1>6
  <2>2. /\ OnlyTables(a, b) /\ ~b.threw
        /\ ~withVars => b = a
        /\ withVars =>
             /\ b.last = [a.last EXCEPT !["vars"] = x]
             /\ b.main = [a.main EXCEPT !["vars"] = x]
             /\ b.window = IF a.popup = "open"
                           THEN [a.window EXCEPT !["vars"] = x] ELSE a.window
    <3>1. CASE withVars
      BY <2>1, <3>1, <1>1, <1>4, <1>6, ReceiveTablePage
    <3>2. CASE ~withVars
      BY <2>1, <3>2, <1>4 DEF OnlyTables, SameControl, SameExchange,
         SameEditors, SameListing
    <3> QED BY <3>1, <3>2
  <2>3. b.popup = u.popup /\ PageTypes(b)
    BY <2>2, <1>4 DEF OnlyTables
  <2>4. /\ OnlyTables(b, c)
        /\ c.last = [b.last EXCEPT !["stack"] = x]
        /\ c.main = [b.main EXCEPT !["stack"] = x]
        /\ c.window = IF b.popup = "open"
                      THEN [b.window EXCEPT !["stack"] = x] ELSE b.window
    BY <2>2, <2>3, <1>1, <1>6, ReceiveTablePage
  <2>5. OnlyTables(u, c)
    BY <2>2, <2>4, <1>3, OnlyTablesChains
  <2>6. c.popup = u.popup
    BY <2>5 DEF OnlyTables
  <2>7. /\ a.last \in [Tables -> Data] /\ a.main \in [Tables -> Data]
        /\ a.window \in [Tables -> Data]
        /\ b.last \in [Tables -> Data] /\ b.main \in [Tables -> Data]
        /\ b.window \in [Tables -> Data]
    BY <1>4, <2>3 DEF PageTypes, TableTypes
  <2>8. /\ c.last["regs"] = x /\ c.main["regs"] = x
        /\ c.last["stack"] = x /\ c.main["stack"] = x
        /\ u.popup = "open" => c.window["regs"] = x /\ c.window["stack"] = x
    <3>1. CASE withVars
      BY <3>1, <1>1, <1>2, <1>3, <1>4, <1>6, <2>2, <2>3, <2>4, <2>7
    <3>2. CASE ~withVars
      BY <3>2, <1>1, <1>2, <1>3, <1>4, <1>6, <2>2, <2>3, <2>4, <2>7
    <3> QED BY <3>1, <3>2
  <2>9. /\ c.last["vars"] = IF withVars THEN x ELSE u.last["vars"]
        /\ c.main["vars"] = IF withVars THEN x ELSE u.main["vars"]
        /\ u.popup = "open" =>
             c.window["vars"] = IF withVars THEN x ELSE u.window["vars"]
    <3>1. CASE withVars
      BY <3>1, <1>1, <1>2, <1>3, <1>4, <1>6, <2>2, <2>3, <2>4, <2>7
    <3>2. CASE ~withVars
      BY <3>2, <1>1, <1>2, <1>3, <1>4, <1>6, <2>2, <2>3, <2>4, <2>7
    <3> QED BY <3>1, <3>2
  <2>10. Mirrored(c)
    <3>1. CASE withVars
      BY <3>1, <2>6, <2>8, <2>9, <1>6 DEF Mirrored, Tables
    <3>2. CASE ~withVars
      BY <3>2, <2>6, <2>8, <2>9, <1>6 DEF Mirrored, Tables
    <3> QED BY <3>1, <3>2
  <2> QED BY <2>5, <2>10
<1> QED BY <1>5, <1>6

-----------------------------------------------------------------------------
(* What a handler sends *)

SamePolls(u, v) ==
  /\ v.pollTries = u.pollTries /\ v.pollSession = u.pollSession
  /\ v.pollStep = u.pollStep /\ v.reading = u.reading

Kinds == {"compile", "upload", "session-state", "step-state", "step", "stop",
          "breakpoint", "stdin"}

\* The one thing v has asked that u has not.
Asks(u, v, r) == v.requests = u.requests (+) SetToBag({r})

(* A request is sent with the name of the session, and nothing else changes.  *)
LEMMA SendPage ==
  ASSUME NEW u, PageTypes(u), NEW kind \in Kinds, NEW arg,
         kind = "breakpoint" =>
           /\ arg \in [set : BOOLEAN, byLine : BOOLEAN, at : Nat]
           /\ arg.byLine \/ arg.at \in Addresses \union {Unlisted}
  PROVE  LET v == Send(u, kind, arg) IN
         /\ PageTypes(v) /\ SameControl(u, v) /\ SameTables(u, v)
         /\ SameEditors(u, v) /\ SamePolls(u, v) /\ v.threw = u.threw
         /\ v.autoTimer = u.autoTimer /\ v.strayTimers = u.strayTimers
         /\ Asks(u, v, Request(kind, u.session, arg))
<1> DEFINE r == Request(kind, u.session, arg)
           B == u.requests (+) SetToBag({r})
           v == Send(u, kind, arg)
<1>1. IsABag(B) /\ BagToSet(B) = BagToSet(u.requests) \union {r}
  BY Added DEF PageTypes, RequestTypes
<1>2. RequestType(r)
  <2>1. u.session \in Session \union {NoName}
    BY DEF PageTypes, ControlTypes
  <2> QED BY <2>1 DEF RequestType, Request, NoAnswer, Kinds
<1>3. v = [u EXCEPT !.requests = B]
  BY DEF Send
<1> HIDE DEF B, r
<1>4. /\ DOMAIN v = DOMAIN u /\ v.requests = B /\ SameControl(u, v)
      /\ SameTables(u, v) /\ SameEditors(u, v) /\ SamePolls(u, v)
      /\ v.threw = u.threw /\ v.autoTimer = u.autoTimer /\ v.strayTimers = u.strayTimers
  BY <1>3 DEF PageTypes, PageFields, SameControl, SameTables, SameEditors,
     SameListing, SamePolls
<1> HIDE DEF v
<1>5. RequestTypes(v)
  BY <1>1, <1>2, <1>4 DEF PageTypes, RequestTypes, Outstanding
<1>6. PageTypes(v)
  BY <1>4, <1>5 DEF PageTypes, ControlTypes, EditorTypes, TableTypes,
     SameControl,
     SameTables, SameEditors, SameListing, SamePolls
<1> QED BY <1>4, <1>6 DEF Asks, B, r, v

(* What the invariants say of the editors and tables depends on them alone.  *)
LEMMA PagesAlike ==
  ASSUME NEW u, NEW v
  PROVE  /\ SameEditors(u, v) /\ EditorsAgree(u) => EditorsAgree(v)
         /\ SameTables(u, v) /\ Mirrored(u) => Mirrored(v)
BY DEF SameEditors, SameListing, EditorsAgree, ListingAgrees, SameTables,
   Mirrored

(* stopAction stops the timer that is named and asks for the end.            *)
LEMMA StopActionPage ==
  ASSUME NEW u, PageTypes(u)
  PROVE  LET v == StopAction(u) IN
         /\ PageTypes(v) /\ SameTables(u, v) /\ SameEditors(u, v)
         /\ v.state = u.state /\ v.session = u.session /\ v.hash = u.hash
         /\ SamePolls(u, v) /\ v.threw = u.threw /\ v.strayTimers = u.strayTimers
         /\ Asks(u, v, Request("stop", u.session, Unlisted))
<1> DEFINE a == [u EXCEPT !.autoTimer = FALSE, !.autoStep = FALSE]
           v == StopAction(u)
<1>1. /\ PageTypes(a) /\ SameTables(u, a) /\ SameEditors(u, a)
      /\ a.state = u.state /\ a.session = u.session /\ a.hash = u.hash
      /\ SamePolls(u, a) /\ a.threw = u.threw /\ a.strayTimers = u.strayTimers
      /\ a.requests = u.requests
  BY DEF PageTypes, PageFields, ControlTypes, EditorTypes, TableTypes,
     RequestTypes, Outstanding, SameTables, SameEditors, SameListing, SamePolls
<1>2. v = Send(a, "stop", Unlisted)
  BY DEF StopAction
<1> HIDE DEF a, v
<1>3. /\ PageTypes(v) /\ SameControl(a, v) /\ SameTables(a, v)
      /\ SameEditors(a, v) /\ SamePolls(a, v) /\ v.threw = a.threw
      /\ v.strayTimers = a.strayTimers
      /\ Asks(a, v, Request("stop", a.session, Unlisted))
  BY <1>1, <1>2, SendPage DEF Kinds
<1> QED BY <1>1, <1>3 DEF SameControl, SameTables, SameEditors, SameListing,
        SamePolls, Asks, v

\* What a handler that asks for nothing new leaves of the exchange.
Silent(u, v) == SamePolls(u, v) /\ v.requests = u.requests

\* What holds of the editors and the tables between two handlers.
PageAgrees(u) == EditorsAgree(u) /\ Mirrored(u) /\ OneLit(u.compiled)

(* commonStateUpdate: given a listing without a highlight it leaves one at   *)
(* most, in the source too if there was none; the end of the program is      *)
(* answered by a request to stop.                                            *)
LEMMA CommonStateUpdatePage ==
  ASSUME NEW u, PageTypes(u), EditorsAgree(u), Mirrored(u), Dark(u.compiled),
         ~u.threw, NEW data \in AnswerType
  PROVE  LET v == CommonStateUpdate(u, data) IN
         /\ PageTypes(v) /\ PageAgrees(v)
         /\ Dark(u.source) => OneLit(v.source)
         /\ v.state = u.state /\ v.session = u.session /\ v.hash = u.hash
         /\ v.strayTimers = u.strayTimers
         /\ \/ Silent(u, v)
            \/ /\ data.done
               /\ SamePolls(u, v) /\ Asks(u, v, Request("stop", u.session, Unlisted))
<1> DEFINE h == HighlightInstruction(u, data)
           a == ReceiveTable(h, "regs", data.pc)
           b == IF a.threw THEN a
                ELSE IF "vars" \in data.tables THEN ReceiveTable(a, "vars", data.pc) ELSE a
           c == IF b.threw THEN b ELSE ReceiveTable(b, "stack", data.pc)
           d == IF c.threw THEN c ELSE BreakpointUpdate(c, data)
           e == IF d.threw THEN d ELSE HighlightLocation(d, data)
           f == IF e.threw THEN e ELSE IF data.done THEN StopAction(e) ELSE e
<1>1. CommonStateUpdate(u, data) = f
  BY DEF CommonStateUpdate, Then
<1>2. /\ OnlyEditors(u, h) /\ SameListing(u, h) /\ EditorsAgree(h)
      /\ h.threw = u.threw /\ h.source = u.source /\ OneLit(h.compiled)
  BY HighlightInstructionPage
<1> HIDE DEF h
<1>3. PageTypes(h) /\ Mirrored(h) /\ ~h.threw
  BY <1>2, PagesAlike DEF OnlyEditors
<1>4. OnlyTables(h, c) /\ Mirrored(c)
  <2>1. data.pc \in Data \ {NoData}
    BY DEF AnswerType, Data, Addresses, NoData, Unlisted
  <2>2. CASE "vars" \in data.tables
    <3>1. b = IF a.threw THEN a
              ELSE IF TRUE THEN ReceiveTable(a, "vars", data.pc) ELSE a
      BY <2>2
    <3> HIDE DEF a, b, c
    <3> QED BY <1>3, <2>1, <3>1, TablesReceived DEF a, c
  <2>3. CASE "vars" \notin data.tables
    <3>1. b = IF a.threw THEN a
              ELSE IF FALSE THEN ReceiveTable(a, "vars", data.pc) ELSE a
      BY <2>3
    <3> HIDE DEF a, b, c
    <3> QED BY <1>3, <2>1, <3>1, TablesReceived DEF a, c
  <2> QED BY <2>2, <2>3
<1> HIDE DEF a, b, c
<1>5. PageTypes(c) /\ EditorsAgree(c) /\ OneLit(c.compiled) /\ c.source = u.source
  BY <1>2, <1>4, PagesAlike DEF OnlyTables, SameEditors
<1>6. /\ OnlyEditors(c, d) /\ EditorsAgree(d) /\ OneLit(d.compiled)
      /\ Dark(c.source) => Dark(d.source)
  <2>1. CASE c.threw
    BY <1>5, <2>1 DEF OnlyEditors, SameControl, SameExchange, SameTables
  <2>2. CASE ~c.threw
    <3>1. /\ OnlyEditors(c, d) /\ EditorsAgree(d) /\ SameHighlights(c, d)
      BY <1>5, <2>2, BreakpointUpdatePage
    <3> HIDE DEF d
    <3> QED BY <1>5, <3>1 DEF SameHighlights, SameClasses, OneLit, Dark
  <2> QED BY <2>1, <2>2
<1> HIDE DEF d
<1>7. /\ OnlyEditors(d, e) /\ EditorsAgree(e) /\ OneLit(e.compiled)
      /\ Dark(d.source) => OneLit(e.source)
  <2>1. CASE d.threw
    BY <1>6, <2>1 DEF OnlyEditors, SameControl, SameExchange, SameTables, Dark,
       OneLit
  <2>2. CASE ~d.threw
    <3>1. e = HighlightLocation(d, data) /\ PageTypes(d)
      BY <1>6, <2>2 DEF OnlyEditors
    <3> HIDE DEF e
    <3> QED BY <1>6, <3>1, HighlightLocationPage
  <2> QED BY <2>1, <2>2
<1> HIDE DEF e
<1>8. PageTypes(e) /\ Mirrored(e)
  BY <1>4, <1>6, <1>7, PagesAlike DEF OnlyEditors
<1>9. /\ e.state = u.state /\ e.session = u.session /\ e.hash = u.hash
      /\ e.strayTimers = u.strayTimers /\ Silent(u, e)
  BY <1>2, <1>4, <1>6, <1>7 DEF OnlyEditors, OnlyTables, SameControl,
     SameExchange,
     SamePolls, Silent
<1>10. CASE e.threw \/ ~data.done
  <2>1. f = e
    BY <1>10
  <2> HIDE DEF f
  <2> QED BY <1>1, <1>5, <1>6, <1>7, <1>8, <1>9, <2>1 DEF PageAgrees
<1>11. CASE ~e.threw /\ data.done
  <2>1. f = StopAction(e)
    BY <1>11
  <2> HIDE DEF f
  <2>2. /\ PageTypes(f) /\ SameTables(e, f) /\ SameEditors(e, f)
        /\ f.state = e.state /\ f.session = e.session /\ f.hash = e.hash
        /\ SamePolls(e, f) /\ f.strayTimers = e.strayTimers
        /\ Asks(e, f, Request("stop", e.session, Unlisted))
    BY <1>8, <2>1, StopActionPage
  <2>3. EditorsAgree(f) /\ Mirrored(f)
    BY <1>7, <1>8, <2>2, PagesAlike
  <2>4. f.source = e.source /\ f.compiled = e.compiled
    BY <2>2 DEF SameEditors
  <2>5. SamePolls(u, f) /\ Asks(u, f, Request("stop", u.session, Unlisted))
    BY <1>9, <2>2 DEF SamePolls, Asks, Silent
  <2> QED BY <1>1, <1>5, <1>6, <1>7, <1>9, <1>11, <2>2, <2>3, <2>4, <2>5
       DEF PageAgrees
<1> QED BY <1>10, <1>11

-----------------------------------------------------------------------------
(* The answers *)

(* A later poll is one more timer.                                           *)
LEMMA LaterPollSessionPage ==
  ASSUME NEW u, PageTypes(u)
  PROVE  LET v == LaterPollSession(u) IN
         /\ PageTypes(v) /\ SameControl(u, v) /\ SameTables(u, v)
         /\ SameEditors(u, v) /\ v.requests = u.requests /\ v.reading = u.reading
         /\ v.pollSession = u.pollSession + 1 /\ v.pollStep = u.pollStep
BY DEF LaterPollSession, PageTypes, PageFields, ControlTypes, EditorTypes,
   TableTypes,
   RequestTypes, Outstanding, SameControl, SameTables, SameEditors, SameListing

(* And for the state of a step.                                              *)
LEMMA LaterPollStepPage ==
  ASSUME NEW u, PageTypes(u)
  PROVE  LET v == LaterPollStep(u) IN
         /\ PageTypes(v) /\ SameControl(u, v) /\ SameTables(u, v)
         /\ SameEditors(u, v) /\ v.requests = u.requests /\ v.reading = u.reading
         /\ v.pollStep = u.pollStep + 1 /\ v.pollSession = u.pollSession
BY DEF LaterPollStep, PageTypes, PageFields, ControlTypes, EditorTypes,
   TableTypes,
   RequestTypes, Outstanding, SameControl, SameTables, SameEditors, SameListing

(* One more try is counted, up to the limit.                                 *)
LEMMA TryCounted ==
  ASSUME NEW u, PageTypes(u), ~(u.pollTries > MaxPollTries)
  PROVE  LET v == [u EXCEPT !.pollTries = @ + 1] IN
         /\ PageTypes(v) /\ SameControl(u, v) /\ SameTables(u, v)
         /\ SameEditors(u, v) /\ v.requests = u.requests /\ v.reading = u.reading
         /\ v.pollStep = u.pollStep /\ v.pollSession = u.pollSession
<1>1. u.pollTries + 1 \in 0..(MaxPollTries + 1)
  BY WebUIAssumption DEF PageTypes, ControlTypes
<1> QED
  BY <1>1 DEF PageTypes, PageFields, ControlTypes, EditorTypes, TableTypes,
     RequestTypes, Outstanding, SameControl, SameTables, SameEditors, SameListing

\* What an answer's handler may leave of the exchange it was part of.
SameTimers(u, v) ==
  /\ v.reading = u.reading
  /\ v.pollSession = u.pollSession /\ v.pollStep = u.pollStep
Ended(u, v) == SameTimers(u, v) /\ v.requests = u.requests
AsksToStop(u, v) ==
  SameTimers(u, v) /\ \E sid : Asks(u, v, Request("stop", sid, Unlisted))
PollsSession(u, v) ==
  /\ v.reading = u.reading /\ v.requests = u.requests
  /\ v.pollSession = u.pollSession + 1 /\ v.pollStep = u.pollStep
PollsStep(u, v) ==
  /\ v.reading = u.reading /\ v.requests = u.requests
  /\ v.pollSession = u.pollSession /\ v.pollStep = u.pollStep + 1
  /\ v.session = u.session

(* requestFailure takes back every highlight and ends the exchange.          *)
LEMMA RequestFailurePage ==
  ASSUME NEW u, PageTypes(u), EditorsAgree(u), Mirrored(u)
  PROVE  LET v == RequestFailure(u) IN
         /\ PageTypes(v) /\ PageAgrees(v) /\ Ended(u, v) /\ Dark(v.source)
<1>1. LET v == RequestFailure(u) IN
      /\ PageTypes(v) /\ SameExchange(u, v) /\ SameTables(u, v)
      /\ EditorsAgree(v) /\ Dark(v.source) /\ Dark(v.compiled)
  BY ChangeStatePage DEF RequestFailure
<1> QED BY <1>1, PagesAlike DEF PageAgrees, Ended, SameTimers, SameExchange,
     OneLit, Dark

(* compileAction and uploadFileHandler: no highlight while the session is    *)
(* awaited.                                                                  *)
LEMMA CompiledPage ==
  ASSUME NEW u, PageTypes(u), PageAgrees(u), NEW data \in AnswerType
  PROVE  LET v == Compiled(u, data) IN
         /\ PageTypes(v) /\ PageAgrees(v) /\ Dark(v.source)
         /\ Ended(u, v) \/ PollsSession(u, v)
<1> DEFINE c == ClearAllHighlight(u)
           n == [c EXCEPT !.session = data.session, !.hash = data.session]
           w == LaterPollSession(n)
           v == Compiled(u, data)
<1>1. /\ OnlyEditors(u, c) /\ EditorsAgree(c) /\ Dark(c.source) /\ Dark(c.compiled)
  BY ClearAllHighlightPage DEF PageAgrees
<1> HIDE DEF c
<1>2. PageTypes(c) /\ Mirrored(c) /\ Ended(u, c)
  BY <1>1, PagesAlike DEF OnlyEditors, PageAgrees, Ended, SameTimers,
     SameExchange
<1>3. CASE data.ok
  <2>1. data.session \in Session \union {NoName}
    BY DEF AnswerType
  <2>2. /\ PageTypes(n) /\ SameTables(c, n) /\ SameEditors(c, n)
        /\ SameTimers(c, n) /\ n.requests = c.requests
    BY <1>2, <2>1 DEF PageTypes, PageFields, ControlTypes, EditorTypes,
       TableTypes,
       RequestTypes, Outstanding, SameTables, SameEditors, SameListing, SameTimers
  <2> HIDE DEF n
  <2>3. /\ PageTypes(w) /\ SameTables(n, w) /\ SameEditors(n, w)
        /\ w.requests = n.requests /\ w.reading = n.reading
        /\ w.pollSession = n.pollSession + 1 /\ w.pollStep = n.pollStep
    BY <2>2, LaterPollSessionPage
  <2>4. v = w
    BY <1>3 DEF Compiled, n, c
  <2> HIDE DEF v, w
  <2>5. EditorsAgree(w) /\ Mirrored(w)
    BY <1>1, <1>2, <2>2, <2>3, PagesAlike
  <2>6. Dark(w.source) /\ OneLit(w.compiled)
    BY <1>1, <2>2, <2>3 DEF SameEditors, Dark, OneLit
  <2>7. PollsSession(u, w)
    BY <1>2, <2>2, <2>3 DEF PollsSession, SameTimers, Ended
  <2> QED BY <2>3, <2>4, <2>5, <2>6, <2>7 DEF PageAgrees, v
<1>4. CASE ~data.ok
  <2>1. v = RequestFailure(c)
    BY <1>4 DEF Compiled, c
  <2> HIDE DEF v
  <2>2. PageTypes(v) /\ PageAgrees(v) /\ Ended(c, v) /\ Dark(v.source)
    BY <1>1, <1>2, <2>1, RequestFailurePage
  <2> QED BY <1>2, <2>2 DEF Ended, SameTimers, v
<1> QED BY <1>3, <1>4

(* A later try of a poll.                                                    *)
LEMMA PolledAgain ==
  ASSUME NEW u, PageTypes(u), PageAgrees(u), ~(u.pollTries > MaxPollTries)
  PROVE  /\ LET v == LaterPollSession([u EXCEPT !.pollTries = @ + 1]) IN
              /\ PageTypes(v) /\ PageAgrees(v) /\ PollsSession(u, v)
              /\ v.source = u.source
         /\ LET v == LaterPollStep([u EXCEPT !.pollTries = @ + 1]) IN
              /\ PageTypes(v) /\ PageAgrees(v) /\ PollsStep(u, v)
              /\ v.source = u.source
<1> DEFINE a == [u EXCEPT !.pollTries = @ + 1]
<1>1. /\ PageTypes(a) /\ SameControl(u, a) /\ SameTables(u, a)
      /\ SameEditors(u, a) /\ a.requests = u.requests /\ a.reading = u.reading
      /\ a.pollStep = u.pollStep /\ a.pollSession = u.pollSession
  BY TryCounted
<1> HIDE DEF a
<1>2. LET v == LaterPollSession(a) IN
      /\ PageTypes(v) /\ PageAgrees(v) /\ PollsSession(u, v) /\ v.source = u.source
  <2> DEFINE v == LaterPollSession(a)
  <2>1. /\ PageTypes(v) /\ SameTables(a, v) /\ SameEditors(a, v)
        /\ v.requests = a.requests /\ v.reading = a.reading
        /\ v.pollSession = a.pollSession + 1 /\ v.pollStep = a.pollStep
    BY <1>1, LaterPollSessionPage
  <2> HIDE DEF v
  <2>2. EditorsAgree(v) /\ Mirrored(v)
    BY <1>1, <2>1, PagesAlike DEF PageAgrees
  <2> QED BY <1>1, <2>1, <2>2 DEF PageAgrees, SameEditors, PollsSession, v
<1>3. LET v == LaterPollStep(a) IN
      /\ PageTypes(v) /\ PageAgrees(v) /\ PollsStep(u, v) /\ v.source = u.source
  <2> DEFINE v == LaterPollStep(a)
  <2>1. /\ PageTypes(v) /\ SameTables(a, v) /\ SameEditors(a, v) /\ SameControl(a, v)
        /\ v.requests = a.requests /\ v.reading = a.reading
        /\ v.pollStep = a.pollStep + 1 /\ v.pollSession = a.pollSession
    BY <1>1, LaterPollStepPage
  <2> HIDE DEF v
  <2>2. EditorsAgree(v) /\ Mirrored(v)
    BY <1>1, <2>1, PagesAlike DEF PageAgrees
  <2> QED BY <1>1, <2>1, <2>2 DEF PageAgrees, SameEditors, SameControl,
       PollsStep, v
<1> QED BY <1>2, <1>3 DEF a

(* The text of an answer.                                                    *)
LEMMA TextTypes ==
  ASSUME NEW text \in {p.source : p \in Programs}
  PROVE  text \in Seq(LineNumbers \union {0})
<1>1. PICK p \in Programs : text = p.source
  OBVIOUS
<1>2. p.source \in Seq(Nat)
  BY WebUIAssumption
<1>3. \A i \in DOMAIN p.source : p.source[i] \in LineNumbers
  BY DEF LineNumbers
<1> QED BY <1>1, <1>2, <1>3

(* pollSessionState: a source without highlight keeps none while it polls,   *)
(* and gets one with the listing.                                            *)
LEMMA SessionStatedPage ==
  ASSUME NEW u, PageTypes(u), PageAgrees(u), ~u.threw, NEW data \in AnswerType,
         NEW retry
  PROVE  LET v == SessionStated(u, data, retry) IN
         /\ PageTypes(v) /\ PageAgrees(v)
         /\ Dark(u.source) => OneLit(v.source)
         /\ Ended(u, v) \/ AsksToStop(u, v)
              \/ (PollsSession(u, v) /\ v.source = u.source)
<1> DEFINE v == SessionStated(u, data, retry)
<1>1. CASE data.ok /\ data.compile
  <2> DEFINE t == ShowText(u, data)
             l == ShowListing(t, data.listing)
             c == CommonStateUpdate(l, data)
  <2>1. /\ OnlyEditors(u, t) /\ EditorsAgree(t) /\ t.threw = u.threw
        /\ Dark(u.source) => Dark(t.source)
    <3>1. CASE data.text = <<>>
      BY <3>1 DEF ShowText, OnlyEditors, SameControl, SameExchange, SameTables,
         PageAgrees
    <3>2. CASE data.text # <<>>
      <4>1. data.text \in Seq(LineNumbers \union {0})
        BY <3>2, TextTypes DEF AnswerType
      <4> QED BY <3>2, <4>1, SetTextPage DEF ShowText, PageAgrees
    <3> QED BY <3>1, <3>2
  <2> HIDE DEF t
  <2>2. /\ OnlyEditors(t, l) /\ EditorsAgree(l) /\ l.source = t.source
        /\ l.threw = t.threw /\ Dark(l.compiled)
    <3>1. PageTypes(t)
      BY <2>1 DEF OnlyEditors
    <3>2. data.listing \in {<<>>, NoProgram.listing} \union {p.listing : p \in Programs}
      BY DEF AnswerType
    <3> QED BY <2>1, <3>1, <3>2, ShowListingPage
  <2> HIDE DEF l
  <2>3. OnlyEditors(u, l) /\ PageTypes(l) /\ Mirrored(l) /\ ~l.threw
    <3>1. OnlyEditors(u, l)
      BY <2>1, <2>2, OnlyEditorsChains
    <3> QED BY <3>1, <2>1, <2>2, PagesAlike DEF OnlyEditors, PageAgrees
  <2>4. /\ PageTypes(c) /\ PageAgrees(c)
        /\ Dark(l.source) => OneLit(c.source)
        /\ \/ Silent(l, c)
           \/ SamePolls(l, c) /\ Asks(l, c, Request("stop", l.session, Unlisted))
    BY <2>2, <2>3, CommonStateUpdatePage
  <2> HIDE DEF c
  <2>5. Ended(u, c) \/ AsksToStop(u, c)
    BY <2>3, <2>4 DEF OnlyEditors, SameExchange, Silent, SamePolls, Ended,
       SameTimers, AsksToStop, Asks
  <2>6. v = IF c.threw THEN c ELSE ChangeState(c, "DEBUG")
    BY <1>1 DEF SessionStated, Then, c, l, t
  <2> HIDE DEF v
  <2>7. CASE c.threw
    BY <2>1, <2>2, <2>4, <2>5, <2>6, <2>7 DEF v
  <2>8. CASE ~c.threw
    <3>1. v = ChangeState(c, "DEBUG")
      BY <2>6, <2>8
    <3>2. /\ PageTypes(v) /\ SameExchange(c, v) /\ SameTables(c, v)
          /\ EditorsAgree(v) /\ SameEditors(c, v)
      BY <3>1, <2>4, ChangeStatePage DEF PageAgrees
    <3>3. Ended(u, v) \/ AsksToStop(u, v)
      BY <2>5, <3>2 DEF SameExchange, Ended, SameTimers, AsksToStop, Asks
    <3>4. PageAgrees(v) /\ v.source = c.source
      BY <2>4, <3>2, PagesAlike DEF PageAgrees, SameEditors
    <3> QED BY <2>1, <2>2, <2>4, <3>2, <3>3, <3>4 DEF v
  <2> QED BY <2>7, <2>8
<1>2. CASE data.ok /\ ~data.compile
  <2>1. v = ShowFailures(u, data)
    BY <1>2 DEF SessionStated
  <2> HIDE DEF v
  <2>2. /\ OnlyEditors(u, v) /\ EditorsAgree(v) /\ v.compiled = u.compiled
        /\ OneLit(u.source) => OneLit(v.source)
    BY <2>1, ShowFailuresPage DEF PageAgrees
  <2>3. PageTypes(v) /\ Mirrored(v) /\ Ended(u, v)
    BY <2>2, PagesAlike DEF OnlyEditors, PageAgrees, Ended, SameTimers,
       SameExchange
  <2> QED BY <2>2, <2>3 DEF PageAgrees, Dark, OneLit, v
<1>3. CASE ~data.ok /\ ~(retry \/ data.retry)
  <2>1. v = u
    BY <1>3 DEF SessionStated
  <2> HIDE DEF v
  <2> QED BY <2>1 DEF Ended, SameTimers, Dark, OneLit, v
<1>4. CASE ~data.ok /\ (retry \/ data.retry) /\ u.pollTries > MaxPollTries
  <2>1. v = RequestFailure(u)
    BY <1>4 DEF SessionStated
  <2> HIDE DEF v
  <2> QED BY <2>1, RequestFailurePage DEF PageAgrees, Dark, OneLit, v
<1>5. CASE ~data.ok /\ (retry \/ data.retry) /\ ~(u.pollTries > MaxPollTries)
  <2>1. v = LaterPollSession([u EXCEPT !.pollTries = @ + 1])
    BY <1>5 DEF SessionStated
  <2> HIDE DEF v
  <2>2. PageTypes(v) /\ PageAgrees(v) /\ PollsSession(u, v) /\ v.source = u.source
    BY <2>1, <1>5, PolledAgain
  <2> QED BY <2>2 DEF Dark, OneLit, v
<1> QED BY <1>1, <1>2, <1>3, <1>4, <1>5

(* pollStepState: the last highlights are taken back before the next; it     *)
(* polls again at the first try without a state.                             *)
LEMMA StepStatedPage ==
  ASSUME NEW u, PageTypes(u), PageAgrees(u), ~u.threw, NEW data \in AnswerType
  PROVE  LET v == StepStated(u, data) IN
         /\ PageTypes(v) /\ PageAgrees(v)
         /\ OneLit(u.source) => OneLit(v.source)
         /\ Ended(u, v) \/ AsksToStop(u, v) \/ PollsStep(u, v)
         /\ ~data.ok /\ u.pollTries = 0 => PollsStep(u, v)
<1> DEFINE v == StepStated(u, data)
<1>1. CASE data.ok
  <2> DEFINE l == ClearAllHighlight(u)
             c == CommonStateUpdate(l, data)
  <2>1. /\ OnlyEditors(u, l) /\ EditorsAgree(l) /\ l.threw = u.threw
        /\ Dark(l.source) /\ Dark(l.compiled)
    BY ClearAllHighlightPage DEF PageAgrees
  <2> HIDE DEF l
  <2>2. PageTypes(l) /\ Mirrored(l) /\ ~l.threw
    BY <2>1, PagesAlike DEF OnlyEditors, PageAgrees
  <2>3. /\ PageTypes(c) /\ PageAgrees(c) /\ OneLit(c.source)
        /\ \/ Silent(l, c)
           \/ SamePolls(l, c) /\ Asks(l, c, Request("stop", l.session, Unlisted))
    BY <2>1, <2>2, CommonStateUpdatePage
  <2> HIDE DEF c
  <2>4. Ended(u, c) \/ AsksToStop(u, c)
    BY <2>1, <2>3 DEF OnlyEditors, SameExchange, Silent, SamePolls, Ended,
       SameTimers, AsksToStop, Asks
  <2>5. CASE c.threw \/ ~(c.autoStep /\ ~data.done)
    <3>1. v = c
      BY <1>1, <2>5 DEF StepStated, Then, AutoStep, c, l
    <3> HIDE DEF v
    <3> QED BY <1>1, <2>3, <2>4, <3>1 DEF v
  <2>6. CASE ~c.threw /\ c.autoStep /\ ~data.done
    <3>1. v = [c EXCEPT !.autoTimer = TRUE,
                        !.strayTimers = IF c.autoTimer THEN @ + 1 ELSE @]
      BY <1>1, <2>6 DEF StepStated, Then, AutoStep, StartAutoTimer, c, l
    <3> HIDE DEF v
    <3>2. /\ PageTypes(v) /\ SameTables(c, v) /\ SameEditors(c, v)
          /\ SameTimers(c, v) /\ v.requests = c.requests
      BY <2>3, <3>1 DEF PageTypes, PageFields, ControlTypes, EditorTypes,
         TableTypes,
         RequestTypes, Outstanding, SameTables, SameEditors, SameListing, SameTimers
    <3>3. PageAgrees(v) /\ v.source = c.source
      BY <2>3, <3>2, PagesAlike DEF PageAgrees, SameEditors
    <3>4. Ended(u, v) \/ AsksToStop(u, v)
      BY <2>4, <3>2 DEF Ended, SameTimers, AsksToStop, Asks
    <3> QED BY <1>1, <2>3, <3>2, <3>3, <3>4 DEF v
  <2> QED BY <2>5, <2>6
<1>2. CASE ~data.ok /\ u.pollTries > MaxPollTries
  <2>1. v = RequestFailure(u)
    BY <1>2 DEF StepStated
  <2> HIDE DEF v
  <2>2. u.pollTries # 0
    BY <1>2, WebUIAssumption DEF PageTypes, ControlTypes
  <2> QED BY <2>1, <2>2, RequestFailurePage DEF PageAgrees, Dark, OneLit, v
<1>3. CASE ~data.ok /\ ~(u.pollTries > MaxPollTries)
  <2>1. v = LaterPollStep([u EXCEPT !.pollTries = @ + 1])
    BY <1>3 DEF StepStated
  <2> HIDE DEF v
  <2>2. PageTypes(v) /\ PageAgrees(v) /\ PollsStep(u, v) /\ v.source = u.source
    BY <2>1, <1>3, PolledAgain
  <2> QED BY <2>2 DEF v
<1> QED BY <1>1, <1>2, <1>3

(* The answer to a breakpoint changes the gutters, or is a failure.          *)
LEMMA BreakpointAnsweredPage ==
  ASSUME NEW u, PageTypes(u), PageAgrees(u), ~u.threw, NEW data \in AnswerType
  PROVE  LET v == BreakpointAnswered(u, data) IN
         /\ PageTypes(v) /\ PageAgrees(v) /\ Ended(u, v)
         /\ OneLit(u.source) => OneLit(v.source)
<1> DEFINE v == BreakpointAnswered(u, data)
           a == IF data.ok THEN BreakpointUpdate(u, data) ELSE u
<1>1. /\ PageTypes(a) /\ PageAgrees(a) /\ Ended(u, a)
      /\ OneLit(u.source) => OneLit(a.source)
  <2>1. CASE data.ok
    <3>1. OnlyEditors(u, a) /\ EditorsAgree(a) /\ SameHighlights(u, a)
      BY <2>1, BreakpointUpdatePage DEF PageAgrees
    <3> HIDE DEF a
    <3>2. PageTypes(a) /\ Mirrored(a) /\ Ended(u, a)
      BY <3>1, PagesAlike DEF OnlyEditors, PageAgrees, Ended, SameTimers,
         SameExchange
    <3> QED BY <3>1, <3>2 DEF PageAgrees, SameHighlights, SameClasses, OneLit
  <2>2. CASE ~data.ok
    BY <2>2 DEF Ended, SameTimers
  <2> QED BY <2>1, <2>2
<1>2. v = IF a.threw \/ ~data.error THEN a ELSE RequestFailure(a)
  BY DEF BreakpointAnswered, Then
<1> HIDE DEF a, v
<1>3. CASE a.threw \/ ~data.error
  BY <1>1, <1>2, <1>3 DEF v
<1>4. CASE ~(a.threw \/ ~data.error)
  <2>1. PageTypes(v) /\ PageAgrees(v) /\ Ended(a, v) /\ Dark(v.source)
    BY <1>1, <1>2, <1>4, RequestFailurePage DEF PageAgrees
  <2> QED BY <1>1, <2>1 DEF Ended, SameTimers, Dark, OneLit, v
<1> QED BY <1>3, <1>4

(* What an answer's handler does to the page and to the exchange.            *)
LEMMA AnswersPage ==
  ASSUME NEW u, PageTypes(u), PageAgrees(u), ~u.threw,
         NEW r, RequestType(r), r.resp # NoAnswer
  PROVE  LET v == Answers(u, r) IN
         /\ PageTypes(v) /\ PageAgrees(v)
         /\ OneLit(u.source) /\ (r.kind = "session-state" => Dark(u.source))
              => OneLit(v.source)
         /\ \/ Ended(u, v) \/ AsksToStop(u, v)
            \/ /\ PollsSession(u, v)
               /\ (r.kind = "session-state" => Dark(u.source)) => Dark(v.source)
            \/ PollsStep(u, v)
         /\ /\ r.resp.is = "data"
            /\ \/ r.kind = "step" /\ r.resp.ok
               \/ r.kind = "step-state" /\ ~r.resp.ok /\ u.pollTries = 0
            => PollsStep(u, v)
<1> DEFINE v == Answers(u, r)
<1> USE DEF Dark, OneLit
<1>1. r.resp.is \in {"error", "data"} /\ r.kind \in Kinds
  BY DEF RequestType, Kinds
<1>2. EditorsAgree(u) /\ Mirrored(u)
  BY DEF PageAgrees
<1>3. ASSUME v = RequestFailure(u)
      PROVE  PageTypes(v) /\ PageAgrees(v) /\ Ended(u, v) /\ Dark(v.source)
  BY <1>2, <1>3, RequestFailurePage
<1>4. CASE r.resp.is = "error"
  <2>1. v = RequestFailure(u)
    BY <1>4 DEF Answers
  <2> HIDE DEF v
  <2> QED BY <1>3, <1>4, <2>1 DEF v
<1>5. CASE r.resp.is = "data"
  <2>1. r.resp \in AnswerType /\ r.resp.is # "error"
    BY <1>5 DEF RequestType
  <2>2. CASE r.kind \in {"compile", "upload"}
    <3>1. v = Compiled(u, r.resp)
      BY <2>1, <2>2 DEF Answers
    <3> HIDE DEF v
    <3>2. PageTypes(v) /\ PageAgrees(v) /\ Dark(v.source)
          /\ (Ended(u, v) \/ PollsSession(u, v))
      BY <2>1, <3>1, CompiledPage
    <3> QED BY <2>2, <3>2 DEF v
  <2>3. CASE r.kind = "session-state"
    <3>1. v = SessionStated(u, r.resp, r.arg)
      BY <2>1, <2>3 DEF Answers
    <3> HIDE DEF v
    <3>2. /\ PageTypes(v) /\ PageAgrees(v)
          /\ Dark(u.source) => OneLit(v.source)
          /\ Ended(u, v) \/ AsksToStop(u, v)
               \/ (PollsSession(u, v) /\ v.source = u.source)
      BY <2>1, <3>1, SessionStatedPage
    <3> QED BY <2>3, <3>2 DEF v
  <2>4. CASE r.kind = "step-state"
    <3>1. v = StepStated(u, r.resp)
      BY <2>1, <2>4 DEF Answers
    <3> HIDE DEF v
    <3>2. /\ PageTypes(v) /\ PageAgrees(v)
          /\ OneLit(u.source) => OneLit(v.source)
          /\ Ended(u, v) \/ AsksToStop(u, v) \/ PollsStep(u, v)
          /\ ~r.resp.ok /\ u.pollTries = 0 => PollsStep(u, v)
      BY <2>1, <3>1, StepStatedPage
    <3> QED BY <2>4, <3>2 DEF v
  <2>5. CASE r.kind = "step"
    <3>1. CASE r.resp.ok
      <4>1. v = LaterPollStep(u)
        BY <2>1, <2>5, <3>1 DEF Answers
      <4> HIDE DEF v
      <4>2. /\ PageTypes(v) /\ SameControl(u, v) /\ SameTables(u, v)
            /\ SameEditors(u, v) /\ v.requests = u.requests /\ v.reading = u.reading
            /\ v.pollStep = u.pollStep + 1 /\ v.pollSession = u.pollSession
        BY <4>1, LaterPollStepPage
      <4>3. PageAgrees(v) /\ v.source = u.source
        BY <4>2, PagesAlike DEF PageAgrees, SameEditors
      <4>4. PollsStep(u, v)
        BY <4>2 DEF PollsStep, SameControl
      <4> QED BY <2>5, <4>2, <4>3, <4>4 DEF v
    <3>2. CASE ~r.resp.ok
      <4>1. v = RequestFailure(u)
        BY <2>1, <2>5, <3>2 DEF Answers
      <4> HIDE DEF v
      <4> QED BY <1>3, <2>5, <3>2, <4>1 DEF v
    <3> QED BY <3>1, <3>2
  <2>6. CASE r.kind = "stop"
    <3>1. v = ChangeState(u, "IDLE")
      BY <2>1, <2>6 DEF Answers
    <3>2. RequestFailure(u) = ChangeState(u, "IDLE")
      BY Zenon DEF RequestFailure
    <3> HIDE DEF v
    <3> QED BY <1>3, <2>6, <3>1, <3>2 DEF v
  <2>7. CASE r.kind = "breakpoint"
    <3>1. v = BreakpointAnswered(u, r.resp)
      BY <2>1, <2>7 DEF Answers
    <3> HIDE DEF v
    <3>2. PageTypes(v) /\ PageAgrees(v) /\ Ended(u, v)
          /\ (OneLit(u.source) => OneLit(v.source))
      BY <2>1, <3>1, BreakpointAnsweredPage
    <3> QED BY <2>7, <3>2 DEF v
  <2>8. CASE r.kind = "stdin"
    <3>1. v = IF r.resp.ok THEN u ELSE RequestFailure(u)
      BY <2>1, <2>8 DEF Answers
    <3> HIDE DEF v
    <3>2. CASE r.resp.ok
      BY <2>8, <3>1, <3>2 DEF Ended, SameTimers, v
    <3>3. CASE ~r.resp.ok
      BY <1>3, <2>8, <3>1, <3>3 DEF v
    <3> QED BY <3>2, <3>3
  <2> QED BY <1>1, <2>2, <2>3, <2>4, <2>5, <2>6, <2>7, <2>8 DEF Kinds
<1> QED BY <1>1, <1>4, <1>5

-----------------------------------------------------------------------------
(* Edits *)

(* A line put in moves the lines below it, with their marks.                 *)
LEMMA LineInserted ==
  ASSUME NEW nums, 0 \in nums, NEW d \in Docs(nums), NEW i \in DOMAIN d
  PROVE  LET e == InsertLine(d, i - 1) IN
         /\ e \in Docs(nums) /\ (Held(d) => Held(e))
         /\ (Dark(d) => Dark(e)) /\ (OneLit(d) => OneLit(e))
<1> DEFINE e == InsertLine(d, i - 1)
           above == SubSeq(d, 1, i - 1)
           below == SubSeq(d, i, Len(d))
<1>1. /\ Len(d) \in Nat /\ DOMAIN d = 1..Len(d) /\ i \in 1..Len(d)
      /\ d \in Seq(LineType(nums))
  BY DEF Docs
<1>2. Line(0) \in LineType(nums) /\ Line(0).classes = {}
  BY DEF Line, LineType
<1>3. /\ above \in Seq(LineType(nums)) /\ Len(above) = i - 1
      /\ \A j \in 1..(i - 1) : above[j] = d[j]
  BY <1>1
<1>4. /\ below \in Seq(LineType(nums)) /\ Len(below) = Len(d) - i + 1
      /\ \A j \in 1..(Len(d) - i + 1) : below[j] = d[j + i - 1]
  BY <1>1
<1>5. e = (above \o <<Line(0)>>) \o below
  <2>1. (i - 1) + 1 = i
    BY <1>1
  <2> QED BY <2>1 DEF InsertLine, InsertAt
<1> HIDE DEF e, above, below
<1>6. /\ above \o <<Line(0)>> \in Seq(LineType(nums)) /\ Len(above \o <<Line(0)>>) = i
      /\ \A j \in 1..(i - 1) : (above \o <<Line(0)>>)[j] = d[j]
      /\ (above \o <<Line(0)>>)[i] = Line(0)
  BY <1>1, <1>2, <1>3
<1>7. /\ e \in Seq(LineType(nums)) /\ Len(e) = Len(d) + 1
      /\ \A j \in 1..(i - 1) : e[j] = d[j]
      /\ e[i] = Line(0)
      /\ \A j \in (i + 1)..(Len(d) + 1) : e[j] = d[j - 1]
  <2> DEFINE f == above \o <<Line(0)>>
  <2>1. f \in Seq(LineType(nums)) /\ Len(f) = i
    BY <1>6
  <2>2. /\ \A j \in 1..(i - 1) : f[j] = d[j]
        /\ f[i] = Line(0)
    BY <1>6
  <2> HIDE DEF f
  <2>3. e = f \o below
    BY <1>5 DEF f
  <2>4. /\ e \in Seq(LineType(nums)) /\ Len(e) = i + (Len(d) - i + 1)
        /\ \A j \in 1..(i + (Len(d) - i + 1)) :
             e[j] = IF j <= i THEN f[j] ELSE below[j - i]
    <3>1. below \in Seq(LineType(nums)) /\ Len(below) = Len(d) - i + 1
      BY <1>4
    <3>2. Len(f \o below) = Len(f) + Len(below) /\ f \o below \in Seq(LineType(nums))
      BY <2>1, <3>1, ConcatProperties
    <3>3. \A j \in 1..(Len(f) + Len(below)) :
            (f \o below)[j] = IF j <= Len(f) THEN f[j] ELSE below[j - Len(f)]
      BY <2>1, <3>1, ConcatProperties
    <3> QED BY <2>1, <2>3, <3>1, <3>2, <3>3
  <2>5. Len(e) = Len(d) + 1
    BY <2>4, <1>1
  <2>6. \A j \in 1..i : e[j] = f[j]
    BY <2>4, <1>1
  <2>7. ASSUME NEW j \in (i + 1)..(Len(d) + 1)
        PROVE  e[j] = d[j - 1]
    <3>1. e[j] = below[j - i] /\ j - i \in 1..(Len(d) - i + 1)
      BY <2>4, <1>1
    <3>2. (j - i) + i - 1 = j - 1
      BY <1>1
    <3> QED BY <3>1, <3>2, <1>4
  <2> QED BY <2>2, <2>4, <2>5, <2>6, <2>7, <1>1
<1>8. e # <<>>
  BY <1>1, <1>7, EmptySeq
\* Where a line of e with a class was.
<1>9. ASSUME NEW j \in DOMAIN e, "highlight" \in e[j].classes
      PROVE  \/ j < i /\ j \in DOMAIN d /\ e[j] = d[j]
             \/ j > i /\ j - 1 \in DOMAIN d /\ e[j] = d[j - 1]
  <2>1. j \in 1..(Len(d) + 1)
    BY <1>1, <1>7
  <2>2. j # i
    BY <1>2, <1>7, <1>9
  <2> QED BY <2>1, <2>2, <1>1, <1>7
<1>10. Held(d) => Held(e)
  BY <1>9 DEF Held
<1>11. Dark(d) => Dark(e)
  BY <1>9 DEF Dark
<1>12. ASSUME OneLit(d), NEW j \in DOMAIN e, NEW k \in DOMAIN e,
              "highlight" \in e[j].classes, "highlight" \in e[k].classes
       PROVE  j = k
  <2>1. j \in Int /\ k \in Int
    BY <1>1, <1>7
  <2> DEFINE a == IF j < i THEN j ELSE j - 1
             b == IF k < i THEN k ELSE k - 1
  <2>2. a \in DOMAIN d /\ e[j] = d[a]
    BY <2>1, <1>9, <1>12, <1>1
  <2>3. b \in DOMAIN d /\ e[k] = d[b]
    BY <2>1, <1>9, <1>12, <1>1
  <2>5. j # i /\ k # i
    BY <1>2, <1>7, <1>12
  <2>4. a = b
    <3> HIDE DEF a, b
    <3> QED BY <2>2, <2>3, <1>12 DEF OneLit
  <2> QED BY <2>1, <2>4, <2>5, <1>1
<1>13. OneLit(d) => OneLit(e)
  BY <1>12 DEF OneLit
<1> QED BY <1>7, <1>8, <1>10, <1>11, <1>13 DEF Docs, e

(* A line taken out takes its marks with it.                                 *)
LEMMA LineDeleted ==
  ASSUME NEW nums, NEW d \in Docs(nums), NEW i \in DOMAIN d, Len(d) > 1
  PROVE  LET e == DeleteLine(d, i - 1) IN
         /\ e \in Docs(nums) /\ (Held(d) => Held(e))
         /\ (Dark(d) => Dark(e)) /\ (OneLit(d) => OneLit(e))
<1> DEFINE e == DeleteLine(d, i - 1)
           above == SubSeq(d, 1, i - 1)
           below == SubSeq(d, i + 1, Len(d))
<1>1. /\ Len(d) \in Nat /\ DOMAIN d = 1..Len(d) /\ i \in 1..Len(d)
      /\ d \in Seq(LineType(nums))
  BY DEF Docs
<1>2. /\ above \in Seq(LineType(nums)) /\ Len(above) = i - 1
      /\ \A j \in 1..(i - 1) : above[j] = d[j]
  BY <1>1
<1>3. /\ below \in Seq(LineType(nums)) /\ Len(below) = Len(d) - i
      /\ \A j \in 1..(Len(d) - i) : below[j] = d[j + i]
  <2>1. CASE i = Len(d)
    BY <1>1, <2>1
  <2>2. CASE i < Len(d)
    BY <1>1, <2>2
  <2> QED BY <1>1, <2>1, <2>2
<1>4. e = above \o below
  <2>1. (i - 1) + 1 = i
    BY <1>1
  <2> QED BY <2>1 DEF DeleteLine, RemoveAt
<1> HIDE DEF e, above, below
<1>5. /\ e \in Seq(LineType(nums)) /\ Len(e) = Len(d) - 1
      /\ \A j \in 1..(i - 1) : e[j] = d[j]
      /\ \A j \in i..(Len(d) - 1) : e[j] = d[j + 1]
  <2>1. /\ e \in Seq(LineType(nums)) /\ Len(e) = (i - 1) + (Len(d) - i)
        /\ \A j \in 1..((i - 1) + (Len(d) - i)) :
             e[j] = IF j <= i - 1 THEN above[j] ELSE below[j - (i - 1)]
    BY <1>2, <1>3, <1>4
  <2>2. Len(e) = Len(d) - 1
    BY <2>1, <1>1
  <2>3. \A j \in 1..(i - 1) : e[j] = d[j]
    BY <2>1, <1>1, <1>2
  <2>4. ASSUME NEW j \in i..(Len(d) - 1)
        PROVE  e[j] = d[j + 1]
    <3>1. e[j] = below[j - (i - 1)] /\ j - (i - 1) \in 1..(Len(d) - i)
      BY <2>1, <1>1
    <3>2. (j - (i - 1)) + i = j + 1
      BY <1>1
    <3> QED BY <3>1, <3>2, <1>3
  <2> QED BY <2>1, <2>2, <2>3, <2>4
<1>6. e # <<>>
  BY <1>1, <1>5, EmptySeq
<1>7. ASSUME NEW j \in DOMAIN e
      PROVE  \/ j < i /\ j \in DOMAIN d /\ e[j] = d[j]
             \/ j >= i /\ j + 1 \in DOMAIN d /\ e[j] = d[j + 1]
  <2>1. j \in 1..(Len(d) - 1)
    BY <1>1, <1>5
  <2> QED BY <2>1, <1>1, <1>5
<1>8. Held(d) => Held(e)
  BY <1>7 DEF Held
<1>9. Dark(d) => Dark(e)
  BY <1>7 DEF Dark
<1>10. ASSUME OneLit(d), NEW j \in DOMAIN e, NEW k \in DOMAIN e,
              "highlight" \in e[j].classes, "highlight" \in e[k].classes
       PROVE  j = k
  <2>1. j \in Int /\ k \in Int
    BY <1>1, <1>5
  <2> DEFINE a == IF j < i THEN j ELSE j + 1
             b == IF k < i THEN k ELSE k + 1
  <2>2. a \in DOMAIN d /\ e[j] = d[a]
    BY <2>1, <1>7, <1>1
  <2>3. b \in DOMAIN d /\ e[k] = d[b]
    BY <2>1, <1>7, <1>1
  <2>4. a = b
    <3> HIDE DEF a, b
    <3> QED BY <2>2, <2>3, <1>10 DEF OneLit
  <2> QED BY <2>1, <2>4, <1>1
<1>11. OneLit(d) => OneLit(e)
  BY <1>10 DEF OneLit
<1> QED BY <1>5, <1>6, <1>8, <1>9, <1>11 DEF Docs, e
=============================================================================
