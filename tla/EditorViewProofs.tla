-------------------------- MODULE EditorViewProofs --------------------------
(***************************************************************************)
(* Proofs about the editor's highlighting and the lines it has drawn.      *)
(*                                                                         *)
(* The argument: a state saved after a line above a frontier is the one    *)
(* that reading the document from its start gives, and one is saved every  *)
(* SaveEvery lines (SavedAbove), so a search over Search lines finds one   *)
(* and reads on from it (StartLine, SavedNear, ContextIs).  A change moves *)
(* both frontiers back to it; drawing and the worker move them on over     *)
(* lines read from a right state (StyledIs, WorkIsDone).  The view         *)
(* (Viewed) moves with the lines of a change (ChangeIsShown), and at the   *)
(* end of an operation it is moved to what is visible and drawn            *)
(* (DisplayIsUpdated), with the worker due if some line in it has not been *)
(* reached (Due).                                                          *)
(***************************************************************************)
EXTENDS EditorView, WellFoundedInduction, TLAPS

-----------------------------------------------------------------------------
(* Induction *)

(* A set of natural numbers has a least one.                                 *)
LEMMA HasLeast ==
  ASSUME NEW T, T \subseteq Nat, T # {}
  PROVE  \E n \in T : \A m \in T : n <= m
<1> DEFINE R == {p \in Nat \X Nat : p[1] < p[2]}
<1>1. IsWellFoundedOn(R, Nat)
  BY NatLessThanWellFounded DEF OpToRel
<1> HIDE DEF R
<1>2. PICK n \in T : \A m \in T : <<m, n>> \notin R
  BY <1>1, WFMin, Zenon
<1>3. \A m \in T : m \in Nat /\ n \in Nat /\ ~(m < n)
  BY <1>2 DEF R
<1>4. \A m \in T : n <= m
  BY <1>3
<1> QED BY <1>4

(* Induction, for a set.                                                     *)
LEMMA HasAll ==
  ASSUME NEW S, 0 \in S, \A n \in Nat : n \in S => n + 1 \in S
  PROVE  \A n \in Nat : n \in S
<1> SUFFICES ASSUME NEW x \in Nat, x \notin S PROVE FALSE
  OBVIOUS
<1> DEFINE T == {n \in Nat : n \notin S}
<1>1. PICK n \in T : \A m \in T : n <= m
  <2>1. T \subseteq Nat /\ T # {}
    OBVIOUS
  <2> QED BY <2>1, HasLeast
<1>2. n \in Nat /\ n # 0 /\ n \notin S
  BY <1>1
<1>3. n - 1 \in Nat /\ n - 1 \notin T
  BY <1>1, <1>2
<1>4. (n - 1) + 1 = n
  BY <1>2
<1> QED BY <1>2, <1>3, <1>4

(* A bounded set of natural numbers has a greatest one.                      *)
LEMMA HasGreatest ==
  ASSUME NEW n \in Nat, NEW T, T \subseteq 0..n, T # {}
  PROVE  \E t \in T : \A s \in T : s <= t
<1> DEFINE U == {n - t : t \in T}
<1>1. PICK u \in U : \A v \in U : u <= v
  <2>1. \A t \in T : t \in 0..n /\ n - t \in Nat
    OBVIOUS
  <2>2. U \subseteq Nat /\ U # {}
    BY <2>1
  <2> HIDE DEF U
  <2> QED BY <2>2, HasLeast
<1>2. PICK t \in T : u = n - t
  BY <1>1
<1>3. \A s \in T : n - t <= n - s /\ s \in Int /\ t \in Int
  BY <1>1, <1>2
<1>4. \A s \in T : s <= t
  BY <1>3
<1> QED BY <1>4

-----------------------------------------------------------------------------
(* Reading *)

\* A function whose values after start are each given by the one before.
Continues(f, S, start, x, D) ==
  /\ f \in [Nat -> S]
  /\ \A i \in Nat : f[i] = IF i <= start THEN x ELSE D[i][f[i - 1]]

(* There is one.                                                             *)
LEMMA RecursionEnds ==
  ASSUME NEW S, NEW start \in Nat, NEW x \in S, NEW D \in [Nat -> [S -> S]]
  PROVE  \E f : Continues(f, S, start, x, D)
<1> DEFINE
      Is(g, n) == /\ g \in [0..n -> S]
                  /\ \A i \in 0..n : g[i] = IF i <= start THEN x ELSE D[i][g[i - 1]]
<1>1. ASSUME NEW n \in Nat, NEW g, NEW h, NEW m \in 0..n, Is(g, n), Is(h, m)
      PROVE  \A i \in 0..m : g[i] = h[i]
  <2> DEFINE T == {i \in Nat : i <= m => g[i] = h[i]}
  <2>1. 0 \in T
    BY <1>1
  <2>2. ASSUME NEW i \in Nat, i \in T
        PROVE  i + 1 \in T
    <3> SUFFICES ASSUME i + 1 <= m PROVE g[i + 1] = h[i + 1]
      OBVIOUS
    <3>1. g[i] = h[i] /\ (i + 1) - 1 = i /\ i + 1 \in 0..n /\ i + 1 \in 0..m
      BY <2>2, <1>1
    <3>2. /\ g[i + 1] = IF i + 1 <= start THEN x ELSE D[i + 1][g[i]]
          /\ h[i + 1] = IF i + 1 <= start THEN x ELSE D[i + 1][h[i]]
      BY <3>1, <1>1
    <3> QED BY <3>1, <3>2
  <2> HIDE DEF T
  <2>3. \A i \in Nat : i \in T
    BY <2>1, <2>2, HasAll
  <2> QED BY <2>3 DEF T
<1>2. \A n \in Nat : \E g : Is(g, n)
  <2> DEFINE T == {n \in Nat : \E g : Is(g, n)}
  <2>1. 0 \in T
    <3>1. Is([i \in 0..0 |-> x], 0)
      OBVIOUS
    <3> QED BY <3>1
  <2>2. ASSUME NEW n \in Nat, n \in T
        PROVE  n + 1 \in T
    <3>1. PICK g : Is(g, n)
      BY <2>2
    <3> DEFINE y == IF n + 1 <= start THEN x ELSE D[n + 1][g[n]]
               h == [i \in 0..(n + 1) |-> IF i = n + 1 THEN y ELSE g[i]]
    <3>2. y \in S
      BY <3>1
    <3>3. h \in [0..(n + 1) -> S]
      BY <3>1, <3>2
    <3>4. ASSUME NEW i \in 0..(n + 1)
          PROVE  h[i] = IF i <= start THEN x ELSE D[i][h[i - 1]]
      <4>1. CASE i = n + 1
        BY <3>1, <4>1
      <4>2. CASE i # n + 1
        <5>1. i \in 0..n /\ h[i] = g[i]
          BY <4>2
        <5>2. i > start => i - 1 \in 0..n /\ h[i - 1] = g[i - 1]
          BY <5>1
        <5> QED BY <3>1, <5>1, <5>2
      <4> QED BY <4>1, <4>2
    <3> HIDE DEF h
    <3>5. Is(h, n + 1)
      BY <3>3, <3>4
    <3> QED BY <3>5
  <2> HIDE DEF T
  <2>3. \A n \in Nat : n \in T
    BY <2>1, <2>2, HasAll
  <2> QED BY <2>3 DEF T
<1> DEFINE G(n) == CHOOSE g : Is(g, n)
           f == [n \in Nat |-> G(n)[n]]
<1>3. \A n \in Nat : Is(G(n), n)
  BY <1>2
<1> HIDE DEF G
<1>4. ASSUME NEW n \in Nat
      PROVE  f[n] = IF n <= start THEN x ELSE D[n][f[n - 1]]
  <2>1. CASE n <= start
    BY <1>3, <2>1
  <2>2. CASE n > start
    <3>1. n - 1 \in 0..n /\ n - 1 \in Nat /\ n - 1 \in 0..(n - 1)
      BY <2>2
    <3>2. G(n)[n - 1] = G(n - 1)[n - 1]
      <4>1. Is(G(n), n) /\ Is(G(n - 1), n - 1)
        BY <1>3, <3>1
      <4> HIDE DEF Is
      <4> QED BY <1>1, <3>1, <4>1
    <3>3. G(n)[n] = D[n][G(n)[n - 1]]
      BY <1>3, <2>2
    <3> QED BY <2>2, <3>1, <3>2, <3>3
  <2> QED BY <2>1, <2>2
<1>5. f \in [Nat -> S]
  BY <1>3
<1>6. Continues(f, S, start, x, D)
  BY <1>4, <1>5 DEF Continues
<1> QED BY <1>6

(* StateAt reads one line after the other.                                   *)
LEMMA StateAtIs ==
  ASSUME NEW lines, NEW start \in Nat, NEW state, NEW n \in Nat
  PROVE  StateAt(lines, start, state, n) =
           IF n <= start THEN state
           ELSE Token(lines[n].text, StateAt(lines, start, state, n - 1))
<1> DEFINE before[i \in Nat] ==
      IF i <= start THEN state ELSE Token(lines[i].text, before[i - 1])
<1>1. before = [i \in Nat |->
        IF i <= start THEN state ELSE Token(lines[i].text, before[i - 1])]
  <2> DEFINE S == {state, "comment", "code"}
             D == [i \in Nat |-> [s \in S |-> Token(lines[i].text, s)]]
  <2>1. D \in [Nat -> [S -> S]]
    BY DEF Token
  <2>2. state \in S
    OBVIOUS
  <2> HIDE DEF S, D, before
  <2>3. PICK f : Continues(f, S, start, state, D)
    BY <2>1, <2>2, RecursionEnds
  <2>4. \A i \in Nat : i > start => f[i - 1] \in S /\ D[i][f[i - 1]] = Token(lines[i].text, f[i - 1])
    BY <2>3 DEF D, Continues
  <2>5. f = [i \in Nat |-> IF i <= start THEN state ELSE Token(lines[i].text, f[i - 1])]
    BY <2>3, <2>4 DEF Continues
  <2> QED BY <2>5 DEF before
<1> HIDE DEF before
<1>2. \A m \in Nat : StateAt(lines, start, state, m) = before[m]
  BY DEF StateAt, before
<1>3. before[n] = IF n <= start THEN state ELSE Token(lines[n].text, before[n - 1])
  BY <1>1
<1>4. n > start => n - 1 \in Nat
  OBVIOUS
<1> QED BY <1>2, <1>3, <1>4

(* The state before the first line.                                          *)
LEMMA StateAtStart ==
  ASSUME NEW lines, NEW start \in Nat, NEW state, NEW n \in Nat, n <= start
  PROVE  StateAt(lines, start, state, n) = state
BY StateAtIs, Zenon

(* And after each line.                                                      *)
LEMMA StateAtNext ==
  ASSUME NEW lines, NEW start \in Nat, NEW state, NEW n \in Nat, start <= n
  PROVE  StateAt(lines, start, state, n + 1) =
           Token(lines[n + 1].text, StateAt(lines, start, state, n))
<1>1. n + 1 \in Nat /\ ~(n + 1 <= start) /\ (n + 1) - 1 = n
  OBVIOUS
<1>2. StateAt(lines, start, state, n + 1) =
        IF n + 1 <= start THEN state
        ELSE Token(lines[n + 1].text, StateAt(lines, start, state, (n + 1) - 1))
  BY <1>1, StateAtIs
<1> QED BY <1>1, <1>2

(* Reading on from a state read before.                                      *)
LEMMA StateAtJoin ==
  ASSUME NEW lines, NEW start \in Nat, NEW state, NEW m \in Nat, start <= m, NEW n \in Nat,
         m <= n
  PROVE  StateAt(lines, m, StateAt(lines, start, state, m), n) =
           StateAt(lines, start, state, n)
<1>0. SUFFICES ASSUME NEW again, again = StateAt(lines, start, state, m)
      PROVE  StateAt(lines, m, again, n) = StateAt(lines, start, state, n)
  OBVIOUS
<1> DEFINE T == {k \in Nat : m + k <= n =>
                   StateAt(lines, m, again, m + k) = StateAt(lines, start, state, m + k)}
<1>1. 0 \in T
  <2>1. StateAt(lines, m, again, m) = again
    BY StateAtStart
  <2> QED BY <1>0, <2>1
<1>2. ASSUME NEW k \in Nat, k \in T
      PROVE  k + 1 \in T
  <2> SUFFICES ASSUME m + k + 1 <= n
      PROVE  StateAt(lines, m, again, m + k + 1) = StateAt(lines, start, state, m + k + 1)
    OBVIOUS
  <2>1. m + k \in Nat /\ m <= m + k /\ start <= m + k
    OBVIOUS
  <2>2. /\ StateAt(lines, m, again, m + k + 1) =
             Token(lines[m + k + 1].text, StateAt(lines, m, again, m + k))
        /\ StateAt(lines, start, state, m + k + 1) =
             Token(lines[m + k + 1].text, StateAt(lines, start, state, m + k))
    BY <2>1, StateAtNext
  <2>3. StateAt(lines, m, again, m + k) = StateAt(lines, start, state, m + k)
    BY <1>2
  <2> QED BY <2>2, <2>3
<1> HIDE DEF T
<1>3. n - m \in T
  BY <1>1, <1>2, HasAll
<1> QED BY <1>3 DEF T

(* Only the texts of the lines between matter.                               *)
LEMMA StateAtSame ==
  ASSUME NEW lines, NEW more, NEW start \in Nat, NEW state, NEW n \in Nat,
         \A i \in (start + 1)..n : more[i].text = lines[i].text
  PROVE  StateAt(more, start, state, n) = StateAt(lines, start, state, n)
<1> DEFINE T == {k \in Nat : k <= n =>
                   StateAt(more, start, state, k) = StateAt(lines, start, state, k)}
<1>0. \A k \in 0..start : /\ StateAt(more, start, state, k) = state
                          /\ StateAt(lines, start, state, k) = state
  BY StateAtStart
<1>1. 0 \in T
  BY <1>0
<1>2. ASSUME NEW k \in Nat, k \in T
      PROVE  k + 1 \in T
  <2>1. CASE k + 1 <= start
    BY <1>0, <2>1
  <2>2. CASE k + 1 > start /\ k + 1 <= n
    <3>1. k + 1 \in (start + 1)..n /\ (k + 1) - 1 = k
      BY <2>2
    <3>2. k \in Nat /\ start <= k
      BY <2>2
    <3>3. /\ StateAt(more, start, state, k + 1) =
               Token(more[k + 1].text, StateAt(more, start, state, k))
          /\ StateAt(lines, start, state, k + 1) =
               Token(lines[k + 1].text, StateAt(lines, start, state, k))
      BY <3>2, StateAtNext
    <3>4. StateAt(more, start, state, k) = StateAt(lines, start, state, k)
      BY <1>2, <2>2
    <3> QED BY <3>1, <3>3, <3>4
  <2>3. CASE k + 1 > n
    BY <2>3
  <2> QED BY <2>1, <2>2, <2>3
<1> HIDE DEF T
<1>3. n \in T
  BY <1>1, <1>2, HasAll
<1> QED BY <1>3 DEF T

(* What is read is a state.                                                  *)
LEMMA StateAtState ==
  ASSUME NEW lines, NEW start \in Nat, NEW state \in States, NEW n \in Nat
  PROVE  StateAt(lines, start, state, n) \in States
<1> DEFINE T == {k \in Nat : StateAt(lines, start, state, k) \in States}
<1>0. \A k \in 0..start : StateAt(lines, start, state, k) = state
  BY StateAtStart
<1>1. 0 \in T
  BY <1>0
<1>2. ASSUME NEW k \in Nat, k \in T
      PROVE  k + 1 \in T
  <2>1. CASE k + 1 <= start
    BY <1>0, <2>1
  <2>2. CASE k + 1 > start
    <3>1. start <= k
      BY <2>2
    <3>2. StateAt(lines, start, state, k + 1) =
            Token(lines[k + 1].text, StateAt(lines, start, state, k))
      BY <3>1, StateAtNext
    <3>3. StateAt(lines, start, state, k) \in States
      BY <1>2
    <3> QED BY <3>2, <3>3 DEF Token, States
  <2> QED BY <2>1, <2>2
<1> HIDE DEF T
<1>3. n \in T
  BY <1>1, <1>2, HasAll
<1> QED BY <1>3 DEF T

(* The states before lines of a document, one after the other.               *)
LEMMA TrueNext ==
  ASSUME NEW lines
  PROVE  /\ TrueBefore(lines, 0) = "code"
         /\ \A n \in Nat : TrueBefore(lines, n) \in States
         /\ \A n \in Nat : n > 0 =>
              TrueBefore(lines, n) = Token(lines[n].text, TrueBefore(lines, n - 1))
         /\ \A m, n \in Nat : m <= n =>
              StateAt(lines, m, TrueBefore(lines, m), n) = TrueBefore(lines, n)
<1>1. "code" \in States
  BY DEF States
<1>2. \A n \in Nat : TrueBefore(lines, n) \in States
  BY <1>1, StateAtState DEF TrueBefore
<1>3. /\ TrueBefore(lines, 0) = "code"
      /\ \A n \in Nat : n > 0 =>
           TrueBefore(lines, n) = Token(lines[n].text, TrueBefore(lines, n - 1))
  BY StateAtIs DEF TrueBefore
<1>4. \A m, n \in Nat : m <= n =>
        StateAt(lines, m, TrueBefore(lines, m), n) = TrueBefore(lines, n)
  BY StateAtJoin DEF TrueBefore
<1> QED BY <1>2, <1>3, <1>4

(* They depend on the texts above.                                           *)
LEMMA TrueSame ==
  ASSUME NEW lines, NEW more, NEW n \in Nat,
         \A i \in 1..n : more[i].text = lines[i].text
  PROVE  \A m \in 0..n : TrueBefore(more, m) = TrueBefore(lines, m)
BY StateAtSame DEF TrueBefore

-----------------------------------------------------------------------------
(* The invariant *)

Known == States \union {"none"}
LineType == [text : Texts \union {"plain"}, after : Known, styles : Known]
Spans == [text : Texts \union {"plain", "none"}, styles : Known]

\* An editor between two steps of an operation, whose view may not be drawn.
Editors ==
  [lines : Seq(LineType), top : Nat, margin : Margins, from : Nat, to : Nat,
   shown : Seq(Spans), highlightFrontier : Nat, modeFrontier : Nat,
   timer : BOOLEAN, skipped : BOOLEAN]

Frontier(e) == Greater(e.highlightFrontier, e.modeFrontier)

Shaped(e) ==
  /\ e \in Editors /\ Size(e) \in 1..MaxLines
  /\ e.highlightFrontier <= Size(e) /\ e.modeFrontier <= Size(e)

\* Above the nth line the saved states are right, and there is one every few
\* lines.
SavedAbove(lines, n) ==
  \A i \in 1..n :
    /\ lines[i].after \in {"none", TrueBefore(lines, i)}
    /\ (i - 1) % SaveEvery = 0 => lines[i].after # "none"

StylesAbove(lines, n) ==
  \A i \in 1..n : lines[i].styles \in {"none", TrueBefore(lines, i - 1)}

\* What the worker has passed is right, unless it did so out of view.
Highlighted(e) == ~e.skipped => StylesAbove(e.lines, e.highlightFrontier)

Drawing(e, i) ==
  LET line == e.lines[e.from + i] IN
  \/ e.shown[i] = Blank
  \/ e.shown[i] = [text |-> line.text, styles |-> line.styles] /\ line.styles # "none"

\* The view is of lines of the document; those that changed are not drawn.
Viewed(e) ==
  /\ e.from <= e.to /\ e.to <= Size(e) /\ Len(e.shown) = e.to - e.from
  /\ \A i \in 1..(e.to - e.from) : Drawing(e, i)

\* An editor that draws every line views the first, or will when it is drawn.
Unskipped(e) ==
  e.margin >= MaxLines => ~e.skipped /\ (e.from = 0 \/ e.top < e.from)

Due(e) == e.timer \/ e.highlightFrontier >= e.to

EditorInv(e) ==
  /\ Shaped(e) /\ SavedAbove(e.lines, Frontier(e))
  /\ Highlighted(e) /\ Viewed(e) /\ Unskipped(e) /\ Due(e)

\* And after an operation.
Drawn(e) ==
  /\ e.top < Size(e) /\ e.from <= e.top /\ Lesser(Size(e), e.top + Height) <= e.to
  /\ \A i \in 1..(e.to - e.from) : e.shown[i] # Blank

ViewInv == EditorInv(ed) /\ Drawn(ed)

-----------------------------------------------------------------------------
(* Numbers and sequences *)

(* The nearest multiple below.                                               *)
LEMMA Multiple ==
  ASSUME NEW k \in Nat \ {0}, NEW m \in Nat
  PROVE  m % k \in 0..(k - 1) /\ m - (m % k) \in 0..m /\ (m - (m % k)) % k = 0
<1>1. /\ m \div k \in Int /\ m % k \in 0..(k - 1)
      /\ m = k * (m \div k) + (m % k)
  OBVIOUS
<1>2. PICK d \in Int : m - (m % k) = k * d
  <2>1. m - (m % k) = k * (m \div k)
    BY <1>1
  <2> QED BY <1>1, <2>1
<1>3. k * d >= 0 /\ k * d <= m
  <2>1. m >= m % k
    OBVIOUS
  <2> QED BY <1>1, <1>2, <2>1
<1>4. PICK x \in Nat : x = k * d
  BY <1>2, <1>3
<1>5. /\ x \div k \in Int /\ x % k \in 0..(k - 1)
      /\ x = k * (x \div k) + (x % k)
  BY <1>4
<1>6. PICK c \in Int : c = d - x \div k
  BY <1>5
<1>7. x % k = k * c
  BY <1>4, <1>5, <1>6
<1>8. c = 0
  <2>1. c >= 1 => k * c >= k
    OBVIOUS
  <2>2. c <= -1 => k * c <= 0 - k
    OBVIOUS
  <2> QED BY <1>5, <1>7, <2>1, <2>2
<1> QED BY <1>1, <1>2, <1>3, <1>4, <1>7, <1>8

(* A function on the first numbers is a sequence.                            *)
LEMMA IsSequence ==
  ASSUME NEW S, NEW n \in Nat, NEW f \in [1..n -> S]
  PROVE  f \in Seq(S) /\ Len(f) = n /\ DOMAIN f = 1..n
OBVIOUS

(* And the reverse.                                                          *)
LEMMA SequenceIs ==
  ASSUME NEW S, NEW s \in Seq(S)
  PROVE  /\ Len(s) \in Nat /\ DOMAIN s = 1..Len(s)
         /\ \A i \in 1..Len(s) : s[i] \in S
OBVIOUS

-----------------------------------------------------------------------------
(* The state before a line *)

(* Where a line's state is read from.                                        *)
LEMMA StartLine ==
  ASSUME NEW e, Shaped(e), NEW n \in 0..Size(e), NEW precise \in BOOLEAN,
         NEW start, start = FindStartLine(e, n, precise)
  PROVE  /\ start \in 0..n
         /\ \/ start = 0
            \/ e.lines[start].after # "none" /\ (precise => start <= e.modeFrontier)
            \/ /\ ~precise /\ start = n - 1 /\ n >= Search
               /\ \A s \in 1..n : s > n - Search => e.lines[s].after = "none"
<1> DEFINE near == {s \in 1..n : precise \/ s > n - Search}
           good == {s \in near :
                      e.lines[s].after # "none" /\ (precise => s <= e.modeFrontier)}
<1>1. start = IF good # {} THEN CHOOSE s \in good : \A t \in good : t <= s
              ELSE IF precise \/ n < Search THEN 0 ELSE n - 1
  BY DEF FindStartLine
<1>2. Search \in Nat /\ Search > 0 /\ n \in Nat
  BY ViewAssumption DEF Shaped
<1>3. CASE good # {}
  <2>1. \E s \in good : \A t \in good : t <= s
    <3>1. good \subseteq 0..n
      OBVIOUS
    <3> HIDE DEF good
    <3> QED BY <1>2, <1>3, <3>1, HasGreatest
  <2>2. start \in good
    <3> HIDE DEF good
    <3> QED BY <1>1, <1>3, <2>1
  <2> QED BY <2>2
<1>4. CASE good = {} /\ (precise \/ n < Search)
  BY <1>1, <1>2, <1>4
<1>5. CASE good = {} /\ ~(precise \/ n < Search)
  <2>1. start = n - 1
    BY <1>1, <1>5
  <2>2. \A s \in 1..n : s > n - Search => e.lines[s].after = "none"
    BY <1>5
  <2> QED BY <1>2, <1>5, <2>1, <2>2
<1> QED BY <1>3, <1>4, <1>5

(* A saved state is near a line above the frontier.                          *)
LEMMA SavedNear ==
  ASSUME NEW lines, NEW f \in Nat, SavedAbove(lines, f), NEW n \in 1..f, n >= Search
  PROVE  \E s \in 1..n : s > n - Search /\ lines[s].after # "none"
<1>1. /\ SaveEvery \in Nat \ {0} /\ Search \in Nat /\ SaveEvery <= Search
      /\ n - 1 \in Nat
  BY ViewAssumption
<1>2. PICK r \in 0..(SaveEvery - 1) :
        r = (n - 1) % SaveEvery /\ (n - 1) - r \in 0..(n - 1) /\ ((n - 1) - r) % SaveEvery = 0
  BY <1>1, Multiple
<1>3. PICK s \in 1..n : s - 1 = (n - 1) - r
  BY <1>2
<1>4. s \in 1..f /\ (s - 1) % SaveEvery = 0 /\ s > n - Search
  BY <1>1, <1>2, <1>3
<1> QED BY <1>4 DEF SavedAbove

\* The same but for the document and what of it is highlighted.
Alike(e, s) ==
  /\ e \in Editors /\ s \in Editors
  /\ s.top = e.top /\ s.margin = e.margin
  /\ s.from = e.from /\ s.to = e.to /\ s.shown = e.shown
  /\ (s.timer <=> e.timer) /\ (s.skipped <=> e.skipped)

\* The same document but for what is saved of it.
SameTexts(e, lines) ==
  /\ lines \in Seq(LineType) /\ Len(lines) = Size(e)
  /\ \A i \in 1..Size(e) :
       lines[i].text = e.lines[i].text /\ lines[i].styles = e.lines[i].styles

(* Reading the state before a line saves states above it that are right, and *)
(* gives a right one if the line is no further than the frontier, or if the  *)
(* reader is precise.                                                        *)
LEMMA ContextIs ==
  ASSUME NEW e, Shaped(e), SavedAbove(e.lines, Frontier(e)),
         NEW n \in 0..Size(e), NEW precise \in BOOLEAN,
         NEW c, c = ContextBefore(e, n, precise)
  PROVE  /\ c.state \in States
         /\ precise \/ n <= Frontier(e) => c.state = TrueBefore(e.lines, n)
         /\ SameTexts(e, c.ed.lines)
         /\ Alike(e, c.ed) /\ c.ed.highlightFrontier = e.highlightFrontier
         /\ c.ed.modeFrontier = IF precise THEN n ELSE e.modeFrontier
         /\ SavedAbove(c.ed.lines, Frontier(e))
         /\ precise => SavedAbove(c.ed.lines, n)
<1> DEFINE start == FindStartLine(e, n, precise)
           saved == start > 0 /\ e.lines[start].after # "none"
           first == IF saved THEN e.lines[start].after ELSE "code"
           Read(i) == StateAt(e.lines, start, first, i)
           Kept(i) == i = n - 1 \/ i % SaveEvery = 0 \/ InView(e, i)
           lines == [i \in DOMAIN e.lines |->
             IF i > start /\ i <= n
             THEN [e.lines[i] EXCEPT !.after = IF Kept(i - 1) THEN Read(i) ELSE "none"]
             ELSE e.lines[i]]
<1>1. /\ c.state = Read(n)
      /\ c.ed = [e EXCEPT !.lines = lines, !.modeFrontier = IF precise THEN n ELSE @]
  BY DEF ContextBefore
<1>2. /\ e \in Editors /\ e.lines \in Seq(LineType) /\ Size(e) \in Nat /\ n \in Nat
      /\ DOMAIN e.lines = 1..Size(e) /\ \A i \in 1..Size(e) : e.lines[i] \in LineType
      /\ Frontier(e) \in 0..Size(e) /\ e.modeFrontier <= Frontier(e)
      /\ e.modeFrontier \in Nat
  BY DEF Shaped, Editors, Size, Frontier, Greater
<1>3. /\ start \in 0..n
      /\ \/ start = 0
         \/ e.lines[start].after # "none" /\ (precise => start <= e.modeFrontier)
         \/ /\ ~precise /\ start = n - 1 /\ n >= Search
            /\ \A s \in 1..n : s > n - Search => e.lines[s].after = "none"
  BY StartLine
<1> HIDE DEF start
<1>4. first \in States
  <2>1. saved => start \in 1..Size(e)
    BY <1>2, <1>3
  <2> QED BY <1>2, <2>1 DEF LineType, Known, States
<1>5. ASSUME precise \/ start < Frontier(e) \/ n <= Frontier(e),
             precise \/ saved \/ start = 0 \/ n <= Frontier(e)
      PROVE  first = TrueBefore(e.lines, start)
  <2>1. CASE saved
    <3>1. start \in 1..Frontier(e)
      BY <1>2, <1>3, <1>5, <2>1
    <3> QED BY <2>1, <3>1 DEF SavedAbove
  <2>2. CASE start = 0
    BY <2>2, TrueNext
  <2>3. CASE ~saved /\ start # 0
    <3>1. /\ ~precise /\ n >= Search /\ n <= Frontier(e) /\ n \in 1..Frontier(e)
          /\ \A s \in 1..n : s > n - Search => e.lines[s].after = "none"
      BY <1>2, <1>3, <1>5, <2>3
    <3> QED BY <1>2, <3>1, SavedNear
  <2> QED BY <2>1, <2>2, <2>3
<1>6. ASSUME NEW i \in start..n, precise \/ i <= Frontier(e), precise \/ i > start \/ n <= Frontier(e)
      PROVE  Read(i) = TrueBefore(e.lines, i)
  <2>1. first = TrueBefore(e.lines, start)
    BY <1>2, <1>3, <1>5, <1>6
  <2>2. start \in Nat /\ i \in Nat /\ start <= i
    BY <1>3
  <2> HIDE DEF first
  <2> QED BY <2>1, <2>2, TrueNext
<1>7. \A i \in Nat : Read(i) \in States
  <2> HIDE DEF first
  <2> QED BY <1>3, <1>4, StateAtState
<1> HIDE DEF Read
<1>8. /\ lines \in Seq(LineType) /\ Len(lines) = Size(e) /\ DOMAIN lines = 1..Size(e)
      /\ \A i \in 1..Size(e) :
           /\ lines[i].text = e.lines[i].text /\ lines[i].styles = e.lines[i].styles
           /\ lines[i].after = IF i > start /\ i <= n
                               THEN IF Kept(i - 1) THEN Read(i) ELSE "none"
                               ELSE e.lines[i].after
  <2> HIDE DEF Kept
  <2>1. ASSUME NEW i \in 1..Size(e)
        PROVE  /\ lines[i] \in LineType
               /\ lines[i].text = e.lines[i].text /\ lines[i].styles = e.lines[i].styles
               /\ lines[i].after = IF i > start /\ i <= n
                                   THEN IF Kept(i - 1) THEN Read(i) ELSE "none"
                                   ELSE e.lines[i].after
    <3>1. e.lines[i] \in LineType /\ i \in DOMAIN e.lines /\ Read(i) \in States
      BY <1>2, <1>7
    <3> QED BY <3>1 DEF LineType, Known
  <2>2. lines \in [1..Size(e) -> LineType]
    BY <1>2, <2>1
  <2> QED BY <1>2, <2>1, <2>2, IsSequence
<1>9. SameTexts(e, lines)
  BY <1>8 DEF SameTexts
<1>10. \A i \in 0..Size(e) : TrueBefore(lines, i) = TrueBefore(e.lines, i)
  BY <1>2, <1>8, TrueSame
<1>11. ASSUME NEW f \in 0..Size(e), precise \/ f <= Frontier(e), f <= Frontier(e) \/ f <= n
       PROVE  SavedAbove(lines, f)
  <2> SUFFICES ASSUME NEW i \in 1..f
      PROVE  /\ lines[i].after \in {"none", TrueBefore(lines, i)}
             /\ (i - 1) % SaveEvery = 0 => lines[i].after # "none"
    BY DEF SavedAbove
  <2>1. i \in 1..Size(e) /\ i \in Nat /\ TrueBefore(lines, i) = TrueBefore(e.lines, i)
    BY <1>2, <1>10
  <2>2. CASE i > start /\ i <= n
    <3>1. Read(i) = TrueBefore(e.lines, i)
      BY <1>2, <1>3, <1>6, <1>11, <2>2
    <3>2. Read(i) \in States /\ "none" \notin States
      BY <1>7, <2>1 DEF States
    <3> QED BY <1>8, <2>1, <2>2, <3>1, <3>2
  <2>3. CASE ~(i > start /\ i <= n)
    <3>1. lines[i].after = e.lines[i].after
      BY <1>8, <2>1, <2>3
    <3>2. i \in 1..Frontier(e)
      BY <1>2, <1>3, <1>11, <2>3
    <3> QED BY <2>1, <3>1, <3>2 DEF SavedAbove
  <2> QED BY <2>2, <2>3
<1> HIDE DEF lines
<1> DEFINE mode == IF precise THEN n ELSE e.modeFrontier
<1>12. /\ Alike(e, c.ed) /\ c.ed.lines = lines
       /\ c.ed.highlightFrontier = e.highlightFrontier /\ c.ed.modeFrontier = mode
  <2>1. c.ed = [e EXCEPT !.lines = lines, !.highlightFrontier = e.highlightFrontier,
                         !.modeFrontier = mode]
    BY <1>1, <1>2 DEF Editors
  <2>2. mode \in Nat /\ e.highlightFrontier \in Nat
    BY <1>2 DEF Editors
  <2> HIDE DEF mode
  <2>3. c.ed \in Editors
    BY <1>2, <1>8, <2>1, <2>2 DEF Editors
  <2>4. /\ c.ed.top = e.top /\ c.ed.margin = e.margin
        /\ c.ed.from = e.from /\ c.ed.to = e.to /\ c.ed.shown = e.shown
        /\ c.ed.lines = lines /\ c.ed.highlightFrontier = e.highlightFrontier
        /\ c.ed.modeFrontier = mode
    BY <1>2, <2>1 DEF Editors
  <2>5. (c.ed.timer <=> e.timer) /\ (c.ed.skipped <=> e.skipped)
    BY <1>2, <2>1 DEF Editors
  <2> QED BY <1>2, <2>3, <2>4, <2>5 DEF Alike
<1>13. c.state \in States
  BY <1>1, <1>2, <1>7
<1>14. precise \/ n <= Frontier(e) => c.state = TrueBefore(e.lines, n)
  BY <1>1, <1>2, <1>3, <1>6
<1>15. SavedAbove(lines, Frontier(e)) /\ (precise => SavedAbove(lines, n))
  BY <1>2, <1>11
<1> QED BY <1>1, <1>9, <1>12, <1>13, <1>14, <1>15

-----------------------------------------------------------------------------
(* Drawing *)

\* What is saved above the frontiers and drawn by the worker is right.
Reliable(e) == Shaped(e) /\ SavedAbove(e.lines, Frontier(e)) /\ Highlighted(e)

(* A line that is to be drawn has its styles, and what is right stays so.    *)
LEMMA StyledIs ==
  ASSUME NEW e, Reliable(e), NEW n \in 0..(Size(e) - 1), NEW s, s = LineStyled(e, n)
  PROVE  /\ Reliable(s) /\ s.highlightFrontier >= e.highlightFrontier
         /\ Alike(e, s) /\ Size(s) = Size(e) /\ s.lines[n + 1].styles # "none"
         /\ \A i \in 1..Size(e) :
              /\ s.lines[i].text = e.lines[i].text
              /\ i # n + 1 => s.lines[i].styles = e.lines[i].styles
<1> DEFINE moves == e.highlightFrontier = n
<1>1. /\ e \in Editors /\ e.lines \in Seq(LineType) /\ Size(e) \in Nat /\ n \in Nat
      /\ n + 1 \in 1..Size(e) /\ n \in 0..Size(e)
      /\ DOMAIN e.lines = 1..Size(e) /\ \A i \in 1..Size(e) : e.lines[i] \in LineType
      /\ Frontier(e) \in 0..Size(e) /\ e.modeFrontier \in 0..Size(e)
      /\ e.highlightFrontier \in 0..Size(e)
      /\ Shaped(e) /\ SavedAbove(e.lines, Frontier(e)) /\ Highlighted(e)
  BY DEF Reliable, Shaped, Editors, Size, Frontier, Greater
<1>2. CASE e.lines[n + 1].styles # "none"
  <2>1. s = e
    BY <1>2 DEF LineStyled
  <2>2. Alike(e, e)
    BY <1>1 DEF Alike
  <2> QED BY <1>1, <1>2, <2>1, <2>2 DEF Reliable
<1>3. CASE e.lines[n + 1].styles = "none"
  <2>0. PICK context : context = ContextBefore(e, n, FALSE)
    OBVIOUS
  <2>1. /\ context.state \in States
        /\ n <= Frontier(e) => context.state = TrueBefore(e.lines, n)
        /\ SameTexts(e, context.ed.lines)
        /\ Alike(e, context.ed) /\ context.ed.highlightFrontier = e.highlightFrontier
        /\ context.ed.modeFrontier = e.modeFrontier
        /\ SavedAbove(context.ed.lines, Frontier(e))
    <3> DEFINE precise == FALSE
    <3>1. precise \in BOOLEAN /\ ~precise /\ context = ContextBefore(e, n, precise)
      BY <2>0
    <3> HIDE DEF precise
    <3> QED BY <1>1, <3>1, ContextIs
  <2>2. s = [context.ed EXCEPT
              !.lines[n + 1] =
                [@ EXCEPT !.styles = context.state,
                          !.after = Token(e.lines[n + 1].text, context.state)],
              !.highlightFrontier = IF moves THEN n + 1 ELSE @,
              !.modeFrontier = IF moves THEN Greater(@, n + 1) ELSE @]
    BY <1>3, <2>0 DEF LineStyled
  <2> DEFINE after == Token(e.lines[n + 1].text, context.state)
             line == [context.ed.lines[n + 1] EXCEPT !.styles = context.state,
                                                     !.after = after]
             lines == [context.ed.lines EXCEPT ![n + 1] = line]
             high == IF moves THEN n + 1 ELSE e.highlightFrontier
             mode == IF moves THEN Greater(e.modeFrontier, n + 1) ELSE e.modeFrontier
  <2>3. context.ed.lines \in Seq(LineType) /\ Len(context.ed.lines) = Size(e)
    BY <2>1 DEF SameTexts
  <2>4. /\ DOMAIN context.ed.lines = 1..Size(e)
        /\ \A i \in 1..Size(e) : context.ed.lines[i] \in LineType
    BY <2>3, SequenceIs
  <2>5. after \in States
    BY <2>1 DEF Token, States
  <2>6. /\ line \in LineType /\ line.text = e.lines[n + 1].text
        /\ line.styles = context.state /\ line.after = after
    <3>1. context.ed.lines[n + 1] \in LineType
      BY <1>1, <2>4
    <3>2. context.ed.lines[n + 1].text = e.lines[n + 1].text
      BY <1>1, <2>1 DEF SameTexts
    <3> HIDE DEF after
    <3> QED BY <2>1, <2>5, <3>1, <3>2 DEF LineType, Known
  <2>7. s = [context.ed EXCEPT !.lines = lines, !.highlightFrontier = high,
                               !.modeFrontier = mode]
    <3>1. context.ed \in Editors
      BY <2>1 DEF Alike
    <3> QED BY <2>1, <2>2, <2>4, <3>1 DEF Editors
  <2> HIDE DEF line
  <2>8. /\ lines \in Seq(LineType) /\ Len(lines) = Size(e)
        /\ \A i \in 1..Size(e) :
             lines[i] = IF i = n + 1 THEN line ELSE context.ed.lines[i]
    <3>1. lines \in [1..Size(e) -> LineType]
      BY <2>4, <2>6
    <3>2. \A i \in 1..Size(e) :
            lines[i] = IF i = n + 1 THEN line ELSE context.ed.lines[i]
      BY <2>4
    <3> HIDE DEF lines
    <3> QED BY <1>1, <3>1, <3>2, IsSequence
  <2> HIDE DEF lines
  <2>9. /\ mode \in 0..Size(e) /\ high \in 0..Size(e)
        /\ high >= e.highlightFrontier /\ mode >= e.modeFrontier
        /\ Greater(high, mode) = IF moves THEN Greater(Frontier(e), n + 1) ELSE Frontier(e)
        /\ Greater(high, mode) \in 0..Size(e)
    BY <1>1 DEF Greater, Frontier
  <2> HIDE DEF high, mode
  <2>10. /\ Alike(e, s) /\ s.lines = lines /\ Size(s) = Size(e)
         /\ s.highlightFrontier = high /\ s.modeFrontier = mode
    <3>1. /\ Alike(context.ed, s) /\ s.lines = lines
          /\ s.highlightFrontier = high /\ s.modeFrontier = mode
      <4>1. context.ed \in Editors /\ high \in Nat /\ mode \in Nat
        BY <1>1, <2>1, <2>9 DEF Alike
      <4>2. s \in Editors
        BY <2>7, <2>8, <4>1 DEF Editors
      <4>3. /\ s.top = context.ed.top /\ s.margin = context.ed.margin
            /\ s.from = context.ed.from /\ s.to = context.ed.to
            /\ s.shown = context.ed.shown /\ s.lines = lines
            /\ s.highlightFrontier = high /\ s.modeFrontier = mode
        BY <2>7, <4>1 DEF Editors
      <4>4. (s.timer <=> context.ed.timer) /\ (s.skipped <=> context.ed.skipped)
        BY <2>7, <4>1 DEF Editors
      <4> QED BY <4>1, <4>2, <4>3, <4>4 DEF Alike
    <3> QED BY <2>1, <2>8, <3>1 DEF Alike, Size
  <2>11. Shaped(s)
    BY <1>1, <2>9, <2>10 DEF Shaped, Alike
  <2>12. \A i \in 1..Size(e) : lines[i].text = e.lines[i].text
    BY <2>1, <2>6, <2>8 DEF SameTexts
  <2>13. \A i \in 0..Size(e) : TrueBefore(lines, i) = TrueBefore(e.lines, i)
    BY <1>1, <2>12, TrueSame
  <2>14. n <= Frontier(e) => after = TrueBefore(e.lines, n + 1)
    <3>1. (n + 1) - 1 = n /\ n + 1 \in Nat /\ n + 1 > 0
      BY <1>1
    <3> QED BY <2>1, <3>1, TrueNext
  <2>15. SavedAbove(s.lines, Frontier(s))
    <3> SUFFICES ASSUME NEW i \in 1..Greater(high, mode)
        PROVE  /\ lines[i].after \in {"none", TrueBefore(lines, i)}
               /\ (i - 1) % SaveEvery = 0 => lines[i].after # "none"
      BY <2>10 DEF SavedAbove, Frontier
    <3>1. i \in 1..Size(e)
      BY <1>1, <2>9
    <3>2. CASE i = n + 1
      <4>1. n <= Frontier(e)
        BY <1>1, <2>9, <3>2 DEF Greater, Frontier
      <4>2. after # "none"
        BY <2>5 DEF States
      <4> QED BY <2>6, <2>8, <2>13, <2>14, <3>1, <3>2, <4>1, <4>2
    <3>3. CASE i # n + 1
      <4>1. i \in 1..Frontier(e)
        BY <1>1, <2>9, <3>3 DEF Greater, Frontier
      <4>2. TrueBefore(context.ed.lines, i) = TrueBefore(e.lines, i)
        <5>1. \A j \in 1..Size(e) : context.ed.lines[j].text = e.lines[j].text
          BY <2>1 DEF SameTexts
        <5>2. \A m \in 0..Size(e) : TrueBefore(context.ed.lines, m) = TrueBefore(e.lines, m)
          BY <1>1, <5>1, TrueSame
        <5> QED BY <3>1, <5>2
      <4>3. lines[i] = context.ed.lines[i]
        BY <2>8, <3>1, <3>3
      <4> QED BY <2>1, <2>13, <3>1, <4>1, <4>2, <4>3 DEF SavedAbove
    <3> QED BY <3>2, <3>3
  <2>16. \A i \in 1..Size(e) : i # n + 1 => lines[i].styles = e.lines[i].styles
    BY <2>1, <2>8 DEF SameTexts
  <2>17. Highlighted(s)
    <3> SUFFICES ASSUME ~e.skipped, NEW i \in 1..high
        PROVE  lines[i].styles \in {"none", TrueBefore(lines, i - 1)}
      BY <2>10 DEF Highlighted, StylesAbove, Alike
    <3>1. i \in 1..Size(e) /\ i - 1 \in 0..Size(e)
      BY <1>1, <2>9
    <3>2. CASE i = n + 1
      <4>1. n <= Frontier(e) /\ i - 1 = n
        BY <1>1, <2>9, <3>2 DEF high, Greater, Frontier
      <4> QED BY <1>1, <2>1, <2>6, <2>8, <2>13, <3>1, <3>2, <4>1
    <3>3. CASE i # n + 1
      <4>1. i \in 1..e.highlightFrontier
        BY <1>1, <3>3 DEF high
      <4> QED BY <1>1, <2>13, <2>16, <3>1, <3>3, <4>1 DEF Highlighted, StylesAbove
    <3> QED BY <3>2, <3>3
  <2>18. s.lines[n + 1].styles # "none"
    BY <1>1, <2>1, <2>6, <2>8, <2>10 DEF States
  <2> QED BY <2>7, <2>9, <2>10, <2>11, <2>12, <2>15, <2>16, <2>17, <2>18 DEF Reliable
<1> QED BY <1>2, <1>3

\* A view of the same lines, of which no fewer are drawn.
Redrawn(e, d) ==
  /\ Size(d) = Size(e) /\ d.top = e.top /\ d.margin = e.margin
  /\ d.from = e.from /\ d.to = e.to
  /\ (d.timer <=> e.timer) /\ (d.skipped <=> e.skipped)
  /\ d.highlightFrontier >= e.highlightFrontier
  /\ \A i \in 1..(e.to - e.from) : e.shown[i] # Blank => d.shown[i] # Blank

(* A line is drawn.                                                          *)
LEMMA LineIsDrawn ==
  ASSUME NEW e, Reliable(e), Viewed(e), NEW n \in e.from..(e.to - 1),
         NEW d, d = DrawLine(e, n)
  PROVE  /\ Reliable(d) /\ Viewed(d) /\ Redrawn(e, d)
         /\ d.shown[n - e.from + 1] # Blank
<1>1. /\ e \in Editors /\ e.from \in Nat /\ e.to \in Nat /\ Size(e) \in Nat
      /\ e.shown \in Seq(Spans) /\ Len(e.shown) = e.to - e.from
      /\ e.from <= e.to /\ e.to <= Size(e) /\ n \in 0..(Size(e) - 1)
      /\ n + 1 \in 1..Size(e) /\ n - e.from + 1 \in 1..(e.to - e.from)
      /\ e.highlightFrontier \in Nat
  BY DEF Reliable, Shaped, Viewed, Editors, Size
<1>2. CASE e.shown[n - e.from + 1] # Blank
  <2>1. d = e
    BY <1>2 DEF DrawLine
  <2> QED BY <1>1, <1>2, <2>1 DEF Redrawn
<1>3. CASE e.shown[n - e.from + 1] = Blank
  <2>1. PICK styled : styled = LineStyled(e, n)
    OBVIOUS
  <2>2. /\ Reliable(styled) /\ styled.highlightFrontier >= e.highlightFrontier
        /\ Alike(e, styled) /\ Size(styled) = Size(e) /\ styled.lines[n + 1].styles # "none"
        /\ \A i \in 1..Size(e) :
             /\ styled.lines[i].text = e.lines[i].text
             /\ i # n + 1 => styled.lines[i].styles = e.lines[i].styles
    BY <1>1, <2>1, StyledIs
  <2> DEFINE k == n - e.from + 1
             line == styled.lines[n + 1]
             span == [text |-> line.text, styles |-> line.styles]
             shown == [styled.shown EXCEPT ![k] = span]
  <2>3. d = [styled EXCEPT !.shown = shown]
    BY <1>3, <2>1 DEF DrawLine
  <2>4. /\ styled \in Editors /\ styled.shown = e.shown /\ styled.lines \in Seq(LineType)
        /\ styled.from = e.from /\ styled.to = e.to
        /\ styled.top = e.top /\ styled.margin = e.margin
        /\ (styled.timer <=> e.timer) /\ (styled.skipped <=> e.skipped)
    BY <2>2 DEF Alike, Editors
  <2>5. span \in Spans /\ span # Blank
    <3>1. line \in LineType
      BY <1>1, <2>2, <2>4, SequenceIs DEF Size
    <3>2. line.styles # "none"
      BY <2>2
    <3> HIDE DEF line
    <3> QED BY <3>1, <3>2 DEF LineType, Spans, Blank
  <2>6. /\ shown \in Seq(Spans) /\ Len(shown) = e.to - e.from
        /\ \A i \in 1..(e.to - e.from) : shown[i] = IF i = k THEN span ELSE e.shown[i]
    <3> HIDE DEF span, k
    <3>1. DOMAIN e.shown = 1..(e.to - e.from) /\ \A i \in 1..(e.to - e.from) : e.shown[i] \in Spans
      BY <1>1, SequenceIs
    <3>2. shown \in [1..(e.to - e.from) -> Spans]
      BY <2>4, <2>5, <3>1
    <3>3. \A i \in 1..(e.to - e.from) : shown[i] = IF i = k THEN span ELSE e.shown[i]
      BY <2>4, <3>1
    <3>4. e.to - e.from \in Nat
      BY <1>1
    <3> HIDE DEF shown
    <3> QED BY <3>2, <3>3, <3>4, IsSequence
  <2> HIDE DEF shown
  <2>7. /\ d \in Editors /\ d.shown = shown /\ d.lines = styled.lines
        /\ d.from = e.from /\ d.to = e.to /\ d.top = e.top /\ d.margin = e.margin
        /\ d.highlightFrontier = styled.highlightFrontier
        /\ d.modeFrontier = styled.modeFrontier
    BY <2>3, <2>4, <2>6 DEF Editors
  <2>8. (d.timer <=> e.timer) /\ (d.skipped <=> e.skipped)
    BY <2>3, <2>4 DEF Editors
  <2>9. Reliable(d)
    BY <2>2, <2>4, <2>7, <2>8
    DEF Reliable, Shaped, Size, Frontier, Highlighted
  <2>10. d.shown[k] # Blank
    BY <1>1, <2>5, <2>6, <2>7
  <2>11. Redrawn(e, d)
    BY <1>1, <1>3, <2>2, <2>5, <2>6, <2>7, <2>8 DEF Redrawn, Size
  <2>12. Viewed(d)
    <3>1. ASSUME NEW i \in 1..(d.to - d.from)
          PROVE  Drawing(d, i)
      <4>1. /\ i \in 1..(e.to - e.from) /\ e.from + i \in 1..Size(e) /\ Drawing(e, i)
        <5>1. i \in 1..(e.to - e.from)
          BY <2>7
        <5>2. e.from + i \in 1..Size(e)
          <6>1. /\ e.from \in Nat /\ e.to \in Nat /\ Size(e) \in Nat /\ e.to <= Size(e)
                /\ i \in Nat /\ i >= 1 /\ i <= e.to - e.from
            BY <1>1, <5>1
          <6> QED BY <6>1
        <5> QED BY <5>1, <5>2 DEF Viewed
      <4>2. CASE i = k
        <5>1. d.from + i = n + 1
          BY <1>1, <2>7, <4>2
        <5>2. d.shown[i] = span /\ d.lines[n + 1] = line
          <6> HIDE DEF span, k
          <6> QED BY <2>6, <2>7, <4>1, <4>2
        <5> QED BY <2>2, <5>1, <5>2 DEF Drawing
      <4>3. CASE i # k
        <5>1. e.from + i # n + 1
          BY <1>1, <4>1, <4>3
        <5>2. /\ d.lines[e.from + i].text = e.lines[e.from + i].text
              /\ d.lines[e.from + i].styles = e.lines[e.from + i].styles
              /\ d.shown[i] = e.shown[i] /\ d.from = e.from
          <6> HIDE DEF span, k
          <6> QED BY <2>2, <2>6, <2>7, <4>1, <4>3, <5>1
        <5> QED BY <4>1, <5>2 DEF Drawing
      <4> QED BY <4>2, <4>3
    <3> QED BY <1>1, <2>2, <2>6, <2>7, <3>1 DEF Viewed, Size
  <2> QED BY <2>9, <2>10, <2>11, <2>12
<1> QED BY <1>2, <1>3

(* The lines of the view are drawn.                                          *)
LEMMA DisplayIsPatched ==
  ASSUME NEW e, Reliable(e), Viewed(e), NEW d, d = PatchDisplay(e)
  PROVE  /\ Reliable(d) /\ Viewed(d) /\ Redrawn(e, d)
         /\ \A i \in 1..(d.to - d.from) : d.shown[i] # Blank
<1>1. e.from \in Nat /\ e.to \in Nat /\ e.from <= e.to /\ e.highlightFrontier \in Nat
  BY DEF Reliable, Shaped, Viewed, Editors
<1> DEFINE drawn[n \in e.from..e.to] ==
      IF n = e.from THEN e ELSE DrawLine(drawn[n - 1], n - 1)
<1>2. drawn = [n \in e.from..e.to |->
        IF n = e.from THEN e ELSE DrawLine(drawn[n - 1], n - 1)]
  <2> DEFINE Is(g, k) ==
        \A n \in e.from..(e.from + k) :
          g[n] = IF n = e.from THEN e ELSE DrawLine(g[n - 1], n - 1)
             T == {k \in Nat : \E g : Is(g, k)}
  <2>1. 0 \in T
    <3>1. Is([n \in e.from..(e.from + 0) |-> e], 0)
      BY <1>1
    <3> QED BY <3>1
  <2>2. ASSUME NEW k \in Nat, k \in T
        PROVE  k + 1 \in T
    <3>1. PICK g : Is(g, k)
      BY <2>2
    <3> DEFINE h == [n \in e.from..(e.from + (k + 1)) |->
                      IF n = e.from + (k + 1)
                      THEN DrawLine(g[e.from + k], e.from + k) ELSE g[n]]
    <3>2. ASSUME NEW n \in e.from..(e.from + (k + 1))
          PROVE  h[n] = IF n = e.from THEN e ELSE DrawLine(h[n - 1], n - 1)
      <4>1. CASE n = e.from + (k + 1)
        <5>1. n - 1 = e.from + k /\ n # e.from /\ h[e.from + k] = g[e.from + k]
          <6>1. e.from + k \in e.from..(e.from + (k + 1)) /\ e.from + k # e.from + (k + 1)
            BY <1>1
          <6>2. n - 1 = e.from + k /\ n # e.from
            BY <1>1, <4>1
          <6> QED BY <6>1, <6>2
        <5>2. h[n] = DrawLine(g[e.from + k], e.from + k)
          BY <4>1
        <5> HIDE DEF h
        <5> QED BY <5>1, <5>2
      <4>2. CASE n # e.from + (k + 1)
        <5>1. n \in e.from..(e.from + k) /\ h[n] = g[n]
          BY <1>1, <4>2
        <5>2. n # e.from => h[n - 1] = g[n - 1]
          BY <1>1, <5>1
        <5> HIDE DEF h
        <5> QED BY <3>1, <5>1, <5>2
      <4> QED BY <4>1, <4>2
    <3> HIDE DEF h
    <3>3. Is(h, k + 1)
      BY <3>2
    <3> QED BY <3>3
  <2> HIDE DEF T
  <2>3. e.to - e.from \in T
    BY <1>1, <2>1, <2>2, HasAll
  <2>4. PICK g : Is(g, e.to - e.from)
    BY <2>3 DEF T
  <2> DEFINE f == [n \in e.from..e.to |-> g[n]]
  <2>5. ASSUME NEW n \in e.from..e.to
        PROVE  f[n] = IF n = e.from THEN e ELSE DrawLine(f[n - 1], n - 1)
    <3>1. n \in e.from..(e.from + (e.to - e.from)) /\ f[n] = g[n]
      BY <1>1
    <3>2. n # e.from => f[n - 1] = g[n - 1]
      BY <1>1
    <3> HIDE DEF f
    <3> QED BY <2>4, <3>1, <3>2
  <2>6. f = [n \in e.from..e.to |-> IF n = e.from THEN e ELSE DrawLine(f[n - 1], n - 1)]
    BY <2>5
  <2> QED BY <2>6 DEF drawn
<1>3. d = drawn[e.to]
  BY DEF PatchDisplay, drawn
<1> HIDE DEF drawn
<1> DEFINE Good(x, k) == /\ Reliable(x) /\ Viewed(x) /\ Redrawn(e, x)
                         /\ \A i \in 1..k : x.shown[i] # Blank
           T == {k \in Nat : k <= e.to - e.from => Good(drawn[e.from + k], k)}
<1>4. 0 \in T
  <2>1. drawn[e.from] = e /\ e.from + 0 = e.from
    BY <1>1, <1>2
  <2>2. Good(e, 0)
    BY <1>1 DEF Redrawn
  <2> QED BY <2>1, <2>2
<1>5. ASSUME NEW k \in Nat, k \in T
      PROVE  k + 1 \in T
  <2> SUFFICES ASSUME k + 1 <= e.to - e.from
      PROVE  Good(drawn[e.from + (k + 1)], k + 1)
    OBVIOUS
  <2>1. PICK x : x = drawn[e.from + k]
    OBVIOUS
  <2>2. PICK y : y = drawn[e.from + (k + 1)]
    OBVIOUS
  <2>3. Good(x, k)
    BY <1>1, <1>5, <2>1
  <2>4. y = DrawLine(x, e.from + k)
    <3>1. /\ e.from + (k + 1) \in e.from..e.to /\ e.from + (k + 1) # e.from
          /\ (e.from + (k + 1)) - 1 = e.from + k
      BY <1>1
    <3> QED BY <1>2, <2>1, <2>2, <3>1
  <2>5. e.from + k \in x.from..(x.to - 1) /\ x.from = e.from /\ x.to = e.to
    BY <1>1, <2>3 DEF Redrawn
  <2>6. /\ Reliable(y) /\ Viewed(y) /\ Redrawn(x, y)
        /\ y.shown[k + 1] # Blank
    <3>1. Reliable(x) /\ Viewed(x)
      BY <2>3
    <3>2. PICK n \in x.from..(x.to - 1) : n = e.from + k
      BY <2>5
    <3>3. y = DrawLine(x, n)
      BY <2>4, <3>2
    <3>4. /\ Reliable(y) /\ Viewed(y) /\ Redrawn(x, y) /\ y.shown[n - x.from + 1] # Blank
      BY <3>1, <3>3, LineIsDrawn
    <3>5. n - x.from + 1 = k + 1
      BY <1>1, <2>5, <3>2
    <3> QED BY <3>4, <3>5
  <2>8. x.highlightFrontier \in Nat /\ y.highlightFrontier \in Nat
    BY <2>3, <2>6 DEF Reliable, Shaped, Editors
  <2>9. Redrawn(e, y)
    BY <1>1, <2>3, <2>6, <2>8 DEF Redrawn
  <2>10. \A i \in 1..(k + 1) : y.shown[i] # Blank
    <3>1. \A i \in 1..k : x.shown[i] # Blank /\ i \in 1..(x.to - x.from)
      BY <1>1, <2>3, <2>5
    <3>2. \A i \in 1..k : y.shown[i] # Blank
      BY <2>6, <3>1 DEF Redrawn
    <3> QED BY <2>6, <3>2
  <2> QED BY <2>2, <2>6, <2>9, <2>10
<1> HIDE DEF T
<1>6. e.to - e.from \in T
  BY <1>1, <1>4, <1>5, HasAll
<1>7. Good(drawn[e.to], e.to - e.from)
  <2>1. e.from + (e.to - e.from) = e.to
    BY <1>1
  <2> QED BY <1>1, <1>6, <2>1 DEF T
<1> QED BY <1>3, <1>7 DEF Redrawn

(* The parts of the editor that are numbers or sequences of them.            *)
LEMMA EditorIs ==
  ASSUME NEW e, Shaped(e)
  PROVE  /\ e \in Editors /\ e.lines \in Seq(LineType) /\ e.shown \in Seq(Spans)
         /\ Size(e) \in 1..MaxLines /\ e.top \in Nat /\ e.margin \in Nat
         /\ e.from \in Nat /\ e.to \in Nat
         /\ e.highlightFrontier \in 0..Size(e) /\ e.modeFrontier \in 0..Size(e)
         /\ Frontier(e) \in 0..Size(e)
         /\ e.timer \in BOOLEAN /\ e.skipped \in BOOLEAN
<1>1. MaxLines \in Nat /\ Margins \subseteq Nat
  BY ViewAssumption
<1>2. /\ e \in Editors /\ e.lines \in Seq(LineType) /\ e.shown \in Seq(Spans)
      /\ e.top \in Nat /\ e.margin \in Nat /\ e.from \in Nat /\ e.to \in Nat
      /\ e.highlightFrontier \in Nat /\ e.modeFrontier \in Nat
  BY <1>1 DEF Shaped, Editors
<1>3. e.timer \in BOOLEAN /\ e.skipped \in BOOLEAN
  BY DEF Shaped, Editors
<1>4. Size(e) \in 1..MaxLines /\ e.highlightFrontier <= Size(e) /\ e.modeFrontier <= Size(e)
  BY DEF Shaped
<1> QED BY <1>1, <1>2, <1>3, <1>4 DEF Frontier, Greater

\* The same document, highlighted as far.
AsReliable(e, s) ==
  /\ s \in Editors /\ s.lines = e.lines /\ s.margin = e.margin
  /\ s.highlightFrontier = e.highlightFrontier /\ s.modeFrontier = e.modeFrontier
  /\ (s.skipped <=> e.skipped)

(* What moves the view or the timer only leaves saved states and             *)
(* highlighting as they are.                                                 *)
LEMMA StaysReliable ==
  ASSUME NEW e, Reliable(e), NEW s, AsReliable(e, s)
  PROVE  Reliable(s)
BY DEF Reliable, AsReliable, Shaped, Size, Frontier, Highlighted

(* The worker is started.                                                    *)
LEMMA WorkerStarts ==
  ASSUME NEW e, e \in Editors, NEW s, s = StartWorker(e)
  PROVE  /\ AsReliable(e, s)
         /\ s.top = e.top /\ s.from = e.from /\ s.to = e.to /\ s.shown = e.shown
         /\ (s.timer <=> e.timer \/ e.highlightFrontier < e.to)
         /\ Due(s)
<1> DEFINE timer == e.timer \/ e.highlightFrontier < e.to
<1>1. timer \in BOOLEAN
  BY DEF Editors
<1>2. s = [e EXCEPT !.timer = timer]
  BY DEF StartWorker
<1>3. (s.timer <=> timer) /\ (s.skipped <=> e.skipped)
  <2> HIDE DEF timer
  <2> QED BY <1>2 DEF Editors
<1> HIDE DEF timer
<1>4. s \in Editors
  BY <1>1, <1>2 DEF Editors
<1>5. /\ s.lines = e.lines /\ s.margin = e.margin /\ s.top = e.top
      /\ s.from = e.from /\ s.to = e.to /\ s.shown = e.shown
      /\ s.highlightFrontier = e.highlightFrontier /\ s.modeFrontier = e.modeFrontier
  BY <1>2 DEF Editors
<1>6. AsReliable(e, s)
  BY <1>3, <1>4, <1>5 DEF AsReliable
<1>7. e.to \in Nat /\ e.highlightFrontier \in Nat
  BY DEF Editors
<1> QED BY <1>3, <1>5, <1>6, <1>7 DEF Due, timer

(* The view is moved.                                                        *)
LEMMA ViewIsAdjusted ==
  ASSUME NEW e, Reliable(e), Viewed(e), NEW from \in Nat, NEW to \in Nat,
         from <= to, to <= Size(e), NEW a, a = AdjustView(e, from, to)
  PROVE  /\ Reliable(a) /\ Viewed(a) /\ AsReliable(e, a)
         /\ a.top = e.top /\ a.from = from /\ a.to = to /\ (a.timer <=> e.timer)
<1> DEFINE shown == [i \in 1..(to - from) |->
              IF InView(e, from + i - 1) THEN e.shown[from + i - e.from] ELSE Blank]
<1>1. /\ e \in Editors /\ e.shown \in Seq(Spans) /\ Size(e) \in Nat
      /\ e.from \in Nat /\ e.to \in Nat
  BY EditorIs DEF Reliable
<1>2. e.from <= e.to /\ e.to <= Size(e) /\ Len(e.shown) = e.to - e.from
  BY DEF Viewed
<1>3. /\ DOMAIN e.shown = 1..(e.to - e.from)
      /\ \A i \in 1..(e.to - e.from) : e.shown[i] \in Spans
  BY <1>1, <1>2, SequenceIs
<1>4. Blank \in Spans
  BY DEF Blank, Spans, Known
<1>5. ASSUME NEW i \in 1..(to - from), InView(e, from + i - 1)
      PROVE  from + i - e.from \in 1..(e.to - e.from) /\ e.from + (from + i - e.from) = from + i
  BY <1>1, <1>2, <1>5 DEF InView
<1>6. \A i \in 1..(to - from) :
        /\ shown[i] = IF InView(e, from + i - 1) THEN e.shown[from + i - e.from] ELSE Blank
        /\ shown[i] \in Spans
  BY <1>3, <1>4, <1>5
<1>7. shown \in Seq(Spans) /\ Len(shown) = to - from
  <2>1. shown \in [1..(to - from) -> Spans]
    BY <1>6
  <2>2. to - from \in Nat
    OBVIOUS
  <2> HIDE DEF shown
  <2> QED BY <2>1, <2>2, IsSequence
<1>8. a = [e EXCEPT !.from = from, !.to = to, !.shown = shown]
  BY DEF AdjustView
<1> HIDE DEF shown
<1>9. /\ a \in Editors /\ a.lines = e.lines /\ a.margin = e.margin /\ a.top = e.top
      /\ a.highlightFrontier = e.highlightFrontier /\ a.modeFrontier = e.modeFrontier
      /\ a.from = from /\ a.to = to /\ a.shown = shown
  BY <1>1, <1>7, <1>8 DEF Editors
<1>10. (a.timer <=> e.timer) /\ (a.skipped <=> e.skipped)
  BY <1>1, <1>8 DEF Editors
<1>11. AsReliable(e, a)
  BY <1>9, <1>10 DEF AsReliable
<1>12. ASSUME NEW i \in 1..(to - from)
       PROVE  Drawing(a, i)
  <2>1. CASE InView(e, from + i - 1)
    <3>1. PICK j \in 1..(e.to - e.from) : j = from + i - e.from /\ e.from + j = from + i
      BY <1>5, <2>1
    <3>2. Drawing(e, j)
      BY DEF Viewed
    <3>3. a.shown[i] = e.shown[j]
      BY <1>6, <1>9, <2>1, <3>1
    <3> QED BY <1>9, <3>1, <3>2, <3>3 DEF Drawing
  <2>2. CASE ~InView(e, from + i - 1)
    BY <1>6, <1>9, <2>2 DEF Drawing
  <2> QED BY <2>1, <2>2
<1>13. Viewed(a)
  BY <1>7, <1>9, <1>12 DEF Viewed, Size
<1>14. Reliable(a)
  BY <1>11, StaysReliable
<1> QED BY <1>9, <1>10, <1>11, <1>13, <1>14

(* After an operation, whatever of it is drawn, the view is of the document. *)
LEMMA DisplayIsUpdated ==
  ASSUME NEW scrolled, EditorInv(scrolled), NEW d, d = UpdateDisplay(scrolled)
  PROVE  EditorInv(d) /\ Drawn(d)
<1> DEFINE top == Lesser(scrolled.top, Size(scrolled) - 1)
<1>1. PICK e : e = [scrolled EXCEPT !.top = top]
  OBVIOUS
<1>2. /\ scrolled \in Editors /\ Size(scrolled) \in 1..MaxLines /\ scrolled.top \in Nat
      /\ scrolled.from \in Nat
  BY EditorIs DEF EditorInv
<1>3. MaxLines \in Nat /\ Height \in Nat /\ Height > 0
  BY ViewAssumption
<1>4. top \in Nat /\ top < Size(scrolled) /\ top <= scrolled.top
  BY <1>2, <1>3 DEF Lesser
<1>5. /\ Reliable(e) /\ Viewed(e) /\ Due(e) /\ Size(e) = Size(scrolled) /\ e.top = top
      /\ e.margin >= MaxLines => ~e.skipped /\ (e.from = 0 \/ e.top < e.from)
  <2> HIDE DEF top
  <2>1. e \in Editors
    BY <1>1, <1>2, <1>4 DEF Editors
  <2>2. /\ e.lines = scrolled.lines /\ e.margin = scrolled.margin /\ e.from = scrolled.from
        /\ e.to = scrolled.to /\ e.shown = scrolled.shown /\ e.top = top
        /\ e.highlightFrontier = scrolled.highlightFrontier
        /\ e.modeFrontier = scrolled.modeFrontier
    BY <1>1, <1>2 DEF Editors
  <2>3. (e.timer <=> scrolled.timer) /\ (e.skipped <=> scrolled.skipped)
    BY <1>1, <1>2 DEF Editors
  <2>4. Reliable(e)
    BY <2>1, <2>2, <2>3, StaysReliable DEF AsReliable, EditorInv, Reliable
  <2>5. Viewed(e) /\ Due(e) /\ Size(e) = Size(scrolled)
    BY <2>2, <2>3 DEF EditorInv, Viewed, Drawing, Size, Due
  <2>6. e.margin >= MaxLines => ~e.skipped /\ (e.from = 0 \/ e.top < e.from)
    <3>1. SUFFICES ASSUME scrolled.margin >= MaxLines
          PROVE  ~e.skipped /\ (e.from = 0 \/ e.top < e.from)
      BY <2>2
    <3>2. ~scrolled.skipped /\ (scrolled.from = 0 \/ scrolled.top < scrolled.from)
      BY <3>1 DEF EditorInv, Unskipped
    <3> QED BY <1>2, <1>4, <2>2, <2>3, <3>2
  <2> QED BY <2>2, <2>4, <2>5, <2>6
<1> DEFINE
      last == Lesser(Size(e), e.top + Height)
      above == Greater(e.top - e.margin, 0)
      below == Lesser(Size(e), last + e.margin)
      from == IF e.from < above /\ above - e.from < Slack THEN e.from ELSE above
      to == IF e.to > below /\ e.to - below < Slack THEN Lesser(Size(e), e.to) ELSE below
      bails == /\ e.top >= e.from /\ last <= e.to
               /\ \A i \in DOMAIN e.shown : e.shown[i] # Blank
<1>6. PICK a : a = AdjustView(e, from, to)
  OBVIOUS
<1>7. PICK drawn : drawn = PatchDisplay(a)
  OBVIOUS
<1>8. d = IF bails THEN e
          ELSE IF from # e.from \/ to # e.to THEN StartWorker(drawn) ELSE drawn
  BY <1>1, <1>6, <1>7 DEF UpdateDisplay
<1>9. /\ e \in Editors /\ e.shown \in Seq(Spans) /\ Size(e) \in 1..MaxLines
      /\ e.top \in Nat /\ e.top < Size(e) /\ e.margin \in Nat /\ e.from \in Nat /\ e.to \in Nat
      /\ e.highlightFrontier \in Nat
  BY <1>4, <1>5, EditorIs DEF Reliable
<1>10. /\ e.from <= e.to /\ e.to <= Size(e) /\ Len(e.shown) = e.to - e.from
  BY <1>5 DEF Viewed
<1>11. /\ last \in Nat /\ above \in Nat /\ below \in Nat /\ last > e.top /\ last <= Size(e)
       /\ above <= e.top /\ last <= below /\ below <= Size(e)
       /\ e.margin >= MaxLines => above = 0
  <2>1. last \in Nat /\ last > e.top /\ last <= Size(e)
    BY <1>3, <1>9 DEF Lesser
  <2>2. above \in Nat /\ above <= e.top /\ (e.margin >= MaxLines => above = 0)
    BY <1>3, <1>9 DEF Greater
  <2> HIDE DEF last
  <2>3. below \in Nat /\ last <= below /\ below <= Size(e)
    BY <1>9, <2>1 DEF Lesser
  <2> QED BY <2>1, <2>2, <2>3
<1>12. /\ from \in Nat /\ to \in Nat /\ from <= e.top /\ last <= to /\ to <= Size(e)
       /\ from <= to /\ (e.margin >= MaxLines => from = 0)
  <2> HIDE DEF above, below, last
  <2> QED BY <1>9, <1>10, <1>11 DEF Lesser
<1> HIDE DEF above, below, from, to, top
<1>13. CASE bails
  <2>1. d = e
    BY <1>8, <1>13
  <2>2. \A i \in 1..(e.to - e.from) : e.shown[i] # Blank
    BY <1>9, <1>10, <1>13
  <2>3. Drawn(e)
    BY <1>9, <1>13, <2>2 DEF Drawn
  <2>4. Unskipped(e)
    BY <1>5 DEF Unskipped
  <2> QED BY <1>5, <2>1, <2>3, <2>4 DEF EditorInv, Reliable
<1>14. CASE ~bails
  <2>1. /\ Reliable(a) /\ Viewed(a) /\ AsReliable(e, a)
        /\ a.top = e.top /\ a.from = from /\ a.to = to /\ (a.timer <=> e.timer)
    BY <1>5, <1>6, <1>12, ViewIsAdjusted
  <2>2. /\ Reliable(drawn) /\ Viewed(drawn) /\ Redrawn(a, drawn)
        /\ \A i \in 1..(drawn.to - drawn.from) : drawn.shown[i] # Blank
    BY <1>7, <2>1, DisplayIsPatched
  <2>3. /\ drawn \in Editors /\ Size(drawn) = Size(e) /\ drawn.top = e.top
        /\ drawn.margin = e.margin /\ drawn.from = from /\ drawn.to = to
        /\ (drawn.timer <=> e.timer) /\ (drawn.skipped <=> e.skipped)
        /\ drawn.highlightFrontier >= e.highlightFrontier /\ drawn.highlightFrontier \in Nat
    BY <2>1, <2>2, EditorIs DEF Redrawn, AsReliable, Size, Reliable
  <2>4. Drawn(drawn)
    BY <1>9, <1>12, <2>2, <2>3 DEF Drawn
  <2>5. Unskipped(drawn)
    BY <1>5, <1>12, <2>3 DEF Unskipped
  <2>6. CASE from # e.from \/ to # e.to
    <3>1. d = StartWorker(drawn)
      BY <1>8, <1>14, <2>6
    <3>2. /\ AsReliable(drawn, d) /\ Due(d)
          /\ d.top = drawn.top /\ d.from = drawn.from /\ d.to = drawn.to
          /\ d.shown = drawn.shown
      BY <2>3, <3>1, WorkerStarts
    <3>3. Reliable(d)
      BY <2>2, <3>2, StaysReliable
    <3>4. Viewed(d) /\ Drawn(d) /\ Unskipped(d)
      BY <2>2, <2>4, <2>5, <3>2 DEF Viewed, Drawn, Unskipped, Drawing, AsReliable, Size
    <3> QED BY <3>2, <3>3, <3>4 DEF EditorInv, Reliable
  <2>7. CASE from = e.from /\ to = e.to
    <3>1. d = drawn
      BY <1>8, <1>14, <2>7
    <3>2. Due(drawn)
      BY <1>5, <1>9, <2>3, <2>7 DEF Due
    <3> QED BY <2>2, <2>4, <2>5, <3>1, <3>2 DEF EditorInv, Reliable
  <2> QED BY <2>6, <2>7
<1> QED BY <1>13, <1>14

-----------------------------------------------------------------------------
(* Edits *)

(* The frontiers go back to a change.                                        *)
LEMMA FrontierRetreats ==
  ASSUME NEW e, e \in Editors, NEW n \in Nat, NEW r, r = RetreatFrontier(e, n)
  PROVE  /\ r \in Editors /\ r.lines = e.lines /\ r.top = e.top /\ r.margin = e.margin
         /\ r.from = e.from /\ r.to = e.to /\ r.shown = e.shown
         /\ (r.timer <=> e.timer) /\ (r.skipped <=> e.skipped)
         /\ r.highlightFrontier <= n /\ r.highlightFrontier <= e.highlightFrontier
         /\ r.modeFrontier <= n /\ r.modeFrontier <= e.modeFrontier
<1> DEFINE kept == {i \in 1..(n - 1) : e.lines[i + 1].after # "none"}
           start == IF kept = {} THEN 0
                    ELSE 1 + CHOOSE i \in kept : \A j \in kept : j <= i
           high == IF e.highlightFrontier < n - Early THEN e.highlightFrontier
                   ELSE Lesser(e.highlightFrontier, start)
           mode == Lesser(e.modeFrontier, n)
<1>1. start \in 0..n
  <2>1. CASE kept = {}
    BY <2>1
  <2>2. CASE kept # {}
    <3>1. kept \subseteq 0..n
      OBVIOUS
    <3>2. \E i \in kept : \A j \in kept : j <= i
      <4> HIDE DEF kept
      <4> QED BY <2>2, <3>1, HasGreatest
    <3>3. PICK i : i = CHOOSE k \in kept : \A j \in kept : j <= k
      OBVIOUS
    <3>4. i \in kept
      <4> HIDE DEF kept
      <4> QED BY <3>2, <3>3
    <3>5. start = 1 + i
      BY <2>2, <3>3
    <3> QED BY <3>4, <3>5
  <2> QED BY <2>1, <2>2
<1>2. e.highlightFrontier \in Nat /\ e.modeFrontier \in Nat /\ Early \in Nat
  BY ViewAssumption DEF Editors
<1> HIDE DEF start
<1>3. /\ high \in Nat /\ high <= n /\ high <= e.highlightFrontier
      /\ mode \in Nat /\ mode <= n /\ mode <= e.modeFrontier
  BY <1>1, <1>2 DEF Lesser
<1>4. r = [e EXCEPT !.modeFrontier = mode, !.highlightFrontier = high]
  BY DEF RetreatFrontier, start
<1> HIDE DEF high, mode
<1>5. /\ r \in Editors /\ r.lines = e.lines /\ r.top = e.top /\ r.margin = e.margin
      /\ r.from = e.from /\ r.to = e.to /\ r.shown = e.shown
      /\ r.highlightFrontier = high /\ r.modeFrontier = mode
  BY <1>3, <1>4 DEF Editors
<1>6. (r.timer <=> e.timer) /\ (r.skipped <=> e.skipped)
  BY <1>4 DEF Editors
<1> QED BY <1>3, <1>5, <1>6

(* Between two operations an editor that draws every line views the first.   *)
LEMMA ViewIsWhole ==
  ASSUME ViewInv
  PROVE  /\ Reliable(ed) /\ Viewed(ed) /\ Due(ed)
         /\ ed.margin >= MaxLines => ~ed.skipped /\ ed.from = 0
         /\ ed.from <= ed.top /\ ed.top < Size(ed) /\ ed.top < ed.to
         /\ Lesser(Size(ed), ed.top + Height) <= ed.to
<1>1. ed.top \in Nat /\ ed.from \in Nat /\ ed.to \in Nat /\ Size(ed) \in Nat
  BY EditorIs DEF ViewInv, EditorInv
<1>2. /\ ed.from <= ed.top /\ ed.top < Size(ed)
      /\ Lesser(Size(ed), ed.top + Height) <= ed.to
  BY DEF ViewInv, Drawn
<1>3. ed.top < ed.to
  BY <1>1, <1>2, ViewAssumption DEF Lesser
<1>4. ed.margin >= MaxLines => ~ed.skipped /\ (ed.from = 0 \/ ed.top < ed.from)
  BY DEF ViewInv, EditorInv, Unskipped
<1> QED BY <1>1, <1>2, <1>3, <1>4 DEF ViewInv, EditorInv, Reliable

(* An edit leaves what is right above it, and starts the worker.             *)
LEMMA DocumentIsEdited ==
  ASSUME ViewInv, NEW lines \in Seq(LineType), Len(lines) \in 1..MaxLines,
         NEW n \in 0..Len(lines), n <= Size(ed), n < ed.to,
         \A i \in 1..n : lines[i] = ed.lines[i],
         NEW e, e = Edited(lines, n)
  PROVE  /\ Reliable(e) /\ e.lines = lines /\ e.top = ed.top /\ e.margin = ed.margin
         /\ e.from = ed.from /\ e.to = ed.to /\ e.shown = ed.shown
         /\ e.timer /\ (e.skipped <=> ed.skipped)
         /\ e.highlightFrontier <= n /\ e.modeFrontier <= n
<1>1. PICK d : d = [ed EXCEPT !.lines = lines]
  OBVIOUS
<1>2. PICK r : r = RetreatFrontier(d, n)
  OBVIOUS
<1>3. e = StartWorker(r)
  BY <1>1, <1>2 DEF Edited
<1>4. /\ ed \in Editors /\ Size(ed) \in Nat /\ ed.to \in Nat
      /\ ed.highlightFrontier \in 0..Size(ed) /\ ed.modeFrontier \in 0..Size(ed)
      /\ SavedAbove(ed.lines, Frontier(ed)) /\ Highlighted(ed)
  BY EditorIs DEF ViewInv, EditorInv
<1>5. /\ d \in Editors /\ d.lines = lines /\ d.top = ed.top /\ d.margin = ed.margin
      /\ d.from = ed.from /\ d.to = ed.to /\ d.shown = ed.shown
      /\ d.highlightFrontier = ed.highlightFrontier /\ d.modeFrontier = ed.modeFrontier
  BY <1>1, <1>4 DEF Editors
<1>6. (d.timer <=> ed.timer) /\ (d.skipped <=> ed.skipped)
  BY <1>1, <1>4 DEF Editors
<1>7. n \in Nat /\ Len(lines) \in Nat
  OBVIOUS
<1>8. /\ r \in Editors /\ r.lines = lines /\ r.top = ed.top /\ r.margin = ed.margin
      /\ r.from = ed.from /\ r.to = ed.to /\ r.shown = ed.shown
      /\ (r.skipped <=> ed.skipped)
      /\ r.highlightFrontier <= n /\ r.highlightFrontier <= ed.highlightFrontier
      /\ r.modeFrontier <= n /\ r.modeFrontier <= ed.modeFrontier
  <2>1. /\ r \in Editors /\ r.lines = d.lines /\ r.top = d.top /\ r.margin = d.margin
        /\ r.from = d.from /\ r.to = d.to /\ r.shown = d.shown
        /\ (r.skipped <=> d.skipped)
        /\ r.highlightFrontier <= n /\ r.highlightFrontier <= d.highlightFrontier
        /\ r.modeFrontier <= n /\ r.modeFrontier <= d.modeFrontier
    <3>1. d \in Editors
      BY <1>5
    <3> QED BY <1>2, <1>7, <3>1, FrontierRetreats
  <2> QED BY <1>5, <1>6, <2>1
<1>9. r.highlightFrontier \in Nat /\ r.modeFrontier \in Nat
  BY <1>8 DEF Editors
<1>10. \A i \in 0..n : TrueBefore(lines, i) = TrueBefore(ed.lines, i)
  <2>1. n \in Nat /\ \A i \in 1..n : lines[i].text = ed.lines[i].text
    OBVIOUS
  <2> QED BY <2>1, TrueSame
<1>11. Frontier(r) \in 0..n /\ Frontier(r) <= Frontier(ed)
  BY <1>4, <1>8, <1>9 DEF Frontier, Greater
<1>12. SavedAbove(lines, Frontier(r))
  <2> SUFFICES ASSUME NEW i \in 1..Frontier(r)
      PROVE  /\ lines[i].after \in {"none", TrueBefore(lines, i)}
             /\ (i - 1) % SaveEvery = 0 => lines[i].after # "none"
    BY DEF SavedAbove
  <2>1. i \in 1..n /\ i \in 0..n /\ i \in 1..Frontier(ed)
    BY <1>4, <1>11, EditorIs DEF ViewInv, EditorInv
  <2> QED BY <1>4, <1>10, <2>1 DEF SavedAbove
<1>13. Highlighted(r)
  <2> SUFFICES ASSUME ~ed.skipped, NEW i \in 1..r.highlightFrontier
      PROVE  lines[i].styles \in {"none", TrueBefore(lines, i - 1)}
    BY <1>8 DEF Highlighted, StylesAbove
  <2>1. i \in 1..n /\ i - 1 \in 0..n /\ i \in 1..ed.highlightFrontier
    BY <1>4, <1>8, <1>9
  <2> QED BY <1>4, <1>10, <2>1 DEF Highlighted, StylesAbove
<1>14. Shaped(r)
  BY <1>7, <1>8, <1>9 DEF Shaped, Size
<1>15. Reliable(r)
  BY <1>8, <1>12, <1>13, <1>14 DEF Reliable
<1>16. /\ AsReliable(r, e) /\ e.top = r.top /\ e.from = r.from /\ e.to = r.to
       /\ e.shown = r.shown /\ (e.timer <=> r.timer \/ r.highlightFrontier < r.to)
  BY <1>3, <1>8, WorkerStarts
<1>17. e.timer
  BY <1>4, <1>7, <1>8, <1>9, <1>16
<1>18. Reliable(e)
  BY <1>15, <1>16, StaysReliable
<1> QED BY <1>8, <1>16, <1>17, <1>18 DEF AsReliable

(* Part of a sequence.                                                       *)
LEMMA PartIs ==
  ASSUME NEW S, NEW s \in Seq(S), NEW a \in 1..(Len(s) + 1), NEW b \in (a - 1)..Len(s),
         NEW t, t = SubSeq(s, a, b)
  PROVE  /\ t \in Seq(S) /\ Len(t) = b - a + 1
         /\ \A i \in 1..(b - a + 1) : t[i] = s[a + i - 1]
<1>1. t = [i \in 1..(b - a + 1) |-> s[a + i - 1]]
  OBVIOUS
<1>2. Len(s) \in Nat /\ \A i \in 1..Len(s) : s[i] \in S
  BY SequenceIs
<1>3. b - a + 1 \in Nat /\ \A i \in 1..(b - a + 1) : a + i - 1 \in 1..Len(s)
  BY <1>2
<1>4. t \in [1..(b - a + 1) -> S]
  BY <1>1, <1>2, <1>3
<1> QED BY <1>1, <1>3, <1>4, IsSequence

(* Sequences joined.                                                         *)
LEMMA JoinedIs ==
  ASSUME NEW S, NEW s \in Seq(S), NEW t \in Seq(S), NEW u, u = s \o t
  PROVE  /\ u \in Seq(S) /\ Len(u) = Len(s) + Len(t)
         /\ \A i \in 1..Len(s) : u[i] = s[i]
         /\ \A i \in 1..Len(t) : u[Len(s) + i] = t[i]
<1>1. Len(s) \in Nat /\ Len(t) \in Nat
  OBVIOUS
<1>2. \A i \in 1..Len(t) : Len(s) + i \in 1..(Len(s) + Len(t)) /\ Len(s) + i > Len(s)
  BY <1>1
<1> QED BY <1>1, <1>2

(* A sequence into which an element has been inserted.                       *)
LEMMA InsertedIs ==
  ASSUME NEW S, NEW s \in Seq(S), NEW k \in 1..(Len(s) + 1), NEW x \in S,
         NEW t, t = InsertAt(s, k, x)
  PROVE  /\ t \in Seq(S) /\ Len(t) = Len(s) + 1
         /\ \A i \in 1..Len(s) : t[IF i < k THEN i ELSE i + 1] = s[i]
<1>0. Len(s) \in Nat /\ k \in Nat
  OBVIOUS
<1>1. PICK a : a = SubSeq(s, 1, k - 1)
  OBVIOUS
<1>2. PICK m : m = <<x>>
  OBVIOUS
<1>3. PICK b : b = SubSeq(s, k, Len(s))
  OBVIOUS
<1>4. PICK c : c = a \o m
  OBVIOUS
<1>5. t = c \o b
  BY <1>1, <1>2, <1>3, <1>4 DEF InsertAt
<1>6. a \in Seq(S) /\ Len(a) = k - 1 /\ \A i \in 1..(k - 1) : a[i] = s[i]
  <2>1. PICK one \in 1..(Len(s) + 1) : one = 1
    BY <1>0
  <2>2. PICK j \in (one - 1)..Len(s) : j = k - 1
    BY <1>0, <2>1
  <2>3. /\ a \in Seq(S) /\ Len(a) = j - one + 1
        /\ \A i \in 1..(j - one + 1) : a[i] = s[one + i - 1]
    BY <1>1, <2>1, <2>2, PartIs
  <2>4. j - one + 1 = k - 1 /\ \A i \in Int : one + i - 1 = i
    BY <1>0, <2>1, <2>2
  <2>5. \A i \in 1..(k - 1) : i \in Int
    OBVIOUS
  <2> QED BY <2>3, <2>4, <2>5
<1>7. m \in Seq(S) /\ Len(m) = 1
  BY <1>2
<1>8. /\ b \in Seq(S) /\ Len(b) = Len(s) - k + 1
      /\ \A i \in 1..(Len(s) - k + 1) : b[i] = s[k + i - 1]
  <2>1. PICK j \in (k - 1)..Len(s) : j = Len(s)
    BY <1>0
  <2> QED BY <1>3, <2>1, PartIs
<1>9. /\ c \in Seq(S) /\ Len(c) = Len(a) + Len(m) /\ \A i \in 1..Len(a) : c[i] = a[i]
  <2>1. a \in Seq(S) /\ m \in Seq(S)
    BY <1>6, <1>7
  <2> QED BY <1>4, <2>1, JoinedIs
<1>10. /\ t \in Seq(S) /\ Len(t) = Len(c) + Len(b)
       /\ \A i \in 1..Len(c) : t[i] = c[i]
       /\ \A i \in 1..Len(b) : t[Len(c) + i] = b[i]
  <2>1. c \in Seq(S) /\ b \in Seq(S)
    BY <1>8, <1>9
  <2> QED BY <1>5, <2>1, JoinedIs
<1>11. Len(c) = k /\ Len(t) = Len(s) + 1
  BY <1>0, <1>6, <1>7, <1>8, <1>9, <1>10
<1>12. ASSUME NEW i \in 1..Len(s)
       PROVE  t[IF i < k THEN i ELSE i + 1] = s[i]
  <2>1. CASE i < k
    <3>1. i \in 1..(k - 1) /\ i \in 1..k
      BY <1>0, <2>1
    <3> QED BY <1>6, <1>9, <1>10, <1>11, <2>1, <3>1
  <2>2. CASE ~(i < k)
    <3>1. PICK j \in 1..(Len(s) - k + 1) : k + j - 1 = i /\ k + j = i + 1
      <4>1. /\ i - k + 1 \in 1..(Len(s) - k + 1) /\ k + (i - k + 1) - 1 = i
            /\ k + (i - k + 1) = i + 1
        BY <1>0, <2>2
      <4> QED BY <4>1
    <3>2. b[j] = s[i] /\ j \in 1..Len(b)
      BY <1>8, <3>1
    <3>3. t[k + j] = b[j]
      BY <1>10, <1>11, <3>2
    <3> QED BY <2>2, <3>1, <3>2, <3>3
  <2> QED BY <2>1, <2>2
<1> QED BY <1>10, <1>11, <1>12

(* And one from which one has been removed.                                  *)
LEMMA RemovedIs ==
  ASSUME NEW S, NEW s \in Seq(S), NEW k \in 1..Len(s), NEW t, t = RemoveAt(s, k)
  PROVE  /\ t \in Seq(S) /\ Len(t) = Len(s) - 1
         /\ \A i \in 1..(k - 1) : t[i] = s[i]
         /\ \A i \in (k + 1)..Len(s) : t[i - 1] = s[i]
<1>0. Len(s) \in Nat /\ k \in Nat
  OBVIOUS
<1>1. PICK a : a = SubSeq(s, 1, k - 1)
  OBVIOUS
<1>2. PICK b : b = SubSeq(s, k + 1, Len(s))
  OBVIOUS
<1>3. t = a \o b
  BY <1>1, <1>2 DEF RemoveAt
<1>4. a \in Seq(S) /\ Len(a) = k - 1 /\ \A i \in 1..(k - 1) : a[i] = s[i]
  <2>1. PICK one \in 1..(Len(s) + 1) : one = 1
    BY <1>0
  <2>2. PICK j \in (one - 1)..Len(s) : j = k - 1
    BY <1>0, <2>1
  <2>3. /\ a \in Seq(S) /\ Len(a) = j - one + 1
        /\ \A i \in 1..(j - one + 1) : a[i] = s[one + i - 1]
    BY <1>1, <2>1, <2>2, PartIs
  <2>4. j - one + 1 = k - 1 /\ \A i \in Int : one + i - 1 = i
    BY <1>0, <2>1, <2>2
  <2>5. \A i \in 1..(k - 1) : i \in Int
    OBVIOUS
  <2> QED BY <2>3, <2>4, <2>5
<1>5. /\ b \in Seq(S) /\ Len(b) = Len(s) - k
      /\ \A i \in 1..(Len(s) - k) : b[i] = s[k + i]
  <2>1. PICK p \in 1..(Len(s) + 1) : p = k + 1
    BY <1>0
  <2>2. PICK q \in (p - 1)..Len(s) : q = Len(s)
    BY <1>0, <2>1
  <2>3. /\ b \in Seq(S) /\ Len(b) = q - p + 1
        /\ \A i \in 1..(q - p + 1) : b[i] = s[p + i - 1]
    BY <1>2, <2>1, <2>2, PartIs
  <2>4. q - p + 1 = Len(s) - k /\ \A i \in Int : p + i - 1 = k + i
    BY <1>0, <2>1, <2>2
  <2>5. \A i \in 1..(Len(s) - k) : i \in Int
    OBVIOUS
  <2> QED BY <2>3, <2>4, <2>5
<1>6. /\ t \in Seq(S) /\ Len(t) = Len(a) + Len(b)
      /\ \A i \in 1..Len(a) : t[i] = a[i]
      /\ \A i \in 1..Len(b) : t[Len(a) + i] = b[i]
  <2>1. a \in Seq(S) /\ b \in Seq(S)
    BY <1>4, <1>5
  <2> QED BY <1>3, <2>1, JoinedIs
<1>7. Len(t) = Len(s) - 1
  BY <1>0, <1>4, <1>5, <1>6
<1>8. ASSUME NEW i \in (k + 1)..Len(s)
      PROVE  t[i - 1] = s[i]
  <2>1. PICK j \in 1..(Len(s) - k) : k + j = i /\ (k - 1) + j = i - 1
    <3>1. i - k \in 1..(Len(s) - k) /\ k + (i - k) = i /\ (k - 1) + (i - k) = i - 1
      BY <1>0
    <3> QED BY <3>1
  <2> QED BY <1>4, <1>5, <1>6, <2>1
<1> QED BY <1>4, <1>6, <1>7, <1>8

\* The view of a document.
Shows(lines, from, shown, i) ==
  \/ shown[i] = Blank
  \/ /\ shown[i] = [text |-> lines[from + i].text, styles |-> lines[from + i].styles]
     /\ lines[from + i].styles # "none"

(* What a line of an editor's view shows, for its parts.                     *)
LEMMA DrawingIs ==
  ASSUME NEW e, NEW i
  PROVE  Drawing(e, i) <=> Shows(e.lines, e.from, e.shown, i)
BY DEF Drawing, Shows

\* A view of part of a document.
ViewOf(lines, from, to, shown) ==
  /\ from <= to /\ to <= Len(lines) /\ Len(shown) = to - from
  /\ \A i \in 1..(to - from) : Shows(lines, from, shown, i)

(* What an editor's view shows, for its parts.                               *)
LEMMA ViewedIs ==
  ASSUME NEW e
  PROVE  Viewed(e) <=> ViewOf(e.lines, e.from, e.to, e.shown)
BY DrawingIs DEF Viewed, ViewOf, Size

\* Of the lines of a document those from..to - 1 have become more more.
Moved(before, lines, from, to, more) ==
  /\ Len(lines) = Len(before) + more
  /\ \A i \in 1..from : lines[i] = before[i]
  /\ \A i \in (to + 1)..Len(before) : lines[i + more] = before[i]

(* What a view shows above a change.                                         *)
LEMMA AboveIsShown ==
  ASSUME NEW before, NEW lines, NEW first \in Nat, NEW end \in Nat, NEW shown \in Seq(Spans),
         ViewOf(before, first, end, shown), NEW from \in Nat, first <= from, from <= end,
         \A i \in 1..from : lines[i] = before[i], from <= Len(lines),
         NEW above, above = SubSeq(shown, 1, from - first)
  PROVE  above \in Seq(Spans) /\ ViewOf(lines, first, from, above)
<1>1. Len(shown) = end - first
  BY DEF ViewOf
<1>2. PICK k \in Nat : k = from - first
  OBVIOUS
<1>3. PICK one \in 1..(Len(shown) + 1) : one = 1 /\ k \in (one - 1)..Len(shown)
  BY <1>1, <1>2
<1>4. /\ above \in Seq(Spans) /\ Len(above) = k - one + 1
      /\ \A i \in 1..(k - one + 1) : above[i] = shown[one + i - 1]
  BY <1>2, <1>3, PartIs
<1>5. k - one + 1 = k /\ \A i \in 1..k : one + i - 1 = i
  BY <1>3
<1>6. Len(above) = k /\ \A i \in 1..k : above[i] = shown[i]
  BY <1>4, <1>5
<1>7. ASSUME NEW i \in 1..k
      PROVE  Shows(lines, first, above, i)
  <2>1. i \in 1..(end - first) /\ first + i \in 1..from
    BY <1>2
  <2>2. Shows(before, first, shown, i) /\ lines[first + i] = before[first + i]
    BY <2>1 DEF ViewOf
  <2> QED BY <1>6, <2>2 DEF Shows
<1> QED BY <1>2, <1>4, <1>6, <1>7 DEF ViewOf

(* And below.                                                                *)
LEMMA BelowIsShown ==
  ASSUME NEW before, Len(before) \in Nat, NEW lines,
         NEW first \in Nat, NEW end \in Nat, NEW shown \in Seq(Spans),
         ViewOf(before, first, end, shown), NEW from \in Nat, NEW to \in Nat, NEW more \in Int,
         first <= to, to <= end, Moved(before, lines, from, to, more),
         NEW below, below = SubSeq(shown, to - first + 1, Len(shown))
  PROVE  below \in Seq(Spans) /\ ViewOf(lines, to + more, end + more, below)
<1>1. Len(shown) = end - first /\ end <= Len(before)
  BY DEF ViewOf
<1>2. PICK k \in Nat : k = end - to
  OBVIOUS
<1>3. PICK a \in 1..(Len(shown) + 1) : a = to - first + 1
  BY <1>1
<1>4. PICK b \in (a - 1)..Len(shown) : b = Len(shown)
  BY <1>1, <1>3
<1>5. /\ below \in Seq(Spans) /\ Len(below) = b - a + 1
      /\ \A i \in 1..(b - a + 1) : below[i] = shown[a + i - 1]
  <2>1. PICK t : t = SubSeq(shown, a, b)
    OBVIOUS
  <2>2. /\ t \in Seq(Spans) /\ Len(t) = b - a + 1
        /\ \A i \in 1..(b - a + 1) : t[i] = shown[a + i - 1]
    BY <2>1, PartIs
  <2>3. below = t
    BY <1>3, <1>4, <2>1
  <2> QED BY <2>2, <2>3
<1>6. b - a + 1 = k /\ \A i \in 1..k : a + i - 1 = to - first + i
  BY <1>1, <1>2, <1>3, <1>4
<1>7. Len(below) = k /\ \A i \in 1..k : below[i] = shown[to - first + i]
  BY <1>5, <1>6
<1>8. ASSUME NEW i \in 1..k
      PROVE  Shows(lines, to + more, below, i)
  <2>1. PICK j \in 1..(end - first) : j = to - first + i /\ first + j = to + i
    <3>1. /\ to - first + i \in 1..(end - first) /\ first + (to - first + i) = to + i
      BY <1>2
    <3> QED BY <3>1
  <2>2. PICK n \in (to + 1)..Len(before) : n = to + i /\ n + more = to + more + i
    <3>1. to + i \in (to + 1)..Len(before) /\ (to + i) + more = to + more + i
      BY <1>1, <1>2
    <3> QED BY <3>1
  <2>3. Shows(before, first, shown, j)
    BY DEF ViewOf
  <2>4. lines[n + more] = before[n]
    BY DEF Moved
  <2>5. below[i] = shown[j] /\ before[first + j] = lines[to + more + i]
    BY <1>7, <2>1, <2>2, <2>4
  <2> QED BY <2>3, <2>5 DEF Shows
<1>9. /\ to + more <= end + more /\ end + more <= Len(lines)
      /\ (end + more) - (to + more) = k
  <2>1. Len(lines) = Len(before) + more
    BY DEF Moved
  <2> QED BY <1>1, <1>2, <2>1
<1> QED BY <1>5, <1>7, <1>8, <1>9 DEF ViewOf

(* Views of lines that follow each other.                                    *)
LEMMA JoinedViews ==
  ASSUME NEW lines, NEW a \in Nat, NEW b \in Nat, NEW c \in Nat, NEW s, NEW t,
         s \in Seq(Spans), t \in Seq(Spans),
         ViewOf(lines, a, b, s), ViewOf(lines, b, c, t), NEW u, u = s \o t
  PROVE  u \in Seq(Spans) /\ ViewOf(lines, a, c, u)
<1>1. /\ Len(s) = b - a /\ Len(t) = c - b /\ a <= b /\ b <= c /\ c <= Len(lines)
      /\ \A i \in 1..(b - a) : Shows(lines, a, s, i)
      /\ \A i \in 1..(c - b) : Shows(lines, b, t, i)
  BY DEF ViewOf
<1>2. /\ u \in Seq(Spans) /\ Len(u) = Len(s) + Len(t)
      /\ \A i \in 1..Len(s) : u[i] = s[i]
      /\ \A i \in 1..Len(t) : u[Len(s) + i] = t[i]
  BY JoinedIs
<1>3. ASSUME NEW i \in 1..(c - a)
      PROVE  Shows(lines, a, u, i)
  <2>1. CASE i <= b - a
    <3>1. i \in 1..(b - a)
      BY <2>1
    <3>2. u[i] = s[i]
      BY <1>1, <1>2, <3>1
    <3> QED BY <1>1, <3>1, <3>2 DEF Shows
  <2>2. CASE i > b - a
    <3>1. PICK j \in 1..(c - b) : i = (b - a) + j /\ a + i = b + j
      <4>1. i - (b - a) \in 1..(c - b) /\ i = (b - a) + (i - (b - a)) /\ a + i = b + (i - (b - a))
        BY <2>2
      <4> QED BY <4>1
    <3>2. u[i] = t[j]
      BY <1>1, <1>2, <3>1
    <3> QED BY <1>1, <3>1, <3>2 DEF Shows
  <2> QED BY <2>1, <2>2
<1>4. Len(u) = c - a /\ a <= c
  BY <1>1, <1>2
<1> QED BY <1>1, <1>2, <1>3, <1>4 DEF ViewOf

(* Lines that are not drawn.                                                 *)
LEMMA BlanksShow ==
  ASSUME NEW lines, NEW a \in Nat, NEW b \in Nat, a <= b, b <= Len(lines),
         NEW k, k = b - a, NEW s, s = Blanks(k)
  PROVE  s \in Seq(Spans) /\ ViewOf(lines, a, b, s)
<1>1. Blank \in Spans /\ k \in Nat
  BY DEF Blank, Spans, Known
<1>2. s \in [1..k -> Spans] /\ \A i \in 1..k : s[i] = Blank
  BY <1>1 DEF Blanks
<1>3. s \in Seq(Spans) /\ Len(s) = k
  BY <1>1, <1>2, IsSequence
<1> QED BY <1>2, <1>3 DEF ViewOf, Shows

(* A change of lines in the view leaves in it what has not changed, where it *)
(* now is.                                                                   *)
LEMMA ChangeIsShown ==
  ASSUME NEW e, e \in Editors, NEW before, Len(before) \in Nat,
         ViewOf(before, e.from, e.to, e.shown),
         NEW from \in Nat, NEW to \in Nat, NEW more \in Int,
         e.from <= from, from < to, to <= e.to, from < to + more,
         Moved(before, e.lines, from, to, more),
         NEW r, r = RegChange(e, from, to, more)
  PROVE  /\ Viewed(r) /\ AsReliable(e, r) /\ r.top = e.top /\ (r.timer <=> e.timer)
         /\ r.from = e.from \/ r.from = 0 \/ (from = e.from /\ r.from = to + more)
<1>1. e.from \in Nat /\ e.to \in Nat /\ e.shown \in Seq(Spans)
  BY DEF Editors
<1>2. PICK first \in Nat : first = e.from
  BY <1>1
<1>3. PICK end \in Nat : end = e.to
  BY <1>1
<1>4. ViewOf(before, first, end, e.shown) /\ end <= Len(before)
  BY <1>2, <1>3 DEF ViewOf
<1>5. Len(e.lines) = Len(before) + more /\ \A i \in 1..from : e.lines[i] = before[i]
  BY DEF Moved
<1>6. ASSUME NEW start \in Nat, NEW stop \in Nat, NEW shown, shown \in Seq(Spans),
             r = [e EXCEPT !.from = start, !.to = stop, !.shown = shown],
             ViewOf(e.lines, start, stop, shown),
             start = e.from \/ start = 0 \/ (from = e.from /\ start = to + more)
      PROVE  /\ Viewed(r) /\ AsReliable(e, r) /\ r.top = e.top /\ (r.timer <=> e.timer)
             /\ r.from = e.from \/ r.from = 0 \/ (from = e.from /\ r.from = to + more)
  <2>1. /\ r \in Editors /\ r.lines = e.lines /\ r.margin = e.margin /\ r.top = e.top
        /\ r.highlightFrontier = e.highlightFrontier /\ r.modeFrontier = e.modeFrontier
        /\ r.from = start /\ r.to = stop /\ r.shown = shown
    BY <1>6 DEF Editors
  <2>2. (r.timer <=> e.timer) /\ (r.skipped <=> e.skipped)
    BY <1>6 DEF Editors
  <2>3. Viewed(r)
    BY <1>6, <2>1, ViewedIs
  <2>4. AsReliable(e, r)
    BY <2>1, <2>2 DEF AsReliable
  <2> QED BY <1>6, <2>1, <2>2, <2>3, <2>4
<1>7. PICK above : above = SubSeq(e.shown, 1, from - first)
  OBVIOUS
<1>8. PICK below : below = SubSeq(e.shown, to - first + 1, Len(e.shown))
  OBVIOUS
<1>9. first <= from /\ from <= end /\ first <= to /\ to <= end /\ from <= Len(e.lines)
  BY <1>2, <1>3, <1>4, <1>5
<1>10. above \in Seq(Spans) /\ ViewOf(e.lines, first, from, above)
  BY <1>1, <1>4, <1>5, <1>7, <1>9, AboveIsShown
<1>11. below \in Seq(Spans) /\ ViewOf(e.lines, to + more, end + more, below)
  BY <1>1, <1>4, <1>8, <1>9, BelowIsShown
<1>12. to + more \in Nat /\ end + more \in Nat /\ to + more <= Len(e.lines)
  BY <1>4, <1>5, <1>9
<1>13. CASE from = e.from /\ to >= e.to
  <2>1. r = [e EXCEPT !.from = 0, !.to = 0, !.shown = <<>>]
    BY <1>1, <1>13 DEF RegChange, ResetView
  <2>2. <<>> \in Seq(Spans) /\ Len(<<>>) = 0 /\ Len(e.lines) \in Nat
    BY <1>4, <1>5, <1>9
  <2>3. ViewOf(e.lines, 0, 0, <<>>)
    BY <2>2 DEF ViewOf
  <2> QED BY <1>6, <2>1, <2>2, <2>3
<1>14. CASE from = e.from /\ to < e.to
  <2>1. r = [e EXCEPT !.shown = below, !.from = to + more, !.to = @ + more]
    BY <1>1, <1>2, <1>8, <1>14 DEF RegChange
  <2>2. r = [e EXCEPT !.from = to + more, !.to = end + more, !.shown = below]
    BY <1>3, <2>1 DEF Editors
  <2> QED BY <1>6, <1>11, <1>12, <1>14, <2>2
<1>15. CASE from > e.from /\ to >= e.to
  <2>1. r = [e EXCEPT !.shown = above, !.to = from]
    BY <1>1, <1>2, <1>7, <1>15 DEF RegChange
  <2>2. r = [e EXCEPT !.from = first, !.to = from, !.shown = above]
    BY <1>2, <2>1 DEF Editors
  <2> QED BY <1>2, <1>6, <1>10, <2>2
<1>16. CASE from > e.from /\ to < e.to
  <2>1. PICK k : k = to + more - from
    OBVIOUS
  <2>2. PICK blanks : blanks = Blanks(k)
    OBVIOUS
  <2>3. PICK joined : joined = above \o blanks
    OBVIOUS
  <2>4. PICK shown : shown = joined \o below
    OBVIOUS
  <2>5. r = [e EXCEPT !.shown = shown, !.to = @ + more]
    BY <1>1, <1>2, <1>7, <1>8, <1>16, <2>1, <2>2, <2>3, <2>4 DEF RegChange
  <2>6. r = [e EXCEPT !.from = first, !.to = end + more, !.shown = shown]
    BY <1>2, <1>3, <2>5 DEF Editors
  <2>7. PICK m \in Nat : m = to + more
    BY <1>12
  <2>8. PICK n \in Nat : n = end + more
    BY <1>12
  <2>9. blanks \in Seq(Spans) /\ ViewOf(e.lines, from, m, blanks)
    <3>1. k = m - from /\ from <= m /\ m <= Len(e.lines)
      BY <1>12, <2>1, <2>7
    <3> QED BY <2>2, <3>1, BlanksShow
  <2>10. joined \in Seq(Spans) /\ ViewOf(e.lines, first, m, joined)
    BY <1>10, <2>3, <2>9, JoinedViews
  <2>11. shown \in Seq(Spans) /\ ViewOf(e.lines, first, n, shown)
    BY <1>11, <2>4, <2>7, <2>8, <2>10, JoinedViews
  <2> QED BY <1>2, <1>6, <2>6, <2>8, <2>11
<1> QED BY <1>1, <1>13, <1>14, <1>15, <1>16

-----------------------------------------------------------------------------
(* Operations *)

(* A visible line is in the view.                                            *)
LEMMA SeenIs ==
  ASSUME ViewInv, NEW n \in Seen
  PROVE  /\ n \in Nat /\ n + 1 \in 1..Size(ed) /\ n < ed.to /\ ed.from <= n /\ ed.top <= n
         /\ Size(ed) \in 1..MaxLines /\ ed.lines \in Seq(LineType)
         /\ DOMAIN ed.lines = 1..Size(ed) /\ \A i \in 1..Size(ed) : ed.lines[i] \in LineType
<1>1. /\ ed.lines \in Seq(LineType) /\ Size(ed) \in 1..MaxLines /\ ed.top \in Nat
      /\ ed.from \in Nat /\ ed.to \in Nat
  BY EditorIs DEF ViewInv, EditorInv
<1>2. ed.from <= ed.top /\ Lesser(Size(ed), ed.top + Height) <= ed.to
  BY ViewIsWhole
<1>3. Height \in Nat
  BY ViewAssumption
<1>4. n \in ed.top..(Lesser(Size(ed), ed.top + Height) - 1)
  BY DEF Seen
<1>5. /\ n \in Nat /\ n + 1 \in 1..Size(ed) /\ n < ed.to /\ ed.from <= n /\ ed.top <= n
  BY <1>1, <1>2, <1>3, <1>4 DEF Lesser
<1> QED BY <1>1, <1>5, SequenceIs DEF Size

(* A line has been typed in.                                                 *)
LEMMA LineIsEdited ==
  ASSUME ViewInv, NEW n \in Seen, NEW text \in Texts \union {"plain"},
         NEW lines, lines = ReplaceAt(ed.lines, n + 1, Line(text))
  PROVE  /\ lines \in Seq(LineType) /\ Len(lines) = Size(ed)
         /\ \A i \in 1..Size(ed) : i # n + 1 => lines[i] = ed.lines[i]
<1>1. Line(text) \in LineType
  BY DEF Line, LineType, Known
<1>2. n + 1 \in 1..Size(ed) /\ Size(ed) \in Nat
  BY SeenIs
<1>3. DOMAIN ed.lines = 1..Size(ed) /\ \A i \in 1..Size(ed) : ed.lines[i] \in LineType
  BY SeenIs
<1>4. /\ lines \in [1..Size(ed) -> LineType]
      /\ \A i \in 1..Size(ed) : i # n + 1 => lines[i] = ed.lines[i]
  BY <1>1, <1>2, <1>3 DEF ReplaceAt
<1> QED BY <1>2, <1>4, IsSequence

(* Typing in a visible line (a change within one line, told to the view by   *)
(* regLineChange) leaves the editor right.                                   *)
LEMMA EditLineInv ==
  ASSUME ViewInv, EditLine
  PROVE  ViewInv'
<1>1. PICK n \in Seen, text \in Texts :
        ed' = UpdateDisplay(RegLineChange(
                Edited([ed.lines EXCEPT ![n + 1] = Line(text)], n), n))
  BY DEF EditLine
<1>2. PICK lines : lines = [ed.lines EXCEPT ![n + 1] = Line(text)]
  OBVIOUS
<1>3. PICK e : e = Edited(lines, n)
  OBVIOUS
<1>4. PICK r : r = RegLineChange(e, n)
  OBVIOUS
<1>5. ed' = UpdateDisplay(r)
  BY <1>1, <1>2, <1>3, <1>4
<1>6. /\ n \in Nat /\ n + 1 \in 1..Size(ed) /\ n < ed.to /\ ed.from <= n
      /\ Size(ed) \in 1..MaxLines
  BY SeenIs
<1>7. /\ lines \in Seq(LineType) /\ Len(lines) = Size(ed)
      /\ \A i \in 1..Size(ed) : i # n + 1 => lines[i] = ed.lines[i]
  <2>1. PICK word \in Texts \union {"plain"} : word = text
    OBVIOUS
  <2>2. lines = ReplaceAt(ed.lines, n + 1, Line(word))
    BY <1>2, <2>1 DEF ReplaceAt
  <2> QED BY <2>2, LineIsEdited
<1>8. /\ Reliable(e) /\ e.lines = lines /\ e.top = ed.top /\ e.margin = ed.margin
      /\ e.from = ed.from /\ e.to = ed.to /\ e.shown = ed.shown
      /\ e.timer /\ (e.skipped <=> ed.skipped)
  <2>1. \A i \in 1..n : lines[i] = ed.lines[i]
    BY <1>6, <1>7
  <2>2. Len(lines) \in 1..MaxLines /\ n \in 0..Len(lines) /\ n <= Size(ed)
    BY <1>6, <1>7
  <2> QED BY <1>3, <1>6, <1>7, <2>1, <2>2, DocumentIsEdited
<1>9. e \in Editors /\ e.shown \in Seq(Spans) /\ e.from \in Nat /\ e.to \in Nat
  BY <1>8, EditorIs DEF Reliable
<1>10. /\ e.from <= e.to /\ e.to <= Size(ed) /\ Len(e.shown) = e.to - e.from
       /\ \A i \in 1..(e.to - e.from) : Shows(ed.lines, e.from, e.shown, i)
  BY <1>8, ViewIsWhole, ViewedIs DEF ViewOf, Size
<1>11. PICK k \in 1..(e.to - e.from) : k = n - e.from + 1
  BY <1>6, <1>8, <1>9
<1>12. PICK shown : shown = [e.shown EXCEPT ![k] = Blank]
  OBVIOUS
<1>13. r = [e EXCEPT !.shown = shown]
  BY <1>4, <1>6, <1>8, <1>11, <1>12 DEF RegLineChange, InView
<1>14. /\ shown \in Seq(Spans) /\ Len(shown) = e.to - e.from
       /\ \A i \in 1..(e.to - e.from) : shown[i] = IF i = k THEN Blank ELSE e.shown[i]
  <2>1. /\ DOMAIN e.shown = 1..(e.to - e.from)
        /\ \A i \in 1..(e.to - e.from) : e.shown[i] \in Spans
    BY <1>9, <1>10, SequenceIs
  <2>2. Blank \in Spans /\ e.to - e.from \in Nat
    BY <1>9, <1>10 DEF Blank, Spans, Known
  <2>3. shown \in [1..(e.to - e.from) -> Spans]
    BY <1>12, <2>1, <2>2
  <2>4. \A i \in 1..(e.to - e.from) : shown[i] = IF i = k THEN Blank ELSE e.shown[i]
    BY <1>12, <2>1
  <2> QED BY <2>2, <2>3, <2>4, IsSequence
<1>15. /\ r \in Editors /\ r.lines = e.lines /\ r.margin = e.margin /\ r.top = e.top
       /\ r.highlightFrontier = e.highlightFrontier /\ r.modeFrontier = e.modeFrontier
       /\ r.from = e.from /\ r.to = e.to /\ r.shown = shown
  BY <1>9, <1>13, <1>14 DEF Editors
<1>16. (r.timer <=> e.timer) /\ (r.skipped <=> e.skipped)
  BY <1>9, <1>13 DEF Editors
<1>17. ASSUME NEW i \in 1..(e.to - e.from)
       PROVE  Shows(lines, e.from, shown, i)
  <2>1. CASE i = k
    BY <1>14, <2>1 DEF Shows
  <2>2. CASE i # k
    <3>1. e.from + i # n + 1 /\ e.from + i \in 1..Size(ed)
      BY <1>6, <1>9, <1>10, <1>11, <2>2
    <3> QED BY <1>7, <1>10, <1>14, <2>2, <3>1 DEF Shows
  <2> QED BY <2>1, <2>2
<1>18. Viewed(r)
  BY <1>7, <1>8, <1>10, <1>14, <1>15, <1>17, ViewedIs DEF ViewOf
<1>19. Reliable(r)
  BY <1>8, <1>15, <1>16, StaysReliable DEF AsReliable
<1>20. Unskipped(r) /\ Due(r)
  BY <1>8, <1>15, <1>16, ViewIsWhole DEF Unskipped, Due
<1>21. EditorInv(r)
  BY <1>18, <1>19, <1>20 DEF EditorInv, Reliable
<1>22. EditorInv(ed') /\ Drawn(ed')
  BY <1>5, <1>21, DisplayIsUpdated
<1> QED BY <1>22 DEF ViewInv

(* An editor whose document and view have been told of a change.             *)
LEMMA EditIsDue ==
  ASSUME ViewInv, NEW n \in Seen, NEW to \in Nat, NEW more \in Int, n < to, to <= ed.to,
         n < to + more, NEW lines \in Seq(LineType), Len(lines) \in 1..MaxLines,
         Moved(ed.lines, lines, n, to, more),
         NEW e, e = Edited(lines, n), NEW r, r = RegChange(e, n, to, more)
  PROVE  /\ Reliable(r) /\ Viewed(r) /\ Due(r) /\ r.top = ed.top
         /\ r.margin >= MaxLines =>
              ~r.skipped /\ (r.from = 0 \/ (n = 0 /\ ed.top = 0 /\ r.from = to + more))
<1>1. /\ n \in Nat /\ n + 1 \in 1..Size(ed) /\ n < ed.to /\ ed.from <= n /\ ed.top <= n
      /\ Size(ed) \in 1..MaxLines
  BY SeenIs
<1>2. /\ Len(lines) = Len(ed.lines) + more /\ Len(ed.lines) = Size(ed)
      /\ \A i \in 1..n : lines[i] = ed.lines[i]
  BY DEF Moved, Size
<1>3. /\ ed.to <= Size(ed) /\ ViewOf(ed.lines, ed.from, ed.to, ed.shown)
  BY ViewIsWhole, ViewedIs DEF Viewed
<1>4. ed \in Editors /\ ed.from \in Nat /\ ed.to \in Nat /\ ed.top \in Nat
  BY EditorIs DEF ViewInv, EditorInv
<1>5. n \in 0..Len(lines) /\ n <= Size(ed) /\ Len(ed.lines) \in Nat
  <2>1. to <= Size(ed) /\ Size(ed) \in Nat /\ Len(lines) = Size(ed) + more
    BY <1>1, <1>2, <1>3, <1>4
  <2> QED BY <1>1, <1>2, <2>1
<1>6. /\ Reliable(e) /\ e.lines = lines /\ e.top = ed.top /\ e.margin = ed.margin
      /\ e.from = ed.from /\ e.to = ed.to /\ e.shown = ed.shown
      /\ e.timer /\ (e.skipped <=> ed.skipped)
  BY <1>1, <1>2, <1>5, DocumentIsEdited
<1>7. e \in Editors
  BY <1>6 DEF Reliable, Shaped
<1>8. /\ Viewed(r) /\ AsReliable(e, r) /\ r.top = e.top /\ (r.timer <=> e.timer)
      /\ r.from = e.from \/ r.from = 0 \/ (n = e.from /\ r.from = to + more)
  <2>1. /\ ViewOf(ed.lines, e.from, e.to, e.shown) /\ Moved(ed.lines, e.lines, n, to, more)
        /\ e.from <= n /\ to <= e.to
    BY <1>1, <1>3, <1>6
  <2>2. PICK before : before = ed.lines
    OBVIOUS
  <2>3. Len(before) \in Nat /\ ViewOf(before, e.from, e.to, e.shown)
        /\ Moved(before, e.lines, n, to, more)
    BY <1>5, <2>1, <2>2
  <2> QED BY <1>1, <1>7, <2>1, <2>3, ChangeIsShown
<1>9. Reliable(r)
  BY <1>6, <1>8, StaysReliable
<1>10. Due(r)
  BY <1>6, <1>8 DEF Due
<1>11. r.margin >= MaxLines =>
         ~r.skipped /\ (r.from = 0 \/ (n = 0 /\ ed.top = 0 /\ r.from = to + more))
  <2> SUFFICES ASSUME ed.margin >= MaxLines
      PROVE  ~r.skipped /\ (r.from = 0 \/ (n = 0 /\ ed.top = 0 /\ r.from = to + more))
    BY <1>6, <1>8 DEF AsReliable
  <2>1. ~ed.skipped /\ ed.from = 0
    BY ViewIsWhole
  <2> QED BY <1>1, <1>4, <1>6, <1>8, <2>1 DEF AsReliable
<1> QED BY <1>6, <1>8, <1>9, <1>10, <1>11

(* Breaking a line in two, which moves the lines below it and may scroll to  *)
(* the cursor, leaves it right.                                              *)
LEMMA SplitLineInv ==
  ASSUME ViewInv, SplitLine
  PROVE  ViewInv'
<1>1. PICK n \in Seen, text \in Texts :
        LET e == Edited(InsertAt([ed.lines EXCEPT ![n + 1] = Line("plain")],
                                 n + 2, Line(text)), n)
            top == IF n + 1 < ed.top + Height THEN ed.top ELSE n + 2 - Height
        IN /\ Size(ed) < MaxLines
           /\ ed' = UpdateDisplay([RegChange(e, n, n + 1, 1) EXCEPT !.top = top])
  BY DEF SplitLine
<1>2. PICK head : head = [ed.lines EXCEPT ![n + 1] = Line("plain")]
  OBVIOUS
<1>3. PICK lines : lines = InsertAt(head, n + 2, Line(text))
  OBVIOUS
<1>4. PICK e : e = Edited(lines, n)
  OBVIOUS
<1>5. PICK r : r = RegChange(e, n, n + 1, 1)
  OBVIOUS
<1>6. PICK top : top = IF n + 1 < ed.top + Height THEN ed.top ELSE n + 2 - Height
  OBVIOUS
<1>7. PICK s : s = [r EXCEPT !.top = top]
  OBVIOUS
<1>8. Size(ed) < MaxLines /\ ed' = UpdateDisplay(s)
  BY <1>1, <1>2, <1>3, <1>4, <1>5, <1>6, <1>7
<1>9. /\ n \in Nat /\ n + 1 \in 1..Size(ed) /\ n < ed.to /\ ed.from <= n /\ ed.top <= n
      /\ Size(ed) \in 1..MaxLines /\ MaxLines \in Nat /\ Height \in Nat \ {0}
  BY SeenIs, ViewAssumption
<1>10. /\ head \in Seq(LineType) /\ Len(head) = Size(ed)
       /\ \A i \in 1..Size(ed) : i # n + 1 => head[i] = ed.lines[i]
  <2>1. PICK word \in Texts \union {"plain"} : word = "plain"
    OBVIOUS
  <2>2. head = ReplaceAt(ed.lines, n + 1, Line(word))
    BY <1>2, <2>1 DEF ReplaceAt
  <2> QED BY <2>2, LineIsEdited
<1>11. /\ lines \in Seq(LineType) /\ Len(lines) = Size(ed) + 1
       /\ \A i \in 1..Size(ed) : lines[IF i <= n + 1 THEN i ELSE i + 1] = head[i]
  <2>1. PICK k \in 1..(Len(head) + 1) : k = n + 2
    BY <1>9, <1>10
  <2>2. PICK line \in LineType : line = Line(text)
    BY DEF Line, LineType, Known
  <2>3. lines = InsertAt(head, k, line)
    BY <1>3, <2>1, <2>2
  <2>4. /\ lines \in Seq(LineType) /\ Len(lines) = Len(head) + 1
        /\ \A i \in 1..Len(head) : lines[IF i < k THEN i ELSE i + 1] = head[i]
    <3>1. head \in Seq(LineType)
      BY <1>10
    <3> QED BY <2>3, <3>1, InsertedIs
  <2>5. \A i \in 1..Size(ed) : i < k <=> i <= n + 1
    BY <1>9, <2>1
  <2> QED BY <1>10, <2>4, <2>5
<1>12. Moved(ed.lines, lines, n, n + 1, 1)
  <2>1. ASSUME NEW i \in 1..n
        PROVE  lines[i] = ed.lines[i]
    <3>1. i \in 1..Size(ed) /\ i # n + 1 /\ i <= n + 1
      BY <1>9
    <3> QED BY <1>10, <1>11, <3>1
  <2>2. ASSUME NEW i \in ((n + 1) + 1)..Size(ed)
        PROVE  lines[i + 1] = ed.lines[i]
    <3>1. i \in 1..Size(ed) /\ i # n + 1 /\ ~(i <= n + 1)
      BY <1>9
    <3> QED BY <1>10, <1>11, <3>1
  <2> QED BY <1>11, <2>1, <2>2 DEF Moved, Size
<1>13. /\ Reliable(r) /\ Viewed(r) /\ Due(r)
       /\ r.margin >= MaxLines =>
            ~r.skipped /\ (r.from = 0 \/ (n = 0 /\ ed.top = 0 /\ r.from = (n + 1) + 1))
  <2>1. PICK to \in Nat : to = n + 1
    BY <1>9
  <2>2. PICK more \in Int : more = 1
    OBVIOUS
  <2>3. /\ n < to /\ to <= ed.to /\ n < to + more /\ Len(lines) \in 1..MaxLines
        /\ Moved(ed.lines, lines, n, to, more) /\ r = RegChange(e, n, to, more)
    <3>1. ed.to \in Nat
      BY EditorIs DEF ViewInv, EditorInv
    <3>2. n < to /\ to <= ed.to /\ n < to + more
      BY <1>9, <2>1, <2>2, <3>1
    <3>3. Len(lines) \in 1..MaxLines
      BY <1>8, <1>9, <1>11
    <3> QED BY <1>5, <1>12, <2>1, <2>2, <3>2, <3>3
  <2>4. /\ Reliable(r) /\ Viewed(r) /\ Due(r)
        /\ r.margin >= MaxLines =>
             ~r.skipped /\ (r.from = 0 \/ (n = 0 /\ ed.top = 0 /\ r.from = to + more))
    BY <1>4, <1>11, <2>3, EditIsDue
  <2> QED BY <2>1, <2>2, <2>4
<1>14. r \in Editors
  BY <1>13 DEF Reliable, Shaped
<1>15. ed.top \in Nat
  BY EditorIs DEF ViewInv, EditorInv
<1>16. top \in Nat /\ (n = 0 /\ ed.top = 0 => top < (n + 1) + 1)
  BY <1>6, <1>9, <1>15
<1>17. /\ s \in Editors /\ s.lines = r.lines /\ s.margin = r.margin /\ s.top = top
       /\ s.highlightFrontier = r.highlightFrontier /\ s.modeFrontier = r.modeFrontier
       /\ s.from = r.from /\ s.to = r.to /\ s.shown = r.shown
  BY <1>7, <1>14, <1>16 DEF Editors
<1>18. (s.timer <=> r.timer) /\ (s.skipped <=> r.skipped)
  BY <1>7, <1>14 DEF Editors
<1>19. Reliable(s)
  BY <1>13, <1>17, <1>18, StaysReliable DEF AsReliable
<1>20. Viewed(s) /\ Due(s)
  BY <1>13, <1>17, <1>18, ViewedIs DEF Due
<1>21. Unskipped(s)
  <2>1. s.margin >= MaxLines => ~s.skipped /\ (s.from = 0 \/ s.top < s.from)
    BY <1>13, <1>16, <1>17, <1>18
  <2> QED BY <2>1 DEF Unskipped
<1>22. EditorInv(s)
  BY <1>19, <1>20, <1>21 DEF EditorInv, Reliable
<1>23. EditorInv(ed') /\ Drawn(ed')
  BY <1>8, <1>22, DisplayIsUpdated
<1> QED BY <1>23 DEF ViewInv

(* Joining a line with the next (updateDoc) leaves it right.                 *)
LEMMA JoinLinesInv ==
  ASSUME ViewInv, JoinLines
  PROVE  ViewInv'
<1>1. PICK n \in Seen, text \in Texts :
        /\ n + 1 \in Seen
        /\ ed' = UpdateDisplay(RegChange(
                   Edited(RemoveAt([ed.lines EXCEPT ![n + 1] = Line(text)], n + 2), n),
                   n, n + 2, -1))
  BY DEF JoinLines
<1>2. PICK head : head = [ed.lines EXCEPT ![n + 1] = Line(text)]
  OBVIOUS
<1>3. PICK lines : lines = RemoveAt(head, n + 2)
  OBVIOUS
<1>4. PICK e : e = Edited(lines, n)
  OBVIOUS
<1>5. PICK r : r = RegChange(e, n, n + 2, -1)
  OBVIOUS
<1>6. ed' = UpdateDisplay(r)
  BY <1>1, <1>2, <1>3, <1>4, <1>5
<1>7. /\ n \in Nat /\ n + 1 \in 1..Size(ed) /\ n < ed.to /\ ed.from <= n /\ ed.top <= n
      /\ Size(ed) \in 1..MaxLines /\ MaxLines \in Nat
  BY SeenIs, ViewAssumption
<1>8. (n + 1) + 1 \in 1..Size(ed) /\ n + 1 < ed.to
  <2>1. PICK m \in Seen : m = n + 1
    BY <1>1
  <2>2. m + 1 \in 1..Size(ed) /\ m < ed.to
    BY SeenIs
  <2> QED BY <2>1, <2>2
<1>9. /\ head \in Seq(LineType) /\ Len(head) = Size(ed)
      /\ \A i \in 1..Size(ed) : i # n + 1 => head[i] = ed.lines[i]
  <2>1. PICK word \in Texts \union {"plain"} : word = text
    OBVIOUS
  <2>2. head = ReplaceAt(ed.lines, n + 1, Line(word))
    BY <1>2, <2>1 DEF ReplaceAt
  <2> QED BY <2>2, LineIsEdited
<1>10. /\ lines \in Seq(LineType) /\ Len(lines) = Size(ed) - 1
       /\ \A i \in 1..(n + 1) : lines[i] = head[i]
       /\ \A i \in (n + 3)..Size(ed) : lines[i - 1] = head[i]
  <2>1. PICK k \in 1..Len(head) : k = n + 2
    BY <1>7, <1>8, <1>9
  <2>2. lines = RemoveAt(head, k)
    BY <1>3, <2>1
  <2>3. head \in Seq(LineType)
    BY <1>9
  <2>4. /\ lines \in Seq(LineType) /\ Len(lines) = Len(head) - 1
        /\ \A i \in 1..(k - 1) : lines[i] = head[i]
        /\ \A i \in (k + 1)..Len(head) : lines[i - 1] = head[i]
    BY <2>2, <2>3, RemovedIs
  <2>5. k - 1 = n + 1 /\ k + 1 = n + 3
    BY <1>7, <2>1
  <2> QED BY <1>9, <2>4, <2>5
<1>11. Moved(ed.lines, lines, n, n + 2, -1)
  <2>1. ASSUME NEW i \in 1..n
        PROVE  lines[i] = ed.lines[i]
    <3>1. i \in 1..Size(ed) /\ i # n + 1 /\ i \in 1..(n + 1)
      BY <1>7
    <3> QED BY <1>9, <1>10, <3>1
  <2>2. ASSUME NEW i \in ((n + 2) + 1)..Size(ed)
        PROVE  lines[i + (-1)] = ed.lines[i]
    <3>1. i \in 1..Size(ed) /\ i # n + 1 /\ i \in (n + 3)..Size(ed) /\ i + (-1) = i - 1
      BY <1>7
    <3> QED BY <1>9, <1>10, <3>1
  <2>3. Len(lines) = Size(ed) + (-1)
    BY <1>7, <1>10
  <2> QED BY <2>1, <2>2, <2>3 DEF Moved, Size
<1>12. /\ Reliable(r) /\ Viewed(r) /\ Due(r) /\ r.top = ed.top
       /\ r.margin >= MaxLines =>
            ~r.skipped /\ (r.from = 0 \/ (n = 0 /\ ed.top = 0 /\ r.from = n + 1))
  <2>1. PICK to \in Nat : to = n + 2
    BY <1>7
  <2>2. PICK more \in Int : more = -1
    OBVIOUS
  <2>3. /\ n < to /\ to <= ed.to /\ n < to + more /\ Len(lines) \in 1..MaxLines
        /\ Moved(ed.lines, lines, n, to, more) /\ r = RegChange(e, n, to, more)
        /\ to + more = n + 1
    <3>1. ed.to \in Nat
      BY EditorIs DEF ViewInv, EditorInv
    <3>2. n < to /\ to <= ed.to /\ n < to + more /\ to + more = n + 1
      BY <1>7, <1>8, <2>1, <2>2, <3>1
    <3>3. Len(lines) \in 1..MaxLines
      BY <1>7, <1>8, <1>10
    <3> QED BY <1>5, <1>11, <2>1, <2>2, <3>2, <3>3
  <2>4. lines \in Seq(LineType)
    BY <1>10
  <2>5. /\ Reliable(r) /\ Viewed(r) /\ Due(r) /\ r.top = ed.top
        /\ r.margin >= MaxLines =>
             ~r.skipped /\ (r.from = 0 \/ (n = 0 /\ ed.top = 0 /\ r.from = to + more))
    BY <1>4, <2>3, <2>4, EditIsDue
  <2> QED BY <2>3, <2>5
<1>13. Unskipped(r)
  <2>1. r.margin >= MaxLines => ~r.skipped /\ (r.from = 0 \/ r.top < r.from)
    BY <1>7, <1>12
  <2> QED BY <2>1 DEF Unskipped
<1>14. EditorInv(r)
  BY <1>12, <1>13 DEF EditorInv, Reliable
<1>15. EditorInv(ed') /\ Drawn(ed')
  BY <1>6, <1>14, DisplayIsUpdated
<1> QED BY <1>15 DEF ViewInv

(* A view of nothing, of a document of which nothing is known.               *)
LEMMA ViewIsReset ==
  ASSUME NEW e, e \in Editors, Size(e) \in 1..MaxLines, e.timer, ~e.skipped,
         e.highlightFrontier = 0, e.modeFrontier = 0, NEW r, r = ResetView(e)
  PROVE  EditorInv(r)
<1>0. PICK none : none = <<>>
  OBVIOUS
<1>1. /\ r = [e EXCEPT !.from = 0, !.to = 0, !.shown = none]
      /\ none \in Seq(Spans) /\ Len(none) = 0
  BY <1>0 DEF ResetView
<1>2. /\ r \in Editors /\ r.lines = e.lines /\ r.from = 0 /\ r.to = 0 /\ r.shown = none
      /\ r.highlightFrontier = 0 /\ r.modeFrontier = 0
  BY <1>1 DEF Editors
<1>3. r.timer /\ ~r.skipped
  BY <1>1 DEF Editors
<1>4. Size(e) \in Nat /\ Size(e) \in 1..MaxLines
  BY ViewAssumption
<1>5. Shaped(r)
  BY <1>2, <1>4 DEF Shaped, Size
<1>6. SavedAbove(r.lines, Frontier(r)) /\ Highlighted(r)
  BY <1>2 DEF SavedAbove, Frontier, Greater, Highlighted, StylesAbove
<1>7. Viewed(r)
  <2>1. Len(r.shown) = 0 /\ r.from <= r.to /\ r.to <= Size(r)
    BY <1>1, <1>2, <1>4 DEF Size
  <2> QED BY <1>2, <2>1 DEF Viewed
<1> QED BY <1>2, <1>3, <1>5, <1>6, <1>7 DEF EditorInv, Unskipped, Due

(* Replacing the document (setValue), with the view reset, leaves it right.  *)
LEMMA SetValueInv ==
  ASSUME ViewInv, SetValue
  PROVE  ViewInv'
<1>1. PICK n \in {1, MaxLines}, text \in Texts :
        LET lines == [i \in 1..n |-> Line(IF i = 1 THEN text ELSE "plain")]
            e == [Edited(lines, 0) EXCEPT !.top = 0, !.skipped = FALSE]
        IN ed' = UpdateDisplay(ResetView(e))
  BY DEF SetValue
<1>2. PICK lines : lines = [i \in 1..n |-> Line(IF i = 1 THEN text ELSE "plain")]
  OBVIOUS
<1>3. PICK d : d = Edited(lines, 0)
  OBVIOUS
<1>4. PICK e : e = [d EXCEPT !.top = 0, !.skipped = FALSE]
  OBVIOUS
<1>5. PICK r : r = ResetView(e)
  OBVIOUS
<1>6. ed' = UpdateDisplay(r)
  BY <1>1, <1>2, <1>3, <1>4, <1>5
<1>7. n \in 1..MaxLines /\ n \in Nat
  BY ViewAssumption
<1>8. lines \in Seq(LineType) /\ Len(lines) = n
  <2>1. \A i \in 1..n : Line(IF i = 1 THEN text ELSE "plain") \in LineType
    BY DEF Line, LineType, Known
  <2>2. lines \in [1..n -> LineType]
    BY <1>2, <2>1
  <2> QED BY <1>7, <2>2, IsSequence
<1>9. /\ Reliable(d) /\ d.lines = lines /\ d.timer /\ d.highlightFrontier <= 0
      /\ d.modeFrontier <= 0
  <2>1. PICK k \in 0..Len(lines) : k = 0
    BY <1>7, <1>8
  <2>2. Len(lines) \in 1..MaxLines /\ k <= Size(ed) /\ k < ed.to
    <3>1. ed.top \in Nat /\ ed.to \in Nat /\ Size(ed) \in Nat /\ ed.top < ed.to
      BY EditorIs, ViewIsWhole DEF Reliable
    <3> QED BY <1>7, <1>8, <2>1, <3>1
  <2>3. \A i \in 1..k : lines[i] = ed.lines[i]
    BY <2>1
  <2>4. d = Edited(lines, k)
    BY <1>3, <2>1
  <2>5. /\ Reliable(d) /\ d.lines = lines /\ d.timer /\ d.highlightFrontier <= k
        /\ d.modeFrontier <= k
    BY <1>8, <2>2, <2>3, <2>4, DocumentIsEdited
  <2> QED BY <2>1, <2>5
<1>10. /\ d \in Editors /\ d.highlightFrontier = 0 /\ d.modeFrontier = 0 /\ Size(d) = n
  BY <1>8, <1>9 DEF Reliable, Shaped, Editors, Size
<1>11. /\ e \in Editors /\ e.lines = lines /\ e.highlightFrontier = 0 /\ e.modeFrontier = 0
  BY <1>4, <1>9, <1>10 DEF Editors
<1>12. e.timer /\ ~e.skipped
  BY <1>4, <1>9, <1>10 DEF Editors
<1>13. EditorInv(r)
  BY <1>5, <1>7, <1>8, <1>11, <1>12, ViewIsReset DEF Size
<1>14. EditorInv(ed') /\ Drawn(ed')
  BY <1>6, <1>13, DisplayIsUpdated
<1> QED BY <1>14 DEF ViewInv

(* Choosing another language (loadMode) forgets every state and style and    *)
(* leaves it right.                                                          *)
LEMMA ResetModeStateInv ==
  ASSUME ViewInv, ResetModeState
  PROVE  ViewInv'
<1>1. PICK lines : lines = [i \in DOMAIN ed.lines |-> Line(ed.lines[i].text)]
  OBVIOUS
<1>2. PICK e : e = [ed EXCEPT !.lines = lines, !.modeFrontier = 0,
                              !.highlightFrontier = 0, !.skipped = FALSE]
  OBVIOUS
<1>3. PICK s : s = StartWorker(e)
  OBVIOUS
<1>4. PICK r : r = ResetView(s)
  OBVIOUS
<1>5. ed \in Editors /\ ed.lines \in Seq(LineType) /\ Size(ed) \in 1..MaxLines
  BY EditorIs DEF ViewInv, EditorInv
<1>6. ed' = UpdateDisplay(r)
  <2>1. e = [ed EXCEPT !.lines = [i \in DOMAIN @ |-> Line(@[i].text)],
                       !.modeFrontier = 0, !.highlightFrontier = 0, !.skipped = FALSE]
    BY <1>1, <1>2
  <2> QED BY <1>3, <1>4, <2>1 DEF ResetModeState
<1>7. lines \in Seq(LineType) /\ Len(lines) = Size(ed)
  <2>1. /\ DOMAIN ed.lines = 1..Size(ed) /\ \A i \in 1..Size(ed) : ed.lines[i] \in LineType
        /\ Size(ed) \in Nat
    BY <1>5, SequenceIs DEF Size
  <2>2. \A i \in 1..Size(ed) : Line(ed.lines[i].text) \in LineType
    BY <2>1 DEF Line, LineType, Known
  <2>3. lines \in [1..Size(ed) -> LineType]
    BY <1>1, <2>1, <2>2
  <2> QED BY <2>1, <2>3, IsSequence
<1>8. /\ e \in Editors /\ e.lines = lines /\ e.highlightFrontier = 0 /\ e.modeFrontier = 0
      /\ e.to = ed.to
  BY <1>2, <1>5, <1>7 DEF Editors
<1>9. ~e.skipped
  BY <1>2, <1>5 DEF Editors
<1>10. AsReliable(e, s) /\ (s.timer <=> e.timer \/ e.highlightFrontier < e.to)
  BY <1>3, <1>8, WorkerStarts
<1>11. s.timer
  <2>1. ed.top \in Nat /\ ed.to \in Nat /\ ed.top < ed.to
    BY EditorIs, ViewIsWhole DEF Reliable
  <2> QED BY <1>8, <1>10, <2>1
<1>12. EditorInv(r)
  <2>1. s \in Editors /\ s.highlightFrontier = 0 /\ s.modeFrontier = 0 /\ ~s.skipped
    BY <1>8, <1>9, <1>10 DEF AsReliable
  <2>2. Size(s) = Size(ed)
    BY <1>7, <1>8, <1>10 DEF AsReliable, Size
  <2> QED BY <1>4, <1>5, <1>11, <2>1, <2>2, ViewIsReset
<1>13. EditorInv(ed') /\ Drawn(ed')
  BY <1>6, <1>12, DisplayIsUpdated
<1> QED BY <1>13 DEF ViewInv

(* Scrolling, which draws lines the worker may not have come to, leaves it   *)
(* right.                                                                    *)
LEMMA ScrollInv ==
  ASSUME ViewInv, Scroll
  PROVE  ViewInv'
<1>1. PICK top \in 0..(Size(ed) - 1) : ed' = UpdateDisplay([ed EXCEPT !.top = top])
  BY DEF Scroll
<1>2. PICK e : e = [ed EXCEPT !.top = top]
  OBVIOUS
<1>3. ed \in Editors /\ top \in Nat
  BY EditorIs DEF ViewInv, EditorInv
<1>4. /\ e \in Editors /\ e.lines = ed.lines /\ e.margin = ed.margin
      /\ e.highlightFrontier = ed.highlightFrontier /\ e.modeFrontier = ed.modeFrontier
      /\ e.from = ed.from /\ e.to = ed.to /\ e.shown = ed.shown
  BY <1>2, <1>3 DEF Editors
<1>5. (e.timer <=> ed.timer) /\ (e.skipped <=> ed.skipped)
  BY <1>2, <1>3 DEF Editors
<1>6. Reliable(e)
  BY <1>4, <1>5, ViewIsWhole, StaysReliable DEF AsReliable
<1>7. Viewed(e) /\ Due(e) /\ Unskipped(e)
  BY <1>4, <1>5, ViewIsWhole, ViewedIs DEF Due, Unskipped
<1>8. EditorInv(e)
  BY <1>6, <1>7 DEF EditorInv, Reliable
<1>9. EditorInv(ed') /\ Drawn(ed')
  BY <1>1, <1>2, <1>8, DisplayIsUpdated
<1> QED BY <1>9 DEF ViewInv

(* Reading a state leaves what is right, and what is drawn.                  *)
LEMMA ContextIsReliable ==
  ASSUME NEW e, Reliable(e), Viewed(e), NEW n \in 0..Size(e), NEW precise \in BOOLEAN,
         NEW c, c = ContextBefore(e, n, precise)
  PROVE  /\ Reliable(c.ed) /\ Viewed(c.ed) /\ Alike(e, c.ed) /\ Size(c.ed) = Size(e)
         /\ c.ed.highlightFrontier = e.highlightFrontier
         /\ precise \/ n <= Frontier(e) => c.state = TrueBefore(c.ed.lines, n)
<1>1. /\ Shaped(e) /\ SavedAbove(e.lines, Frontier(e)) /\ Highlighted(e)
  BY DEF Reliable
<1>2. /\ e \in Editors /\ Size(e) \in Nat /\ e.highlightFrontier \in 0..Size(e)
      /\ e.modeFrontier \in 0..Size(e) /\ Frontier(e) \in 0..Size(e)
      /\ e.from \in Nat /\ e.to \in Nat
  BY <1>1, EditorIs
<1>3. /\ precise \/ n <= Frontier(e) => c.state = TrueBefore(e.lines, n)
      /\ SameTexts(e, c.ed.lines)
      /\ Alike(e, c.ed) /\ c.ed.highlightFrontier = e.highlightFrontier
      /\ c.ed.modeFrontier = IF precise THEN n ELSE e.modeFrontier
      /\ SavedAbove(c.ed.lines, Frontier(e))
      /\ precise => SavedAbove(c.ed.lines, n)
  BY <1>1, ContextIs
<1>4. /\ Size(c.ed) = Size(e)
      /\ \A i \in 1..Size(e) : /\ c.ed.lines[i].text = e.lines[i].text
                               /\ c.ed.lines[i].styles = e.lines[i].styles
  BY <1>3 DEF SameTexts, Size
<1>5. \A i \in 0..Size(e) : TrueBefore(c.ed.lines, i) = TrueBefore(e.lines, i)
  BY <1>2, <1>4, TrueSame
<1>6. Shaped(c.ed)
  <2>1. c.ed.modeFrontier <= Size(e)
    BY <1>2, <1>3
  <2>2. c.ed \in Editors
    BY <1>3 DEF Alike
  <2> QED BY <1>1, <1>3, <1>4, <2>1, <2>2 DEF Shaped
<1>7. SavedAbove(c.ed.lines, Frontier(c.ed))
  <2> SUFFICES ASSUME NEW i \in 1..Frontier(c.ed)
      PROVE  /\ c.ed.lines[i].after \in {"none", TrueBefore(c.ed.lines, i)}
             /\ (i - 1) % SaveEvery = 0 => c.ed.lines[i].after # "none"
    BY DEF SavedAbove
  <2>1. i \in 1..Frontier(e) \/ (precise /\ i \in 1..n)
    BY <1>2, <1>3 DEF Frontier, Greater
  <2> QED BY <1>3, <2>1 DEF SavedAbove
<1>8. Highlighted(c.ed)
  <2> SUFFICES ASSUME ~e.skipped, NEW i \in 1..e.highlightFrontier
      PROVE  c.ed.lines[i].styles \in {"none", TrueBefore(c.ed.lines, i - 1)}
    BY <1>3 DEF Highlighted, StylesAbove, Alike
  <2>1. i \in 1..Size(e) /\ i - 1 \in 0..Size(e)
    BY <1>2
  <2> QED BY <1>1, <1>4, <1>5, <2>1 DEF Highlighted, StylesAbove
<1>9. Viewed(c.ed)
  <2>1. /\ e.from <= e.to /\ e.to <= Size(e) /\ Len(e.shown) = e.to - e.from
        /\ \A i \in 1..(e.to - e.from) : Shows(e.lines, e.from, e.shown, i)
    BY ViewedIs DEF ViewOf, Size
  <2>2. ASSUME NEW i \in 1..(e.to - e.from)
        PROVE  Shows(c.ed.lines, e.from, e.shown, i)
    <3>1. e.from + i \in 1..Size(e)
      BY <1>2, <2>1
    <3> QED BY <1>4, <2>1, <3>1 DEF Shows
  <2>3. ViewOf(c.ed.lines, e.from, e.to, e.shown)
    BY <1>4, <2>1, <2>2 DEF ViewOf, Size
  <2> QED BY <1>3, <2>3, ViewedIs DEF Alike
<1>10. precise \/ n <= Frontier(e) => c.state = TrueBefore(c.ed.lines, n)
  BY <1>3, <1>5
<1> QED BY <1>3, <1>4, <1>6, <1>7, <1>8, <1>9, <1>10 DEF Reliable

(* A reader of the state before a line (getTokenAt, indentLine), precise or  *)
(* not, leaves the editor right and the worker due if it was.                *)
LEMMA ReadTokenInv ==
  ASSUME ViewInv, ReadToken
  PROVE  ViewInv'
<1>1. PICK n \in 0..(Size(ed) - 1), precise \in BOOLEAN :
        ed' = ContextBefore(ed, n, precise).ed
  BY DEF ReadToken
<1>2. PICK c : c = ContextBefore(ed, n, precise)
  OBVIOUS
<1>3. Size(ed) \in Nat
  BY EditorIs DEF ViewInv, EditorInv
<1>4. /\ Reliable(c.ed) /\ Viewed(c.ed) /\ Alike(ed, c.ed) /\ Size(c.ed) = Size(ed)
      /\ c.ed.highlightFrontier = ed.highlightFrontier
  <2>1. n \in 0..Size(ed)
    BY <1>3
  <2> QED BY <1>2, <2>1, ViewIsWhole, ContextIsReliable
<1>5. Unskipped(c.ed) /\ Due(c.ed)
  BY <1>4, ViewIsWhole DEF Alike, Unskipped, Due
<1>6. Drawn(c.ed)
  BY <1>4 DEF Alike, Drawn, ViewInv
<1>7. EditorInv(ed') /\ Drawn(ed')
  BY <1>1, <1>2, <1>4, <1>5, <1>6 DEF EditorInv, Reliable
<1> QED BY <1>7 DEF ViewInv

(* The lines that the worker comes to are right, those it draws highlighted. *)
LEMMA WorkIsDone ==
  ASSUME NEW e, Reliable(e), Viewed(e), NEW n \in Nat, n = e.highlightFrontier,
         NEW state, state = TrueBefore(e.lines, n), NEW last \in (n + 1)..Size(e),
         NEW w, w = Worked(e, n, state, last)
  PROVE  /\ w \in Editors /\ Size(w) = Size(e) /\ w.top = e.top /\ w.margin = e.margin
         /\ w.from = e.from /\ w.to = e.to
         /\ (w.timer <=> e.timer) /\ (w.skipped <=> e.skipped)
         /\ w.highlightFrontier = e.highlightFrontier /\ w.modeFrontier = e.modeFrontier
         /\ Viewed(w)
         /\ SavedAbove(w.lines, Greater(Frontier(e), last))
         /\ ~e.skipped /\ e.from <= n => StylesAbove(w.lines, last)
<1>1. /\ e \in Editors /\ Size(e) \in Nat /\ e.from \in Nat /\ e.to \in Nat
      /\ e.lines \in Seq(LineType) /\ e.shown \in Seq(Spans)
      /\ e.highlightFrontier \in 0..Size(e) /\ Frontier(e) \in 0..Size(e)
      /\ DOMAIN e.lines = 1..Size(e) /\ \A i \in 1..Size(e) : e.lines[i] \in LineType
      /\ n <= Frontier(e)
  <2>1. e.highlightFrontier <= Frontier(e)
    BY EditorIs DEF Reliable, Frontier, Greater
  <2> QED BY <2>1, EditorIs, SequenceIs DEF Reliable, Size
<1> DEFINE
      Before(m) == StateAt(e.lines, n, state, m)
      Works(m) == m >= n /\ m < last
      Changes(m) == Works(m) /\ m >= e.from /\ e.lines[m + 1].styles # Before(m)
      lines == [i \in DOMAIN e.lines |->
        IF ~Works(i - 1) THEN e.lines[i]
        ELSE [e.lines[i] EXCEPT
               !.styles = IF i - 1 >= e.from THEN Before(i - 1) ELSE e.lines[i].styles,
               !.after = IF i - 1 >= e.from \/ (i - 1) % SaveEvery = 0
                         THEN Before(i) ELSE "none"]]
      shown == [i \in DOMAIN e.shown |->
        IF Changes(e.from + i - 1) THEN Blank ELSE e.shown[i]]
<1>2. w = [e EXCEPT !.lines = lines, !.shown = shown]
  BY DEF Worked
<1>3. \A m \in n..Size(e) : Before(m) = TrueBefore(e.lines, m) /\ Before(m) \in States
  <2>1. ASSUME NEW m \in n..Size(e)
        PROVE  Before(m) = TrueBefore(e.lines, m) /\ TrueBefore(e.lines, m) \in States
    <3>1. m \in Nat /\ n <= m
      OBVIOUS
    <3> QED BY <3>1, TrueNext
  <2> QED BY <2>1
<1> HIDE DEF Before
<1>4. ASSUME NEW i \in 1..Size(e)
      PROVE  /\ lines[i] \in LineType /\ lines[i].text = e.lines[i].text
             /\ lines[i].styles = IF Works(i - 1) /\ i - 1 >= e.from
                                  THEN TrueBefore(e.lines, i - 1) ELSE e.lines[i].styles
             /\ lines[i].after = IF Works(i - 1)
                                 THEN IF i - 1 >= e.from \/ (i - 1) % SaveEvery = 0
                                      THEN TrueBefore(e.lines, i) ELSE "none"
                                 ELSE e.lines[i].after
             /\ lines[i].styles # e.lines[i].styles => Changes(i - 1)
  <2>1. e.lines[i] \in LineType /\ i \in DOMAIN e.lines /\ (i - 1) + 1 = i
    BY <1>1
  <2>2. CASE ~Works(i - 1)
    <3>1. lines[i] = e.lines[i]
      BY <2>1, <2>2
    <3> HIDE DEF lines, Works
    <3> QED BY <2>1, <2>2, <3>1
  <2>3. CASE Works(i - 1)
    <3>1. i - 1 \in n..Size(e) /\ i \in n..Size(e)
      BY <1>1, <2>3
    <3>2. /\ Before(i - 1) = TrueBefore(e.lines, i - 1) /\ Before(i) = TrueBefore(e.lines, i)
          /\ Before(i - 1) \in States /\ Before(i) \in States
      BY <1>3, <3>1
    <3> DEFINE styles == IF i - 1 >= e.from THEN Before(i - 1) ELSE e.lines[i].styles
               after == IF i - 1 >= e.from \/ (i - 1) % SaveEvery = 0
                        THEN Before(i) ELSE "none"
    <3>3. lines[i] = [e.lines[i] EXCEPT !.styles = styles, !.after = after]
      BY <2>1, <2>3
    <3>4. styles \in Known /\ after \in Known
      BY <2>1, <3>2 DEF Known, LineType
    <3> HIDE DEF styles, after, lines
    <3>5. /\ lines[i] \in LineType /\ lines[i].text = e.lines[i].text
          /\ lines[i].styles = styles /\ lines[i].after = after
      BY <2>1, <3>3, <3>4 DEF LineType
    <3>6. styles # e.lines[i].styles => Changes(i - 1)
      BY <2>1, <2>3 DEF styles
    <3> QED BY <2>3, <3>2, <3>5, <3>6 DEF styles, after
  <2> QED BY <2>2, <2>3
<1>5. lines \in Seq(LineType) /\ Len(lines) = Size(e)
  <2>1. lines \in [1..Size(e) -> LineType]
    BY <1>1, <1>4
  <2> HIDE DEF lines
  <2> QED BY <1>1, <2>1, IsSequence
<1>6. /\ e.from <= e.to /\ e.to <= Size(e) /\ Len(e.shown) = e.to - e.from
      /\ \A i \in 1..(e.to - e.from) : Shows(e.lines, e.from, e.shown, i)
  BY ViewedIs DEF ViewOf, Size
<1>7. /\ shown \in Seq(Spans) /\ Len(shown) = e.to - e.from
      /\ \A i \in 1..(e.to - e.from) :
           shown[i] = IF Changes(e.from + i - 1) THEN Blank ELSE e.shown[i]
  <2>1. /\ DOMAIN e.shown = 1..(e.to - e.from)
        /\ \A i \in 1..(e.to - e.from) : e.shown[i] \in Spans
    BY <1>1, <1>6, SequenceIs
  <2>2. Blank \in Spans /\ e.to - e.from \in Nat
    BY <1>1, <1>6 DEF Blank, Spans, Known
  <2> HIDE DEF Changes
  <2>3. /\ shown \in [1..(e.to - e.from) -> Spans]
        /\ \A i \in 1..(e.to - e.from) :
             shown[i] = IF Changes(e.from + i - 1) THEN Blank ELSE e.shown[i]
    BY <2>1, <2>2
  <2> HIDE DEF shown
  <2> QED BY <2>2, <2>3, IsSequence
<1> HIDE DEF lines, shown
<1>8. /\ w \in Editors /\ w.lines = lines /\ w.shown = shown /\ w.top = e.top
      /\ w.margin = e.margin /\ w.from = e.from /\ w.to = e.to
      /\ w.highlightFrontier = e.highlightFrontier /\ w.modeFrontier = e.modeFrontier
  BY <1>1, <1>2, <1>5, <1>7 DEF Editors
<1>9. (w.timer <=> e.timer) /\ (w.skipped <=> e.skipped)
  BY <1>1, <1>2 DEF Editors
<1>10. \A i \in 0..Size(e) : TrueBefore(lines, i) = TrueBefore(e.lines, i)
  BY <1>1, <1>4, TrueSame
<1>11. SavedAbove(lines, Greater(Frontier(e), last))
  <2> SUFFICES ASSUME NEW i \in 1..Greater(Frontier(e), last)
      PROVE  /\ lines[i].after \in {"none", TrueBefore(lines, i)}
             /\ (i - 1) % SaveEvery = 0 => lines[i].after # "none"
    BY DEF SavedAbove
  <2>1. i \in 1..Size(e) /\ i \in 0..Size(e) /\ (i \in 1..Frontier(e) \/ i \in 1..last)
    BY <1>1 DEF Greater
  <2>2. CASE Works(i - 1)
    <3>0. i \in Nat
      BY <2>1
    <3>1. TrueBefore(e.lines, i) \in States
      BY <3>0, TrueNext
    <3>2. TrueBefore(e.lines, i) # "none"
      BY <3>1 DEF States
    <3> HIDE DEF Works
    <3> QED BY <1>4, <1>10, <2>1, <2>2, <3>2
  <2>3. CASE ~Works(i - 1)
    <3>1. i \in 1..Frontier(e)
      BY <1>1, <2>1, <2>3
    <3>2. lines[i].after = e.lines[i].after
      <4> HIDE DEF Works
      <4> QED BY <1>4, <2>1, <2>3
    <3> QED BY <1>10, <2>1, <3>1, <3>2 DEF SavedAbove, Reliable
  <2> QED BY <2>2, <2>3
<1>12. ASSUME ~e.skipped, e.from <= n
       PROVE  StylesAbove(lines, last)
  <2> SUFFICES ASSUME NEW i \in 1..last
      PROVE  lines[i].styles \in {"none", TrueBefore(lines, i - 1)}
    BY DEF StylesAbove
  <2>1. i \in 1..Size(e) /\ i - 1 \in 0..Size(e)
    BY <1>1
  <2>2. CASE i <= n
    <3>1. ~Works(i - 1) /\ i \in 1..e.highlightFrontier
      BY <2>2
    <3>2. lines[i].styles = e.lines[i].styles
      <4> HIDE DEF Works
      <4> QED BY <1>4, <2>1, <3>1
    <3>3. e.lines[i].styles \in {"none", TrueBefore(e.lines, i - 1)}
      BY <1>12, <3>1 DEF Reliable, Highlighted, StylesAbove
    <3> QED BY <1>10, <2>1, <3>2, <3>3
  <2>3. CASE i > n
    <3>1. Works(i - 1) /\ i - 1 >= e.from
      BY <1>1, <1>12, <2>3
    <3> HIDE DEF Works
    <3> QED BY <1>4, <1>10, <2>1, <3>1
  <2> QED BY <2>2, <2>3
<1>13. ASSUME NEW i \in 1..(e.to - e.from)
       PROVE  Shows(lines, e.from, shown, i)
  <2>1. PICK j \in 1..Size(e) : j = e.from + i
    BY <1>1, <1>6
  <2>2. e.from + i - 1 = j - 1
    BY <1>1, <2>1
  <2> HIDE DEF Changes
  <2>3. CASE Changes(j - 1)
    <3>1. shown[i] = Blank
      BY <1>7, <2>2, <2>3
    <3> QED BY <3>1 DEF Shows
  <2>4. CASE ~Changes(j - 1)
    <3>1. shown[i] = e.shown[i]
      BY <1>7, <2>2, <2>4
    <3>2. lines[j].styles = e.lines[j].styles /\ lines[j].text = e.lines[j].text
      BY <1>4, <2>4
    <3> QED BY <1>6, <2>1, <3>1, <3>2 DEF Shows
  <2> QED BY <2>3, <2>4
<1>14. Viewed(w)
  <2>1. ViewOf(lines, e.from, e.to, shown)
    BY <1>5, <1>6, <1>7, <1>13 DEF ViewOf
  <2> QED BY <1>8, <2>1, ViewedIs
<1> QED BY <1>5, <1>8, <1>9, <1>11, <1>12, <1>14 DEF Size

(* A run of the worker, wherever its time ends, leaves the editor right.     *)
LEMMA HighlightWorkerInv ==
  ASSUME ViewInv, HighlightWorker
  PROVE  ViewInv'
<1>1. /\ ed \in Editors /\ Size(ed) \in Nat /\ Size(ed) \in 1..MaxLines /\ ed.from \in Nat
      /\ ed.to \in Nat /\ ed.highlightFrontier \in 0..Size(ed)
      /\ ed.modeFrontier \in 0..Size(ed) /\ Frontier(ed) \in 0..Size(ed)
      /\ ed.highlightFrontier <= Frontier(ed)
  <2>1. ed.highlightFrontier <= Frontier(ed)
    BY EditorIs DEF ViewInv, EditorInv, Frontier, Greater
  <2> QED BY <2>1, EditorIs DEF ViewInv, EditorInv
<1>2. CASE ed.highlightFrontier >= ed.to
  <2>1. PICK off \in BOOLEAN : ~off /\ off = FALSE
    OBVIOUS
  <2>2. ed' = [ed EXCEPT !.timer = off]
    BY <1>2, <2>1 DEF HighlightWorker
  <2>3. PICK e : e = [ed EXCEPT !.timer = off]
    OBVIOUS
  <2>4. /\ e \in Editors /\ e.lines = ed.lines /\ e.margin = ed.margin /\ e.top = ed.top
        /\ e.highlightFrontier = ed.highlightFrontier /\ e.modeFrontier = ed.modeFrontier
        /\ e.from = ed.from /\ e.to = ed.to /\ e.shown = ed.shown
    BY <1>1, <2>3 DEF Editors
  <2>5. e.skipped <=> ed.skipped
    BY <1>1, <2>3 DEF Editors
  <2>6. Reliable(e)
    BY <2>4, <2>5, ViewIsWhole, StaysReliable DEF AsReliable
  <2>7. Viewed(e) /\ Due(e) /\ Unskipped(e)
    BY <1>2, <2>4, <2>5, ViewIsWhole, ViewedIs DEF Due, Unskipped
  <2>8. Drawn(e)
    BY <2>4 DEF ViewInv, Drawn, Size
  <2>9. EditorInv(ed') /\ Drawn(ed')
    BY <2>2, <2>3, <2>6, <2>7, <2>8 DEF EditorInv, Reliable
  <2> QED BY <2>9 DEF ViewInv
<1>3. CASE ed.highlightFrontier < ed.to
  <2>1. PICK n \in 0..Size(ed) : n = ed.highlightFrontier
    BY <1>1
  <2>2. PICK context : context = ContextBefore(ed, n, FALSE)
    OBVIOUS
  <2>3. PICK last \in (n + 1)..Size(ed), later \in BOOLEAN :
          /\ later \/ last = Size(ed)
          /\ \E w : /\ w = Worked(context.ed, n, context.state, last)
                    /\ ed' = UpdateDisplay([w EXCEPT
                         !.timer = later, !.skipped = w.skipped \/ n < ed.from,
                         !.highlightFrontier = last,
                         !.modeFrontier = Greater(w.modeFrontier, last)])
    <3>1. ~(ed.highlightFrontier >= ed.to)
      BY <1>1, <1>3
    <3> QED BY <2>1, <2>2, <3>1 DEF HighlightWorker
  <2>4. PICK w : /\ w = Worked(context.ed, n, context.state, last)
                 /\ ed' = UpdateDisplay([w EXCEPT
                      !.timer = later, !.skipped = w.skipped \/ n < ed.from,
                      !.highlightFrontier = last,
                      !.modeFrontier = Greater(w.modeFrontier, last)])
    BY <2>3
  <2> DEFINE skipped == w.skipped \/ n < ed.from
             mode == Greater(w.modeFrontier, last)
  <2>5. PICK e : e = [w EXCEPT !.timer = later, !.skipped = skipped,
                               !.highlightFrontier = last, !.modeFrontier = mode]
    OBVIOUS
  <2>6. ed' = UpdateDisplay(e)
    BY <2>4, <2>5
  <2>7. /\ Reliable(context.ed) /\ Viewed(context.ed) /\ Alike(ed, context.ed)
        /\ Size(context.ed) = Size(ed)
        /\ context.ed.highlightFrontier = ed.highlightFrontier
        /\ context.state = TrueBefore(context.ed.lines, n)
    <3>1. PICK precise \in BOOLEAN : precise = FALSE /\ ~precise
      OBVIOUS
    <3>2. n <= Frontier(ed) /\ context = ContextBefore(ed, n, precise)
      BY <1>1, <2>1, <2>2, <3>1
    <3>3. Reliable(ed) /\ Viewed(ed)
      BY ViewIsWhole
    <3> QED BY <3>2, <3>3, ContextIsReliable
  <2>8. /\ w \in Editors /\ Size(w) = Size(ed) /\ w.top = ed.top /\ w.margin = ed.margin
        /\ w.from = ed.from /\ w.to = ed.to /\ (w.skipped <=> ed.skipped)
        /\ w.modeFrontier = context.ed.modeFrontier
        /\ Viewed(w)
        /\ SavedAbove(w.lines, Greater(Frontier(context.ed), last))
        /\ ~ed.skipped /\ ed.from <= n => StylesAbove(w.lines, last)
    <3>1. /\ n \in Nat /\ n = context.ed.highlightFrontier
          /\ last \in (n + 1)..Size(context.ed)
      BY <1>1, <2>1, <2>7
    <3>2. /\ w \in Editors /\ Size(w) = Size(context.ed) /\ w.top = context.ed.top
          /\ w.margin = context.ed.margin /\ w.from = context.ed.from /\ w.to = context.ed.to
          /\ (w.skipped <=> context.ed.skipped)
          /\ w.modeFrontier = context.ed.modeFrontier
          /\ Viewed(w)
          /\ SavedAbove(w.lines, Greater(Frontier(context.ed), last))
          /\ ~context.ed.skipped /\ context.ed.from <= n => StylesAbove(w.lines, last)
      BY <2>4, <2>7, <3>1, WorkIsDone
    <3> QED BY <2>7, <3>2 DEF Alike
  <2>9. last \in Nat /\ last <= Size(ed) /\ n < last /\ n \in Nat
    BY <1>1
  <2>10. context.ed.modeFrontier \in 0..Size(ed) /\ Frontier(context.ed) \in 0..Size(ed)
         /\ context.ed.modeFrontier <= Frontier(context.ed)
    <3>1. Shaped(context.ed)
      BY <2>7 DEF Reliable
    <3>2. /\ context.ed.modeFrontier \in 0..Size(ed) /\ Frontier(context.ed) \in 0..Size(ed)
          /\ context.ed.highlightFrontier \in 0..Size(ed)
      BY <2>7, <3>1, EditorIs
    <3> QED BY <3>2 DEF Frontier, Greater
  <2>11. mode \in 0..Size(ed) /\ Greater(last, mode) <= Greater(Frontier(context.ed), last)
         /\ Greater(last, mode) \in Nat
    BY <1>1, <2>8, <2>9, <2>10 DEF Greater
  <2>12. skipped \in BOOLEAN
    BY <2>8 DEF Editors
  <2> HIDE DEF mode
  <2>13. e.skipped <=> skipped
    <3> HIDE DEF skipped
    <3> QED BY <2>5, <2>8, <2>12 DEF Editors
  <2>14. e.timer \/ last = Size(ed)
    <3> HIDE DEF skipped
    <3> QED BY <2>3, <2>5, <2>8, <2>12 DEF Editors
  <2>15. /\ e \in Editors /\ e.lines = w.lines /\ e.margin = w.margin /\ e.top = w.top
         /\ e.highlightFrontier = last /\ e.modeFrontier = mode
         /\ e.from = w.from /\ e.to = w.to /\ e.shown = w.shown
    <3> HIDE DEF skipped
    <3>1. /\ w \in Editors /\ last \in Nat /\ mode \in Nat
          /\ skipped \in BOOLEAN
      BY <2>8, <2>9, <2>11, <2>12
    <3>2. e \in Editors
      BY <2>5, <3>1 DEF Editors
    <3>3. /\ e.lines = w.lines /\ e.margin = w.margin /\ e.top = w.top
          /\ e.highlightFrontier = last /\ e.modeFrontier = mode
          /\ e.from = w.from /\ e.to = w.to /\ e.shown = w.shown
      BY <2>5, <3>1 DEF Editors
    <3> QED BY <3>2, <3>3
  <2>16. Shaped(e)
    BY <1>1, <2>8, <2>9, <2>11, <2>15 DEF Shaped, Size
  <2>17. SavedAbove(e.lines, Frontier(e))
    <3>1. Frontier(e) = Greater(last, mode)
      BY <2>15 DEF Frontier
    <3>2. Greater(Frontier(context.ed), last) \in Nat
      BY <2>9, <2>10 DEF Greater
    <3>3. \A i \in 1..Frontier(e) : i \in 1..Greater(Frontier(context.ed), last)
      BY <2>11, <3>1, <3>2
    <3> QED BY <2>8, <2>15, <3>3 DEF SavedAbove
  <2>18. Highlighted(e)
    <3>1. ~e.skipped => ~ed.skipped /\ ed.from <= n
      BY <1>1, <2>8, <2>9, <2>13
    <3> QED BY <2>8, <2>15, <3>1 DEF Highlighted
  <2>19. Viewed(e)
    BY <2>8, <2>15, ViewedIs
  <2>20. Unskipped(e)
    <3>1. ed.margin >= MaxLines => ~ed.skipped /\ ed.from = 0
      BY ViewIsWhole
    <3>2. ed.from = 0 => ~(n < ed.from)
      BY <2>9
    <3>3. e.margin >= MaxLines => ~e.skipped /\ e.from = 0
      BY <2>8, <2>13, <2>15, <3>1, <3>2
    <3> QED BY <3>3 DEF Unskipped
  <2>21. Due(e)
    <3>1. ed.to <= Size(ed)
      BY ViewIsWhole DEF Viewed
    <3>2. e.timer \/ e.highlightFrontier >= e.to
      BY <1>1, <2>8, <2>9, <2>14, <2>15, <3>1
    <3> QED BY <3>2 DEF Due
  <2>22. EditorInv(e)
    BY <2>16, <2>17, <2>18, <2>19, <2>20, <2>21 DEF EditorInv
  <2>23. EditorInv(ed') /\ Drawn(ed')
    BY <2>6, <2>22, DisplayIsUpdated
  <2> QED BY <2>23 DEF ViewInv
<1> QED BY <1>1, <1>2, <1>3

(* An editor that has just been created is right.                            *)
LEMMA InitInv ==
  ASSUME ViewInit
  PROVE  ViewInv
<1>1. PICK margin \in Margins : ed = UpdateDisplay(Open(<<"plain">>, margin))
  BY DEF ViewInit
<1>2. PICK e : e = Open(<<"plain">>, margin)
  OBVIOUS
<1>3. PICK lines : lines = [i \in DOMAIN <<"plain">> |-> Line(<<"plain">>[i])]
  OBVIOUS
<1>4. lines \in Seq(LineType) /\ Len(lines) = 1
  <2>1. DOMAIN <<"plain">> = 1..1 /\ \A i \in 1..1 : <<"plain">>[i] = "plain"
    OBVIOUS
  <2>2. Line("plain") \in LineType
    BY DEF Line, LineType, Known
  <2>3. lines \in [1..1 -> LineType]
    BY <1>3, <2>1, <2>2
  <2>4. PICK one \in Nat : one = 1
    OBVIOUS
  <2> QED BY <2>3, <2>4, IsSequence
<1>5. PICK none : none = <<>>
  OBVIOUS
<1>6. none \in Seq(Spans) /\ Len(none) = 0
  BY <1>5
<1>7. e = [lines |-> lines, top |-> 0, margin |-> margin, from |-> 0, to |-> 0,
           shown |-> none, highlightFrontier |-> 0, modeFrontier |-> 0,
           timer |-> FALSE, skipped |-> FALSE]
  BY <1>2, <1>3, <1>5 DEF Open
<1>8. /\ e \in Editors /\ e.lines = lines /\ e.from = 0 /\ e.to = 0 /\ e.shown = none
      /\ e.highlightFrontier = 0 /\ e.modeFrontier = 0 /\ ~e.skipped
  BY <1>4, <1>6, <1>7 DEF Editors
<1>9. Size(e) = 1 /\ 1 \in 1..MaxLines
  BY <1>4, <1>8, ViewAssumption DEF Size
<1>10. Shaped(e)
  BY <1>8, <1>9 DEF Shaped
<1>11. SavedAbove(e.lines, Frontier(e)) /\ Highlighted(e)
  BY <1>8 DEF SavedAbove, Frontier, Greater, Highlighted, StylesAbove
<1>12. Viewed(e)
  <2>1. Len(e.shown) = 0 /\ e.from <= e.to /\ e.to <= Size(e)
    BY <1>6, <1>8, <1>9
  <2> QED BY <1>8, <2>1 DEF Viewed
<1>13. EditorInv(e)
  BY <1>8, <1>10, <1>11, <1>12 DEF EditorInv, Unskipped, Due
<1>14. EditorInv(ed) /\ Drawn(ed)
  BY <1>1, <1>2, <1>13, DisplayIsUpdated
<1> QED BY <1>14 DEF ViewInv

-----------------------------------------------------------------------------
(* The theorems *)

(* ViewInv, on which the three results below rest, holds in every state of   *)
(* the editor: at first, and after each of its operations and each run of    *)
(* the worker.                                                               *)
THEOREM EditorViewCorrect == ViewSpec => []ViewInv
<1>1. ViewInv /\ [ViewNext]_ed => ViewInv'
  <2> SUFFICES ASSUME ViewInv, [ViewNext]_ed PROVE ViewInv'
    OBVIOUS
  <2>1. CASE EditLine
    BY <2>1, EditLineInv
  <2>2. CASE SplitLine
    BY <2>2, SplitLineInv
  <2>3. CASE JoinLines
    BY <2>3, JoinLinesInv
  <2>4. CASE SetValue
    BY <2>4, SetValueInv
  <2>5. CASE ResetModeState
    BY <2>5, ResetModeStateInv
  <2>6. CASE Scroll
    BY <2>6, ScrollInv
  <2>7. CASE ReadToken
    BY <2>7, ReadTokenInv
  <2>8. CASE HighlightWorker
    BY <2>8, HighlightWorkerInv
  <2>9. CASE UNCHANGED ed
    BY <2>9 DEF ViewInv
  <2> QED BY <2>1, <2>2, <2>3, <2>4, <2>5, <2>6, <2>7, <2>8, <2>9 DEF ViewNext
<1> QED BY <1>1, InitInv, PTL DEF ViewSpec

(* Whatever is edited, scrolled or read between two runs of the highlighting *)
(* worker, and wherever they end, a state saved after a line above one of    *)
(* the frontiers is the one that the whole text above gives.                 *)
THEOREM SavedStatesAreRight == ViewSpec => []FrontierSound
<1>1. ViewInv => FrontierSound
  <2> SUFFICES ASSUME ViewInv, NEW n \in 0..(Size(ed) - 1),
                      n < Greater(ed.highlightFrontier, ed.modeFrontier)
      PROVE  ed.lines[n + 1].after \in {"none", TrueBefore(ed.lines, n + 1)}
    BY DEF FrontierSound
  <2>1. Frontier(ed) \in Nat /\ n < Frontier(ed) /\ Size(ed) \in Nat
    BY EditorIs DEF ViewInv, EditorInv, Frontier
  <2>2. n + 1 \in 1..Frontier(ed)
    BY <2>1
  <2> QED BY <2>2 DEF ViewInv, EditorInv, SavedAbove
<1> QED BY <1>1, EditorViewCorrect, PTL

(* After every operation the view is of the lines it is numbered for, covers *)
(* what is visible, and draws each line with its text and cached styles.     *)
THEOREM TheViewIsOfTheDocument == ViewSpec => []ViewShowsDocument
<1>1. ViewInv => ViewShowsDocument
  <2> SUFFICES ASSUME ViewInv PROVE ViewShowsDocument
    OBVIOUS
  <2>1. /\ ed.from <= ed.top /\ Lesser(Size(ed), ed.top + Height) <= ed.to
        /\ \A i \in 1..(ed.to - ed.from) : ed.shown[i] # Blank
    BY DEF ViewInv, Drawn
  <2>2. /\ ed.to <= Size(ed) /\ Len(ed.shown) = ed.to - ed.from
        /\ \A i \in 1..(ed.to - ed.from) : Shows(ed.lines, ed.from, ed.shown, i)
    BY ViewIsWhole, ViewedIs DEF Viewed, ViewOf
  <2>3. DOMAIN ed.shown = 1..(ed.to - ed.from)
    <3>1. ed.shown \in Seq(Spans)
      BY EditorIs DEF ViewInv, EditorInv
    <3> QED BY <2>2, <3>1, SequenceIs
  <2>4. \A i \in DOMAIN ed.shown :
          ed.shown[i] = [text |-> ed.lines[ed.from + i].text,
                         styles |-> ed.lines[ed.from + i].styles]
    BY <2>1, <2>2, <2>3 DEF Shows
  <2> QED BY <2>1, <2>2, <2>4 DEF ViewShowsDocument
<1> QED BY <1>1, EditorViewCorrect, PTL

(* The worker is due or every line in view has the right highlighting,       *)
(* unless, with a margin smaller than the document, lines were scrolled out  *)
(* of view before the worker came to them.                                   *)
THEOREM SettledHighlightingIsRight == ViewSpec => []SettledIsRight
<1>1. ViewInv => SettledIsRight
  <2> SUFFICES ASSUME ViewInv, ~ed.timer, ~(ed.skipped /\ ed.margin < MaxLines),
                      NEW n \in ed.from..(ed.to - 1)
      PROVE  ed.lines[n + 1].styles = TrueBefore(ed.lines, n)
    BY DEF SettledIsRight
  <2>1. /\ ed.from \in Nat /\ ed.to \in Nat /\ ed.highlightFrontier \in Nat
        /\ ed.margin \in Nat /\ MaxLines \in Nat
    BY EditorIs, ViewAssumption DEF ViewInv, EditorInv
  <2>2. ed.highlightFrontier >= ed.to
    BY ViewIsWhole DEF Due
  <2>3. ~ed.skipped
    BY <2>1, ViewIsWhole
  <2>4. PICK i \in 1..(ed.to - ed.from) : ed.from + i = n + 1
    <3>1. n + 1 - ed.from \in 1..(ed.to - ed.from) /\ ed.from + (n + 1 - ed.from) = n + 1
      BY <2>1
    <3> QED BY <3>1
  <2>5. n + 1 \in 1..ed.highlightFrontier /\ (n + 1) - 1 = n
    BY <2>1, <2>2
  <2>6. ed.lines[n + 1].styles \in {"none", TrueBefore(ed.lines, n)}
    BY <2>3, <2>5, ViewIsWhole DEF Reliable, Highlighted, StylesAbove
  <2>7. ed.lines[n + 1].styles # "none"
    <3>1. ed.shown[i] # Blank
      BY DEF ViewInv, Drawn
    <3>2. Shows(ed.lines, ed.from, ed.shown, i)
      BY ViewIsWhole, ViewedIs DEF ViewOf
    <3> QED BY <2>4, <3>1, <3>2 DEF Shows
  <2> QED BY <2>6, <2>7
<1> QED BY <1>1, EditorViewCorrect, PTL
=============================================================================
