------------------------------ MODULE LineTree ------------------------------
(***************************************************************************)
(* CodeMirror keeps the lines of a document in a tree: leaves hold lines,  *)
(* branches hold leaves or branches and the number of lines below them.    *)
(* Every change of a document is insertions and removals of lines here,    *)
(* and every line number of penguinTrace's markers and highlights is found *)
(* here.  The tree is a value: a node that the code changes in place is    *)
(* the value that replaces it, and a line is told from another by its      *)
(* number only while an operation runs.                                    *)
(***************************************************************************)
EXTENDS Integers, Sequences, SequencesExt

CONSTANTS
  HalfLeaf,   \* 25: a leaf has at most twice as many lines
  HalfFan,    \* 5: a branch has at most twice as many children
  MaxLines,   \* lines of a document
  MaxInsert   \* lines of one insertion

VARIABLE tree   \* the root, which is the document itself

Leaf(lines) ==
  [leaf |-> TRUE, lines |-> lines, children |-> <<>>, size |-> Len(lines)]

SizeOf(children) == FoldLeft(LAMBDA n, c : n + c.size, 0, children)

Branch(children) ==
  [leaf |-> FALSE, lines |-> <<>>, children |-> children, size |-> SizeOf(children)]

RECURSIVE Lines(_)
\* The lines below a node, as collapse gathers them.
Lines(node) ==
  IF node.leaf THEN node.lines
  ELSE FlattenSeq([i \in DOMAIN node.children |-> Lines(node.children[i])])

-----------------------------------------------------------------------------
(* Insertion *)

\* Consecutive parts of s: the first has what is left, the others n each.
Parts(s, first, n) ==
  LET more == (Len(s) - first) \div n IN
  <<SubSeq(s, 1, first)>> \o
    [i \in 1..more |-> SubSeq(s, first + (i - 1) * n + 1, first + i * n)]

\* What replaces a leaf that has grown: of the rest of the division, the first
\* part has HalfLeaf lines more.
SplitLeaf(leaf) ==
  IF Len(leaf.lines) <= 2 * HalfLeaf THEN <<leaf>>
  ELSE LET parts == Parts(leaf.lines, (Len(leaf.lines) % HalfLeaf) + HalfLeaf, HalfLeaf)
       IN [i \in DOMAIN parts |-> Leaf(parts[i])]

\* The number of children that stay: HalfFan are taken off until few are left.
Staying(n) == CHOOSE m \in (HalfFan + 1)..(2 * HalfFan) : (n - m) % HalfFan = 0

\* A mutant leaves the branch that spills the size it had.
SpilledWhole(node) ==
  IF Len(node.children) <= 2 * HalfFan THEN <<node>>
  ELSE LET parts == Parts(node.children, Staying(Len(node.children)), HalfFan)
       IN <<[node EXCEPT !.children = parts[1]]>>
            \o [i \in 1..(Len(parts) - 1) |-> Branch(parts[i + 1])]

\* maybeSpill: what replaces a branch that has grown.  Its own size is what its
\* siblings do not take.
Spilled(node) ==
  LET n == Len(node.children) IN
  IF n <= 2 * HalfFan THEN <<node>>
  ELSE LET parts == Parts(node.children, Staying(n), HalfFan)
           siblings == [i \in 1..(Len(parts) - 1) |-> Branch(parts[i + 1])]
       IN <<[node EXCEPT !.children = parts[1], !.size = @ - SizeOf(siblings)]>>
            \o siblings

\* The child that takes an insertion is the first that ends at or after it.
Taker(children, at) ==
  CHOOSE i \in DOMAIN children :
    /\ at <= SizeOf(SubSeq(children, 1, i))
    /\ \A j \in 1..(i - 1) : at > SizeOf(SubSeq(children, 1, j))

RECURSIVE InsertInner(_, _, _), InsertBelow(_, _, _)
\* What replaces a node that takes an insertion.
InsertInner(node, at, lines) ==
  IF node.leaf
  THEN SplitLeaf(Leaf(SubSeq(node.lines, 1, at) \o lines
                       \o SubSeq(node.lines, at + 1, Len(node.lines))))
  ELSE Spilled(InsertBelow(node, at, lines))

InsertBelow(node, at, lines) ==
  LET i == Taker(node.children, at)
      before == SubSeq(node.children, 1, i - 1)
  IN [node EXCEPT
       !.size = @ + Len(lines),
       !.children = before
         \o InsertInner(node.children[i], at - SizeOf(before), lines)
         \o SubSeq(@, i + 1, Len(@))]

RECURSIVE Grown(_)
\* The root that has too many children gets a level between.
Grown(root) ==
  IF Len(root.children) <= 2 * HalfFan THEN root
  ELSE Grown([root EXCEPT !.children = Spilled(Branch(@))])

Insert(root, at, lines) == Grown(InsertBelow(root, at, lines))

-----------------------------------------------------------------------------
(* Removal *)

\* A small branch is collapsed into one leaf.
Collapsed(node) ==
  IF /\ node.size < HalfLeaf
     /\ Len(node.children) # 1 \/ ~node.children[1].leaf
  THEN [node EXCEPT
         !.children = <<Leaf(FlattenSeq([i \in DOMAIN @ |-> Lines(@[i])]))>>]
  ELSE node

Least(a, b) == IF a < b THEN a ELSE b

RECURSIVE RemoveInner(_, _, _), RemoveFrom(_, _, _)
RemoveInner(node, at, n) ==
  IF node.leaf
  THEN Leaf(SubSeq(node.lines, 1, at)
             \o SubSeq(node.lines, at + n + 1, Len(node.lines)))
  ELSE Collapsed([node EXCEPT !.size = @ - n, !.children = RemoveFrom(@, at, n)])

\* A child that loses all its lines goes; the next one goes on from its start.
RemoveFrom(children, at, n) ==
  IF n = 0 \/ children = <<>> THEN children
  ELSE
    LET child == Head(children)
        rm == Least(n, child.size - at)
    IN IF at >= child.size
       THEN <<child>> \o RemoveFrom(Tail(children), at - child.size, n)
       ELSE (IF rm = child.size THEN <<>> ELSE <<RemoveInner(child, at, rm)>>)
              \o RemoveFrom(Tail(children), 0, n - rm)

-----------------------------------------------------------------------------
(* Lookup *)

RECURSIVE GetLine(_, _)
\* getLine: down by the sizes.
GetLine(node, n) ==
  IF node.leaf THEN node.lines[n + 1]
  ELSE LET i == Taker(node.children, n + 1)
       IN GetLine(node.children[i], n - SizeOf(SubSeq(node.children, 1, i - 1)))

RECURSIVE LineNo(_, _)
\* lineNo: up by the sizes of the siblings before.
LineNo(node, line) ==
  IF node.leaf THEN (CHOOSE i \in DOMAIN node.lines : node.lines[i] = line) - 1
  ELSE LET i == CHOOSE j \in DOMAIN node.children :
                  line \in ToSet(Lines(node.children[j]))
       IN SizeOf(SubSeq(node.children, 1, i - 1)) + LineNo(node.children[i], line)

RECURSIVE IterN(_, _, _), IterFrom(_, _, _)
\* iterN: the lines visited by an operation that does not stop it.
IterN(node, at, n) ==
  IF node.leaf THEN SubSeq(node.lines, at + 1, at + n)
  ELSE IterFrom(node.children, at, n)

IterFrom(children, at, n) ==
  IF n = 0 \/ children = <<>> THEN <<>>
  ELSE
    LET child == Head(children)
        used == Least(n, child.size - at)
    IN IF at >= child.size THEN IterFrom(Tail(children), at - child.size, n)
       ELSE IterN(child, at, used) \o IterFrom(Tail(children), 0, n - used)

-----------------------------------------------------------------------------
(* The document *)

RECURSIVE Renumbered(_, _)
\* The lines of a tree as a document of its own, numbered from first.
Renumbered(node, first) ==
  IF node.leaf THEN [node EXCEPT !.lines = [i \in DOMAIN @ |-> first + i - 1]]
  ELSE [node EXCEPT !.children = [i \in DOMAIN @ |->
         Renumbered(@[i], first + Len(Lines(Branch(SubSeq(@, 1, i - 1)))))]]

Fresh(n) == [i \in 1..n |-> MaxLines + i]

Init == tree = Branch(<<Leaf(<<1>>)>>)

InsertLines ==
  \E at \in 0..tree.size, n \in 1..MaxInsert :
    /\ tree.size + n <= MaxLines
    /\ tree' = Renumbered(Insert(tree, at, Fresh(n)), 1)

\* A document keeps a line.
RemoveLines ==
  \E at \in 0..(tree.size - 1) : \E n \in 1..(tree.size - at) :
    n < tree.size /\ tree' = Renumbered(RemoveInner(tree, at, n), 1)

Next == InsertLines \/ RemoveLines

Spec == Init /\ [][Next]_tree

-----------------------------------------------------------------------------
(* The tree is a sequence of lines: every insertion and removal, wherever it *)
(* falls among leaves and branches, leaves the lines a sequence would have,  *)
(* and lines are found by number, numbered and visited as in a sequence.     *)
TreeIsSequence ==
  LET doc == Lines(tree) IN
  /\ Len(doc) = tree.size
  /\ \A at \in 0..tree.size, n \in 1..MaxInsert : tree.size + n <= MaxLines =>
       Lines(Insert(tree, at, Fresh(n)))
         = SubSeq(doc, 1, at) \o Fresh(n) \o SubSeq(doc, at + 1, Len(doc))
  /\ \A at \in 0..(tree.size - 1) : \A n \in 1..(tree.size - at) :
       /\ Lines(RemoveInner(tree, at, n))
            = SubSeq(doc, 1, at) \o SubSeq(doc, at + n + 1, Len(doc))
       /\ IterN(tree, at, n) = SubSeq(doc, at + 1, at + n)
  /\ \A at \in 0..(tree.size - 1) :
       GetLine(tree, at) = doc[at + 1] /\ LineNo(tree, doc[at + 1]) = at
=============================================================================
