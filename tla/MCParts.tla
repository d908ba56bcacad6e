------------------------------ MODULE MCParts ------------------------------
(***************************************************************************)
(* The reader of requests in the web server, a request of the page and     *)
(* three parts of its editor share no state, and are small beside the      *)
(* systems they serve in.  Each behaviour of this instance is one of one   *)
(* of them; the others stay as they begin.                                 *)
(***************************************************************************)
EXTENDS RequestReader, EditorView, AjaxRequest

VARIABLES part, tree, doc

Tree ==
  INSTANCE LineTree WITH HalfLeaf <- 2, HalfFan <- 2, MaxLines <- 9, MaxInsert <- 9

\* Few selections over texts of two letters, and longer histories of one.
Edits ==
  INSTANCE EditHistory WITH Letters <- {"a", "b"}, UndoDepths <- {2, 4},
                            MaxSelections <- 2, MaxChanges <- 2

LongEdits ==
  INSTANCE EditHistory WITH Letters <- {"a"}, UndoDepths <- {2, 4},
                            MaxSelections <- 4, MaxChanges <- 3

Shortest == [method |-> "GET", header |-> 1, content |-> 0, given |-> FALSE]

PartsInit ==
  /\ part \in {"reader", "tree", "edits", "long edits", "view", "ajax"}
  /\ Init /\ (part # "reader" => request = Shortest)
  /\ Edits!Init /\ (part \notin {"edits", "long edits"} => doc.undoDepth = 2)
  /\ ViewInit /\ (part # "view" => ed.margin = 0)
  /\ Tree!Init /\ AjaxInit

PartsNext ==
  /\ UNCHANGED part
  /\ \/ part = "reader" /\ Next /\ UNCHANGED <<tree, doc, ed, ajax>>
     \/ part = "tree" /\ Tree!Next /\ UNCHANGED <<vars, doc, ed, ajax>>
     \/ part = "edits" /\ Edits!Next /\ UNCHANGED <<vars, tree, ed, ajax>>
     \/ part = "long edits" /\ LongEdits!Next /\ UNCHANGED <<vars, tree, ed, ajax>>
     \/ part = "view" /\ ViewNext /\ UNCHANGED <<vars, tree, doc, ajax>>
     \/ part = "ajax" /\ AjaxNext /\ UNCHANGED <<vars, tree, doc, ed>>

PartsSpec == PartsInit /\ [][PartsNext]_<<part, vars, tree, doc, ed, ajax>>

-----------------------------------------------------------------------------
(* What each part promises while it is the one that runs.                    *)

(* The lines of a document are found, visited and changed as in a sequence,  *)
(* wherever they lie in the editor's tree of chunks.                         *)
TreeIsSequence == part = "tree" => Tree!TreeIsSequence

(* Recorded selections and inverse changes fit the texts they come back to.  *)
HistoryFitsTexts == part \in {"edits", "long edits"} => Edits!HistoryFitsTexts

(* Undoing and redoing move along the texts the document has had.            *)
UndoRestoresTexts == Edits!UndoRestoresTexts
=============================================================================
