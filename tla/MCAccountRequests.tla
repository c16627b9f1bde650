-------------------------- MODULE MCAccountRequests --------------------------
(***************************************************************************)
(* Small instances of AccountRequests: submissions for one address and one *)
(* manufacturer, which is where they get in each other's way.              *)
(***************************************************************************)
EXTENDS AccountRequests, TLC

CONSTANTS e1, m1

MCCall == Client \X (1..(MaxRetries + 1))
OneEmail == {e1}
OneMaker == {m1}
SameEmail == [c \in Call |-> e1]
SameMaker == [c \in Call |-> m1]

AllFail == {"find", "create", "insert", "claims", "reset", "queue", "undo"}
UndoWorks == AllFail \ {"undo"}
AllLose == {"create", "insert", "claims", "queue", "undo"}
ClaimsInsertUndo == {"insert", "claims", "undo"}

(* Submissions differ only by name.                                        *)
ClientSymmetry == Permutations(Client)
=============================================================================
