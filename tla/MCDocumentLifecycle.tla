------------------------- MODULE MCDocumentLifecycle -------------------------
(* One kind of edit, over everything there is: no two of them commute, so    *)
(* two walks show the same document only if they are the same walk.          *)
EXTENDS DocumentLifecycle

CONSTANT edit

MCActor == {0, 1, 2}
MCCell == {"paper"}
MCReads == [k \in Kind |-> {}]
MCWrites == [k \in Kind |-> MCCell]
==============================================================================
