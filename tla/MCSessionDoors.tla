--------------------------- MODULE MCSessionDoors ---------------------------
(* This client and two others: with two, one can hold an action of this      *)
(* client's that the one serving its return lacks.                           *)
EXTENDS SessionDoors

MCOther == {2, 3}
MCBoth == {"web", "native"}
MCWeb == {"web"}
=============================================================================
