----------------------------- MODULE MCWaitlist -----------------------------
(* A stroke and a substrate change from peers, a stroke whose author had no   *)
(* hash for its brush, and an undo of this peer's own.                        *)
EXTENDS Waitlist, TLC

CONSTANTS tip, paper, stroke, switch, mine

MCContentOf == [a \in Action |-> CASE a = stroke -> tip [] a = switch -> paper [] OTHER -> NoNeed]
==============================================================================
