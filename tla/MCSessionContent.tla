--------------------------- MODULE MCSessionContent ---------------------------
(* Three members; a substrate every build ships, one somebody imported, and a  *)
(* brush.                                                                      *)
EXTENDS SessionContent
CONSTANTS host, guest, other, shipped, imported, stamp
MCMember == {host, guest, other}
MCSubstrate == {shipped, imported}
=============================================================================
