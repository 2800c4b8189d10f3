----------------------- MODULE MCReplicatedTimeline -----------------------
(* Two painters and up to three kinds of edit, whose footprints meet or do *)
(* not: `strokeA` and `strokeB` paint disjoint tiles, `substrate` is what  *)
(* both read (the tooth).                                                  *)
EXTENDS ReplicatedTimeline

CONSTANTS strokeA, strokeB, substrate, tileA, tileB, tooth

MCActor == {1, 2}
MCCell == {tileA, tileB, tooth}
MCReads == [k \in Kind |-> IF k = substrate THEN {} ELSE {tooth}]
MCWrites ==
  [k \in Kind |-> CASE k = strokeA   -> {tileA}
                    [] k = strokeB   -> {tileB}
                    [] k = substrate -> {tooth}]
=============================================================================
