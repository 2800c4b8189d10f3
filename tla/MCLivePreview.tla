--------------------------- MODULE MCLivePreview ---------------------------
(* Three scenes. "brushes": the local hand alone, with every brush, hovers    *)
(* and snaps. "doors": one plain stroke under a document that commits, undo,  *)
(* a peer's actions, a held edit and a late texture change. "together": a     *)
(* peer's gesture and this client's, on the same two tiles.                   *)
EXTENDS LivePreview

CONSTANT Scenes

MCCurves == [a \in Actor |-> IF a = Me THEN {<<1>>, <<1, 2>>, <<2, 1>>, <<1, 2, 2>>} ELSE {<<1>>, <<2>>}]
MCTaper == [b \in Brush |-> IF b = "tapered" THEN 2 ELSE 0]
MCLimit == [b \in Brush |-> IF b = "broad" THEN 2 ELSE 3]

VARIABLE scene

MCInit == Init /\ scene \in Scenes

Plain == \A a \in Actor : Gestures'[a].brush \in {"none", "plain"}

Still == preview'.held = None /\ tooth' = 0 /\ revision' < MaxRevision

MCNext ==
    /\ Next
    /\ scene' = scene
    /\ scene = "brushes" => Still /\ hand'.kind \notin {"fill", "marquee"} /\ peers' = peers
    /\ scene = "doors" => Plain /\ ordinals'[Me] < MaxOrdinal /\ hand'.path # <<2, 1>> /\ peers' = peers
    /\ scene = "together" =>
        /\ Plain /\ Still /\ ~arrived'
        /\ hand'.kind \notin {"hover", "marquee"} /\ hand'.path # <<2, 1>>
        /\ \A p \in Peer : peers'[p].kind # "marquee"

MCSpec == MCInit /\ [][MCNext]_<<vars, scene>>
=============================================================================
