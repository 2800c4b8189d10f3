------------------------------ MODULE Presence ------------------------------
(***************************************************************************)
(* A stroke in progress, as its author publishes it and one watcher        *)
(* reassembles it (stark-engine presence.rs, peer.rs and the presence      *)
(* doors of engine/collab.rs).                                             *)
(*                                                                         *)
(* The author's path grows; its frozen prefix never moves again and the    *)
(* rest may move at every report.  A frame resends only what its watcher   *)
(* has not been told is final.  Frames are flooded: any of those ever      *)
(* published arrives at any time, in any order, many times or never.       *)
(* Clocks are abstracted: what a timeout does may happen at any time, and  *)
(* the heartbeat makes a frame possible at any time.                       *)
(*                                                                         *)
(* A control point is the number of the report that last placed it, which  *)
(* tells a point from every other point and from its own earlier places.   *)
(***************************************************************************)
EXTENDS Integers, FiniteSets, Sequences

CONSTANTS
  MaxRuns,     \* bound: runs of the author
  MaxFrames,   \* bound: frames published, over all runs
  MaxGestures, \* bound: gestures of one run
  MaxReports,  \* bound: pointer reports that move a stroke
  MaxPath      \* bound: control points of a path

VARIABLES
  run,     \* Identity.boot of the author
  shared,  \* whether the author is in the session
  ordinal, \* Session.gesture_ordinal
  hand,    \* Session.hand: [doing, path, frozen]
  reports, \* reports that moved a stroke, over all runs
  seq,     \* PresenceTx.seq
  tx,      \* GestureTx: [id, sent]
  sent,    \* the frames published
  drew,    \* history: the stroke each frame was encoded from
  peer     \* the watcher's Peer for the author, or NoPeer

vars == <<run, shared, ordinal, hand, reports, seq, tx, sent, drew, peer>>
author == <<run, shared, ordinal, hand, reports, seq, tx, sent, drew>>

None == -1

\* The larger and the smaller of two numbers.
Larger(a, b) == IF a > b THEN a ELSE b
Smaller(a, b) == IF a < b THEN a ELSE b

-----------------------------------------------------------------------------
(* The sending half. *)

IdleHand == [doing |-> "nothing", path |-> <<>>, frozen |-> 0]
NewTx == [id |-> None, sent |-> 0]
NoGesture == [id |-> None, region |-> FALSE, head |-> FALSE, from |-> 0, points |-> <<>>]

\* Mutant of Told: every point the frame carries counts as told for good.
ToldAll(resync) == [id |-> ordinal, sent |-> Len(hand.path)]

\* The watermarks after a stroke's frame: only frozen points count as sent.
Told(resync) == [id |-> ordinal, sent |-> Smaller(hand.frozen, Len(hand.path))]

\* Mutant of TxAfter: a region, sent whole, is not tracked.
TxAfterStrokesOnly(showing, resync) ==
  IF showing /\ hand.doing # "region" THEN Told(resync) ELSE NewTx

\* GestureTx after encode.
TxAfter(showing, resync) ==
  IF ~showing THEN NewTx
  ELSE IF hand.doing = "region" THEN [id |-> ordinal, sent |-> 0]
  ELSE Told(resync)

\* The gesture GestureTx.encode puts in a frame.
Encoded(showing, resync) ==
  LET fresh == resync \/ tx.id # ordinal
      from  == IF fresh THEN 0 ELSE Smaller(tx.sent, Len(hand.path))
  IN  IF ~showing THEN NoGesture
      ELSE IF hand.doing = "region" THEN [NoGesture EXCEPT !.id = ordinal, !.region = TRUE]
      ELSE [id |-> ordinal, region |-> FALSE, head |-> fresh, from |-> from,
            points |-> SubSeq(hand.path, from + 1, Len(hand.path))]

Frame(gesture, leaving) ==
  [boot |-> run, seq |-> seq + 1, gesture |-> gesture, leaving |-> leaving]

\* publish: a dragged region may be too small to show; a stroke always shows.
Publish ==
  /\ shared
  /\ Cardinality(sent) < MaxFrames
  /\ \E resync \in BOOLEAN,
        showing \in IF hand.doing = "region" THEN BOOLEAN ELSE {hand.doing # "nothing"} :
       /\ sent' = sent \cup {Frame(Encoded(showing, resync), FALSE)}
       /\ tx' = TxAfter(showing, resync)
  /\ seq' = seq + 1
  /\ drew' = IF hand.path = <<>> THEN drew
             ELSE drew \cup {[boot |-> run, seq |-> seq + 1, id |-> ordinal, path |-> hand.path]}
  /\ UNCHANGED <<run, shared, ordinal, hand, reports, peer>>

\* publish_leaving, on the way out of the session.
Leave ==
  /\ shared
  /\ Cardinality(sent) < MaxFrames
  /\ sent' = sent \cup {Frame(NoGesture, TRUE)}
  /\ seq' = seq + 1
  /\ shared' = FALSE
  /\ UNCHANGED <<run, ordinal, hand, reports, tx, drew, peer>>

\* adopt_identity, on the way back in: the run and its numbering go on.
Share ==
  /\ ~shared
  /\ shared' = TRUE
  /\ UNCHANGED <<run, ordinal, hand, reports, seq, tx, sent, drew, peer>>

\* Mutant of Restart: the run counter is not bumped.
RestartSameRun ==
  /\ run < MaxRuns
  /\ shared' = TRUE
  /\ ordinal' = 0 /\ seq' = 0
  /\ hand' = IdleHand
  /\ tx' = NewTx
  /\ UNCHANGED <<run, reports, sent, drew, peer>>

\* The author's client reloads: everything restarts but the stored run counter.
Restart ==
  /\ run < MaxRuns
  /\ run' = run + 1
  /\ shared' = TRUE
  /\ ordinal' = 0 /\ seq' = 0
  /\ hand' = IdleHand
  /\ tx' = NewTx
  /\ UNCHANGED <<reports, sent, drew, peer>>

-----------------------------------------------------------------------------
(* The author's hand. *)

NextOrdinal == ordinal' = ordinal + 1 /\ ordinal < MaxGestures
NextReport == reports' = reports + 1 /\ reports < MaxReports

\* The path with `n` points, all but the frozen ones where this report puts them.
Refit(n) == [i \in 1..n |-> IF i <= hand.frozen THEN hand.path[i] ELSE reports + 1]

\* start_stroke, over whatever the hand was doing.
StartStroke ==
  /\ NextOrdinal /\ NextReport
  /\ hand' = [doing |-> "stroke", path |-> <<reports + 1>>, frozen |-> 0]
  /\ UNCHANGED <<run, shared, seq, tx, sent, drew, peer>>

StartRegion ==
  /\ NextOrdinal
  /\ hand' = [IdleHand EXCEPT !.doing = "region"]
  /\ UNCHANGED <<run, shared, reports, seq, tx, sent, drew, peer>>

\* gesture_to: the fit moves its free window and freezes what leaves it.
Report ==
  /\ hand.doing = "stroke"
  /\ NextReport
  /\ \E n \in Larger(hand.frozen, 1)..MaxPath : \E f \in hand.frozen..n :
       hand' = [hand EXCEPT !.path = Refit(n), !.frozen = f]
  /\ UNCHANGED <<run, shared, ordinal, seq, tx, sent, drew, peer>>

\* A snapped stroke is steered: every point moves and none is final.
Steer ==
  /\ hand.doing = "snapped"
  /\ NextReport
  /\ \E n \in 1..MaxPath : hand' = [hand EXCEPT !.path = Refit(n)]
  /\ UNCHANGED <<run, shared, ordinal, seq, tx, sent, drew, peer>>

\* assist_stroke: the path is replaced, which makes it another gesture.
Snap ==
  /\ hand.doing = "stroke"
  /\ NextOrdinal /\ NextReport
  /\ \E n \in 1..MaxPath :
       hand' = [doing |-> "snapped", path |-> [i \in 1..n |-> reports + 1], frozen |-> 0]
  /\ UNCHANGED <<run, shared, seq, tx, sent, drew, peer>>

\* end_gesture or cancel_stroke.
End ==
  /\ hand.doing # "nothing"
  /\ hand' = IdleHand
  /\ UNCHANGED <<run, shared, ordinal, reports, seq, tx, sent, drew, peer>>

-----------------------------------------------------------------------------
(* The receiving half. *)

NoAssembly == [path |-> <<>>, frozen |-> 0, last |-> None]
IdleRx == [id |-> None, region |-> FALSE, assembly |-> NoAssembly]
NoPeer == [boot |-> None, seq |-> None, rx |-> IdleRx]

Drawing(rx) == rx.region \/ rx.assembly # NoAssembly

\* Mutant of Opening: a head starts the watermark over.
OpeningAtZero(held) == NoAssembly

\* Assembly::opening: an empty path, the watermark carried over.
Opening(held) == [NoAssembly EXCEPT !.frozen = held.frozen]

\* Mutant of Continues: any later delta is spliced.
ContinuesAnyway(held, frame) == held.last # None

\* A delta is safe only right after the frame that was spliced before it.
Continues(held, frame) == held.last # None /\ held.last + 1 = frame.seq

\* Assembly::splice.
Spliced(held, frame) ==
  LET g     == frame.gesture
      whole == g.head /\ g.from = 0
      path  == SubSeq(held.path, 1, g.from) \o g.points
  IN  IF (~whole /\ ~Continues(held, frame)) \/ g.from > Len(held.path) THEN held
      ELSE [path |-> path, last |-> frame.seq,
            frozen |-> Smaller(Larger(held.frozen, g.from), Len(path))]

\* Mutant of Tracked: the ordinal is not asked about.
TrackedAnyway(rx, id) == rx

\* Another ordinal is another gesture: what was drawn for the last one goes.
Tracked(rx, id) == IF rx.id = id THEN rx ELSE IdleRx

\* GestureRx::apply, or clear for a frame without a gesture.  A delta under a
\* region's ordinal leaves the region; one that finds no head draws nothing.
Applied(rx, frame) ==
  LET g    == frame.gesture
      was  == Tracked(rx, g.id)
      held == IF g.head THEN Opening(was.assembly) ELSE was.assembly
      new  == IF held = NoAssembly /\ ~g.head THEN NoAssembly ELSE Spliced(held, frame)
  IN  IF g.id = None THEN IdleRx
      ELSE IF g.region THEN [IdleRx EXCEPT !.id = g.id, !.region = TRUE]
      ELSE IF was.region /\ ~g.head THEN was
      ELSE [id |-> g.id, region |-> FALSE, assembly |-> new]

Newer(frame) ==
  \/ frame.boot > peer.boot
  \/ /\ frame.boot = peer.boot
     /\ frame.seq > peer.seq

\* Peers::merge: a new run of the author carries nothing of the last one over.
Merge ==
  \E frame \in sent :
    /\ peer = NoPeer \/ Newer(frame)
    /\ peer' = IF frame.leaving THEN NoPeer
               ELSE [boot |-> frame.boot, seq |-> frame.seq,
                     rx |-> Applied(IF frame.boot = peer.boot THEN peer.rx ELSE IdleRx, frame)]
    /\ UNCHANGED author

\* The author's gesture comes down: stalled past GESTURE_TIMEOUT (tick), or an
\* action of theirs was merged (clear_gesture).
TakeDown ==
  /\ Drawing(peer.rx)
  /\ peer' = [peer EXCEPT !.rx = IdleRx]
  /\ UNCHANGED author

\* Silent past PEER_TIMEOUT (tick), or the watcher left the session (clear).
Forget ==
  /\ peer # NoPeer
  /\ peer' = NoPeer
  /\ UNCHANGED author

Init ==
  /\ run = 1 /\ shared = TRUE
  /\ ordinal = 0 /\ hand = IdleHand /\ reports = 0
  /\ seq = 0 /\ tx = NewTx
  /\ sent = {} /\ drew = {}
  /\ peer = NoPeer

Next ==
  \/ StartStroke \/ StartRegion \/ Report \/ Steer \/ Snap \/ End
  \/ Publish \/ Leave \/ Share \/ Restart
  \/ Merge \/ TakeDown \/ Forget

Spec == Init /\ [][Next]_vars

-----------------------------------------------------------------------------
(* Properties. *)

Path == Seq(Nat)
Id == Nat \cup {None}
Gesture == [id : Id, region : BOOLEAN, head : BOOLEAN, from : Nat, points : Path]
FrameType == [boot : Nat, seq : Nat, gesture : Gesture, leaving : BOOLEAN]
DrawnType == [boot : Nat, seq : Nat, id : Nat, path : Path]
AssemblyType == [path : Path, frozen : Nat, last : Id]
Rx == [id : Id, region : BOOLEAN, assembly : AssemblyType]

\* Only a stroke has a path, its frozen count indexes it, and nothing of a
\* snapped one is frozen.
TypeOK ==
  /\ run \in Nat /\ ordinal \in Nat /\ reports \in Nat /\ seq \in Nat
  /\ hand \in [doing : {"nothing", "stroke", "snapped", "region"}, path : Path, frozen : Nat]
  /\ hand.frozen <= Len(hand.path)
  /\ hand.doing \in {"stroke", "snapped"} <=> hand.path # <<>>
  /\ hand.doing = "snapped" => hand.frozen = 0
  /\ tx \in [id : Id, sent : Nat]
  /\ sent \subseteq FrameType
  /\ drew \subseteq DrawnType
  /\ peer \in [boot : Id, seq : Id, rx : Rx]

\* Whatever was lost, reordered or repeated, the stroke a watcher holds is the
\* very path its author had when the last frame spliced in was encoded: no
\* point of another gesture, another run or an earlier fit is left in it.
HeldPathWasTheAuthors ==
  peer.rx.assembly # NoAssembly =>
    \E d \in drew :
      /\ d.boot = peer.boot /\ d.seq = peer.rx.assembly.last
      /\ d.id = peer.rx.id /\ d.path = peer.rx.assembly.path

\* A control point below the watcher's watermark is one its author never moves
\* again, so the repaint that retires it is right to.
FrozenPointsAgree ==
  LET a == peer.rx.assembly
  IN  \A d \in drew :
        d.boot = peer.boot /\ d.id = peer.rx.id /\ a # NoAssembly /\ d.seq >= a.last =>
          SubSeq(d.path, 1, a.frozen) = SubSeq(a.path, 1, a.frozen)

\* A watcher that has heard the newest frame draws the gesture that frame is
\* of, or nothing.
NewestFrameRules ==
  \A f \in sent :
    f.boot = peer.boot /\ f.seq = peer.seq /\ Drawing(peer.rx) => peer.rx.id = f.gesture.id

\* While the newest frame of a run still carries a gesture, the sender knows it
\* does, so the frame that takes it down is owed (publish_due, in_flight).
ClearingFrameIsOwed ==
  \A f \in sent :
    f.boot = run /\ f.seq = seq /\ f.gesture.id # None => tx.id = f.gesture.id

\* Within one gesture the watermark never walks back, resync or not: a receiver
\* keeps its side whatever the sender's cadence, which is off in the shipped build
\* (GESTURE_RESYNC, stark-model peer.rs:46).
WatermarkAdvances ==
  [][LET was == peer.rx
         is  == peer'.rx
     IN  peer.boot = peer'.boot /\ was.id = is.id
         /\ was.assembly # NoAssembly /\ is.assembly # NoAssembly =>
           is.assembly.frozen >= was.assembly.frozen]_vars
=============================================================================
