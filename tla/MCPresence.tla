----------------------------- MODULE MCPresence -----------------------------
(***************************************************************************)
(* Presence under a name of its own, so that what one peer keeps of the    *)
(* others - its waitlist and its roster - can be reasoned of together:     *)
(* both have an Init, a Next and a state called by the same names.         *)
(***************************************************************************)

CONSTANTS MaxRuns, MaxFrames, MaxGestures, MaxReports, MaxPath
VARIABLES run, shared, ordinal, hand, reports, seq, tx, sent, drew, peer

P == INSTANCE Presence

PresenceSpec == P!Spec

\* However frames were lost, reordered and repeated, the path a watcher holds
\* is one its author had (Assembly::splice).
HeldPathWasTheAuthors == P!HeldPathWasTheAuthors

\* A point below the watcher's watermark is never moved again (GestureTx::encode).
FrozenPointsAgree == P!FrozenPointsAgree

\* Who has heard the newest frame draws its gesture or none (GestureRx::apply).
NewestFrameRules == P!NewestFrameRules

\* The frame that takes a gesture down is owed while one carries it (publish_due).
ClearingFrameIsOwed == P!ClearingFrameIsOwed

\* No step lowers the watermark of a gesture still held (Assembly::opening).
WatermarkAdvances == P!WatermarkAdvances
=============================================================================
