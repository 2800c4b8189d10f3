-------------------------- MODULE DocumentLifecycle --------------------------
(***************************************************************************)
(* One client's document from opening to saving: the solo timeline         *)
(* (LinearTimeline, stark-engine fold/timeline.rs) with its playhead and   *)
(* its retention, sharing and leaving a session (engine/collab.rs), saving *)
(* and loading (engine/file.rs).                                           *)
(*                                                                         *)
(* While shared, the timeline is what ReplicatedTimeline's invariants say  *)
(* of it: the materialization of the log.  The peers are one other author  *)
(* whose actions arrive at any time.                                       *)
(***************************************************************************)
EXTENDS DocFold, SequencesExt

CONSTANTS Solo,          \* ActorId::SOLO
          Me,            \* this client's own actor
          Peer,          \* everybody else
          MinUndoDepth,  \* MIN_UNDO_DEPTH
          MaxClock,      \* bound: Lamport time
          MaxResets      \* bound: files opened, none saved past it

ASSUME LifecycleAssumption ==
  /\ {Solo, Me, Peer} \subseteq Actor
  /\ Solo # Me /\ Solo # Peer /\ Me # Peer
  /\ MinUndoDepth \in Nat

VARIABLES
  shared,     \* which Timeline it is, and whether the outbox is open
  log,        \* ReplicatedTimeline.log; empty when solo
  history,    \* the materialization: [acts, docs]
  forgotten,  \* LinearTimeline.forgotten: actions folded into docs[1]
  redo,       \* LinearTimeline.redo, the next one last
  author,     \* Authoring.actor
  clock,      \* Authoring.clock
  issued,     \* every action this document was ever given
  file,       \* the file saved last: [actions, shown], and whether it is settled
  resets      \* how many files were opened

vars == <<shared, log, history, forgotten, redo, author, clock, issued, file, resets>>

\* A file that has not been saved yet.
NoFile == [actions |-> {}, shown |-> Origin, settled |-> TRUE]

Ids(actions) == {a.id : a \in actions}

\* LinearTimeline::actions: the folded prefix, then the live history.
Whole == forgotten \o history.acts

\* clone_actions: the walk of a solo timeline, the full log of a shared one.
CloneActions == IF shared THEN log ELSE ToSet(Whole)

\* The document of the effective actions of a log, in order.
Materialized(actions) ==
  LET acts == EffectiveActions(actions, UndoneIds(actions))
  IN  [acts |-> acts, docs |-> Replay(Origin, acts)]

TargetsNow == Targets(log, author, UndoneIds(log))

Init ==
  /\ shared = FALSE
  /\ log = {}
  /\ history = NewHistory(Origin)
  /\ forgotten = <<>>
  /\ redo = <<>>
  /\ author = Solo
  /\ clock = 0
  /\ issued = {}
  /\ file = NoFile
  /\ resets = 0

NextId == [lamport |-> clock, actor |-> author]

Newest(actions) == Max({a.id.lamport : a \in actions})

\* resync_counters.
ClockPast(actions) == IF actions = {} THEN 0 ELSE Newest(actions) + 1

-----------------------------------------------------------------------------
(* The solo timeline                                                        *)

\* Mutant of Forgotten: what is folded away is no longer reported.
ForgottenDropped(h, n) == forgotten

\* The folded prefix once n more actions are folded.
Forgotten(h, n) == forgotten \o SubSeq(h.acts, 1, n)

\* forget_oldest: the first n snapshots and the actions between them.
ForgetOldest(h, n) ==
  /\ history' = [acts |-> SubSeq(h.acts, n + 1, Len(h.acts)),
                 docs |-> SubSeq(h.docs, n + 1, Len(h.docs))]
  /\ forgotten' = Forgotten(h, n)

\* trim_history: how much goes when the tiles are over the budget.
Excess(h) ==
  IF Len(h.acts) > MinUndoDepth
  THEN Min({Len(h.acts) \div 2, Len(h.acts) - MinUndoDepth}) ELSE 0

CommitSolo(a) ==
  /\ ~shared
  /\ redo' = <<>>
  /\ \E n \in {0, Excess(PushAll(history, <<a>>))} :
       ForgetOldest(PushAll(history, <<a>>), n)
  /\ UNCHANGED log

Grow(actions) ==
  /\ log' = log \cup actions
  /\ history' = Materialized(log \cup actions)
  /\ UNCHANGED <<redo, forgotten>>

CommitShared(a) == shared /\ Grow({a})

\* commit_sanitized, under the next id.
CommitAs(target, kind) ==
  LET a == [id |-> NextId, target |-> target, kind |-> kind]
  IN  /\ clock < MaxClock
      /\ CommitSolo(a) \/ CommitShared(a)
      /\ clock' = clock + 1
      /\ issued' = issued \cup {a}
      /\ UNCHANGED <<shared, author, file, resets>>

Commit(kind) == CommitAs(NoId, kind)

\* A shared step is a logged Undo of its target.
LogStep(target) == shared /\ target # NoId /\ CommitAs(target, UndoKind)

\* A solo step moves the playhead and nothing else.
Moved(h, withheld) ==
  /\ ~shared
  /\ history' = h
  /\ redo' = withheld
  /\ UNCHANGED <<shared, log, forgotten, author, clock, issued, file, resets>>

UndoSolo == /\ history.acts # <<>>
            /\ Moved(Rewind(history, Len(history.acts) - 1),
                     Append(redo, Last(history.acts)))

RedoSolo == /\ redo # <<>>
            /\ Moved(PushAll(history, <<Last(redo)>>), Front(redo))

\* Mutant of Batch: the tail of the redo stack as it is stored.
BatchUnreversed(n) == SubSeq(redo, Len(redo) - n + 1, Len(redo))

\* The n actions a scrub forward re-applies, in order.
Batch(n) == Reverse(SubSeq(redo, Len(redo) - n + 1, Len(redo)))

\* seek: undo or redo in bulk, to the playhead `to`.
Seek(to) ==
  LET applied == Len(history.acts) IN
  /\ to # applied
  /\ IF to < applied
     THEN Moved(Rewind(history, to),
                redo \o Reverse(SubSeq(history.acts, to + 1, applied)))
     ELSE Moved(PushAll(history, Batch(to - applied)),
                SubSeq(redo, 1, Len(redo) - (to - applied)))

-----------------------------------------------------------------------------
(* Sessions                                                                 *)

\* Mutant of Authored: the solo author's ids go into the session as they are.
AuthoredAsIs(a) == a

\* SOLO's actions become this client's own on the way into a session.
Authored(a) == LET mine(id) == IF id.actor = Solo THEN [id EXCEPT !.actor = Me] ELSE id
               IN  [a EXCEPT !.id = mine(@)]

\* Mutant of ClockShared: a host resumes the clock past the log it shares.
ClockResynced(actions) == ClockPast(actions)

\* A host keeps its clock.
ClockShared(actions) == clock

\* from_log: sorted, and one action per id.
Share ==
  LET all  == {Authored(a) : a \in CloneActions}
      kept == {CHOOSE a \in all : a.id = i : i \in Ids(all)}
  IN  /\ ~shared
      /\ shared' = TRUE
      /\ log' = kept
      /\ history' = Materialized(kept)
      /\ forgotten' = <<>>
      /\ redo' = <<>>
      /\ author' = Me
      /\ clock' = ClockShared(kept)
      /\ issued' = {Authored(a) : a \in issued}
      /\ UNCHANGED <<file, resets>>

\* end_collaboration, unshare: the materialization becomes the walk.
Leave ==
  /\ shared
  /\ shared' = FALSE
  /\ log' = {}
  /\ forgotten' = <<>>
  /\ redo' = <<>>
  /\ UNCHANGED <<history, author, clock, issued, file, resets>>

\* Mutant of ClockMerged: a merge leaves the clock where it is.
ClockUnmoved(lamport) == clock

\* merge_remote moves the clock past what it merges.
ClockMerged(lamport) == Max({clock, lamport + 1})

\* merge_remote: a peer's next action, or its undo or redo.
Remote(lamport, target, kind) ==
  LET a == [id |-> [lamport |-> lamport, actor |-> Peer], target |-> target, kind |-> kind]
  IN  /\ shared
      /\ \A b \in issued : b.id.actor = Peer => b.id.lamport < lamport
      /\ clock' = ClockMerged(lamport)
      /\ Grow({a})
      /\ issued' = issued \cup {a}
      /\ UNCHANGED <<shared, author, file, resets>>

-----------------------------------------------------------------------------
(* Files                                                                    *)

\* The log save_bytes writes.
Saved == CloneActions

\* History: whether anybody ever undid an Undo, that is, redid an action.
Revived == \E u, v \in issued : /\ u.kind = UndoKind /\ v.kind = UndoKind
                                /\ u.target = v.id

Save ==
  /\ resets < MaxResets
  /\ file' = [actions |-> Saved, shown |-> Current(history),
              settled |-> shared \/ ~Revived]
  /\ UNCHANGED <<shared, log, history, forgotten, redo, author, clock, issued, resets>>

\* Mutant of ClockLoaded: the counters are not resumed.
ClockUnresumed(actions) == 0

ClockLoaded(actions) == ClockPast(actions)

\* load_document: the effective sequence of the file, replayed onto a reset engine.
Load ==
  /\ file # NoFile
  /\ resets < MaxResets
  /\ shared' = FALSE
  /\ log' = {}
  /\ history' = Materialized(file.actions)
  /\ forgotten' = <<>>
  /\ redo' = <<>>
  /\ author' = Solo
  /\ clock' = ClockLoaded(file.actions)
  /\ issued' = file.actions
  /\ resets' = resets + 1
  /\ UNCHANGED file

Next ==
  \/ \E k \in Kind : Commit(k)
  \/ LogStep(TargetsNow.undo)
  \/ LogStep(TargetsNow.redo)
  \/ UndoSolo
  \/ RedoSolo
  \/ \E to \in 0..Len(history.acts) + Len(redo) : Seek(to)
  \/ Share
  \/ Leave
  \/ \E l \in 0..MaxClock - 1, k \in Kind : Remote(l, NoId, k)
  \/ \E l \in 0..MaxClock - 1, a \in log : /\ a.id.actor = Peer /\ a.id.lamport < l
                                           /\ Remote(l, a.id, UndoKind)
  \/ Save
  \/ Load

Spec == Init /\ [][Next]_vars

-----------------------------------------------------------------------------
(* Properties                                                               *)

\* Giving up undo depth shortens the reach of undo and never the painting: what
\* is on screen is the replay of everything clone_actions reports ("The log is
\* not shortened", Timeline::forget_oldest).
PaintingIsWhole == Current(history) = Last(Replay(Origin, Whole))

\* The walk a scrubber shows, withheld steps included.
Walk == Whole \o Reverse(redo)

\* Undo, redo and scrubbing move the playhead over one walk and never rearrange
\* it, so any of them can be undone by the others (LinearTimeline::seek).
NavigationKeepsWalk == [][~shared /\ ~shared' /\ clock' = clock /\ resets' = resets
                            => Walk' = Walk]_vars

\* An id names one action for as long as the document is open, those a share or
\* a leave has dropped included (enter_shared: a host must not lower its clock).
IdsNameOneAction == \A a, b \in issued : a.id = b.id => a = b

\* A share takes every action up to the playhead into the session, those folded
\* away to give up undo depth included: rewriting the solo author's ids makes no
\* two of them one, so from_log rejects none.  What is withheld for a redo stays
\* behind and is dropped.
SharingLosesNothing ==
  [][shared' /\ ~shared => /\ log' = {Authored(a) : a \in ToSet(Whole)}
                           /\ Cardinality(log') = Len(Whole)]_vars

\* A file opens as the document that was on screen (docs/engine.md: "Load =
\* replay the actions through apply to rebuild DocState"), although opening puts
\* its actions in the order of their ids and a solo timeline keeps them in the
\* order it came by: after a share, a session's merges, a leave, a trim and what
\* was painted since, the two orders are one.  One file is set apart: a session's
\* redo moves the action it revives to the redo's own slot, and a file saved
\* after leaving no longer carries the redo to say so.
FilesOpenAsSaved ==
  file.settled => Current(Materialized(file.actions)) = file.shown

\* Sharing shows the document that was on screen (collab.rs: leaving goes on "on
\* the same canvas ... and a later start_collaboration shares it again").
SharingKeepsPicture ==
  [][shared' /\ ~shared =>
       Current(history') = Last(Replay(Origin, [i \in DOMAIN Whole |-> Authored(Whole[i])]))]_vars
=============================================================================
