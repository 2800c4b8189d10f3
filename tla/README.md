# Stark, modelled

TLA+ specifications of Stark, a painting program several people can paint in at
once. Paths below are from the root of the repository; `engine/…`, `model/…`,
`net/…`, `ui/…`, `web/…` and `native/…` stand for `crates/stark-engine/src/…`,
`crates/stark-model/src/…`, `crates/stark-net/src/…`, `crates/stark-ui/src/…`,
`crates/stark-dioxus-frontend/src/…` and `crates/stark-wgpui-frontend/src/…`.

1. [The system](#the-system)
2. [The modules](#the-modules)
3. [The runs](#the-runs)
4. [Fairness](#fairness)
5. [The proofs](#the-proofs)
6. [Where the code and its words part](#where-the-code-and-its-words-part)
7. [What is not modelled](#what-is-not-modelled)
8. [What is left to do](#what-is-left-to-do)

## The system

A document is a log of **actions**. Everything else (the layer tree, the pixels,
the undo state) is a fold of that log, cached. Undo never removes an action of a
shared log: it adds an `Undo` that names one. Every client holds the same
grow-only log once it has heard everything, so every client shows the same
document. That sentence is what most of this project is about; the rest is
about how actions, the content they name, and strokes still being drawn reach
the other clients.

| component | state it keeps | operations | talks to |
| --- | --- | --- | --- |
| Undo algebra (`model/document/effect.rs`) | none: pure functions of a log | `undone_ids`, `revival_keys`, `effective_actions`, `targets` | called by the timeline, loading, sharing |
| Fold and footprints (`model/document/{fold,footprint}.rs`, `engine/fold/*`, `engine/document/*`) | `DocState`: tree, tiles, masks, substrate, guides | one fold and one inverse per action kind, conflict test, merge plan | driven by the timeline through the external `history` crate |
| Timeline (`engine/fold/timeline.rs`) | solo: history, withheld redo, forgotten prefix; shared: log, history, undone set, cached targets | push, undo, redo, seek, forget_oldest; insert, resync; share, unshare | engine's doors |
| Engine doors (`engine/engine/{commit,collab,file}.rs`) | actor, Lamport clock, outbox | commit, navigate, merge_remote, start/join/end_collaboration, save, load | frontends above, session below |
| Waitlist (`net/{waitlist,content}.rs`) | what is parked behind which content, the mirror's log and content | admit, resolved, imported, abandoned, published; one resolver task per missing content | gossip loop, sweep, engine's event channel |
| Session (`net/session/*`, `net/{mirror,proto}.rs`) | the mirror: every action and content held, the last snapshot encoded | host, join, leave, broadcast, answer | other members |
| Reconciler (`net/reconcile.rs`) | rotation counter, exchange under way | every `RECONCILE_INTERVAL`, compare ids with one neighbour, fetch what is missing | session's neighbours, waitlist |
| Session content (`net/{mirror,waitlist}.rs`, `net/session/*`, `ui/desk.rs`) | the mirror's content and hashes, the engine's own, what a joiner promised to find | register, bundle without, settle what is owed, attach a hash, answer a recovery | waitlist, frontends |
| Frontend doors (`web/{collab,state}.rs`, `native/{collab,canvas}.rs`) | the phase shown, the act that waits on the network, the session held | share, mint another link, join, adopt, install, refuse, leave, replace the document, pump, flush the outbox | engine's doors, session |
| Live preview (`engine/engine/live.rs`, `engine/fold/apply.rs`, `engine/session.rs`) | the fold of gestures in flight, each stroke's kept head, the held edit, the prepared stroke | start, extend, snap, hover, end; commit, undo, merge under it; rebuild | presence, timeline, draw list |
| Presence (`engine/{presence,peer}.rs`) | sender: frame and gesture counters; watcher: roster, assembly, watermark | encode, publish, splice, expire, clear | lossy flood, live preview |

**What is hard.** Actions arrive in any order, more than once, or never, while
the receiver edits, undoes and scrubs. The timeline has a fast path for the
common arrival and a rebuild for the rest, and caches what both must agree on.
Removing an action patches the snapshots it commutes with instead of replaying
them, which is only right if its kind's footprint names everything it touched.
Content is fetched by tasks that race with each other, with the user's own
imports and with the end of the session. The flood drops messages, so a sweep
must repair what it dropped; a joiner takes its document from whoever answers.
Presence splices deltas whose predecessors may be lost. What is drawn of a
moving hand is cached against a document that others change. The frontends wait
on the network in the middle of sharing and joining, with the painter painting
on. Clocks and ids move at
four doors (commit, merge, share, load) and must never name two actions alike.
`PROJECT.json` lists each of these at its line, with the property aimed at it.

**What makes each part correct.** Timeline: caches and materialization equal the
derivation from the log; snapshots equal replays; members that saw the same show
the same; an undo moves one action, its author's. Fold: no effect outside the
declared footprint, exact inverses, a tree that stays a tree. Lifecycle: the
walk and the picture survive scrubbing, trimming, sharing, leaving, saving and
opening. Waitlist: nothing waits on nobody, nothing surfaces twice, no
substrate action is folded without its substrate. Session: no joiner takes a
member that is still joining for an empty document, no cached snapshot is stale,
gaps close. Content: a substrate is wherever the actions naming it are. Doors: a
solo interface is over a solo engine, what a session serves is on the canvas and
the other way round. Preview: what is shown, and what a commit takes from it, is
what a render from scratch would be. Presence: a watcher holds only a path its
author really had.

## The modules

```
UndoAlgebra <- DocFold <- ReplicatedTimeline <- MCReplicatedTimeline
                ^  ^  ^        |        ^------ ReplicatedTimelineProofs
                |  |  |        v (refines)           |
                |  |  +-- SharedDocument             v (extends)
                |  +---------------------------- DocFoldProofs
                |                                    ^ (extends)
             DocumentLifecycle <----------- DocumentLifecycleProofs
                      ^-------------------- MCDocumentLifecycle

LayerTree <- LayerFold <- LayerFootprint <- LayerHistory <- LayerPicture <- MCLayerHistory
                                               |                 ^
                                               +<- LayerHistoryProofs <- LayerPictureProofs

SessionSync <- MCSessionSync <------ SessionProofs
             (a scene) v                   v
               SessionContent         SessionDoors <- MCSessionDoors
                       ^ MCSessionContent
                                       Presence <- MCPresence <---+
                                            (instance)            |
                                               Waitlist <- PeerProofs
                                                   ^------ MCWaitlist
LivePreview <- MCLivePreview
      ^------- LivePreviewProofs
```

**UndoAlgebra** is `effect.rs`. A log, a sorted `Vec` in the code, is the set of
its actions; the order is that of the ids. The descending loop of `undone_ids`
is the recursive function `Counted`; the materialization order, in which a
redone action stands at its redo's place, is `MaterialKey`.

**DocFold** is the fold seen from outside: a document maps each abstract *cell*
to a value, and folding an action sets each cell of its write set to the pair of
the action and all its footprint let it read. Two documents are therefore equal
only if nothing could tell them apart. `RemoveAction` is `remove_action_with` of
the `history` crate (external, modelled from how the timeline calls it): shift
the action out past the run it commutes with, patching by its inverse, then
replay the rest.

**ReplicatedTimeline** gives every member one shared `Timeline` and the doors
onto it: `Commit`, `Undo`, `Redo` (`navigate`), `MergeRemote`, `Join`. `Insert`
is the code's function with its three cases (duplicate, append, resync), and
`Resync` its three (push, shift one out, rewind and replay). The network is the
set of everything ever sent.

**SharedDocument** is the promise without the mechanism: a member shows the fold
of the effective actions among those it has seen, and what it adds follows
those. `ReplicatedTimeline!ImplementsSharedDocument` says the timeline with its
caches hidden (`shown <- Current(history[r])`) does this.

**DocumentLifecycle** follows one client through the solo timeline (playhead,
`forget_oldest`), sharing, working with a peer, leaving, saving and loading,
with the authorship and clock each door assigns. `file.settled` and `Revived` are
history, which no guard reads: they tell the one kind of file that opens as another
picture from all that open as they were saved.

**LayerTree, LayerFold, LayerFootprint, LayerHistory, LayerPicture** open the
box DocFold keeps shut. The tree is its composite order with each layer's
carrier. A tile holds the history that produced it, so equality of values is
equality for every renderer. `Fold` has every `ActionKind`, with what it
declines; `Reads`/`Writes` are the table of `compute_footprint`; `Unapply` is
`patch.rs`; `Differences` is `fold/audit.rs`. LayerHistory has authors mint
actions against documents that may be out of date, inserts them where the log
puts them and takes them out by patching. LayerPicture reduces the draw list to
a normal form, one tile at a time, under the laws that `fold/merge.rs` names at its
head as the ones a merge may rely on: laying in one mode unclipped is associative, a
clip or another mode on an empty backdrop says nothing, and a pointwise filter
commutes with a slider beneath it. Only the part of a run that
has to be isolated is: what is laid above it in the run's own mode stands beside
it. (Isolating whole runs, as the draw list does, would tell apart three layers
merged from the top and from the bottom, which are drawn alike.)

**Waitlist** is one member's receiving side. One action is one hold of the
locks: admission and delivery are single steps, what follows a delivery
(`Hand`) is a step per item, as the code sends to the engine after unlocking.

**SessionSync** is all members' mirrors: committing and flooding, joining
(`Subscribe`, `Ask`, `Receive`, with the encode cache between), leaving,
neighbours coming and going, and the sweep in its three steps (`SweepOpen`,
`SweepCompare`, `SweepRecover`) with everything it can fail at. An answer is cut
at any length the message bound might cut it, at least one item.

**SessionContent** is the same members seen from what their actions name. A
mirror's content and an engine's are two sets, because a joiner that promised a
shipped substrate installs it in its engine and never tells its session. `Select`
registers before it commits; `SelectEarly` is the same while a share is being
bound, when there is nobody to register with; `Attached` is the one place a hash
comes from; `Join` bundles less what was promised and may find only some of it.
One member's waiting, `Admit` to `Resolve` or `Abandon`, is Waitlist's inside.

**SessionDoors** is what the two frontends do with the engine and a session. An
act that waits (`HostBound`, `Joined`, `Adopt`, `Install` and their failures) is
as many actions as it has waits, with everything the painter and the others may
do in between. A native `Share` in a live session is one of them (`ShareAgain`,
`LinkMinted`, `LinkFails`); `disowned` is history, and remembers a link that failed
over a session still held. Opening a second session over that one is left out
(`OneSession`). `frontend` is a rigid variable: the two differ in when the outbox
is drained and when a joined session is installed.

**LivePreview** is `Preview` with its doors: every gesture in flight laid in
actor order over the document or over the held edit, each stroke from its kept
head when `Reusable` allows, contested strokes whole, tiles overlaid. A tile is
the sequence of marks laid on it and a mark remembers what decided it, so two
pictures are equal only if nothing could tell them apart. `End` commits through
the prepared stroke where `IsRenderOf` says so. The scenes of its MC module
widen one thing at a time: brushes, doors, two hands together.

**Presence** is one author and one watcher: the hand (stroke, snap, region,
end), the frames with their sequence number, run and gesture, the splice, the
watermark, the expiry. Times are abstracted away: whatever a timeout does may
happen at any moment. A resync frame may be sent at any time too, as both halves
implement it; the shipped build never sends one (`GESTURE_RESYNC` is `None`,
`model/peer.rs:46`). One assumption comes from `stark-stroke`, whose fitting is
not modelled: a control point once frozen does not move. MCPresence
gives it names of its own, so that PeerProofs can speak of both it and the waitlist.

Each MC module gives the constants small values. An operator commented
"Mutant of …" is a variant of its neighbour with a plausible mistake; no
specification uses one, and `PROJECT.json` says which property notices it.

## The runs

| run | question | instance | states |
| --- | --- | --- | --- |
| `replicated` | Is each member's timeline the derivation from its log, and does it implement SharedDocument? | 2 members, 3 kinds (two strokes that commute, a substrate change that commutes with neither), 4 actions, a late joiner | 37 thousand |
| `layers` | Does the layer document keep its shape, its footprints and inverses their word, and a merge its picture? | 4 scenes with 2 tiles and seeded documents, 2 commits and 1 undo each, 3 commits in the merging one | 221 thousand |
| `lifecycle` | Do the walk, ids, files and picture survive every door? | Lamport time to 3, `MIN_UNDO_DEPTH` 1, two openings of a file | 238 thousand |
| `reshare` | Do leaving and sharing again keep the picture? No. | as `lifecycle` | violation |
| `waitlist` | Does anything wait unattended, surface twice, slip past, or never get through? | 2 doors, 2 resolvers, a brush, a substrate, an own action | 234 thousand |
| `live_preview` | Is what is shown the fold from scratch, a commit what a replay would render, and does every change of the picture reach the draw list? | 2 actors, 2 tiles, 2 gestures each, 2 changes of the document, 4 brushes (one tapers, one is too large, one's shape arrives late), 3 scenes | 495 thousand |
| `session_join` | Can a joiner be handed less than the document, an old snapshot, or actions without the imported substrates they name? | 3 peers, the host may leave and return, 2 actions; and with content, 2 substrates, a brush, 2 actions by two of three members | 2.0 million |
| `session_repair` | Does the sweep alone close every gap, the partner asked last, short answers and a leaver included? | 3 peers and 1 action with a fault, or 2 peers and 3 actions in batches of 2 | 68 thousand |
| `recovered_flat` | Does an action wait for its substrate whichever door it comes through? No. | as the content of `session_join`, every promise kept | violation |
| `doors` | Do interface, engine and session stay in step through every act and its failure? | both frontends, 2 others, 2 own actions, 1 of another's, 4 acts | 1.2 million |
| `doors_web` | Is what is painted during a share in the web frontend owed or mirrored? No. | as `doors`, the web frontend | violation |
| `presence` | Does a watcher hold only what its author drew? | 2 runs, 4 frames, 2 gestures, 3 reports, paths of 2 points | 3.3 million |

**Why the bounds suffice.** *replicated*: four actions are the least that put an
edit, its undo, its redo and a peer's edit between them in one log, in every
order, which every case of `Resync` and every mutant needs; two members make
"mine" and "theirs", and the second joins on the first's snapshot. *layers*: a
conflict is a relation between two actions and an undo shifts one out past
others, so two commits over a seeded history and one undo meet every pair of
kinds in every order; each scene widens one dimension (structure, properties and
paint, two authors, merging). *lifecycle*: a Lamport time of 3 holds an edit, a
peer's edit and a redo across it, and a depth of 1 makes trimming happen; files
are saved until the second is opened.
*waitlist*: two resolvers let a need be fetched again after its first resolver
ended, two doors let the same action arrive in the middle of that. *session_*:
with three peers one can be asked by another while it still joins, and a
rotation has a neighbour it can miss; more missing actions than a batch needs
three actions and batches of two; content passed on by somebody other than its
author needs a third member, and two actions let one be sent with its hash and
one without. *live_preview*: a head outlives its document only if the document
changes twice or a second hand crosses it; two tiles let a curve leave one.
*doors*: four acts are a share, a leaving, a return by somebody else's link and
one more; two own actions let one be forgotten and its id drawn again. *presence*:
two frames cannot lose a middle one, three can, and the fourth meets the loss; two
runs let a reload interleave.

What each property says is in the comment over it. The ones to read first:
`SnapshotsAreReplays` (undoing by patching is undoing by replaying),
`ImplementsSharedDocument`, `PeersLeaveMineAlone`, `FoldsStayInFootprint`,
`MergeKeepsPicture`, `IdsNameOneAction`, `NothingParksUnattended`, `GapsClose`,
`OwnSubstratesTravel`, `ServedIsShown`, `ShownIsTheFold`, `StrokesCommitAsReplayed`,
`HeldPathWasTheAuthors`.

Deadlock is checked in `replicated`. The others turn it off because the system
may really stop: every action of the bound committed, everything heard.

## Fairness

*Waitlist.* Weak fairness of each task's next hand-over and each resolver's next
step: the runtime polls every spawned task, its timers fire, and each attempt
ends within `FETCH_ATTEMPT`. Peers promise nothing: every fetch may fail.

*SessionSync.* The reconciler's timer fires again and again, so a sweep opens or
is abandoned (weak). Gossip keeps up the links of peers that stay and drops those
of peers that left (weak). An exchange tried with the same partner again and
again succeeds again and again (strong, per partner): without it a network that
always fails is a network, and no repair can work. Nothing is assumed of the
flood: `GapsClose` holds though it lose everything.

The other modules state safety only.

## The proofs

TLAPS checks these for any number of members, kinds, cells, needs, actions and
frames.

**DocFoldProofs** is what both timelines rest on. `NonConflictingCommute` (actions
whose footprints do not conflict fold alike in either order),
`InversePassesNonConflicting` (an inverse may be taken on either side of such an
action) and `InverseRestores` are one step of the surgery of `RemoveAction`.
`RemoveActionIsHistory` is all of it: a history whose snapshots are replays still
is one after an action is shifted out past the run it commutes with, its inverse
patched into each snapshot on the way, and the rest replayed. Histories are
sequences of any length, so this needs induction; the library's induction theorem
takes a predicate, which the provers cannot instantiate, so `Induction` states it
over a *set* of numbers and gets it from the well-foundedness of `<`
(`LeastNumber`). The recursive functions `Replay` and `Counted` are taken apart by
it (`ReplayUnfolds`, `CountedUnfolds`: what the function computes is what its
recursion says, and nothing else satisfies that). `RanksCover` and
`MaterialKeysDistinct` make the effective sequence well defined: no two effective
actions have one key, and the ranks are exactly 1 to their number.

**ReplicatedTimelineProofs.** `TypeCorrect`, `CachesStayFresh`, `IdsAreDistinct`,
`UndosFollowOwnTargets`, `CausallyOrdered`, `MaterializesTheEffective`,
`SnapshotsFold`, `Implements`, `Converges`, `OneUndoCounts`, `UndoneIsFixed`,
`PeersLeaveAlone`, `NavigationMoves`: every property of the run `replicated`. None
is inductive alone. `IInv` adds: whatever is in a log was sent; a log is behind its
owner's clock; what a member minted is behind its own clock; a history is the
effective sequence with its replays. Distinct ids follow from the third (the id of a
commit is new because the clock has passed all its author's). Fresh caches rest
on the second: the fast path may skip the rederivation because the new action is
newest, so that nothing logged is its target and its own key is last
(`UndoneOfPushed`, `TargetsOfOwnPush`, `TargetsOfPeerPush`). The merge and the
join restore the clocks, which is why they move them.

- *Snapshots and history.* Each case of `Insert` and of `Resync` is one lemma: the
  append is `PushAllIsHistory`, the shift-out `RemoveActionIsHistory`, the rewind
  `RewindIsHistory`; that the sequence arrived at is the effective one is
  `EffectiveOfAppended` for the first, while for the others `Resync` derives it anew.
- *The promise.* With snapshots replays of the effective sequence, every step of the
  timeline is one of SharedDocument's or a stutter (`Implements`). Whoever keeps
  that promise converges (`PromiseConverges`), so the timeline does (`Converges`):
  members that have seen the same actions show the same document.
- *Undo.* At most one Undo of an id counts, and nobody's own log misses what it
  minted (`OneUndoCounts`, inductive over `IInv`). An Undo names an older action of
  its own author, so a member's chains of Undos lie in its own actions: induction
  from the newest down says others' actions cannot reach them (`UndoneIsOwnDoing`),
  and that a new Undo of the newest counted one flips exactly one ordinary action.

**DocumentLifecycleProofs.** `TypeCorrect`, `PaintingStaysWhole`, `OneActionPerId`,
`FilesOpen`, `NavigationIsSafe`, and `SharingIsLossless`, which no run checks: starting
to share loses no action up to the playhead to `from_log`'s rejection of duplicates,
and takes nothing else. `TypeOK` types every variable, as the lemmas on sequences need. The
invariant's core is `OneEach`: among this client's own actions, minted solo or in a
session, no two have one Lamport time. That is more than distinct ids: it is what
lets sharing rename the solo author's actions to the session's actor without making
two ids one. `ClockIsPast` keeps it, at commits, merges, shares and loads alike;
`HistoryFolds` (the live history is folded onto what the forgotten prefix made) and
`WalkWasIssued` (each step once) carry the picture through trimming and scrubbing.
`WalkInOrder` is what `FilesOpen` needs: as long as nobody has redone an action in a
session, the whole walk, withheld steps included, is in the order of its ids. A commit
is newest because the clock has passed everything; a materialized log is sorted
(`EffectiveAreInOrder`), and a leave makes it the walk. Opening such a file sorts what
is sorted (`OrderedIsMaterialized`).

**PeerProofs**, of the waitlist: `TypeCorrect`, `ParkedAreAttended`, `EachSurfacesOnce`,
`SubstratesHaveNoFallback`. The invariant relates the four places an action can
be (parked, about to be handed, logged, handed): what is held is not parked, an
action parks behind the need it names, every parked need has a resolver at work,
and whatever was handed or is about to be is logged. `EachSurfacesOnce` needs all
of them: the log's duplicate test is what keeps a second door's copy out, so
everything surfaced must be provably in the log.

**SessionProofs**, of the doors: `SoloMeansSolo`, `ServedMeansShown`,
`NativeKeepsTheOutbox`, `ReturningIsTheOnlyReuse`. (It extends the three models of a
session, whose names are kept apart: `phase` is the interface's, `stage` a peer's way
into a session.) The first invariant says which act may wait under which phase and
which session there is then; that a shared engine has an act or a session it
is shared for; and, in both directions and by id, that the document a session
will serve (the act's while the endpoint is being bound, the mirror afterwards)
and the engine's log differ only by what the events and the outbox still hold.
The second direction is for the native frontend only, as it must be. The second
invariant, `ReturnInv`, is about ids: no Lamport time anywhere is past the number of
commits there have been, a log is behind its clock, and every id of this client's
that its session can show it is behind its clock or was missing from the log it
returned by. A new id is therefore new, except to a client that returned through a
mirror short of its own actions.

**SessionProofs**, of the mirrors: `TypeCorrect`, `JoinersGetTheDocument`,
`CacheServesThePresent`. The invariant follows what is on its way: a snapshot goes
to a peer still joining, from a member still there that has what it sent, the
shared document included; an encoding is of an earlier log of the same mirror.
Logs only grow, so most steps keep all of it (`GrowingKeeps`), and the encoding
of a log as long as today's is today's (`TakenIsCurrent`), which is where the
finiteness in `SyncAssumption` is needed.

The same module has SessionContent's, under the name the run gives them:
`ContentTyped` and `ImportsTravel` (`OwnSubstratesTravel` for every instance).
Nothing about the waiting is needed, only that whatever names such a substrate
carries its hash (`HashesTravel`), that what is not yet broadcast was chosen before
there was a session to tell (`OwedWasUntold`), and that a mirror's content is in its
engine (`MirroredIsInstalled`): then an action is logged after its content on
arrival, and a recovery's or a snapshot's sender has what its log names. The
promises are outside it, and `recovered_flat` shows why.

**PeerProofs**, of presence: `PresenceTyped`, `WatchersHoldTheAuthorsPath`, `WatermarkIsFinal`,
`TheNewestFrameRules`, `TheClearingFrameIsOwed`, `TheWatermarkAdvances`: everything
the run checks. The argument is about what is *final*: two drawings of one
gesture agree up to some point. A frame is final, up to where its delta starts,
from the frame before it on (`ToldIsFinal`); the sender's own mark from its last
frame on (`SentIsFinal`); the watcher's watermark from the frame it was spliced
from on (`HeldIsFinal`); and none of these points is one the fit may still move
(`FinalIsFrozen`). What is drawn now counts as a drawing, so that a report, which
moves only what is not frozen, keeps all four at once (`HandKeeps`). A delta's
predecessor is among the drawings its own mark speaks of, so splicing gives back
the path it was cut from (`FramesApply`).

**LivePreviewProofs.** `TypeCorrect`, `FoldIsShown`, `OfferIsCurrent`,
`CommitsReplay`, `KeyNamesThePicture`: everything the run checks, for any actors,
tiles, brushes and curves. The invariant says what each cache is *of*: a held edit is
its edit over the document as it is (`HeldKept`); a head a fold may still draw on is
the settled spans of its gesture laid over the present base, its dirty tiles no fewer
than those (`HeadsKept`); a prepared stroke is a render over the present document
(`PreparedKept`); a picture not stale is the fold from scratch (`PictureKept`). A
gesture that moves keeps its settled spans, so its head stays a head
(`GesturesMove`): that is what `SafeFrozen` must see to, since a mark depends on
where the stroke ends. The fold over caches and the fold from scratch are then
compared one actor at a time (`FoldAgrees`): outside the tiles claimed so far neither
has changed the base's paint, so an uncontested stroke may be laid on the base and its
tiles carried over. What the recursive functions `LaySpans` and `Folded` compute is had
from `Recursion`, which proves by the least counterexample that a step function
has a run of every length.

**LayerHistoryProofs.** `UndoIsReplay`, `FootprintsCover`, `UndoIsExact`,
`FootprintsCommute`, `SubtreesStayWhole`: what `history` asks of a document type, for
every kind of action on every tree of layers. The inductive invariant `HistoryInv` is
short (the actions are well formed, the snapshots *sound*, each the fold of its action
over the one before, the document it starts from *tidy*); the work is in four facts
about single actions.

- *A fold stays within its footprint* (`FoldChanges`, one lemma per kind). Two
  documents are `Apart` in a set of resources if they differ in these alone. `Change`
  says that a fold leaves a sound document apart from the old one in what it writes;
  that it moves no surviving layer to another carrier unless all survive; and that what
  goes is one whole subtree, every resource of which is declared. The last two are what
  an undo needs: it puts subtrees back, heads first.
- *A fold reads no more than its footprint* (`FoldsAlike`, again one per kind). If two
  documents are apart only in resources the action neither reads nor writes, so are
  what it folds them into: it declines both or neither, and does both the same.
- *An undo puts back what was written, and no more* (`UndoRestores`): existence, then
  each record, then the structure, then the globals, as `unapply` does. It relates four
  documents (`UndoneIn`): those the action was folded from and into, the present one and
  the one it never touched. Folding what does not conflict onto the last two keeps the
  relation (`UndonePast`). So, by induction over the run an action commutes with, taking
  it out of each snapshot gives the run folded onto the document before it
  (`PatchesAreFolds`); what follows the run replays.

`FoldsCommute` has both orders end apart from one document in what one action writes and
from another in what the other does, which leaves nothing they can differ in
(`MeetingAlike`). There a footprint must be `Closed`: whoever claims anything of a layer
claims its existence, or a removal would commute with a stroke on what it removes.

- *A fold keeps subtrees whole* (`FoldIsTidy`). A sound order is `Tidy` when stretches
  nest: none, from a carrier to what it carries, crosses another. That speaks of pairs,
  where a subtree is a closure; `TidyIsTree` has every subtree of a tidy document in
  one piece, and `SubtreeIsStretch` that what a removal takes is such a piece. Filters
  of a tidy order are tidy (`OnlyKeepsNested`), and so is one with a whole subtree put
  in at a slot, since every slot is the end of a stretch (`SlotsFit`, `GraftIsTidy`).
  Restores need no argument of their own: the first document never changes and every
  later one is a fold of the one before, `UndoIsReplay` says, patched or not.

**LayerPictureProofs.** `MergingKeepsPicture`: what a merge down promises whoever
looks at it. The core is `MergeKeepsIt`, about one fold, and the facts are of three
kinds.

- *Laying pictures.* `LayingIsAssociative` (in one mode, unclipped, below and above
  may be laid on each other first), `SliderUnderFilter` (a pointwise filter may be
  baked under the slider of what it filters) and `LaidOnNothing` (a clip or a mode is
  of no account where the destination is all of the backdrop).
- *How deep merges go.* What a tile draws is computed from the values it was merged
  from, so it is first shown to be computed to the end: `SeedShallow` says that what
  a history begins with has no merge in it deeper than its actions are numbered,
  `DocsAreShallow` that each fold adds one at most.
- *Stacks.* A merge does one of two things to a stack (`StackLost`). The lower layer
  carries the upper: the picture its stack starts from is what the first layer laid
  on it was (`CarriedMerge`). Or it stands beneath it: one laying becomes of two
  (`SiblingMerge`), on nothing at all if the upper is defined against the lower alone.
  Above and below that place nothing changes (`TowersMeet`, `TowersShare`); and since
  what a layer carries comes after it, what every layer draws with all it carries is
  what it drew (`Downwards`), save a layer merged into and a hidden one, which nobody
  looks at.

**Assumptions** are those of the modules: actors are naturals (ids are ordered),
`NoId` is no id, `UndoKind` no ordinary kind, footprints are sets of cells, the
host is an actor, the shapes in `WaitlistAssumption`, and, in `SceneAssumption`, that
the actions a scene's document was built by are well formed, as the commands mint them.

**Model-checked only.** Everything liveness (`GapsClose`,
`MirroredContentIsInstalled`, `BrushesAreLetThrough`): the provers at hand do not reach
it, nor `ENABLED`. With it whom a sweep is with, which is about a rotation that goes
on. Every invariant of a run is a theorem.

## Where the code and its words part

Three runs end in a counterexample, each a trace of what the code does.

- `reshare`. Redo a stroke across a peer's, leave, share again: the redone
  stroke moves. `unshare` keeps the order of the walk and each action's id, but
  drops the Undos that explained the order; the next share sorts by id.
  `engine/engine/collab.rs:152` says the same pixels are shared again.
- `doors_web`. The web frontend drains the outbox before it asks whether there is
  a session to send it to (`web/collab.rs:352`). A stroke painted while a share is
  binding its endpoint, or while a joined session waits for its ticket, is in this
  client's log and in no mirror, for good.
- `recovered_flat`. A member joins, promising a shipped substrate, and finds it:
  its engine has the substrate, its mirror does not. Another member, whose flood
  lost the substrate's action, is repaired by it, gets the action without a hash,
  and folds it at once, flat (`net/mirror.rs:411`). `net/waitlist.rs:138` says the
  door an action comes through does not matter, and `net/session/mod.rs:75` that a
  promise costs a transfer at worst, not a picture.

Without a run of their own, steps the same models take:

- *A file.* The picture of `reshare` through a file: leave, save, open, and the
  strokes are in another order (`engine/engine/file.rs:196`; `docs/engine.md:237`).
  `FilesOpenAsSaved` sets such a file apart (`settled`); without that it fails.
- *A failed link.* `Share` in a live native session mints another link. Should its
  task fail, the phase goes solo while the session is held, its pump runs and the
  engine stays shared: only the handing back of the history asks for a session
  (`native/canvas.rs:2166`; `native/collab.rs:61` calls the session and where it stands
  "one fact and so one value"). `SoloIsSolo` sets this apart (`disowned`). Read, not
  run: a `Share` then would host a second session over the first.
- *The waitlist.* `resolved` marks content held, unlocks, then tells the engine:
  another task's action can overtake the content (`net/waitlist.rs:219`; `:29` and
  `net/events.rs:43` say content comes first). When the engine drops its events a
  resolver ends and leaves its entry: what arrives later parks behind nobody
  (`net/content.rs:249`; `net/waitlist.rs:25` says nothing does, `:305` that a deaf
  engine does not end the session).
- *The preview.* A kept head's dirty tiles only grow, so a stroke whose tail has
  left a tile copies the committed tile over what another hand has since laid there
  (`engine/engine/live.rs:428`; `:696` says two peers never erase each other). And a
  brush shape that arrives does not make the fold stale (`engine/engine.rs:330`;
  `live.rs:540`). `ShownIsTheFold` sets both apart, by name.
- *Returning.* A client that leaves and joins again by a member that lacks one of
  its actions takes its clock from that snapshot and draws the same id again.
  Mirrors are keyed by id, so no sweep ever tells the two apart
  (`engine/engine/file.rs:684`). `ReturningReusesOnlyTheForgotten` says this is the
  only way an id is drawn twice.
- *Replacing while connecting.* Opening or starting a document while a share or
  join is on its way does not end it; the session is later installed over another
  document than it was begun with (`web/state.rs:536`).
- *Leaving early.* `net/session/publish.rs:268` lets a failed send be, as "already
  mirrored, so a peer's sweep recovers it": not once the sender has left and its
  mirror with it.
- *Content chosen early.* A substrate or brush chosen while a share is binding is
  offered to nobody and its action goes out without a hash
  (`native/canvas.rs:2415`); `OwnSubstratesTravel` sets it apart as `unregistered`.
  A broken promise of a join is fetched by nobody, since a logged action is never
  waited for (`net/session/mod.rs:76`).

Seen while reading, outside the models: two authors adding a layer at once may
give it one number (`engine/document/state.rs:402`; `docs/layers.md:309`); the
first frame of a gesture that arrives after the gesture's own action is drawn over
it until cleared (`engine/peer.rs:343`); a reloaded client starts its gesture
ordinals again, so that a watcher's cached head may answer to a new gesture.

## What is not modelled

Rendering, shaders, color and curve fitting (numeric work without protocol); the
widgets of the frontends (the order of their calls is left free everywhere);
transports (iroh and WebRTC: messages may be lost, repeated or late, dials may
fail); bytes of files and messages; names, cursors and active layers in presence;
wall clocks. Most of the repository's lines are of these kinds: panels, shaders'
bindings, gizmos, fitting. In reach and not done: the tile pool, the presence
quota, cancellation's wake-up. `PROJECT.json` "components" has a line on each.

## What is left to do

The order the models were written in: the timeline and its proofs; the layer
folds; the lifecycle; the waitlist and its proofs; joining and repair; presence and
the refinement; the live preview; the frontend doors; the content; the proofs of
doors, content, joining and presence; the proofs of the preview, of the layers and of
their picture. What comes next, most useful first:

1. *Promises*: what would make `SubstratesComeFirst` hold, a joiner that tells its
   mirror of what it found.
2. *PresenceQuota*, *Cancel*, *TilePool*: a slot, a wake-up and a tile are each
   given back exactly once.
