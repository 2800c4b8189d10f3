---------------------------- MODULE LivePreview ----------------------------
(* What one client shows over the committed document while hands are moving:  *)
(* the preview fold and its caches (stark-engine/src/engine/live.rs), the     *)
(* doors that replace the document under it (engine/commit.rs, input.rs), and *)
(* the prepared stroke a commit takes from it (fold/apply.rs).                *)
(*                                                                            *)
(* The picture is one paint layer of a few tiles; a tile is the sequence of   *)
(* marks laid on it. A stroke's span lays one mark on one tile, so rendering  *)
(* a range of spans over a head is visibly the same, or not the same, as      *)
(* rendering the stroke whole. Peers are what their presence shows of them.   *)
EXTENDS Naturals, Sequences, FiniteSets, SequencesExt, FiniteSetsExt

CONSTANTS
    Me,             \* the local actor
    Peer,           \* the others; actors are numbers, folded in ascending order
    Tiles,          \* how many tiles the layer has
    Kind,           \* of gestures: "stroke", "fill", "marquee"
    Brush,          \* the brushes strokes are drawn with
    Taper,          \* spans at a stroke's end still drawn by the end's distance
    Limit,          \* spans past which a stroke of the brush is too large
    Imported,       \* brushes whose shape may still be on its way
    Curves,         \* bound: the curves an actor's hand may be on, tile by tile
    MaxOrdinal,     \* bound: gestures an actor starts
    MaxRevision,    \* bound: changes of the committed document
    None

Actor == Peer \cup {Me}

Tile == 1..Tiles

ASSUME ActorAssumption == IsFiniteSet(Actor) /\ Actor \subseteq Nat /\ Me \notin Peer
ASSUME TilesAssumption == Tiles \in Nat /\ Tiles > 0
ASSUME KindAssumption == Kind \subseteq {"stroke", "fill", "marquee"}
ASSUME CurvesAssumption == \A a \in Actor : Curves[a] \subseteq Seq(Tile) \ {<<>>}
ASSUME BrushAssumption == Taper \in [Brush -> Nat] /\ Limit \in [Brush -> Nat] /\ Imported \subseteq Brush

VARIABLES
    doc,        \* the committed document: its paint and each author's mask
    past,       \* the documents undo walks back to
    revision,   \* doc_revision
    tooth,      \* the substrate texture in use: swapped when its bytes arrive
    arrived,    \* whether the imported brushes' shapes are resident
    hand,       \* the session's gesture in flight, a hover included
    ordinals,   \* the newest gesture ordinal of each actor's session
    peers,      \* the roster's gesture of each peer
    preview     \* Preview

vars == <<doc, past, revision, tooth, arrived, hand, ordinals, peers, preview>>

(* A gesture as GestureView has it; "frozen" counts the leading spans the     *)
(* fitter will not move again. "snapped" and "hover" are drawn as strokes.    *)
Idle == [kind |-> "none", path |-> <<>>, brush |-> "none", ordinal |-> 0, frozen |-> 0]

Drawn(gesture) == gesture.kind \in {"stroke", "snapped", "hover"}

(* A record is what a stroke commits: its curve and its brush.                *)
Rec(gesture) == [path |-> gesture.path, brush |-> gesture.brush]

Spans(rec) == Len(rec.path)

(* ApplyCtx, as far as a render asks it: which texture is in use, and whether *)
(* a shape that was on its way can be had.                                    *)
Ctx == [tooth |-> tooth, arrived |-> arrived]

Complete == [Ctx EXCEPT !.arrived = TRUE]

(* stroke_rect, fill_rect: the tiles between the first and the last covered.  *)
Reach(path) == LET covered == Range(path) IN Min(covered)..Max(covered)

-----------------------------------------------------------------------------
(* Rendering                                                                  *)

Refuses(rec) == Spans(rec) > Limit[rec.brush]

Resolves(ctx, rec) == rec.brush \in Imported => ctx.arrived

(* A mark remembers all that decided it: whose mask and which tooth it was    *)
(* laid through, how far along the stroke, and whether the taper was on it.   *)
Mark(ctx, d, actor, rec, span) ==
    [by |-> actor, span |-> span, thin |-> span + Taper[rec.brush] > Spans(rec),
     mask |-> d.mask[actor], tooth |-> ctx.tooth]

LaySpan(ctx, d, actor, rec, span) ==
    [d EXCEPT !.paint[rec.path[span]] = Append(@, Mark(ctx, d, actor, rec, span))]

LaySpans(ctx, d, actor, rec, from, to) ==
    LET laid[n \in Nat] == IF n <= from THEN d ELSE LaySpan(ctx, laid[n - 1], actor, rec, n)
    IN  laid[to]

(* render_range: nothing is drawn of a refused stroke, or while the shape is  *)
(* still on its way.                                                          *)
RenderRange(ctx, d, actor, rec, from, to) ==
    IF Refuses(rec) \/ ~Resolves(ctx, rec) THEN d ELSE LaySpans(ctx, d, actor, rec, from, to)

Render(ctx, d, actor, rec) == RenderRange(ctx, d, actor, rec, 0, Spans(rec))

FillOnto(d, actor, path) ==
    [d EXCEPT !.paint = [t \in Tile |->
        IF t \in Reach(path)
        THEN Append(@[t], [by |-> actor, span |-> 0, thin |-> FALSE, mask |-> d.mask[actor], tooth |-> 0])
        ELSE @[t]]]

SelectOnto(d, actor) == [d EXCEPT !.mask[actor] = 1 - @]

(* Mutant of SafeFrozen: what the fitter settled is settled.                  *)
SafeFrozenByFit(rec, frozen) == Min({frozen, Spans(rec)})

(* A span the end's taper still reaches is not settled, whatever the fitter   *)
(* says of its control points.                                                *)
SafeFrozen(rec, frozen) ==
    Min({frozen, IF Spans(rec) > Taper[rec.brush] THEN Spans(rec) - Taper[rec.brush] ELSE 0})

(* A tile is the sequence of marks on it.                                     *)
Marks == [by : Actor, span : Nat, thin : BOOLEAN, mask : {0, 1}, tooth : {0, 1}]

Painting == [Tile -> Seq(Marks)]

Document == [paint : Painting, mask : [Actor -> {0, 1}]]

(* What a Preview keeps: the edit held and the document it makes, the settled *)
(* part of a stroke as it was drawn, the render a commit may take.            *)
Edits == {"glaze", "declined"}

HeldEdit == [edit : Edits, doc : Document \cup {None}]

FrozenHead == [spans : Nat, state : Document, gesture : Nat, current : BOOLEAN,
               contested : BOOLEAN, dirty : SUBSET Tile]

PreparedStroke == [rec : [path : Seq(Tile), brush : Brush], base : Painting, painted : Painting]

ASSUME NoneAssumption == None \notin Document \cup HeldEdit \cup FrozenHead \cup PreparedStroke

-----------------------------------------------------------------------------
(* The doors of Preview. A bumped epoch only ever tells a head that what it   *)
(* was drawn over is gone, so a head carries whether its epoch is current;    *)
(* epoch and fold are kept modulo 2 for the draw list's key, which asks if    *)
(* they moved.                                                                *)

NoHeads == [a \in {} |-> None]

NewPreview == [held |-> None, live |-> None, heads |-> NoHeads, epoch |-> 0, fold |-> 0,
               stale |-> FALSE, prepared |-> None]

(* Mutant of Invalidate: the prepared stroke outlives its base.               *)
InvalidateHeads(p) ==
    [p EXCEPT !.epoch = 1 - @, !.stale = TRUE,
              !.heads = [a \in DOMAIN @ |-> [@[a] EXCEPT !.current = FALSE]]]

Invalidate(p) ==
    [p EXCEPT !.epoch = 1 - @, !.prepared = None, !.stale = TRUE,
              !.heads = [a \in DOMAIN @ |-> [@[a] EXCEPT !.current = FALSE]]]

Supersede(p) == Invalidate([p EXCEPT !.held = None])

(* An unlogged edit the hand holds, folded over the committed document: a     *)
(* glaze over the first tile, or an edit its commit would decline.            *)
EditOnto(edit, d) ==
    IF edit = "glaze"
    THEN [d EXCEPT !.paint[1] = Append(@, [by |-> Me, span |-> 0, thin |-> TRUE, mask |-> 0, tooth |-> 0])]
    ELSE None

Held(edit, d) == IF edit = None THEN None ELSE [edit |-> edit, doc |-> EditOnto(edit, d)]

HeldDoc(p) == IF p.held = None THEN None ELSE p.held.doc

Hold(p, held) ==
    LET q == [p EXCEPT !.held = held]
    IN  IF HeldDoc(p) # None \/ HeldDoc(q) # None THEN Invalidate(q) ELSE q

RefoldHeld(p, d) ==
    Invalidate([p EXCEPT !.held = Held(IF @ = None THEN None ELSE @.edit, d)])

Clear(p) == Invalidate([p EXCEPT !.held = None, !.live = None, !.heads = NoHeads])

Stale(p) == [p EXCEPT !.stale = TRUE]

Base(p, d) == IF HeldDoc(p) # None THEN HeldDoc(p) ELSE d

Presented(p, d) == IF p.live # None THEN p.live ELSE Base(p, d)

-----------------------------------------------------------------------------
(* The fold                                                                   *)

FreshHead(base, gesture, contested) ==
    [spans |-> 0, state |-> base, gesture |-> gesture.ordinal, current |-> TRUE,
     contested |-> contested, dirty |-> {}]

Covered(rec, from, to) == {rec.path[n] : n \in (from + 1)..to}

(* advance_head: a deferred range leaves the head for the next move.          *)
AdvanceHead(ctx, head, actor, rec, frozen) ==
    IF frozen > head.spans /\ Resolves(ctx, rec)
    THEN [head EXCEPT !.spans = frozen,
                      !.state = RenderRange(ctx, @, actor, rec, head.spans, frozen),
                      !.dirty = @ \cup Covered(rec, head.spans, frozen)]
    ELSE head

(* render_live_stroke: the head to keep, the state its tail leaves, and       *)
(* whether the stroke was drawn. The tail's tiles join the head's.            *)
RenderLive(ctx, root, actor, gesture, contested, cached) ==
    LET rec == Rec(gesture)
        fresh == FreshHead(root, gesture, contested)
        head == AdvanceHead(ctx, IF cached = None THEN fresh ELSE cached, actor, rec,
                            SafeFrozen(rec, gesture.frozen))
        drawn == Resolves(ctx, rec)
    IN  IF Refuses(rec)
        THEN [head |-> fresh, state |-> root, drawn |-> FALSE]
        ELSE [head |-> IF drawn
                       THEN [head EXCEPT !.dirty = @ \cup Covered(rec, head.spans, Spans(rec))]
                       ELSE head,
              state |-> RenderRange(ctx, head.state, actor, rec, head.spans, Spans(rec)),
              drawn |-> drawn]

(* Mutant of Reusable: a stroke is told from the next by its span count.      *)
ReusableBySpans(head, gesture, contested) ==
    ~contested /\ ~head.contested /\ head.current /\ head.spans <= gesture.frozen

(* Which head of the last fold this fold may draw on.                         *)
Reusable(head, gesture, contested) ==
    /\ ~contested
    /\ ~head.contested
    /\ head.current
    /\ head.gesture = gesture.ordinal
    /\ head.spans <= gesture.frozen

Cached(heads, actor, gesture, contested) ==
    IF actor \in DOMAIN heads /\ Reusable(heads[actor], gesture, contested)
    THEN heads[actor]
    ELSE None

(* The first writer of the layer swaps the whole map; after it, only the      *)
(* tiles the stroke has dirtied are copied across.                            *)
Overlay(out, touched, live) ==
    IF ~touched
    THEN [out EXCEPT !.paint = live.state.paint]
    ELSE [out EXCEPT !.paint = [t \in Tile |->
             IF t \in live.head.dirty THEN live.state.paint[t] ELSE @[t]]]

FoldStroke(ctx, p, base, acc, actor, gesture) ==
    LET reach == Reach(gesture.path)
        contested == acc.claimed \cap reach # {}
        live == RenderLive(ctx, IF contested THEN acc.out ELSE base, actor, gesture, contested,
                           Cached(p.heads, actor, gesture, contested))
        lands == live.drawn /\ actor = Me /\ ~contested /\ HeldDoc(p) = None
    IN  [out |-> Overlay(acc.out, acc.touched, live),
         heads |-> [a \in DOMAIN acc.heads \cup {actor} |->
                        IF a = actor THEN live.head ELSE acc.heads[a]],
         claimed |-> acc.claimed \cup reach,
         touched |-> TRUE,
         prepared |-> IF lands
                      THEN [rec |-> Rec(gesture), base |-> base.paint, painted |-> live.state.paint]
                      ELSE acc.prepared]

FoldGesture(ctx, p, base, acc, actor, gesture) ==
    CASE gesture.kind = "marquee" -> [acc EXCEPT !.out = SelectOnto(@, actor)]
      [] gesture.kind = "fill" ->
            [acc EXCEPT !.out = FillOnto(@, actor, gesture.path), !.touched = TRUE,
                        !.claimed = @ \cup Reach(gesture.path)]
      [] OTHER -> FoldStroke(ctx, p, base, acc, actor, gesture)

(* live_gestures: the local hand's and every peer's, folded in ascending      *)
(* actor order.                                                               *)
Gestures == [a \in Actor |-> IF a = Me THEN hand ELSE peers[a]]

InFlight(gestures) == {a \in Actor : gestures[a] # Idle}

Everyone == Max(Actor) + 1

Folded(ctx, p, base, gestures, below) ==
    LET folded[n \in Nat] ==
            IF n = 0
            THEN [out |-> base, heads |-> NoHeads, claimed |-> {}, touched |-> FALSE, prepared |-> None]
            ELSE IF n - 1 \in InFlight(gestures)
            THEN FoldGesture(ctx, p, base, folded[n - 1], n - 1, gestures[n - 1])
            ELSE folded[n - 1]
    IN  folded[below]

(* Mutant of Dropped: only a fold that is built counts as one.                *)
DroppedUncounted(p) == [p EXCEPT !.prepared = None, !.live = None, !.heads = NoHeads]

(* What becomes of the fold when nobody is mid-gesture: one dropped is a      *)
(* change of what is shown, finding none to drop is not.                      *)
Dropped(p) ==
    [p EXCEPT !.prepared = None, !.live = None, !.heads = NoHeads,
              !.fold = IF p.live # None THEN 1 - @ ELSE @]

Rebuild(p, d) ==
    LET folded == Folded(Ctx, p, Base(p, d), Gestures, Everyone)
    IN  IF InFlight(Gestures) = {}
        THEN Dropped(p)
        ELSE [p EXCEPT !.prepared = folded.prepared, !.live = folded.out,
                       !.heads = folded.heads, !.fold = 1 - @]

FlushLive(p, d) == IF p.stale THEN Rebuild([p EXCEPT !.stale = FALSE], d) ELSE p

-----------------------------------------------------------------------------
Blank == [paint |-> [t \in Tile |-> <<>>], mask |-> [a \in Actor |-> 0]]

Init ==
    /\ doc = Blank
    /\ past = <<>>
    /\ revision = 0
    /\ tooth = 0
    /\ arrived = FALSE
    /\ hand = Idle
    /\ ordinals = [a \in Actor |-> 0]
    /\ peers = [a \in Peer |-> Idle]
    /\ preview = NewPreview

(* A frame is painted.                                                        *)
Paint ==
    /\ preview.stale
    /\ preview' = FlushLive(preview, doc)
    /\ UNCHANGED <<doc, past, revision, tooth, arrived, hand, ordinals, peers>>

(* The gestures a press can open: a stroke pins its brush, and nothing of it  *)
(* is settled yet.                                                            *)
Opened(actor, kind, ordinal) ==
    {[kind |-> kind, path |-> curve, brush |-> b, ordinal |-> ordinal, frozen |-> 0] :
        curve \in Curves[actor], b \in Brush}

(* What a gesture can become at its next sample: the settled spans stay, the  *)
(* rest is solved again, and fewer spans than all are ever settled. Only a    *)
(* stroke still being fitted settles any, and it only gets longer.            *)
Resolved(actor, gesture) ==
    LET fitted == gesture.kind = "stroke"
    IN  UNION {{[gesture EXCEPT !.path = curve, !.frozen = frozen] :
                   frozen \in IF fitted THEN gesture.frozen..(Len(curve) - 1) ELSE {0}} :
               curve \in {c \in Curves[actor] :
                             fitted => /\ Len(c) >= Len(gesture.path)
                                       /\ IsPrefix(SubSeq(gesture.path, 1, gesture.frozen), c)}}

(* The local hand. *)
Hands(gesture, p) ==
    /\ hand' = gesture
    /\ preview' = Stale(p)
    /\ UNCHANGED <<doc, past, revision, tooth, arrived, peers>>

Opens(kind) ==
    /\ ordinals[Me] < MaxOrdinal
    /\ ordinals' = [ordinals EXCEPT ![Me] = @ + 1]
    /\ \E gesture \in Opened(Me, kind, ordinals[Me] + 1) : Hands(gesture, preview)

Gesturing == hand.kind \in {"stroke", "snapped", "fill", "marquee"}

Stroking == hand.kind \in {"stroke", "snapped"}

Start ==
    /\ ~Gesturing
    /\ \E kind \in Kind : Opens(kind)

GestureTo ==
    /\ Gesturing
    /\ \E gesture \in Resolved(Me, hand) : Hands(gesture, preview)
    /\ UNCHANGED ordinals

(* A hold that finds a shape: another gesture, to whoever caches its render.  *)
AssistStroke ==
    /\ hand.kind = "stroke"
    /\ Opens("snapped")

HoverTo ==
    /\ ~Gesturing
    /\ Opens("hover")

(* The hover mark is drawn with the brush in hand, a stroke with the one it   *)
(* was started with.                                                          *)
SetBrush ==
    /\ \E b \in Brush : Hands(IF hand.kind = "hover" THEN [hand EXCEPT !.brush = b] ELSE hand, preview)
    /\ UNCHANGED ordinals

(* clear_hover, and the cancelled gesture: neither spends an ordinal.         *)
CancelStroke ==
    /\ hand # Idle
    /\ Hands(Idle, preview)
    /\ UNCHANGED ordinals

-----------------------------------------------------------------------------
(* The committed document moves only through change_committed.                *)
ChangeCommitted(d, history, p) ==
    /\ revision < MaxRevision
    /\ revision' = revision + 1
    /\ doc' = d
    /\ past' = history
    /\ preview' = p
    /\ UNCHANGED <<tooth, arrived>>

Commit(d, p) == ChangeCommitted(d, Append(past, doc), Supersede(p))

(* commit_stroke and stroke_apply: the offer is taken if it is a render of    *)
(* this record over this paint, and the stroke is rendered otherwise.         *)
IsRenderOf(prepared, rec, d) == prepared.base = d.paint /\ prepared.rec = rec

StrokeApply(d, rec, offer) ==
    IF offer # None /\ IsRenderOf(offer, rec, d)
    THEN [d EXCEPT !.paint = offer.painted]
    ELSE Render(Ctx, d, Me, rec)

(* Pen-up: a stroke is folded as it stands at the release first. "fast" is    *)
(* the client's fast_commit. A record too large to draw is never logged.      *)
End ==
    /\ Gesturing
    /\ hand' = Idle
    /\ UNCHANGED <<ordinals, peers>>
    /\ LET flushed == IF Stroking THEN FlushLive(preview, doc) ELSE preview
           taken == [flushed EXCEPT !.prepared = None]
       IN  IF Stroking /\ Refuses(Rec(hand))
           THEN /\ preview' = Stale(flushed)
                /\ UNCHANGED <<doc, past, revision, tooth, arrived>>
           ELSE IF Stroking
           THEN \E fast \in BOOLEAN :
                    Commit(StrokeApply(doc, Rec(hand), IF fast THEN flushed.prepared ELSE None), taken)
           ELSE Commit(IF hand.kind = "fill" THEN FillOnto(doc, Me, hand.path) ELSE SelectOnto(doc, Me),
                       flushed)

(* An edit dragged, let go of, or committed: a declined one only drops the    *)
(* drag.                                                                      *)
PreviewEdit ==
    /\ \E edit \in Edits \cup {None} : preview' = Hold(preview, Held(edit, doc))
    /\ UNCHANGED <<doc, past, revision, tooth, arrived, hand, ordinals, peers>>

CommitEdit ==
    /\ UNCHANGED <<hand, ordinals, peers>>
    /\ \E edit \in Edits :
        LET d == EditOnto(edit, doc)
        IN  IF d # None
            THEN Commit(d, preview)
            ELSE /\ preview' = Hold(preview, None)
                 /\ UNCHANGED <<doc, past, revision, tooth, arrived>>

Undo ==
    /\ UNCHANGED <<hand, ordinals, peers>>
    /\ IF past = <<>>
       THEN /\ preview' = Hold(preview, None)
            /\ UNCHANGED <<doc, past, revision, tooth, arrived>>
       ELSE ChangeCommitted(Last(past), Front(past), Supersede(preview))

-----------------------------------------------------------------------------
(* What the others do to what is shown here.                                  *)
PeerShows(p, gesture) ==
    /\ peers' = [peers EXCEPT ![p] = gesture]
    /\ preview' = Stale(preview)
    /\ UNCHANGED <<doc, past, revision, tooth, arrived, hand>>

(* merge_presence: a frame opens a gesture, continues it or ends it.          *)
MergePresence ==
    \E p \in Peer :
        \/ /\ ordinals[p] < MaxOrdinal
           /\ ordinals' = [ordinals EXCEPT ![p] = @ + 1]
           /\ \E kind \in Kind : \E g \in Opened(p, kind, ordinals[p] + 1) : PeerShows(p, g)
        \/ /\ peers[p] # Idle
           /\ UNCHANGED ordinals
           /\ \E g \in Resolved(p, peers[p]) \cup {Idle} : PeerShows(p, g)

(* merge_remote: a peer's action arrives, the one its gesture became or       *)
(* another, and ends what is shown of the gesture.                            *)
Becomes(p) ==
    CASE Drawn(peers[p]) -> Render(Complete, doc, p, Rec(peers[p]))
      [] peers[p].kind = "fill" -> FillOnto(doc, p, peers[p].path)
      [] OTHER -> SelectOnto(doc, p)

MergeRemote ==
    \E p \in Peer : \E d \in {Becomes(p), SelectOnto(doc, p)} :
        /\ ChangeCommitted(d, past, RefoldHeld(preview, d))
        /\ peers' = [peers EXCEPT ![p] = Idle]
        /\ UNCHANGED <<hand, ordinals>>

(* apply_substrate: the texture in use is rebuilt under the document.         *)
SubstrateArrives ==
    /\ tooth = 0
    /\ tooth' = 1
    /\ preview' = Invalidate(preview)
    /\ UNCHANGED <<doc, past, revision, arrived, hand, ordinals, peers>>

(* import_brush asks nothing of the preview: the next move draws the stroke.  *)
ShapeArrives ==
    /\ ~arrived
    /\ arrived' = TRUE
    /\ UNCHANGED <<doc, past, revision, tooth, hand, ordinals, peers, preview>>

(* reset_document, before a load or a join.                                   *)
ResetDocument ==
    /\ ChangeCommitted(Blank, <<>>, Clear(Supersede(preview)))
    /\ hand' = Idle
    /\ peers' = [p \in Peer |-> Idle]
    /\ UNCHANGED ordinals

Next ==
    \/ Paint \/ Start \/ GestureTo \/ AssistStroke \/ HoverTo \/ SetBrush \/ CancelStroke \/ End
    \/ PreviewEdit \/ CommitEdit \/ Undo
    \/ MergePresence \/ MergeRemote
    \/ SubstrateArrives \/ ShapeArrives \/ ResetDocument

Spec == Init /\ [][Next]_vars

(* Every variable keeps its type. A gesture in flight is on a curve its       *)
(* actor's hand may be on, and only a stroke still fitted has settled spans.  *)
GestureOf(actor, newest) ==
    {Idle} \cup
    {g \in [kind : Kind \cup {"snapped", "hover"}, path : Curves[actor], brush : Brush,
            ordinal : 1..newest, frozen : Nat] :
        g.frozen < Len(g.path) /\ (g.kind # "stroke" => g.frozen = 0)}

PreviewOK(p) ==
    /\ DOMAIN p.heads \subseteq Actor
    /\ p \in [held : HeldEdit \cup {None}, live : Document \cup {None},
              heads : [DOMAIN p.heads -> FrozenHead], epoch : {0, 1}, fold : {0, 1},
              stale : BOOLEAN, prepared : PreparedStroke \cup {None}]

TypeOK ==
    /\ doc \in Document /\ past \in Seq(Document) /\ revision \in Nat
    /\ tooth \in {0, 1} /\ arrived \in BOOLEAN
    /\ ordinals \in [Actor -> Nat] /\ peers = [a \in Peer |-> peers[a]]
    /\ \A a \in Actor : Gestures[a] \in GestureOf(a, ordinals[a])
    /\ PreviewOK(preview)

-----------------------------------------------------------------------------
(* The fold from scratch: every gesture in flight laid whole, in ascending    *)
(* actor order, on what the document and the held edit say now.               *)
Laid(ctx, d, actor, gesture) ==
    CASE gesture.kind = "marquee" -> SelectOnto(d, actor)
      [] gesture.kind = "fill" -> FillOnto(d, actor, gesture.path)
      [] OTHER -> Render(ctx, d, actor, Rec(gesture))

FromScratch(ctx, base, gestures, below) ==
    LET laid[n \in Nat] ==
            IF n = 0 THEN base
            ELSE IF n - 1 \in InFlight(gestures) THEN Laid(ctx, laid[n - 1], n - 1, gestures[n - 1])
            ELSE laid[n - 1]
    IN  laid[below]

Scratch(resident) ==
    FromScratch([Ctx EXCEPT !.arrived = resident],
                IF preview.held # None /\ EditOnto(preview.held.edit, doc) # None
                THEN EditOnto(preview.held.edit, doc) ELSE doc,
                Gestures, Everyone)

(* Tiles a stroke's kept head still lists though its curve has left them.     *)
Leftover ==
    UNION {preview.heads[a].dirty \ Range(Gestures[a].path) :
               a \in DOMAIN preview.heads \cap InFlight(Gestures)}

Shown == Presented(preview, doc)

(* What is shown once the fold is serviced is the fold from scratch, whatever *)
(* heads, overlays and held edits it was drawn from: strokes that touch each  *)
(* other, heads settled over a document since undone, merged into or re-lit.  *)
(* Two things the code says or does otherwise are left out: a shape that has  *)
(* arrived since the last fold, and the tiles a stroke's curve has left.      *)
ShownIsTheFold ==
    ~preview.stale =>
        \E resident \in {FALSE, arrived} :
            /\ Shown.mask = Scratch(resident).mask
            /\ \A t \in Tile \ Leftover : Shown.paint[t] = Scratch(resident).paint[t]

(* Whenever a prepared stroke waits for its commit, it is the render of its   *)
(* record over the document as it is now: through the author's present mask,  *)
(* on the present tooth, and over the present paint. Only the paint and the   *)
(* record are looked at when it is taken.                                     *)
PreparedIsCurrent ==
    preview.prepared # None =>
        /\ preview.prepared.base = doc.paint
        /\ preview.prepared.painted = Render(Complete, doc, Me, preview.prepared.rec).paint

(* A pen-up commits the stroke as a replay of its record would render it,     *)
(* taken from the preview or not.                                             *)
StrokesCommitAsReplayed ==
    [][Stroking /\ hand' = Idle /\ past' = Append(past, doc)
        => doc' = Render(Ctx, doc, Me, Rec(hand))]_vars

(* The draw list is kept while doc_revision, the epoch and the fold counter   *)
(* stand: no step moves what is shown and leaves all three.                   *)
DrawKeyNamesThePicture ==
    [][Shown' # Shown =>
        <<revision, preview.epoch, preview.fold>>' # <<revision, preview.epoch, preview.fold>>]_vars
=============================================================================
