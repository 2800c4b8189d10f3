----------------------------- MODULE LayerHistory -----------------------------
(***************************************************************************)
(* A materialized history over the layer document: the external `history`  *)
(* crate driven by stark-model document/fold.rs, fed with the actions the  *)
(* engine's commands mint (stark-engine engine/input.rs).  Every author    *)
(* mints against the document it holds, which may be behind this one, and  *)
(* the action lands at its place in the log; an undo shifts an action out  *)
(* past what it commutes with and patches each snapshot by its inverse.    *)
(***************************************************************************)
EXTENDS LayerFootprint

\* Each scene is a document and what its authors go on to do with it: the actions
\* that built it ("seed"); the kinds of action committed next ("alphabet") and by
\* whom ("authors"); the <<kind, content>> of the layers added ("contents"), the
\* <<property, value>> pairs set ("edits"), the tile sets a stroke, fill or
\* transform claims ("strokes") and those a liquify stroke may read beyond its mark
\* ("reaches"); and the bounds on actions committed over the seed and on undos.
CONSTANT Scene

Kinds == {"CommitStroke", "Liquify", "Fill", "Transform", "Select", "AddLayer", "PlaceImage",
          "FloatSelection", "DuplicateLayer", "RemoveLayer", "MoveLayer", "MergeLayerDown",
          "SetProp", "SetMatte", "TranslateLayers", "SetSubstrate", "SetSubstrateColor", "Guides"}

Id == Nat \ {0}

\* An action as the commands mint it: what it claims of a layer are tiles, and what
\* it brings are layers.
WellFormed(a) ==
  /\ a.kind \in Kinds /\ a.actor \in Actor
  /\ a.kind \in {"CommitStroke", "Liquify", "Fill", "Transform", "PlaceImage"} => a.tiles \subseteq Tile
  /\ a.kind = "Liquify" => a.reach \subseteq Tile
  /\ a.kind \in {"AddLayer", "PlaceImage", "FloatSelection"} => a.layer \in Id
  /\ a.kind = "DuplicateLayer" => a.ids \in Seq(Id \X Id) /\ Len(a.ids) >= 1

\* A document is built by such actions, and its authors commit such.
ASSUME SceneAssumption ==
  \A s \in Scene :
    /\ s.seed \in Seq(ToSet(s.seed)) /\ \A i \in DOMAIN s.seed : WellFormed(s.seed[i])
    /\ s.alphabet \subseteq Kinds /\ s.authors \subseteq Actor
    /\ s.strokes \subseteq SUBSET Tile /\ s.reaches \subseteq SUBSET Tile

VARIABLES scene,       \* the one being played
          acts,        \* the materialized actions, oldest first
          docs,        \* docs[i + 1]: the document after the first i of them
          minted,      \* how many actions have been committed
          withdrawn    \* undone actions, oldest first

vars == <<scene, acts, docs, minted, withdrawn>>

SeedNumber == Len(scene.seed)

\* The snapshots of folding `as` one after another onto `base`.
Replay(base, as) ==
  LET at[i \in 0..Len(as)] == IF i = 0 THEN base ELSE Fold(as[i], at[i-1])
  IN  [i \in 1..Len(as) + 1 |-> at[i-1]]

Current == docs[Len(docs)]

------------------------------------------------------------------------------
(* What a client holding `doc` may commit as its action n.                  *)

Carriers(doc) == Present(doc) \cup {Root}

\* A stack and a place in it.
Sites(doc) == UNION {{<<c, p>> : p \in {Top, Bottom} \cup ToSet(StackOf(doc, c))} :
                     c \in Carriers(doc)}

Paired(n, ids) == [k \in DOMAIN ids |-> <<ids[k], LayerIdOf(n, k - 1)>>]

\* The payloads of a kind: the layers named are ones the document shows.
Payloads(kind, doc, n) ==
  CASE kind = "AddLayer" ->
         {[layer |-> LayerIdOf(n, 0), carrier |-> s[1], place |-> s[2], content |-> x,
           number |-> IF x[1] = "paint" THEN NextLayerNumber(doc) ELSE 0] :
          s \in Sites(doc), x \in scene.contents}
    [] kind = "PlaceImage" ->
         {[layer |-> LayerIdOf(n, 0), carrier |-> s[1], place |-> s[2],
           content |-> <<"paint", <<>>>>, number |-> NextLayerNumber(doc),
           name |-> "picture", tiles |-> Tile] : s \in Sites(doc)}
    [] kind = "FloatSelection" ->
         {[source |-> l, layer |-> LayerIdOf(n, 0), number |-> NextLayerNumber(doc),
           frame |-> doc.layer[l].prop["translation"]] : l \in Present(doc)}
    [] kind = "DuplicateLayer" ->
         {[ids |-> Paired(n, SubtreeIds(doc, l)), number |-> NextLayerNumber(doc)] :
          l \in Present(doc)}
    [] kind = "RemoveLayer" ->
         {[layer |-> l, carried |-> CarriedIds(doc, l)] : l \in Present(doc)}
    [] kind = "MoveLayer" ->
         {[layer |-> l, carrier |-> s[1], place |-> s[2]] : l \in Present(doc), s \in Sites(doc)}
    [] kind = "MergeLayerDown" ->
         {[source |-> l, dest |-> Below(doc, l)] :
          l \in {m \in Present(doc) : MergeOffered(doc, m, Below(doc, m))}}
    [] kind = "SetProp" ->
         {[layer |-> l, prop |-> e[1], value |-> e[2]] : l \in Present(doc), e \in scene.edits}
    [] kind = "SetMatte" ->
         {[layer |-> l, half |-> h, value |-> n] :
          l \in {m \in Present(doc) : doc.layer[m].kind = "matte"}, h \in {1, 2}}
    [] kind = "TranslateLayers" ->
         {[moves |-> [m \in Within(doc, l) |-> 1]] : l \in Present(doc)}
    [] kind \in {"CommitStroke", "Fill", "Transform"} ->
         {[layer |-> l, tiles |-> t] : l \in Present(doc), t \in scene.strokes}
    [] kind = "Liquify" ->
         {[layer |-> l, tiles |-> t, reach |-> t \cup r] :
          l \in Present(doc), t \in scene.strokes, r \in scene.reaches}
    [] kind = "Select" -> {[op |-> o] : o \in {"region", "everything"}}
    [] kind = "Guides" ->
         {[op |-> "add", after |-> g] : g \in {0} \cup GuideIds(doc.guides)}
         \cup {[op |-> o, guide |-> g, after |-> h] : o \in {"remove", "set", "move"},
               g \in GuideIds(doc.guides), h \in {0} \cup GuideIds(doc.guides)}
    [] OTHER -> {[op |-> "set"]}

\* An edit of properties alone that would leave the document as it is.
IsNoOp(a, doc) ==
  /\ {r[1] : r \in Writes(a)} \cap {"paint", "existence", "run", "stack order"} = {}
  /\ Differences(doc, Fold(a, doc)) = {}

\* The commands that ask the fold's own question first spend no action on a no.
Offered(a, doc) == /\ a.kind = "FloatSelection" => FloatOffered(a, doc)
                   /\ ~IsNoOp(a, doc)

Mintable(doc, n) ==
  {a \in UNION {{Over([kind |-> kind, n |-> n, actor |-> actor], p) :
                 actor \in scene.authors, p \in Payloads(kind, doc, n)} : kind \in scene.alphabet} :
   Offered(a, doc)}

------------------------------------------------------------------------------
(* The history                                                              *)

Init ==
  /\ scene \in Scene
  /\ acts = <<>>
  /\ docs = <<Last(Replay(EmptyDocument(LayerIdOf(0, 0)), scene.seed))>>
  /\ minted = 0
  /\ withdrawn = <<>>

\* The log takes `a` after its first `before` actions, refolding the later ones.
InsertAction(a, before) ==
  LET later == <<a>> \o SubSeq(acts, before + 1, Len(acts)) IN
  /\ acts' = SubSeq(acts, 1, before) \o later
  /\ docs' = SubSeq(docs, 1, before) \o Replay(docs[before + 1], later)

\* An author holding the document after the first `held` actions commits; its
\* action orders after everything its author held.
Commit(held, before) ==
  \E a \in Mintable(docs[held + 1], SeedNumber + minted + 1) :
    /\ InsertAction(a, before)
    /\ minted' = minted + 1
    /\ UNCHANGED withdrawn

\* How many actions right after position i commute with the action there.
CommutingRun(i) ==
  LET stops == {j \in i + 1 .. Len(acts) : Conflicts(acts[i], acts[j])}
  IN  (IF stops = {} THEN Len(acts) + 1 ELSE Min(stops)) - i - 1

\* remove_action_with: shift the action at i out past that run, patching each
\* snapshot by its inverse, and replay whatever follows.
Undo(i) ==
  LET run     == CommutingRun(i)
      patched == [k \in 1..run |-> Unapply(acts[i], docs[i], docs[i + 1 + k])]
      kept    == SubSeq(docs, 1, i) \o patched
      rest    == SubSeq(acts, i + run + 1, Len(acts))
  IN  /\ acts' = SubSeq(acts, 1, i - 1) \o SubSeq(acts, i + 1, Len(acts))
      /\ docs' = Front(kept) \o Replay(Last(kept), rest)
      /\ withdrawn' = Append(withdrawn, acts[i])
      /\ UNCHANGED minted

\* The newest withdrawn action is revived at the end of the log.
Redo ==
  /\ InsertAction(Last(withdrawn), Len(acts))
  /\ withdrawn' = Front(withdrawn)
  /\ UNCHANGED minted

Next ==
  /\ UNCHANGED scene
  /\ \/ /\ minted < scene.commits
        /\ \E held \in 0..Len(acts) : \E before \in held..Len(acts) : Commit(held, before)
     \/ /\ Len(withdrawn) < scene.undos
        /\ \E i \in 1..Len(acts) : Undo(i)
     \/ withdrawn # <<>> /\ Redo

Spec == Init /\ [][Next]_vars

------------------------------------------------------------------------------
(* Properties                                                               *)

\* The tree of every snapshot is one: each layer once, in the stack of a carrier
\* that precedes it, with what it carries directly after it; a filter carries
\* nothing.  (state.rs: ids are refused rather than doubled, cycles declined.)
TreeSound(doc) ==
  /\ IsInjective(doc.order)
  /\ DOMAIN doc.carrier = Present(doc) /\ DOMAIN doc.layer = Present(doc)
  /\ \A i \in DOMAIN doc.order :
       LET c == doc.carrier[doc.order[i]] IN
       /\ c = Root \/ \E j \in 1..i - 1 : doc.order[j] = c
       /\ c # Root => doc.layer[c].kind # "filter"
       /\ SubSeq(doc.order, i, EndOf(doc, doc.order[i])) = SubtreeIds(doc, doc.order[i])

TypeOK == \A i \in DOMAIN docs : TreeSound(docs[i])

\* Every snapshot is the fold of its action over the one before it: taking an
\* action out by patching the run it commutes with leaves what a replay of the
\* remaining log would (history's contract with Footprint and unapply).
SnapshotsAreReplays ==
  /\ Len(docs) = Len(acts) + 1
  /\ \A i \in DOMAIN acts : docs[i + 1] = Fold(acts[i], docs[i])

\* No fold changes what its footprint does not declare (fold/audit.rs).
FoldsStayInFootprint ==
  \A i \in DOMAIN acts : Differences(docs[i], docs[i + 1]) \subseteq Writes(acts[i])

\* Undoing the action just folded restores the document exactly, whatever it was.
InverseIsExact ==
  \A i \in DOMAIN acts : Unapply(acts[i], docs[i], docs[i + 1]) = docs[i]

\* Two neighbours whose footprints do not conflict fold alike in either order.
NeighboursCommute ==
  \A i \in 1..Len(acts) - 1 :
    Conflicts(acts[i], acts[i + 1]) \/ Fold(acts[i], Fold(acts[i + 1], docs[i])) = docs[i + 2]
==============================================================================
