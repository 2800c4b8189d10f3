------------------------------ MODULE LayerFold ------------------------------
(***************************************************************************)
(* Folding one action into the document (stark-engine fold/apply.rs) and   *)
(* the plan of a merge down (fold/merge.rs).  An action is a record of its *)
(* kind, its number n (it stands for the ActionId), its author and the     *)
(* payload its kind carries.  Folding is total: an action that cannot be   *)
(* honoured leaves the document as it was.                                 *)
(***************************************************************************)
EXTENDS LayerTree

CONSTANTS Resampling,   \* filters that gather from other texels
          Neutral       \* filters that change nothing

\* LayerId::new(action n, k): no action mints MaxCopies layers or more.
MaxCopies == 8
LayerIdOf(n, k) == MaxCopies * n + k + 1

Mask(a, doc) == doc.mask[a.actor]

------------------------------------------------------------------------------
(* Paint.  A tile names the edit that drew it and all that edit could read. *)

Drawn(a, doc, what, reads) == <<what, a.n, reads, Mask(a, doc)>>

TilesOf(doc, id, tiles) == Restrict(doc.layer[id].tiles, tiles)

\* Lay a stroke through its author's mask onto the substrate of that moment.
FoldStroke(a, doc) ==
  IF ~Paintable(doc, a.layer) THEN doc
  ELSE LET reads == <<TilesOf(doc, a.layer, a.tiles), doc.substrate>>
       IN  WithTiles(doc, a.layer, [t \in a.tiles |-> Drawn(a, doc, "stroke", reads)])

\* Mutant of Fresh: the whole layer is consulted, not the declared reach.
FreshEverywhere(run, tiles, reach) == \A t \in DOMAIN run.expects : run.expects[t] = tiles[t]

\* Whether a run still stands on the tiles it left, within the tiles a stroke may read.
Fresh(run, tiles, reach) == \A t \in DOMAIN run.expects \cap reach :
                               run.expects[t] = tiles[t]

\* A liquify stroke composes through the layer's run, or starts one afresh from
\* the picture within its reach when something else has painted there since.
FoldLiquify(a, doc) ==
  IF ~Paintable(doc, a.layer) THEN doc
  ELSE LET layer == doc.layer[a.layer]
           reach == TilesOf(doc, a.layer, a.reach)
           run   == IF Fresh(layer.run, layer.tiles, a.reach) THEN layer.run ELSE NoRun
           reads == <<reach, run.field, doc.substrate>>
           drawn == [t \in a.tiles |-> Drawn(a, doc, "liquify", reads)]
       IN  [WithTiles(doc, a.layer, drawn) EXCEPT
              !.layer[a.layer].run = [expects |-> Over(Over(drawn, run.expects), reach),
                                      field   |-> <<a.n, reads>>]]

FoldFill(a, doc) ==
  IF ~Paintable(doc, a.layer) THEN doc
  ELSE WithTiles(doc, a.layer,
         [t \in a.tiles |-> Drawn(a, doc, "fill", TilesOf(doc, a.layer, {t}))])

\* Cut the selected paint, restack it under the map and carry the mask with it.
FoldTransform(a, doc) ==
  IF ~Paintable(doc, a.layer) THEN doc
  ELSE LET reads == TilesOf(doc, a.layer, a.tiles)
       IN  [WithTiles(doc, a.layer, [t \in a.tiles |-> Drawn(a, doc, "transform", reads)])
              EXCEPT !.mask[a.actor] = IF @ = Universal THEN @
                                       ELSE <<"transform", a.n, @>>]

\* Every selection op reads and rewrites its author's own mask.
FoldSelect(a, doc) ==
  [doc EXCEPT !.mask[a.actor] = IF a.op = "everything" THEN Universal
                                ELSE <<a.op, a.n, @>>]

------------------------------------------------------------------------------
(* Layers minted with content                                               *)

FoldAddLayer(a, doc) ==
  Insert(doc, Leaf(a.layer, NewLayer(a.content[1], a.content[2], a.number)),
         a.carrier, a.place)

\* AddLayer's own insertion, then the name and the picture's tiles.  A held id
\* is refused whole.
FoldPlaceImage(a, doc) ==
  LET added == FoldAddLayer(a, doc) IN
  IF a.layer \in Present(doc) \/ a.layer \notin Present(added) THEN doc
  ELSE WithTiles(SetProp(added, a.layer, "name", a.name), a.layer,
                 [t \in a.tiles |-> <<"image", a.n>>])

\* Whether a float would cut anything: something is selected and there is paint.
FloatOffered(a, doc) ==
  /\ Mask(a, doc) # Universal
  /\ Paintable(doc, a.source)
  /\ \E t \in Tile : doc.layer[a.source].tiles[t] # Bare

\* Cut the selected paint into a child at the foot of the source's own stack,
\* and consume the selection.
FoldFloat(a, doc) ==
  LET was    == doc.layer[a.source].tiles
      cut    == [t \in {u \in Tile : was[u] # Bare} |-> <<"float", a.n, was[t], Mask(a, doc)>>]
      rest   == [t \in DOMAIN cut |-> <<"cut", a.n, was[t], Mask(a, doc)>>]
      blank  == NewLayer("paint", <<>>, a.number)
      lifted == [WithProp(blank, "translation", a.frame) EXCEPT !.tiles = Over(cut, @)]
  IN  IF a.layer \in Present(doc) \/ ~FloatOffered(a, doc) THEN doc
      ELSE [Insert(WithTiles(doc, a.source, rest), Leaf(a.layer, lifted), a.source, Bottom)
              EXCEPT !.mask[a.actor] = Universal]

\* Mutant of FoldRemoveLayer: whatever the group holds now goes with it.
FoldRemoveGroup(a, doc) == RemoveLayer(doc, a.layer)

\* Declined unless the subtree is exactly the one the action names.
FoldRemoveLayer(a, doc) ==
  IF a.layer \in Present(doc) /\ CarriedIds(doc, a.layer) = a.carried
  THEN RemoveLayer(doc, a.layer) ELSE doc

------------------------------------------------------------------------------
(* Merge down                                                               *)

\* The layer directly beneath: the lower sibling, else the carrier (Root: none).
Below(doc, s) ==
  LET stack == StackOf(doc, doc.carrier[s])
      i     == Position(stack, s)
  IN  IF i = 1 THEN doc.carrier[s] ELSE stack[i - 1]

\* Whether that layer is the whole of what s composites onto.
BackdropIsDest(doc, s) ==
  LET stack == StackOf(doc, doc.carrier[s])
      i     == Position(stack, s)
  IN  \/ i = 1
      \/ i = 2 /\ doc.carrier[s] = Root /\ ~doc.layer[stack[1]].prop["clip"]

PlainPaint(doc, id) == Paintable(doc, id) /\ StackOf(doc, id) = <<>>

\* A filter is baked into the paint that is all of its backdrop.
FilterMerges(doc, s, d) ==
  /\ BackdropIsDest(doc, s)
  /\ doc.layer[s].prop["filter"] \notin Resampling
  /\ Paintable(doc, d)
  /\ doc.carrier[s] = d \/ PlainPaint(doc, d)

PaintMerges(doc, s, d) ==
  /\ PlainPaint(doc, s)
  /\ doc.layer[s].prop["clip"] => BackdropIsDest(doc, s)
  /\ \/ doc.carrier[s] = d /\ Paintable(doc, d)
     \/ /\ PlainPaint(doc, d) /\ ~doc.layer[d].prop["clip"]
        /\ \/ BackdropIsDest(doc, s)
           \/ doc.layer[s].prop["blend"] = doc.layer[d].prop["blend"]

\* Mutant of MergeOffered: a hidden layer merges into a shown one.
MergeOfferedHidden(doc, s, d) ==
  /\ s \in Present(doc)
  /\ d = Below(doc, s) /\ d # Root
  /\ IF doc.layer[s].kind = "filter" THEN FilterMerges(doc, s, d) ELSE PaintMerges(doc, s, d)

\* The merge of s down onto d preserves the document's appearance.
MergeOffered(doc, s, d) ==
  /\ s \in Present(doc)
  /\ d = Below(doc, s) /\ d # Root
  /\ doc.layer[s].prop["visible"] = doc.layer[d].prop["visible"]
  /\ IF doc.layer[s].kind = "filter" THEN FilterMerges(doc, s, d) ELSE PaintMerges(doc, s, d)

\* The destination's tiles under a filter's pass, or with the source stacked on.
MergedTiles(doc, s, d) ==
  LET up == doc.layer[s]   down == doc.layer[d]
      aligned == up.prop["translation"] = down.prop["translation"]
      shift == up.prop["translation"] - down.prop["translation"]
      upper(t) == IF aligned \/ \A u \in Tile : up.tiles[u] = Bare THEN up.tiles[t]
                  ELSE <<"shift", shift, up.tiles>>
      grade == up.prop["filter"]
      slider == IF doc.carrier[s] = d THEN "full" ELSE down.prop["opacity"]
  IN [t \in Tile |->
        IF up.kind = "filter"
        THEN IF grade \in Neutral \/ down.tiles[t] = Bare THEN down.tiles[t]
             ELSE <<"filter", grade, up.prop["opacity"], down.tiles[t]>>
        ELSE IF down.tiles[t] = Bare /\ upper(t) = Bare THEN Bare
             ELSE <<"merge", upper(t), up.prop["opacity"], up.prop["blend"],
                    up.prop["clip"], down.tiles[t], slider>>]

\* What the survivor keeps: a carrier its own params, a sibling the shared mode
\* at full strength, the destination of a filter everything.
Survivor(doc, s, d) ==
  LET down == doc.layer[d] IN
  IF doc.layer[s].kind = "filter" \/ doc.carrier[s] = d THEN down
  ELSE [down EXCEPT !.prop["clip"] = FALSE, !.prop["opacity"] = "full"]

\* Mutant of FoldMergeDown: the destination the author named is trusted.
FoldMergeTrusting(a, doc) ==
  IF a.source \notin Present(doc) \/ ~Paintable(doc, a.dest) THEN doc
  ELSE RemoveLayer([doc EXCEPT !.layer[a.dest].tiles = MergedTiles(doc, a.source, a.dest)],
                   a.source)

FoldMergeDown(a, doc) ==
  IF ~MergeOffered(doc, a.source, a.dest) THEN doc
  ELSE RemoveLayer(
         [doc EXCEPT !.layer[a.dest] =
            [Survivor(doc, a.source, a.dest) EXCEPT
               !.tiles = MergedTiles(doc, a.source, a.dest)]],
         a.source)

------------------------------------------------------------------------------

FoldGuides(a, roster) ==
  CASE a.op = "add"    -> InsertGuide(roster, [id |-> a.n, camera |-> 0], a.after)
    [] a.op = "remove" -> RemoveGuide(roster, a.guide)
    [] a.op = "set"    -> SetGuide(roster, a.guide, a.n)
    [] a.op = "move"   -> MoveGuide(roster, a.guide, a.after)

\* One action folded into the document.
Fold(a, doc) ==
  CASE a.kind = "CommitStroke"    -> FoldStroke(a, doc)
    [] a.kind = "Liquify"         -> FoldLiquify(a, doc)
    [] a.kind = "Fill"            -> FoldFill(a, doc)
    [] a.kind = "Transform"       -> FoldTransform(a, doc)
    [] a.kind = "Select"          -> FoldSelect(a, doc)
    [] a.kind = "AddLayer"        -> FoldAddLayer(a, doc)
    [] a.kind = "PlaceImage"      -> FoldPlaceImage(a, doc)
    [] a.kind = "FloatSelection"  -> FoldFloat(a, doc)
    [] a.kind = "DuplicateLayer"  -> DuplicateLayer(doc, a.ids, a.number)
    [] a.kind = "RemoveLayer"     -> FoldRemoveLayer(a, doc)
    [] a.kind = "MoveLayer"       -> MoveLayer(doc, a.layer, a.carrier, a.place)
    [] a.kind = "MergeLayerDown"  -> FoldMergeDown(a, doc)
    [] a.kind = "SetProp"         -> SetProp(doc, a.layer, a.prop, a.value)
    [] a.kind = "SetMatte"        -> SetMatte(doc, a.layer, a.half, a.value)
    [] a.kind = "TranslateLayers" -> TranslateLayers(doc, a.moves)
    [] a.kind = "SetSubstrate"    -> [doc EXCEPT !.substrate = <<a.n, @>>]
    [] a.kind = "SetSubstrateColor" -> [doc EXCEPT !.color = <<a.n>>]
    [] a.kind = "Guides"          -> [doc EXCEPT !.guides = FoldGuides(a, @)]
==============================================================================
