---------------------------- MODULE LayerFootprint ----------------------------
(***************************************************************************)
(* What an action declares it touches (stark-model document/footprint.rs), *)
(* how its effect is taken out again (stark-engine document/patch.rs) and  *)
(* what can differ between two documents (fold/audit.rs).                  *)
(*                                                                         *)
(* A claim is the set of the finest resources it names: a tile rect is one *)
(* resource per tile and Resource::Layer everything about its layer, so    *)
(* two claims overlap in the source exactly when they intersect here.      *)
(***************************************************************************)
EXTENDS LayerFold

Paint(id, tiles)  == {<<"paint", id, t>> : t \in tiles}
Existence(ids)    == {<<"existence", id>> : id \in ids \ {Root, Top, Bottom}}
PropClaim(id, ps) == {<<"prop", id, p>> : p \in ps}
LiquifyRun(id)    == {<<"run", id>>}
LayerClaim(ids)   == UNION {Existence({id}) \cup Paint(id, Tile) \cup LiquifyRun(id)
                            \cup PropClaim(id, Prop) : id \in ids}
StackOrder        == {<<"stack order">>}
Selection(actor)  == {<<"selection", actor>>}
Substrate         == {<<"substrate">>}
SubstrateColor    == {<<"substrate color">>}
GuideRoster       == {<<"guides">>}

\* Mutant of SourcesRead: a duplicate is taken to read nothing it copies.
SourcesUnread(a) == {}

\* A copy is a function of everything about every layer it copies.
SourcesRead(a) == LayerClaim({a.ids[k][1] : k \in DOMAIN a.ids})

\* What folding the action reads beyond what it writes.
Reads(a) ==
  CASE a.kind \in {"CommitStroke", "Liquify"} ->
         Existence({a.layer}) \cup Selection(a.actor) \cup Substrate
           \cup (IF a.kind = "Liquify" THEN Paint(a.layer, a.reach) \cup LiquifyRun(a.layer) ELSE {})
    [] a.kind = "Fill" -> Existence({a.layer}) \cup Selection(a.actor)
    [] a.kind \in {"Transform", "SetProp", "SetMatte"} -> Existence({a.layer})
    [] a.kind = "FloatSelection" -> Existence({a.source})
    [] a.kind \in {"AddLayer", "PlaceImage"} -> Existence({a.carrier, a.place})
    [] a.kind = "MoveLayer" -> Existence({a.layer, a.carrier, a.place})
    [] a.kind = "DuplicateLayer" -> SourcesRead(a)
    [] a.kind = "MergeLayerDown" -> LayerClaim({a.source, a.dest})
    [] a.kind = "TranslateLayers" -> Existence(DOMAIN a.moves)
    [] OTHER -> {}

\* What it writes.
Writes(a) ==
  CASE a.kind \in {"CommitStroke", "Fill"} -> Paint(a.layer, a.tiles)
    [] a.kind = "Liquify" -> Paint(a.layer, a.tiles) \cup LiquifyRun(a.layer)
    [] a.kind = "Transform" -> Paint(a.layer, a.tiles) \cup Selection(a.actor)
    [] a.kind = "Select" -> Selection(a.actor)
    [] a.kind \in {"AddLayer", "PlaceImage"} -> LayerClaim({a.layer}) \cup StackOrder
    [] a.kind = "FloatSelection" ->
         Paint(a.source, Tile) \cup LayerClaim({a.layer}) \cup Selection(a.actor) \cup StackOrder
    [] a.kind = "DuplicateLayer" ->
         LayerClaim({a.ids[k][2] : k \in DOMAIN a.ids}) \cup StackOrder
    [] a.kind = "RemoveLayer" -> LayerClaim({a.layer} \cup ToSet(a.carried)) \cup StackOrder
    [] a.kind = "MoveLayer" -> StackOrder
    [] a.kind = "MergeLayerDown" ->
         Existence({a.source, a.dest}) \cup Paint(a.dest, Tile)
           \cup PropClaim(a.dest, {"blend", "clip", "opacity"}) \cup StackOrder
    [] a.kind = "SetProp" -> PropClaim(a.layer, {a.prop})
    [] a.kind = "SetMatte" -> PropClaim(a.layer, {"matte"})
    [] a.kind = "TranslateLayers" -> UNION {PropClaim(id, {"translation"}) : id \in DOMAIN a.moves}
    [] a.kind = "SetSubstrate" -> Substrate
    [] a.kind = "SetSubstrateColor" -> SubstrateColor
    [] a.kind = "Guides" -> GuideRoster

\* The two actions may fail to commute.
Conflicts(a, b) ==
  \/ Writes(a) \cap (Writes(b) \cup Reads(b)) # {}
  \/ Reads(a) \cap Writes(b) # {}

------------------------------------------------------------------------------
(* Taking an action's effect out: every resource it writes is put back to   *)
(* its value in `previous`, existence before anything else.                 *)

\* The layers the action brought are removed and the ones it took come back, each
\* with its whole subtree, in composite order.
RestoreExistence(writes, previous, doc) ==
  LET written(id) == <<"existence", id>> \in writes
      added   == {l \in Present(doc) \ Present(previous) : written(l)}
      taken   == Only(previous.order, {l \in Present(previous) \ Present(doc) : written(l)})
      restored[i \in 0..Len(taken)] ==
        IF i = 0 THEN Without(doc, UNION {Within(doc, l) : l \in added})
        ELSE RestoreLayer(restored[i - 1], SiteOf(previous, taken[i]), Subtree(previous, taken[i]))
  IN  restored[Len(taken)]

\* Tiles, properties and the run, on the layers both documents hold.
RestoreLayers(writes, previous, current, doc) ==
  LET shared == Present(previous) \cap Present(current) \cap Present(doc)
      was(id) == previous.layer[id]
      patched(id, layer) ==
        [layer EXCEPT
          !.tiles = [t \in Tile |-> IF <<"paint", id, t>> \in writes THEN was(id).tiles[t] ELSE @[t]],
          !.run   = IF <<"run", id>> \in writes THEN was(id).run ELSE @,
          !.prop  = [p \in Prop |-> IF <<"prop", id, p>> \in writes THEN was(id).prop[p] ELSE @[p]]]
  IN  [doc EXCEPT !.layer = [id \in DOMAIN @ |->
         IF id \in shared THEN patched(id, @[id]) ELSE @[id]]]

\* The tree in the shape of `previous`, keeping the records the document holds
\* now; a layer the shape predates stands on top of the document.
RestoreStructure(previous, doc) ==
  LET upTo[i \in 0..Len(previous.order)] ==
        IF i = 0 THEN <<>>
        ELSE LET l == previous.order[i] IN
             IF l \in Present(doc) /\ previous.carrier[l] \in ToSet(upTo[i - 1]) \cup {Root}
             THEN Append(upTo[i - 1], l) ELSE upTo[i - 1]
      order  == upTo[Len(previous.order)] \o Only(doc.order, Present(doc) \ Present(previous))
  IN  [doc EXCEPT !.order = order,
                  !.carrier = [l \in ToSet(order) |-> IF l \in Present(previous)
                                                      THEN previous.carrier[l] ELSE Root],
                  !.layer = Restrict(@, ToSet(order))]

\* Mutant of Unapply: the whole previous document is put back.
UnapplyWhole(a, previous, doc) == previous

\* Mutant of Unapply: the tree's shape is not restored.
UnapplyButShape(a, previous, doc) ==
  RestoreLayers(Writes(a), previous, doc, RestoreExistence(Writes(a), previous, doc))

Unapply(a, previous, doc) ==
  LET w == Writes(a)
      layers == RestoreLayers(w, previous, doc, RestoreExistence(w, previous, doc))
      shaped == IF <<"stack order">> \in w THEN RestoreStructure(previous, layers) ELSE layers
  IN  [shaped EXCEPT
        !.mask  = [x \in Actor |-> IF <<"selection", x>> \in w THEN previous.mask[x] ELSE @[x]],
        !.substrate = IF <<"substrate">> \in w THEN previous.substrate ELSE @,
        !.color = IF <<"substrate color">> \in w THEN previous.color ELSE @,
        !.guides = IF <<"guides">> \in w THEN previous.guides ELSE @]

------------------------------------------------------------------------------
(* Everything that differs between two documents, as resources.             *)

LayerDifferences(before, after, id) ==
  LET x == before.layer[id]  y == after.layer[id]
  IN  {<<"paint", id, t>> : t \in {u \in Tile : x.tiles[u] # y.tiles[u]}}
      \cup {<<"prop", id, p>> : p \in {q \in Prop : x.prop[q] # y.prop[q]}}
      \cup (IF x.run # y.run THEN LiquifyRun(id) ELSE {})

Differences(before, after) ==
  LET b == Present(before)  c == Present(after) IN
  Existence((b \ c) \cup (c \ b))
  \cup (UNION {LayerDifferences(before, after, id) : id \in b \cap c})
  \cup (IF before.order # after.order \/ before.carrier # after.carrier THEN StackOrder ELSE {})
  \cup (UNION {Selection(x) : x \in {y \in Actor : before.mask[y] # after.mask[y]}})
  \cup (IF before.substrate # after.substrate THEN Substrate ELSE {})
  \cup (IF before.color # after.color THEN SubstrateColor ELSE {})
  \cup (IF before.guides # after.guides THEN GuideRoster ELSE {})
==============================================================================
