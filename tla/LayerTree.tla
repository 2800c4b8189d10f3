------------------------------ MODULE LayerTree ------------------------------
(***************************************************************************)
(* The document a log folds into: stark-engine document/state.rs,          *)
(* document/layer.rs and document/guides.rs.  A tree of layers (paint,     *)
(* matte or filter; a layer that carries others is a group), one selection *)
(* mask per author, the substrate, its color and the guide roster.  Pure   *)
(* operators, no state.                                                    *)
(*                                                                         *)
(* The tree is kept as its composite order (each base before what it       *)
(* carries, stacks bottom to top) and the layer carrying each layer, which *)
(* determine the nested stacks of the source and are determined by them.   *)
(* Pixels, masks and payloads are the history that produced them: a value  *)
(* holds the values it was computed from, so equal values are exactly the  *)
(* ones every renderer must draw alike.                                    *)
(***************************************************************************)
EXTENDS Integers, SequencesExt

CONSTANTS Tile,       \* tile coordinates, in the layer's own frame
          Actor       \* the authors, each with a selection mask of its own

\* Carriers and places that are not layers.  Layer ids are positive.
Root   == 0     \* the document's own stack
Top    == -1    \* on top of a stack
Bottom == -2    \* at its foot

Prop == {"blend", "clip", "opacity", "visible", "name", "matte", "filter",
         "translation"}

\* The function f, and g where f says nothing.
Over(f, g) == [x \in DOMAIN f \cup DOMAIN g |-> IF x \in DOMAIN f THEN f[x] ELSE g[x]]

\* What of the sequence s is in the set S.
Only(s, S) ==
  LET upTo[i \in 0..Len(s)] ==
        IF i = 0 THEN <<>>
        ELSE IF s[i] \in S THEN Append(upTo[i - 1], s[i]) ELSE upTo[i - 1]
  IN  upTo[Len(s)]

Bare      == <<>>                              \* no tile
Universal == <<>>                              \* the unrestricted mask
NoRun     == [expects |-> <<>>, field |-> <<>>]  \* nothing liquified

NewLayer(kind, content, number) ==
  [kind   |-> kind,
   prop   |-> [p \in Prop |->
                CASE p = "blend"       -> "normal"
                  [] p = "clip"        -> FALSE
                  [] p = "opacity"     -> "full"
                  [] p = "visible"     -> TRUE
                  [] p = "name"        -> "unnamed"
                  [] p = "matte"       -> IF kind = "matte" THEN content ELSE <<>>
                  [] p = "filter"      -> IF kind = "filter" THEN content ELSE "none"
                  [] p = "translation" -> 0],
   tiles  |-> [t \in Tile |-> Bare],
   run    |-> NoRun,
   number |-> number]

EmptyDocument(first) ==
  [order |-> <<first>>, carrier |-> [l \in {first} |-> Root],
   layer |-> [l \in {first} |-> NewLayer("paint", <<>>, 1)],
   mask |-> [a \in Actor |-> Universal],
   substrate |-> <<>>, color |-> <<>>, guides |-> <<>>]

------------------------------------------------------------------------------
(* Reading the tree                                                         *)

Present(doc) == ToSet(doc.order)

Position(s, x) == CHOOSE i \in DOMAIN s : s[i] = x

\* The stack carried by c, bottom to top.
StackOf(doc, c) == Only(doc.order, {l \in Present(doc) : doc.carrier[l] = c})

\* The layer id and everything it carries at any depth.
Within(doc, id) ==
  LET upTo[i \in 0..Len(doc.order)] ==
        IF i = 0 THEN {id}
        ELSE IF doc.carrier[doc.order[i]] \in upTo[i - 1]
             THEN upTo[i - 1] \cup {doc.order[i]} ELSE upTo[i - 1]
  IN  upTo[Len(doc.order)]

\* The same in composite order, which is a run of the document's order.
SubtreeIds(doc, id) == Only(doc.order, Within(doc, id))

CarriedIds(doc, id) == IF id \in Present(doc) THEN Tail(SubtreeIds(doc, id)) ELSE <<>>

Subtree(doc, id) == [order   |-> SubtreeIds(doc, id),
                     carrier |-> Restrict(doc.carrier, Within(doc, id)),
                     layer   |-> Restrict(doc.layer, Within(doc, id))]

\* Where the subtree of id ends in the composite order.
EndOf(doc, id) == Position(doc.order, id) + Len(SubtreeIds(doc, id)) - 1

\* A layer's place: the layer carrying it and how many siblings lie beneath it.
SiteOf(doc, id) == [carrier |-> doc.carrier[id],
                    index |-> Position(StackOf(doc, doc.carrier[id]), id) - 1]

\* A filter never carries, and an unknown carrier takes nothing.
MayCarry(doc, c) == \/ c = Root
                    \/ c \in Present(doc) /\ doc.layer[c].kind # "filter"

\* One past the highest number any living layer wears.
NextLayerNumber(doc) ==
  1 + Max({0} \cup {doc.layer[l].number : l \in Present(doc)})

------------------------------------------------------------------------------
(* Tree surgery                                                             *)

\* How much of the composite order lies before `place` in the stack of c.  A
\* sibling the stack does not hold means the top.
Slot(doc, c, place) ==
  IF place \in ToSet(StackOf(doc, c)) THEN EndOf(doc, place)
  ELSE IF c = Root THEN IF place = Bottom THEN 0 ELSE Len(doc.order)
  ELSE IF place = Bottom THEN Position(doc.order, c) ELSE EndOf(doc, c)

Graft(doc, slot, tree, c) ==
  [doc EXCEPT !.order = SubSeq(@, 1, slot) \o tree.order
                          \o SubSeq(@, slot + 1, Len(@)),
              !.carrier = Over([l \in {Head(tree.order)} |-> c], Over(tree.carrier, @)),
              !.layer = Over(tree.layer, @)]

Leaf(id, layer) == [order |-> <<id>>, carrier |-> [l \in {id} |-> Root],
                    layer |-> [l \in {id} |-> layer]]

\* Mutant of Insert: a filter is accepted as a carrier.
InsertAnywhere(doc, tree, c, place) ==
  IF Head(tree.order) \in Present(doc) \/ c \notin Present(doc) \cup {Root}
  THEN doc ELSE Graft(doc, Slot(doc, c, place), tree, c)

Insert(doc, tree, c, place) ==
  IF Head(tree.order) \in Present(doc) \/ ~MayCarry(doc, c) THEN doc
  ELSE Graft(doc, Slot(doc, c, place), tree, c)

Without(doc, gone) ==
  LET kept == Present(doc) \ gone
  IN  [doc EXCEPT !.order = Only(@, kept),
                  !.carrier = Restrict(@, kept), !.layer = Restrict(@, kept)]

\* Remove a layer and everything it carries.
RemoveLayer(doc, id) ==
  IF id \in Present(doc) THEN Without(doc, Within(doc, id)) ELSE doc

\* Mutant of MoveLayer: a layer may be carried onto its own descendant.
MoveLayerUnchecked(doc, id, c, place) ==
  IF id \notin Present(doc) \/ ~MayCarry(doc, c) THEN doc
  ELSE LET rest == RemoveLayer(doc, id)
       IN  IF c \in Present(rest) \cup {Root}
           THEN Graft(rest, Slot(rest, c, place), Subtree(doc, id), c)
           ELSE rest

\* Reorder, carry or release: one move for the three.
MoveLayer(doc, id, c, place) ==
  IF id \notin Present(doc) \/ ~MayCarry(doc, c) \/ c \in Within(doc, id) THEN doc
  ELSE LET rest == RemoveLayer(doc, id)
       IN  Graft(rest, Slot(rest, c, place), Subtree(doc, id), c)

\* Copy the subtree ids[1][1] above itself under the paired ids, declined when a
\* copy's id is taken or the subtree holds a layer `ids` does not pair.
DuplicateLayer(doc, ids, number) ==
  LET source  == ids[1][1]
      pair(l) == CHOOSE k \in DOMAIN ids : ids[k][1] = l
      copy(l) == ids[pair(l)][2]
      was     == SubtreeIds(doc, source)
      at(id)  == CHOOSE l \in ToSet(was) : copy(l) = id
  IN IF \/ \E j, k \in DOMAIN ids : j # k /\ ids[j][2] = ids[k][2]
        \/ \E k \in DOMAIN ids : ids[k][2] \in Present(doc)
        \/ source \notin Present(doc)
        \/ \E l \in Within(doc, source) : \A k \in DOMAIN ids : ids[k][1] # l
     THEN doc
     ELSE LET copied == [order   |-> [i \in DOMAIN was |-> copy(was[i])],
                         carrier |-> [id \in {copy(l) : l \in ToSet(was) \ {source}}
                                        |-> copy(doc.carrier[at(id)])],
                         layer   |-> [id \in {copy(l) : l \in ToSet(was)} |->
                            LET l == doc.layer[at(id)]
                            IN  IF l.number = 0 THEN l
                                ELSE [l EXCEPT !.number = number + pair(at(id)) - 1]]]
          IN  Insert(doc, copied, doc.carrier[source], source)

\* Put a removed subtree back at its site, or on top of the document when the
\* site's carrier is gone.  Already present is already restored.
RestoreLayer(doc, site, tree) ==
  LET c     == IF MayCarry(doc, site.carrier) THEN site.carrier ELSE Root
      stack == StackOf(doc, c)
      below == IF c = site.carrier THEN Min({site.index, Len(stack)}) ELSE Len(stack)
      place == IF below = 0 THEN Bottom ELSE stack[below]
  IN  IF Head(tree.order) \in Present(doc) THEN doc
      ELSE Graft(doc, Slot(doc, c, place), tree, c)

------------------------------------------------------------------------------
(* Content and properties                                                   *)

\* Which layers refuse which property.
Refuses(layer, p) ==
  \/ layer.kind = "filter" /\ p \in {"blend", "translation"}
  \/ layer.kind # "filter" /\ p = "filter"
  \/ layer.kind # "matte" /\ p = "matte"

WithProp(layer, p, v) == IF Refuses(layer, p) THEN layer
                         ELSE [layer EXCEPT !.prop[p] = v]

SetProp(doc, id, p, v) ==
  IF id \in Present(doc) THEN [doc EXCEPT !.layer[id] = WithProp(@, p, v)] ELSE doc

\* A matte's region (half 1) or its paint (half 2).
SetMatte(doc, id, half, v) ==
  IF id \in Present(doc) /\ doc.layer[id].kind = "matte"
  THEN [doc EXCEPT !.layer[id].prop["matte"][half] = v] ELSE doc

\* Each named layer's frame; absent layers are passed over.
TranslateLayers(doc, moves) ==
  [doc EXCEPT !.layer = [id \in DOMAIN @ |->
     IF id \in DOMAIN moves THEN WithProp(@[id], "translation", moves[id]) ELSE @[id]]]

Paintable(doc, id) == id \in Present(doc) /\ doc.layer[id].kind = "paint"

WithTiles(doc, id, tiles) == [doc EXCEPT !.layer[id].tiles = Over(tiles, @)]

------------------------------------------------------------------------------
(* The guide roster                                                         *)

GuideIds(roster) == {roster[i].id : i \in DOMAIN roster}

GuideAt(roster, id) == CHOOSE i \in DOMAIN roster : roster[i].id = id

\* Directly after the guide named, or at the head.
SlotAfter(roster, after) == IF after \in GuideIds(roster) THEN GuideAt(roster, after) ELSE 0

InsertGuide(roster, guide, after) ==
  IF guide.id \in GuideIds(roster) THEN roster
  ELSE InsertAt(roster, SlotAfter(roster, after) + 1, guide)

RemoveGuide(roster, id) == SelectSeq(roster, LAMBDA g : g.id # id)

SetGuide(roster, id, camera) ==
  [i \in DOMAIN roster |-> IF roster[i].id = id THEN [roster[i] EXCEPT !.camera = camera]
                                                ELSE roster[i]]

\* Taken out, then put back against the shortened roster.
MoveGuide(roster, id, after) ==
  IF id \notin GuideIds(roster) THEN roster
  ELSE InsertGuide(RemoveGuide(roster, id), roster[GuideAt(roster, id)], after)
==============================================================================
