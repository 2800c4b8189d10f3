----------------------------- MODULE LayerPicture -----------------------------
(***************************************************************************)
(* What a document looks like: the draw list of stark-engine               *)
(* engine/draw_list.rs, one tile at a time, reduced by the laws the header *)
(* of fold/merge.rs rests on.  A picture is the sequence of what is        *)
(* composited, bottom to top; each element carries its mode, its clip and  *)
(* its sliders.  Two equal pictures are drawn alike:                       *)
(*   - nothing laid on a backdrop is the backdrop;                         *)
(*   - on an empty backdrop a mode says nothing and a clip leaves nothing; *)
(*   - what a run laid in one mode, unclipped, has on top in that mode and *)
(*     unclipped may be laid after the rest (the modes are associative);   *)
(*   - a pointwise filter commutes with a slider beneath it and is         *)
(*     indifferent to its own clip.                                        *)
(***************************************************************************)
EXTENDS LayerHistory

Identity == [blend |-> "any", clip |-> FALSE, opacity |-> "full"]

Params(layer) == [blend |-> layer.prop["blend"], clip |-> layer.prop["clip"],
                  opacity |-> layer.prop["opacity"]]

Piece(what) == [what |-> what, blend |-> "any", clip |-> FALSE, sliders |-> <<>>]

IsFilter(e) == e.what[1] = "pass"

\* How far up the picture the last of the places in `stuck` is, its foot at least.
Core(stuck) == Max({1} \cup stuck)

\* The first k elements as one: isolated, unless there is only one.
Isolated(pic, k) == IF k = 1 THEN pic[1] ELSE Piece(<<"group", SubSeq(pic, 1, k)>>)

\* The same with e in their stead.
Crowned(e, pic, k) == <<e>> \o SubSeq(pic, k + 1, Len(pic))

\* An element as it is laid on a backdrop.
Laid(e, blend, clip) == [what |-> e.what, blend |-> blend, clip |-> clip, sliders |-> e.sliders]

\* Under a slider: it stops beneath the pointwise filters on top.
Scaled(pic, opacity) ==
  LET k == Core({i \in DOMAIN pic : ~(IsFilter(pic[i]) /\ pic[i].what[2] \notin Resampling)})
  IN  IF pic = <<>> \/ opacity = "full" THEN pic
      ELSE Crowned([Isolated(pic, k) EXCEPT !.sliders = Append(@, opacity)], pic, k)

\* Where a run is not the sequence of its own elements laid in that mode.
Foreign(run, blend) == {i \in DOMAIN run : IsFilter(run[i]) \/ run[i].clip \/ run[i].blend # blend}

\* Lay `pic`, isolated, on `backdrop` through the params p.
Lay(backdrop, p, pic) ==
  LET run == Scaled(pic, p.opacity)
      k   == IF p.clip THEN Len(run) ELSE Core(Foreign(run, p.blend))
  IN  IF run = <<>> \/ (backdrop = <<>> /\ p.clip) THEN backdrop
      ELSE IF backdrop = <<>> THEN run
      ELSE backdrop \o Crowned(Laid(Isolated(run, k), p.blend, IF p.clip THEN TRUE ELSE FALSE),
                               run, k)

\* Run a filter over what is beneath it in its stack.
Filtered(backdrop, filter, opacity) ==
  IF backdrop = <<>> \/ filter \in Neutral THEN backdrop
  ELSE Append(backdrop, [Piece(<<"pass", filter>>) EXCEPT
                           !.sliders = IF opacity = "full" THEN <<>> ELSE <<opacity>>])

------------------------------------------------------------------------------
(* What a tile's value draws                                                *)

\* The values a merged value was computed from.
Inner(v) == IF v = Bare THEN {} ELSE CASE v[1] = "merge"  -> {v[2], v[6]}
                                      [] v[1] = "filter" -> {v[4]}
                                      [] OTHER -> {}

\* The values n merges within v.
PartsAt(v, n) ==
  LET at[i \in 0..n] == IF i = 0 THEN {v} ELSE UNION {Inner(w) : w \in at[i - 1]}
  IN  at[n]

\* A merged value is the laying it was merged by, of what `inner` says its parts draw.
LaidFrom(v, inner) ==
  IF v = Bare THEN <<>>
  ELSE CASE v[1] = "merge" ->
              Lay(Lay(<<>>, [Identity EXCEPT !.opacity = v[7]], inner[v[6]]),
                  [blend |-> v[4], clip |-> v[5], opacity |-> v[3]], inner[v[2]])
         [] v[1] = "filter" -> Filtered(inner[v[4]], v[2], v[3])
         [] OTHER -> <<Piece(<<"tile", v>>)>>

\* What v draws, that has no merge more than n deep in it.
Content(v, n) ==
  LET drawn[i \in 0..n] ==
        [w \in PartsAt(v, n - i) |-> LaidFrom(w, IF i = 0 THEN <<>> ELSE drawn[i - 1])]
  IN  drawn[n][v]

\* An action merges a tile once at most.
MergeDepth == SeedNumber + Len(acts)

------------------------------------------------------------------------------
(* The draw list                                                            *)

\* What a layer's own content draws on a tile.
Items(layer, t) ==
  IF layer.kind = "paint" THEN Content(layer.tiles[t], MergeDepth)
  ELSE IF layer.kind = "matte" THEN <<Piece(<<"matte", layer.prop["matte"]>>)>>
  ELSE <<>>

\* One layer of a stack over the ones beneath it: a hidden layer hides what it
\* carries, `own` is what it and what it carries draw.
Stacked(pic, layer, own) ==
  IF ~layer.prop["visible"] THEN pic
  ELSE IF layer.kind = "filter"
  THEN Filtered(pic, layer.prop["filter"], layer.prop["opacity"])
  ELSE Lay(pic, Params(layer), own)

\* The stack carried by c, composited over the content of c itself.
StackPicture(doc, c, t, own) ==
  LET stack == StackOf(doc, c)
      upTo[i \in 0..Len(stack)] ==
        IF i = 0 THEN IF c = Root THEN <<>> ELSE Items(doc.layer[c], t)
        ELSE Stacked(upTo[i - 1], doc.layer[stack[i]], own[stack[i]])
  IN  upTo[Len(stack)]

\* What each layer and all it carries draw, isolated: what a layer carries comes
\* after it, so the last layer is drawn first.
Groups(doc, t) ==
  LET last(i) == doc.order[Len(doc.order) + 1 - i]
      of[i \in 0..Len(doc.order)] ==
        IF i = 0 THEN <<>>
        ELSE LET above == of[i - 1] IN
             Over([l \in {last(i)} |-> StackPicture(doc, last(i), t, above)], above)
  IN  of[Len(doc.order)]

Picture(doc) == [t \in Tile |-> StackPicture(doc, Root, t, Groups(doc, t))]

------------------------------------------------------------------------------

\* "A merge must not change what the document looks like" (fold/merge.rs), on
\* whatever document the log has put under it by the time it folds. Where a frame
\* puts a layer is not in the picture, so the two layers merged are in one frame.
MergeKeepsPicture ==
  \A i \in DOMAIN acts :
    LET a == acts[i] IN
    (/\ a.kind = "MergeLayerDown" /\ {a.source, a.dest} \subseteq Present(docs[i])
     /\ docs[i].layer[a.source].prop["translation"] = docs[i].layer[a.dest].prop["translation"])
      => Picture(docs[i]) = Picture(docs[i + 1])
==============================================================================
