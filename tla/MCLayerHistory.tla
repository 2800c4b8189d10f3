---------------------------- MODULE MCLayerHistory ----------------------------
(* Small documents on two tiles, and what two authors do with them.          *)
EXTENDS LayerPicture

MCTile == {1, 2}
MCActor == {1, 2}
MCResampling == {"blur"}
MCNeutral == {"neutral"}

Act(n, actor, kind, payload) == [n |-> n, actor |-> actor, kind |-> kind] @@ payload

Add(n, c, p, content, number) ==
  Act(n, 1, "AddLayer", [layer |-> LayerIdOf(n, 0), carrier |-> c, place |-> p,
                         content |-> content, number |-> number])

Ground == LayerIdOf(0, 0)
Base   == LayerIdOf(1, 0)
Child  == LayerIdOf(2, 0)

\* Ground; Base carrying Child; a stroke on each.
GroupSeed ==
  <<Add(1, Root, Top, <<"paint", <<>>>>, 2),
    Add(2, Base, Top, <<"paint", <<>>>>, 3),
    Act(3, 1, "CommitStroke", [layer |-> Base, tiles |-> {1}]),
    Act(4, 1, "CommitStroke", [layer |-> Child, tiles |-> {2}]),
    Act(5, 1, "CommitStroke", [layer |-> Ground, tiles |-> {1}]),
    Act(6, 1, "Select", [op |-> "region"])>>

\* One layer with paint on it, and a stroke that left a liquify run.
PaintSeed ==
  <<Act(1, 1, "CommitStroke", [layer |-> Ground, tiles |-> {1}]),
    Act(2, 1, "Liquify", [layer |-> Ground, tiles |-> {1}, reach |-> {1, 2}]),
    Act(3, 2, "Select", [op |-> "region"])>>

\* Two sheets at the foot, and the group with a filter over its base.
SheetSeed ==
  <<Add(1, Root, Top, <<"paint", <<>>>>, 2),
    Add(2, Root, Top, <<"paint", <<>>>>, 3),
    Add(3, LayerIdOf(2, 0), Top, <<"filter", "grade">>, 0),
    Add(4, LayerIdOf(2, 0), Bottom, <<"paint", <<>>>>, 4),
    Act(5, 1, "CommitStroke", [layer |-> Ground, tiles |-> {1, 2}]),
    Act(6, 1, "CommitStroke", [layer |-> LayerIdOf(1, 0), tiles |-> {1}]),
    Act(7, 1, "CommitStroke", [layer |-> LayerIdOf(2, 0), tiles |-> {1}]),
    Act(8, 1, "CommitStroke", [layer |-> LayerIdOf(4, 0), tiles |-> {1, 2}])>>

\* The group with a filter above it and a matte at the foot of the document.
MixedSeed ==
  GroupSeed \o
  <<Add(7, Base, Top, <<"filter", "grade">>, 0),
    Add(8, Root, Bottom, <<"matte", <<0, 0>>>>, 0)>>

SomeEdits == {<<"blend", "multiply">>, <<"clip", TRUE>>, <<"visible", FALSE>>,
              <<"opacity", "half">>, <<"filter", "blur">>}

\* Every setting a merge's offer turns on.
LookEdits == {<<"blend", "multiply">>, <<"clip", TRUE>>, <<"visible", FALSE>>,
              <<"opacity", "half">>, <<"filter", "neutral">>}

PaintLayer == <<"paint", <<>>>>
Structural == {"AddLayer", "DuplicateLayer", "RemoveLayer", "MoveLayer", "MergeLayerDown"}

\* Groups built, copied, moved, merged and taken apart.
Structure ==
  [seed |-> GroupSeed, alphabet |-> Structural \cup {"Guides", "SetSubstrateColor"},
   authors |-> {1}, contents |-> {PaintLayer, <<"filter", "grade">>}, edits |-> {},
   strokes |-> {}, reaches |-> {}, commits |-> 2, undos |-> 1]

\* The same with properties, mattes, frames and paint.
Mixed ==
  [Structure EXCEPT !.seed = MixedSeed,
     !.alphabet = Structural \cup {"SetProp", "SetMatte", "TranslateLayers",
                                   "CommitStroke", "PlaceImage", "FloatSelection"},
     !.contents = {PaintLayer}, !.edits = SomeEdits, !.strokes = {{1}, {2}}]

\* Two authors painting one layer.
Painting ==
  [seed |-> PaintSeed,
   alphabet |-> {"CommitStroke", "Liquify", "Fill", "Transform", "Select",
                 "FloatSelection", "SetSubstrate"},
   authors |-> MCActor, contents |-> {}, edits |-> {},
   strokes |-> {{1}, {2}}, reaches |-> {{}, {1, 2}}, commits |-> 2, undos |-> 1]

\* Merges under concurrent changes of what layers look like.
Merging ==
  [Structure EXCEPT !.seed = SheetSeed, !.alphabet = {"SetProp", "MergeLayerDown"},
     !.edits = LookEdits, !.commits = 3, !.undos = 0]

MCScenes == {Structure, Mixed, Painting, Merging}
==============================================================================
