------------------------------ MODULE DocFold ------------------------------
(***************************************************************************)
(* How an action meets a document state: footprints (stark-model           *)
(* document/footprint.rs), the fold and its inverse (document/fold.rs,     *)
(* stark-engine document/patch.rs), and the removal surgery the external   *)
(* `history` crate performs through them.  Pure operators, no state.       *)
(*                                                                         *)
(* A document is a function of Cell, one cell per addressable resource.    *)
(* Folding an action writes each cell of its write set with a value that   *)
(* depends on the action and on everything its footprint names, and on     *)
(* nothing else: the value *is* that dependency, so two orders of actions  *)
(* give equal documents exactly when no renderer could tell them apart.    *)
(***************************************************************************)
EXTENDS UndoAlgebra

CONSTANTS Cell,    \* the document's resources
          Reads,   \* [Kind -> SUBSET Cell]: what folding a kind only reads
          Writes,  \* [Kind -> SUBSET Cell]: what folding a kind writes
          Blank    \* the value of every cell of the origin document

ASSUME FootprintAssumption ==
  /\ Reads \in [Kind -> SUBSET Cell]
  /\ Writes \in [Kind -> SUBSET Cell]

\* The document a log is folded onto.
Origin == [c \in Cell |-> Blank]

\* Mutant of Conflicts: what an action only reads is forgotten.
ConflictsOnWrites(a, b) == Writes[a.kind] \cap Writes[b.kind] # {}

\* Any write of one meeting any read or write of the other.
Conflicts(a, b) ==
  \/ Writes[a.kind] \cap (Reads[b.kind] \cup Writes[b.kind]) # {}
  \/ Reads[a.kind] \cap Writes[b.kind] # {}

Apply(a, doc) ==
  LET seen == [c \in Reads[a.kind] \cup Writes[a.kind] |-> doc[c]]
  IN  [c \in Cell |-> IF c \in Writes[a.kind] THEN <<a.id, seen>> ELSE doc[c]]

\* Restore what `a` wrote, cell for cell, from the document it was folded over.
Unapply(a, previous, doc) ==
  [c \in Cell |-> IF c \in Writes[a.kind] THEN previous[c] ELSE doc[c]]

\* The snapshots of folding `acts` one after another onto `base`: a sequence one
\* longer than `acts`, beginning with `base`.
Replay(base, acts) ==
  LET at[i \in 0..Len(acts)] == IF i = 0 THEN base ELSE Apply(acts[i], at[i-1])
  IN  [i \in 1..Len(acts) + 1 |-> at[i-1]]

------------------------------------------------------------------------------
(* History<Entry>: the materialized actions, and docs[i+1] the snapshot     *)
(* after the first i of them.                                               *)

NewHistory(initial) == [acts |-> <<>>, docs |-> <<initial>>]

Current(h) == h.docs[Len(h.docs)]

PushAll(h, acts) ==
  [acts |-> h.acts \o acts,
   docs |-> h.docs \o Tail(Replay(Current(h), acts))]

\* Keep the oldest n actions.
Rewind(h, n) ==
  [acts |-> SubSeq(h.acts, 1, n), docs |-> SubSeq(h.docs, 1, n + 1)]

\* Mutant of CommutingRun: the whole suffix is taken to commute.
CommutingSuffix(h, i) == Len(h.acts) - i

\* How many actions right after position i commute with the action at i.
CommutingRun(h, i) ==
  LET later == {j \in i + 1 .. Len(h.acts) : Conflicts(h.acts[i], h.acts[j])}
      stop  == IF later = {} THEN Len(h.acts) + 1
               ELSE CHOOSE j \in later : \A k \in later : j <= k
  IN  stop - i - 1

\* remove_action_with: shift the action at position i out past the run it
\* commutes with, patching each snapshot by its inverse, and replay the rest.
RemoveAction(h, i) ==
  LET run   == CommutingRun(h, i)
      a     == h.acts[i]
      fixed == [acts |-> SubSeq(h.acts, 1, i - 1) \o SubSeq(h.acts, i + 1, i + run),
                docs |-> SubSeq(h.docs, 1, i)
                           \o [k \in 1..run |->
                                 Unapply(a, h.docs[i], h.docs[i + 1 + k])]]
  IN  PushAll(fixed, SubSeq(h.acts, i + run + 1, Len(h.acts)))
=============================================================================
