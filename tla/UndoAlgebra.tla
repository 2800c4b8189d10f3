---------------------------- MODULE UndoAlgebra ----------------------------
(***************************************************************************)
(* Which actions of a document log are effective: the undo algebra of      *)
(* crates/stark-model/src/document/effect.rs.  Pure operators, no state.   *)
(*                                                                         *)
(* A log is a Vec sorted by id without duplicates; here it is the *set* of *)
(* its actions, the order being the order of the ids.  An action is        *)
(*   [id |-> [lamport, actor], target |-> id or NoId, kind |-> Kind]       *)
(* where a target makes it an Undo, and an Undo of an Undo is a redo.      *)
(***************************************************************************)
EXTENDS Integers, FiniteSets, Sequences

CONSTANTS Actor,   \* ActorId: the 64-bit author ids, ordered
          Kind,    \* what an ordinary action does (its footprint is DocFold's)
          UndoKind,\* the kind of every Undo action
          NoId     \* Option::None of an ActionId

ASSUME ActorAssumption == Actor \subseteq Nat
ASSUME NoIdAssumption == NoId \notin [lamport : Nat, actor : Nat]
ASSUME KindAssumption == UndoKind \notin Kind

ActionId == [lamport : Nat, actor : Actor]

Action ==
  [id : ActionId, target : {NoId}, kind : Kind]
    \cup [id : ActionId, target : ActionId, kind : {UndoKind}]

\* The total order of ActionId, derived Ord on (lamport, actor).
IdLess(a, b) ==
  \/ a.lamport < b.lamport
  \/ a.lamport = b.lamport /\ a.actor < b.actor

Ordinary(a) == a.target = NoId

Undos(log) == {a \in log : ~Ordinary(a)}

\* Iterator::find from the newest end: the newest of the ids, if any.
Latest(ids) ==
  LET newest == {i \in ids : \A j \in ids : j = i \/ IdLess(j, i)}
  IN  IF newest = {} THEN NoId ELSE CHOOSE i \in newest : TRUE

\* Mutant of Counted: an Undo that was itself undone still counts.
CountedAlways(undos) == [u \in undos |-> TRUE]

\* Whether the pass from the newest Undo to the oldest counts each of them: one
\* already targeted by a newer Undo that counts contributes nothing.
Counted(undos) ==
  LET counted[u \in undos] ==
        \A v \in undos : IdLess(u.id, v.id) /\ v.target = u.id => ~counted[v]
  IN  counted

Suppressed(undos) == {u.target : u \in {x \in undos : Counted(undos)[x]}}

\* The ids suppressed by the log's effective Undos.
UndoneIds(log) == Suppressed(Undos(log))

\* The ids of the effective redos of the ordinary action `a`.
Revivals(log, undone, a) ==
  {r.id : r \in {x \in Undos(log) :
     /\ x.id \notin undone
     /\ \E u \in Undos(log) : u.id = x.target /\ u.target = a.id}}

\* Redo-at-top: a revived action materializes at its latest redo's slot.
MaterialKey(log, undone, a) ==
  LET revivals == Revivals(log, undone, a)
  IN  IF revivals = {} THEN a.id ELSE Latest(revivals)

Effective(log, undone) ==
  {a \in log : Ordinary(a) /\ a.id \notin undone}

\* The effective actions in materialization order.
EffectiveActions(log, undone) ==
  LET S == Effective(log, undone)
      Before(a, b) ==
        IdLess(MaterialKey(log, undone, a), MaterialKey(log, undone, b))
  IN  [i \in 1..Cardinality(S) |->
         CHOOSE a \in S : Cardinality({b \in S : Before(b, a)}) = i - 1]

\* Mutant of UndoTarget: whoever's action is newest.
UndoTargetOfAnyone(log, actor, undone) ==
  Latest({a.id : a \in Effective(log, undone)})

\* An actor's newest effective ordinary action.
UndoTarget(log, actor, undone) ==
  Latest({a.id : a \in {x \in Effective(log, undone) : x.id.actor = actor}})

\* Mutant of RedoTarget: any effective Undo, even one that is a redo.
RedoTargetAnyUndo(log, actor, undone) ==
  LET latest == UndoTarget(log, actor, undone)
  IN  Latest({a.id : a \in {x \in Undos(log) :
        /\ x.id.actor = actor
        /\ x.id \notin undone
        /\ latest = NoId \/ IdLess(latest, x.id)}})

\* An actor's newest effective Undo whose target is an ordinary action still
\* undone, provided it is newer than everything that actor could undo.
RedoTarget(log, actor, undone) ==
  LET latest == UndoTarget(log, actor, undone)
  IN  Latest({a.id : a \in {x \in Undos(log) :
        /\ x.id.actor = actor
        /\ x.id \notin undone
        /\ latest = NoId \/ IdLess(latest, x.id)
        /\ x.target \in undone
        /\ \E t \in log : t.id = x.target /\ Ordinary(t)}})

Targets(log, actor, undone) ==
  [undo |-> UndoTarget(log, actor, undone),
   redo |-> RedoTarget(log, actor, undone)]
=============================================================================
