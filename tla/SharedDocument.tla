--------------------------- MODULE SharedDocument ---------------------------
(***************************************************************************)
(* What a session promises its members, with nothing of how: each member   *)
(* shows the document that a fold from the origin of the effective actions *)
(* it has seen would give (crates/stark-model/src/document/effect.rs,      *)
(* effective_actions), and what it adds follows everything it has seen.    *)
(* No caches, no snapshots, no inverses, no clock.                         *)
(***************************************************************************)
EXTENDS DocFold

VARIABLES
  joined,  \* the actors in the session
  seen,    \* the actions each has seen
  shown,   \* the document each shows
  sent     \* the actions ever committed

vars == <<joined, seen, shown, sent>>

\* The canonical document of a set of actions.
Show(actions) ==
  LET acts == EffectiveActions(actions, UndoneIds(actions))
  IN  Replay(Origin, acts)[Len(acts) + 1]

\* A new action is its author's, orders after all that its author has seen, and
\* is an edit, or takes back something its author did.
Follows(r, a) ==
  /\ a.id.actor = r
  /\ \A b \in seen[r] : IdLess(b.id, a.id)
  /\ \A b \in sent : b.id # a.id
  /\ Ordinary(a) \/ \E b \in seen[r] : b.id = a.target /\ b.id.actor = r

See(r, actions) ==
  /\ seen' = [seen EXCEPT ![r] = actions]
  /\ shown' = [shown EXCEPT ![r] = Show(actions)]

\* Someone starts the session with nothing done.
Init ==
  /\ \E host \in Actor : joined = {host}
  /\ seen = [r \in Actor |-> {}]
  /\ shown = [r \in Actor |-> Show({})]
  /\ sent = {}

Commit(r, a) ==
  /\ r \in joined
  /\ Follows(r, a)
  /\ sent' = sent \cup {a}
  /\ See(r, seen[r] \cup {a})
  /\ UNCHANGED joined

\* Any action ever committed may arrive at any time, again or never.
Hear(r, a) ==
  /\ r \in joined
  /\ See(r, seen[r] \cup {a})
  /\ UNCHANGED <<joined, sent>>

Join(r, s) ==
  /\ r \notin joined /\ s \in joined
  /\ joined' = joined \cup {r}
  /\ See(r, seen[s])
  /\ UNCHANGED sent

Next ==
  \/ \E r \in Actor : \E a \in sent' : Commit(r, a)
  \/ \E r \in Actor : \E a \in sent : Hear(r, a)
  \/ \E r, s \in Actor : Join(r, s)

Spec == Init /\ [][Next]_vars

-----------------------------------------------------------------------------

\* Strong eventual consistency: members that have seen the same actions show
\* the same document, whatever order the actions reached each of them in.
Convergence ==
  \A r, s \in joined : seen[r] = seen[s] => shown[r] = shown[s]
=============================================================================
