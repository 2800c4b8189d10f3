------------------------- MODULE ReplicatedTimeline -------------------------
(***************************************************************************)
(* The shared document: every member's ReplicatedTimeline (stark-engine    *)
(* fold/timeline.rs) with the engine's doors onto it (engine/commit.rs,    *)
(* engine/collab.rs).                                                      *)
(*                                                                         *)
(* Each member keeps the grow-only log and three things derived from it    *)
(* and *cached*: the materialization, the undone set and the undo/redo     *)
(* targets.  The transport is abstracted to `sent`, the actions ever       *)
(* broadcast: any of them reaches any member at any time, in any order,    *)
(* any number of times or never.                                           *)
(***************************************************************************)
EXTENDS DocFold

CONSTANTS Host,       \* the member that started the session
          MaxActions  \* bound: actions committed in a run

ASSUME HostAssumption == Host \in Actor

VARIABLES
  joined,   \* the actors in the session
  log,      \* ReplicatedTimeline.log (and .ids), per actor
  history,  \* ReplicatedTimeline.history: [acts, docs]
  undone,   \* ReplicatedTimeline.undone
  targets,  \* ReplicatedTimeline.targets
  clock,    \* Authoring.clock, the Lamport clock
  sent      \* actions drained from any outbox

vars == <<joined, log, history, undone, targets, clock, sent>>

Ids(actions) == {a.id : a \in actions}

NoTargets == [undo |-> NoId, redo |-> NoId]

NewestLamport(actions) ==
  CHOOSE n \in {a.id.lamport : a \in actions} :
    \A a \in actions : a.id.lamport <= n

-----------------------------------------------------------------------------
(* Making a history match an effective sequence (resync). *)

CommonPrefix(s, t) ==
  CHOOSE n \in 0..Len(s) :
    /\ n <= Len(t) /\ \A i \in 1..n : s[i] = t[i]
    /\ n < Len(s) /\ n < Len(t) => s[n + 1] # t[n + 1]

OneLeft(acts, eff, n) ==
  /\ Len(eff) + 1 = Len(acts)
  /\ \A i \in n + 1 .. Len(eff) : eff[i] = acts[i + 1]

Matched(h, eff) ==
  LET n    == CommonPrefix(h.acts, eff)
      rest == SubSeq(eff, n + 1, Len(eff))
  IN  IF n = Len(h.acts) THEN PushAll(h, rest)
      ELSE IF OneLeft(h.acts, eff, n) THEN RemoveAction(h, n + 1)
      ELSE PushAll(Rewind(h, n), rest)

\* r's timeline once its log is `newLog` and everything derived is rederived.
Resync(r, newLog, h) ==
  LET gone == UndoneIds(newLog)
  IN  /\ log' = [log EXCEPT ![r] = newLog]
      /\ undone' = [undone EXCEPT ![r] = gone]
      /\ targets' = [targets EXCEPT ![r] = Targets(newLog, r, gone)]
      /\ history' = [history EXCEPT ![r] =
                       Matched(h, EffectiveActions(newLog, gone))]

\* Mutant of Appends: an action landing mid-log is pushed like a fresh one.
AppendsAnywhere(r, a) == Ordinary(a) /\ a.id \notin undone[r]

\* Newer than everything logged: pushed, with nothing rederived.
Appends(r, a) ==
  /\ Ordinary(a)
  /\ \A b \in log[r] : IdLess(b.id, a.id)
  /\ a.id \notin undone[r]

\* Mutant of Push: a commit leaves the cached targets as they were.
PushKeepingTargets(r, a) ==
  /\ log' = [log EXCEPT ![r] = @ \cup {a}]
  /\ history' = [history EXCEPT ![r] = PushAll(@, <<a>>)]
  /\ UNCHANGED <<targets, undone>>

\* The fast path: append, and retarget_appended when the action is r's own.
Push(r, a) ==
  /\ log' = [log EXCEPT ![r] = @ \cup {a}]
  /\ history' = [history EXCEPT ![r] = PushAll(@, <<a>>)]
  /\ targets' = [targets EXCEPT ![r] =
                   IF a.id.actor = r THEN [undo |-> a.id, redo |-> NoId] ELSE @]
  /\ UNCHANGED undone

\* insert: a duplicate id changes nothing.
Insert(r, a) ==
  \/ /\ a.id \in Ids(log[r])
     /\ UNCHANGED <<log, history, undone, targets>>
  \/ /\ a.id \notin Ids(log[r])
     /\ Appends(r, a)
     /\ Push(r, a)
  \/ /\ a.id \notin Ids(log[r])
     /\ ~Appends(r, a)
     /\ Resync(r, log[r] \cup {a}, history[r])

-----------------------------------------------------------------------------
(* The engine's doors. *)

Init ==
  /\ joined = {Host}
  /\ log = [r \in Actor |-> {}]
  /\ history = [r \in Actor |-> NewHistory(Origin)]
  /\ undone = [r \in Actor |-> {}]
  /\ targets = [r \in Actor |-> NoTargets]
  /\ clock = [r \in Actor |-> 0]
  /\ sent = {}

\* Mutant of NextId: the clock read one behind.
NextIdBehind(r) == [lamport |-> clock[r] - 1, actor |-> r]

NextId(r) == [lamport |-> clock[r], actor |-> r]

\* commit_sanitized under next_action_id: insert, then queue for broadcast.
CommitWith(r, target, kind) ==
  LET a == [id |-> NextId(r), target |-> target, kind |-> kind]
  IN  /\ r \in joined
      /\ Cardinality(sent) < MaxActions
      /\ Insert(r, a)
      /\ clock' = [clock EXCEPT ![r] = @ + 1]
      /\ sent' = sent \cup {a}
      /\ UNCHANGED joined

Commit(r, kind) == CommitWith(r, NoId, kind)

\* navigate: a shared step logs an Undo of its target, or stays put.
Undo(r) ==
  /\ targets[r].undo # NoId
  /\ CommitWith(r, targets[r].undo, UndoKind)

Redo(r) ==
  /\ targets[r].redo # NoId
  /\ CommitWith(r, targets[r].redo, UndoKind)

\* Mutant of MergeRemote: merging leaves the clock alone.
MergeRemoteClockless(r, a) ==
  /\ r \in joined
  /\ a \in sent
  /\ Insert(r, a)
  /\ UNCHANGED <<joined, sent, clock>>

\* Mutant of MergeRemote: the clock follows the remote one back down.
MergeRemoteRewinding(r, a) ==
  /\ r \in joined
  /\ a \in sent
  /\ clock' = [clock EXCEPT ![r] = a.id.lamport + 1]
  /\ Insert(r, a)
  /\ UNCHANGED <<joined, sent>>

\* merge_remote: the clock moves past the action whether or not it is new.
MergeRemote(r, a) ==
  /\ r \in joined
  /\ a \in sent
  /\ clock' = [clock EXCEPT ![r] = IF @ > a.id.lamport THEN @ ELSE a.id.lamport + 1]
  /\ Insert(r, a)
  /\ UNCHANGED <<joined, sent>>

\* join_collaboration on a snapshot served by member s.
Join(r, s) ==
  /\ r \notin joined
  /\ s \in joined
  /\ joined' = joined \cup {r}
  /\ Resync(r, log[s], NewHistory(Origin))
  /\ clock' = [clock EXCEPT ![r] =
                 IF log[s] = {} THEN 0 ELSE NewestLamport(log[s]) + 1]
  /\ UNCHANGED sent

Next ==
  \/ \E r \in Actor, k \in Kind : Commit(r, k)
  \/ \E r \in Actor : Undo(r)
  \/ \E r \in Actor : Redo(r)
  \/ \E r \in Actor, a \in sent : MergeRemote(r, a)
  \/ \E r, s \in Actor : Join(r, s)

Spec == Init /\ [][Next]_vars

-----------------------------------------------------------------------------
(* Properties. *)

\* Every variable has its type: the log is a set of actions, the caches hold
\* ids, the clocks are numbers.
TypeOK ==
  /\ joined \subseteq Actor
  /\ log \in [Actor -> SUBSET Action]
  /\ undone \in [Actor -> SUBSET ActionId]
  /\ targets \in [Actor -> [undo : ActionId \cup {NoId}, redo : ActionId \cup {NoId}]]
  /\ clock \in [Actor -> Nat]
  /\ sent \subseteq Action

\* What insert's fast path and resync cache is what a derivation from the whole
\* log would answer (ReplicatedTimeline.targets: "Every write to log must
\* resolve this, or it can disagree with what it was derived from").
CachesFresh ==
  \A r \in joined :
    /\ undone[r] = UndoneIds(log[r])
    /\ targets[r] = Targets(log[r], r, undone[r])

\* The materialization holds exactly the effective actions in canonical order,
\* whichever of push, shift-out and rewind-and-replay serviced each change.
HistoryIsEffective ==
  \A r \in joined : history[r].acts = EffectiveActions(log[r], undone[r])

\* Every snapshot equals the canonical replay of its prefix, so the commutation
\* fast path computed the same document a replay from the origin would (12.6).
SnapshotsAreReplays ==
  \A r \in joined : history[r].docs = Replay(Origin, history[r].acts)

\* The one-pass undone set is a fixed point: an id is undone exactly when some
\* logged Undo of it is not itself undone.
UndoneIsFixpoint ==
  \A r \in joined : \A i \in Ids(log[r]) \cup undone[r] :
    i \in undone[r] <=> \E u \in Undos(log[r]) : u.target = i /\ u.id \notin undone[r]

\* No two actions of the session carry the same id.
DistinctIds == \A a, b \in sent : a.id = b.id => a = b

\* An Undo orders after its target, which is an action of its own author.
UndoAfterOwnTarget ==
  \A u \in Undos(sent) : IdLess(u.target, u.id) /\ u.target.actor = u.id.actor

\* A new action orders after everything its author had seen (12.1).
CausalOrder ==
  [][\A a \in sent' \ sent : \A b \in log[a.id.actor] : IdLess(b.id, a.id)]_vars

\* The actor's own effective actions, as its screen shows them.
Mine(r, l, gone) == {a \in Effective(l, gone) : a.id.actor = r}

\* Undo targets my actions (12.3): an action arriving from a peer never makes
\* an action of mine effective or ineffective.
PeersLeaveMineAlone ==
  [][\A r \in joined :
       (\A a \in log'[r] \ log[r] : a.id.actor # r) =>
          Mine(r, log'[r], undone'[r]) = Mine(r, log[r], undone[r])]_vars

\* A logged undo or redo moves exactly one action of its author in or out of
\* the effective set, and nobody else's, so Z Z Y Y walks back and forth.
NavigationMovesOne ==
  [][\A u \in Undos(sent') \ sent :
       LET r   == u.id.actor
           was == Effective(log[r], undone[r])
           is  == Effective(log'[r], undone'[r])
       IN  \E a \in was \cup is :
             /\ a.id.actor = r
             /\ u.target = a.id => is = was \ {a}
             /\ u.target # a.id => a \notin was /\ is = was \cup {a}]_vars

-----------------------------------------------------------------------------
(* What a session promises: the timeline, its caches and its shortcuts      *)
(* hidden, is the canonical fold of the log.                                *)

Contract ==
  INSTANCE SharedDocument
    WITH seen <- log, shown <- [r \in Actor |-> Current(history[r])]

\* Whichever of push, shift-out and rewind-and-replay serviced each change, and
\* in whatever order the actions came, a member shows the canonical document of
\* what it has seen; so equal logs show equal documents (12.6, strong eventual
\* consistency), and each new action follows all that its author had seen.
ImplementsSharedDocument == Contract!Spec
=============================================================================
