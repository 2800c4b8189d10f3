---------------------------- MODULE SessionSync ----------------------------
(* A shared session as its members' mirrored logs: committing and flooding    *)
(* (stark-net/src/session/publish.rs), joining through a snapshot (join.rs,   *)
(* proto.rs, mirror.rs), and the reconciliation sweep that puts back what the *)
(* flood dropped (reconcile.rs).                                              *)
(*                                                                            *)
(* iroh-gossip is external: a message sent to a subscriber may arrive at any  *)
(* later time or never, in any order. What an action's content adds to this   *)
(* is the subject of module Waitlist.                                         *)
EXTENDS Naturals, FiniteSets

CONSTANTS
    Peer,           \* endpoint ids, in the order their key bytes sort
    Host,           \* the peer that starts sharing
    Action,         \* action ids, in the log's total order
    Author,         \* who commits each action
    Base,           \* the log of the document the host shares
    RECOVER_BATCH,  \* how many actions one recovery request names
    Leavers,        \* bound: the peers that may leave or crash
    Cycle,          \* bound: where a rotation's counter wraps, a multiple of every neighbourhood's size
    MaxFaults       \* bound: links lost and snapshot requests failed between two peers that stay

ASSUME SyncAssumption ==
    /\ Peer \subseteq Nat \ {0} /\ IsFiniteSet(Peer) /\ Host \in Peer /\ Leavers \subseteq Peer
    /\ Action \subseteq Nat /\ IsFiniteSet(Action) /\ Base \subseteq Action
    /\ Author \in [Action -> Peer]
    /\ RECOVER_BATCH \in Nat \ {0} /\ Cycle \in Nat \ {0} /\ MaxFaults \in Nat

VARIABLES
    stage,      \* "out"; "joining" once subscribed; "member" once its mirror is published
    log,        \* Mirror::actions
    committed,  \* the actions anyone has committed
    outgoing,   \* encoded actions the send task has not put on the wire yet
    flight,     \* actions the flood may still bring somebody
    neighbors,  \* each peer's gossip neighbours
    walk,       \* a joiner's ticket: the members it has not asked yet
    snap,       \* the snapshot a joiner is being served
    encoded,    \* the last snapshot each mirror encoded, if any
    next,       \* Reconciler::next
    sweep,      \* the partner being asked, and what is missing here of its log
    faults      \* the links lost and the requests failed so far

vars == <<stage, log, committed, outgoing, flight, neighbors, walk, snap, encoded, next, sweep, faults>>

Nobody == 0
Member == {p \in Peer : stage[p] = "member"}
Subscribed == {p \in Peer : stage[p] # "out"}

NoSnap == [from |-> Nobody, actions |-> {}, held |-> {}]
Idle == [partner |-> Nobody, missing |-> {}]

TypeOK ==
    /\ stage \in [Peer -> {"out", "joining", "member"}]
    /\ log \in [Peer -> SUBSET Action] /\ outgoing \in [Peer -> SUBSET Action]
    /\ committed \subseteq Action /\ flight \subseteq Action \X Peer
    /\ neighbors \in [Peer -> SUBSET Peer] /\ walk \in [Peer -> SUBSET Peer]
    /\ snap \in [Peer -> [from : Peer \cup {Nobody}, actions : SUBSET Action, held : SUBSET Action]]
    /\ encoded \in [Peer -> SUBSET SUBSET Action]

Init ==
    /\ stage = [p \in Peer |-> IF p = Host THEN "member" ELSE "out"]
    /\ log = [p \in Peer |-> IF p = Host THEN Base ELSE {}]
    /\ committed = Base
    /\ outgoing = [p \in Peer |-> {}] /\ flight = {}
    /\ neighbors = [p \in Peer |-> {}] /\ walk = [p \in Peer |-> {}]
    /\ snap = [p \in Peer |-> NoSnap] /\ encoded = [p \in Peer |-> {}]
    /\ next = [p \in Peer |-> 0] /\ sweep = [p \in Peer |-> Idle]
    /\ faults = 0

(* ------------------------------- the flood ------------------------------- *)

\* Broadcaster::broadcast: mirrored, then queued for the send task.
Broadcast(a) ==
    LET p == Author[a]
    IN  /\ p \in Member /\ a \notin committed
        /\ committed' = committed \cup {a}
        /\ log' = [log EXCEPT ![p] = @ \cup {a}]
        /\ outgoing' = [outgoing EXCEPT ![p] = @ \cup {a}]
        /\ UNCHANGED <<stage, flight, neighbors, walk, snap, encoded, next, sweep, faults>>

\* One send. A peer's queue is in the order it commits in, its actions' order. A
\* send that fails is one that reaches nobody, and is not retried.
Send(p) ==
    /\ \E a \in outgoing[p] :
          /\ \A b \in outgoing[p] : a <= b
          /\ outgoing' = [outgoing EXCEPT ![p] = @ \ {a}]
          /\ flight' = flight \cup ({a} \X (Subscribed \ {p}))
    /\ UNCHANGED <<stage, log, committed, neighbors, walk, snap, encoded, next, sweep, faults>>

\* The receive loop starts when the session is set up: until then what arrives
\* for a joiner is kept.
Deliver(m) ==
    /\ m \in flight /\ m[2] \in Member
    /\ flight' = flight \ {m}
    /\ log' = [log EXCEPT ![m[2]] = @ \cup {m[1]}]
    /\ UNCHANGED <<stage, committed, outgoing, neighbors, walk, snap, encoded, next, sweep, faults>>

Fault == faults < MaxFaults /\ faults' = faults + 1

\* Two peers of the swarm take each other as neighbours.
NeighborUp(p, q) ==
    /\ p < q /\ {p, q} \subseteq Subscribed /\ ~(q \in neighbors[p] /\ p \in neighbors[q])
    /\ neighbors' = [neighbors EXCEPT ![p] = @ \cup {q}, ![q] = @ \cup {p}]
    /\ UNCHANGED <<stage, log, committed, outgoing, flight, walk, snap, encoded, next, sweep, faults>>

\* Gossip drops a neighbour that left, or one it cannot reach for a while.
NeighborDown(p, q) ==
    /\ q \in neighbors[p]
    /\ IF p \in neighbors[q] THEN Fault ELSE UNCHANGED faults
    /\ neighbors' = [neighbors EXCEPT ![p] = @ \ {q}, ![q] = @ \ {p}]
    /\ UNCHANGED <<stage, log, committed, outgoing, flight, walk, snap, encoded, next, sweep>>

(* -------------------------------- joining -------------------------------- *)

\* A link, minted here as it is opened, names q and its neighbours. The joiner enters the swarm
\* before it asks any of them for the session.
Subscribe(p, q) ==
    /\ stage[p] = "out" /\ q \in Member
    /\ stage' = [stage EXCEPT ![p] = "joining"]
    /\ walk' = [walk EXCEPT ![p] = ({q} \cup neighbors[q]) \ {p}]
    /\ UNCHANGED <<log, committed, outgoing, flight, neighbors, snap, encoded, next, sweep, faults>>

\* Mutant of Serves: a peer answers from the moment its endpoint is bound.
ServesWhenBound(q) == q \in Subscribed

\* Served: a peer answers once its mirror is published, which is its last step in.
Serves(q) == q \in Member

\* Mutant of EncodedFor: the remembered bytes answer whatever the log does.
EncodedForever(q) == encoded[q]

\* The remembered encoding, if the log has not moved since: it only ever grows.
EncodedFor(q) == {e \in encoded[q] : Cardinality(e) = Cardinality(log[q])}

Taken(q) == IF EncodedFor(q) # {} THEN CHOOSE e \in EncodedFor(q) : TRUE ELSE log[q]

\* One member asked for the snapshot, in whatever order the link names them; one that
\* refuses or cannot be reached is done with. The mirror is read now, and "held"
\* remembers what it held, for the properties.
Ask(p, q) ==
    /\ stage[p] = "joining" /\ snap[p] = NoSnap /\ q \in walk[p]
    /\ walk' = [walk EXCEPT ![p] = @ \ {q}]
    /\ \/ /\ Serves(q)
          /\ snap' = [snap EXCEPT ![p] = [from |-> q, actions |-> Taken(q), held |-> log[q]]]
          /\ UNCHANGED faults
       \/ UNCHANGED snap /\ (IF Serves(q) THEN Fault ELSE UNCHANGED faults)
    /\ UNCHANGED <<stage, log, committed, outgoing, flight, neighbors, encoded, next, sweep>>

\* Encoding is off the lock, so the log may have moved by the time it is
\* remembered: the bytes still go to the joiner that asked.
Remember(q, s) ==
    encoded' = IF Cardinality(s) = Cardinality(log[q])
               THEN [encoded EXCEPT ![q] = {s}] ELSE encoded

\* `finish`: the snapshot becomes the joiner's mirror, and it is a member.
Receive(p) ==
    LET q == snap[p].from
    IN  /\ snap[p] # NoSnap
        /\ Remember(q, snap[p].actions)
        /\ stage' = [stage EXCEPT ![p] = "member"]
        /\ log' = [log EXCEPT ![p] = snap[p].actions]
        /\ snap' = [snap EXCEPT ![p] = NoSnap] /\ walk' = [walk EXCEPT ![p] = {}]
        /\ UNCHANGED <<committed, outgoing, flight, neighbors, next, sweep, faults>>

\* Everything of p's session is gone, and whoever was being answered by it goes on
\* to the next member. A later join starts over.
Out(p) ==
    /\ stage' = [stage EXCEPT ![p] = "out"]
    /\ log' = [log EXCEPT ![p] = {}] /\ outgoing' = [outgoing EXCEPT ![p] = {}]
    /\ flight' = {m \in flight : m[2] # p}
    /\ neighbors' = [neighbors EXCEPT ![p] = {}] /\ walk' = [walk EXCEPT ![p] = {}]
    /\ snap' = [r \in Peer |-> IF p \in {r, snap[r].from} THEN NoSnap ELSE snap[r]]
    /\ sweep' = [r \in Peer |-> IF p \in {r, sweep[r].partner} THEN Idle ELSE sweep[r]]
    /\ encoded' = [encoded EXCEPT ![p] = {}] /\ next' = [next EXCEPT ![p] = 0]
    /\ UNCHANGED <<committed, faults>>

\* No member the link names would serve: closing_on_error.
JoinFails(p) ==
    /\ stage[p] = "joining" /\ snap[p] = NoSnap /\ walk[p] = {}
    /\ Out(p)

Leave(p) == p \in Leavers \cap Subscribed /\ Out(p)

(* ----------------------------- reconciliation ----------------------------- *)

\* Mutant of Partner: the sweep always asks the first neighbour.
PartnerFirst(p) == CHOOSE q \in neighbors[p] : \A r \in neighbors[p] : q <= r

\* The neighbour the rotation has come to, in sorted order.
Partner(p) ==
    CHOOSE q \in neighbors[p] :
        Cardinality({r \in neighbors[p] : r < q}) = next[p] % Cardinality(neighbors[p])

\* A partner is picked, on the slow cadence or after the swarm reported a loss.
SweepOpen(p) ==
    /\ p \in Member /\ sweep[p] = Idle /\ neighbors[p] # {}
    /\ sweep' = [sweep EXCEPT ![p].partner = Partner(p)]
    /\ next' = [next EXCEPT ![p] = (@ + 1) % Cycle]
    /\ UNCHANGED <<stage, log, committed, outgoing, flight, neighbors, walk, snap, encoded, faults>>

\* The partner's digest, then its ids if that differs: equal digests are equal
\* logs, and then nothing is missing.
SweepCompare(p) ==
    LET q == sweep[p].partner
    IN  /\ sweep[p].partner # Nobody /\ sweep[p].missing = {}
        /\ Serves(q)
        /\ LET missing == log[q] \ log[p]
           IN  sweep' = [sweep EXCEPT ![p] = IF missing = {} THEN Idle ELSE [@ EXCEPT !.missing = missing]]
        /\ UNCHANGED <<stage, log, committed, outgoing, flight, neighbors, walk, snap, encoded, next, faults>>

FirstOf(as, n) == {a \in as : Cardinality({b \in as : b < a}) < n}

\* Mutant of Answers: the answer is halved until it fits, down to nothing.
AnswersHalved(as) == {FirstOf(as, n) : n \in 0 .. Cardinality(as)}

\* An answer is cut to what fits, and always holds one action.
Answers(as) == {FirstOf(as, n) : n \in 1 .. Cardinality(as)}

\* One batch asked for, answered and admitted. What the answer was cut short of is
\* left to a later sweep.
SweepRecover(p) ==
    LET missing == sweep[p].missing
        batch == FirstOf(missing, RECOVER_BATCH)
    IN  /\ missing # {} /\ Serves(sweep[p].partner)
        /\ \E got \in Answers(batch) : log' = [log EXCEPT ![p] = @ \cup got]
        /\ sweep' = [sweep EXCEPT ![p] = IF missing = batch THEN Idle
                                         ELSE [@ EXCEPT !.missing = missing \ batch]]
        /\ UNCHANGED <<stage, committed, outgoing, flight, neighbors, walk, snap, encoded, next, faults>>

\* The dial or a request fails. What was admitted stays.
SweepFails(p) ==
    /\ sweep[p] # Idle
    /\ sweep' = [sweep EXCEPT ![p] = Idle]
    /\ UNCHANGED <<stage, log, committed, outgoing, flight, neighbors, walk, snap, encoded, next, faults>>

Next ==
    \/ \E a \in Action : Broadcast(a)
    \/ \E p \in Peer : Send(p)
    \/ \E m \in flight : Deliver(m)
    \/ \E p, q \in Peer : NeighborUp(p, q) \/ NeighborDown(p, q) \/ Subscribe(p, q) \/ Ask(p, q)
    \/ \E p \in Peer : Receive(p) \/ JoinFails(p) \/ Leave(p)
    \/ \E p \in Peer : SweepOpen(p) \/ SweepCompare(p) \/ SweepRecover(p) \/ SweepFails(p)

\* The reconciler's timer keeps firing and every exchange ends; gossip keeps up the
\* links of peers that stay. A comparison tried with the same partner again and
\* again succeeds again and again, and so does a recovery. Of the flood nothing is
\* assumed.
Fairness ==
    /\ \A p \in Peer :
          /\ WF_vars(SweepOpen(p) \/ SweepFails(p))
          /\ \A q \in Peer \ {p} : SF_vars(sweep[p].partner = q /\ SweepCompare(p))
          /\ SF_vars(SweepRecover(p))
          /\ \A q \in {r \in Peer : p < r} : WF_vars(NeighborUp(p, q))
    /\ WF_vars(\E p, q \in Peer : q \notin Subscribed /\ NeighborDown(p, q))

Safety == Init /\ [][Next]_vars
Spec == Safety /\ Fairness

(* ------------------------------- properties ------------------------------- *)

\* "I have nothing yet" is never taken for "I have nothing in me" (proto.rs:126):
\* whichever members come, answer, join through each other and go, a member holds
\* at least the document that was shared.
MembersHoldTheSession == \A p \in Member : Base \subseteq log[p]

\* The encode cache never serves the past (proto.rs:170): a snapshot on its way
\* holds whatever the serving mirror held when it was asked.
SnapshotsAreCurrent == \A p \in Peer : snap[p].held \subseteq snap[p].actions

\* A stroke on some canvases and not others stays so only for a while
\* (reconcile.rs:9): whatever the flood drops, and with finitely many actions to
\* commit, the members always come to hold the same log.
GapsClose == []<>(\A p, q \in Member : log[p] = log[q])
==============================================================================
