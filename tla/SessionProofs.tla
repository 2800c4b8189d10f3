----------------------------- MODULE SessionProofs -----------------------------
(* The session, in three models. For any peers, actions and shared document:  *)
(* a joiner is never handed less than the document, nor an encoding older     *)
(* than the question. For any content: an imported substrate goes wherever    *)
(* the actions that name it go. For any number of people, actions and acts:   *)
(* with the interface solo nothing is shared, what a held session serves is   *)
(* on the canvas, the native frontend drops nothing, and an id is drawn twice *)
(* only by a client whose session had lost what it named.                     *)
EXTENDS MCSessionSync, SessionDoors, FiniteSetTheorems, WellFoundedInduction, TLAPS

Types ==
    /\ stage \in [Peer -> {"out", "joining", "member"}]
    /\ log \in [Peer -> SUBSET Action]
    /\ committed \subseteq Action /\ outgoing \in [Peer -> SUBSET Action]
    /\ flight \subseteq Action \X Peer
    /\ snap \in [Peer -> [from : Peer \cup {Nobody}, actions : SUBSET Action, held : SUBSET Action]]
    /\ encoded \in [Peer -> SUBSET SUBSET Action]

(* What a sweep asks for is some member's; who its partner is plays no part.  *)
SweepOver(S) == [partner : S, missing : SUBSET Action]
Swept == \E S : sweep \in [Peer -> SweepOver(S)]

(* A snapshot is on its way to a peer that is still joining, from a member    *)
(* that is still there and has what it sent; so a peer never joins itself.    *)
SnapsAreServed ==
    \A p \in Peer : snap[p] # NoSnap =>
        /\ stage[p] = "joining" /\ snap[p].from \in Member
        /\ Base \subseteq snap[p].held
        /\ snap[p].actions \subseteq log[snap[p].from]

(* An encoding is of an earlier log of the same mirror: as long, it is equal. *)
EncodedIsEarlier ==
    \A p \in Peer : /\ \A e \in encoded[p] : e \subseteq log[p]
                    /\ p \notin Member => encoded[p] = {}

IInv ==
    /\ Types /\ Swept /\ SnapsAreServed /\ EncodedIsEarlier
    /\ MembersHoldTheSession /\ SnapshotsAreCurrent

LEMMA NoSnapIsTyped ==
    /\ NoSnap \in [from : Peer \cup {Nobody}, actions : SUBSET Action, held : SUBSET Action]
    /\ NoSnap.held \subseteq NoSnap.actions
BY DEF NoSnap

LEMMA InitHolds == Init => IInv
<1>. SUFFICES ASSUME Init PROVE IInv
  OBVIOUS
<1>1. Types
  BY SyncAssumption, NoSnapIsTyped DEF Init, Types
<1>2. Swept
  <2>1. sweep \in [Peer -> SweepOver({Nobody})]
    BY DEF Init, Idle, SweepOver
  <2>. QED
    BY <2>1 DEF Swept
<1>3. SnapsAreServed /\ EncodedIsEarlier /\ MembersHoldTheSession
  BY DEF Init, SnapsAreServed, EncodedIsEarlier, MembersHoldTheSession, Member
<1>4. SnapshotsAreCurrent
  BY NoSnapIsTyped DEF Init, SnapshotsAreCurrent
<1>. QED
  BY <1>1, <1>2, <1>3, <1>4 DEF IInv

(* As long as logs only grow, nobody comes or goes and nothing is served, all *)
(* that was promised of logs, snapshots and encodings stays.                  *)
LEMMA GrowingKeeps ==
    ASSUME IInv, UNCHANGED <<stage, snap, encoded>>,
           \A p \in Peer : log[p] \subseteq log'[p]
    PROVE  SnapsAreServed' /\ EncodedIsEarlier' /\ MembersHoldTheSession' /\ SnapshotsAreCurrent'
<1>1. Member' = Member
  BY DEF Member
<1>2. SnapsAreServed'
  <2>. SUFFICES ASSUME NEW p \in Peer, snap[p] # NoSnap
       PROVE /\ stage[p] = "joining" /\ snap[p].from \in Member
             /\ Base \subseteq snap[p].held
             /\ snap[p].actions \subseteq log'[snap[p].from]
    BY <1>1 DEF SnapsAreServed
  <2>1. snap[p].from \in Member /\ snap[p].from \in Peer
    BY DEF IInv, SnapsAreServed, Member
  <2>. QED
    BY <2>1 DEF IInv, SnapsAreServed
<1>3. EncodedIsEarlier'
  BY <1>1 DEF IInv, EncodedIsEarlier
<1>4. MembersHoldTheSession'
  BY <1>1 DEF IInv, MembersHoldTheSession, Member
<1>5. SnapshotsAreCurrent'
  BY DEF IInv, SnapshotsAreCurrent
<1>. QED
  BY <1>2, <1>3, <1>4, <1>5

(* What the encode cache answers with is what the mirror holds.               *)
LEMMA TakenIsCurrent ==
    ASSUME IInv, NEW q \in Peer
    PROVE  Taken(q) = log[q]
<1>1. log[q] \subseteq Action /\ IsFiniteSet(log[q])
  BY SyncAssumption, FS_Subset DEF IInv, Types
<1>2. ASSUME NEW e \in EncodedFor(q) PROVE e = log[q]
  <2>1. e \subseteq log[q] /\ Cardinality(e) = Cardinality(log[q])
    BY DEF EncodedFor, IInv, EncodedIsEarlier
  <2>. QED
    BY <1>1, <2>1, FS_Subset
<1>. QED
  BY <1>2 DEF Taken

LEMMA AskHolds ==
    ASSUME IInv, NEW p \in Peer, NEW q \in Peer, Ask(p, q)
    PROVE  IInv'
<1>1. CASE UNCHANGED snap
  <2>1. UNCHANGED <<stage, log, committed, outgoing, flight, snap, encoded, sweep>>
    BY <1>1 DEF Ask
  <2>2. Types' /\ Swept'
    BY <2>1 DEF IInv, Types, Swept
  <2>. QED
    BY <2>1, <2>2, GrowingKeeps DEF IInv
<1>2. CASE Serves(q) /\ snap' = [snap EXCEPT ![p] = [from |-> q, actions |-> Taken(q), held |-> log[q]]]
  <2>. DEFINE s == [from |-> q, actions |-> log[q], held |-> log[q]]
  <2>1. snap' = [snap EXCEPT ![p] = s]
    BY <1>2, TakenIsCurrent
  <2>2. UNCHANGED <<stage, log, committed, outgoing, flight, encoded, sweep>> /\ stage[p] = "joining"
    BY DEF Ask
  <2>3. q \in Member /\ Member' = Member /\ Base \subseteq log[q]
    BY <1>2, <2>2 DEF Serves, Member, IInv, MembersHoldTheSession
  <2>4. s \in [from : Peer \cup {Nobody}, actions : SUBSET Action, held : SUBSET Action]
    BY DEF IInv, Types
  <2>5. s.from = q /\ s.actions = log[q] /\ s.held = log[q]
    OBVIOUS
  <2>. HIDE DEF s
  <2>6. Types' /\ Swept'
    BY <2>1, <2>2, <2>4 DEF IInv, Types, Swept
  <2>7. SnapsAreServed' /\ SnapshotsAreCurrent'
    BY <2>1, <2>2, <2>3, <2>5 DEF IInv, Types, SnapsAreServed, SnapshotsAreCurrent
  <2>8. EncodedIsEarlier' /\ MembersHoldTheSession'
    BY <2>2, <2>3 DEF IInv, EncodedIsEarlier, MembersHoldTheSession
  <2>. QED
    BY <2>6, <2>7, <2>8 DEF IInv
<1>. QED
  BY <1>1, <1>2 DEF Ask

LEMMA ReceiveHolds ==
    ASSUME IInv, NEW p \in Peer, Receive(p)
    PROVE  IInv'
<1>. DEFINE q == snap[p].from
            s == snap[p].actions
<1>1. /\ stage[p] = "joining" /\ q \in Member /\ q \in Peer /\ q # p
      /\ Base \subseteq s /\ s \subseteq log[q] /\ s \in SUBSET Action
  BY DEF Receive, IInv, Types, SnapsAreServed, SnapshotsAreCurrent, Member
<1>2. /\ stage' = [stage EXCEPT ![p] = "member"] /\ log' = [log EXCEPT ![p] = s]
      /\ snap' = [snap EXCEPT ![p] = NoSnap]
      /\ UNCHANGED <<committed, outgoing, flight, sweep>>
      /\ encoded' \in {encoded, [encoded EXCEPT ![q] = {s}]}
  BY DEF Receive, Remember
<1>. HIDE DEF q, s
<1>3. Member' = Member \cup {p} /\ p \notin Member
  BY <1>1, <1>2 DEF IInv, Types, Member
<1>4. Types' /\ Swept'
  <2>1. encoded' \in [Peer -> SUBSET SUBSET Action]
    BY <1>1, <1>2 DEF IInv, Types
  <2>2. snap' \in [Peer -> [from : Peer \cup {Nobody}, actions : SUBSET Action, held : SUBSET Action]]
    BY <1>2, NoSnapIsTyped DEF IInv, Types
  <2>. QED
    BY <1>1, <1>2, <2>1, <2>2 DEF IInv, Types, Swept
<1>5. SnapsAreServed'
  <2>. SUFFICES ASSUME NEW r \in Peer, snap'[r] # NoSnap
       PROVE /\ stage'[r] = "joining" /\ snap'[r].from \in Member'
             /\ Base \subseteq snap'[r].held
             /\ snap'[r].actions \subseteq log'[snap'[r].from]
    BY DEF SnapsAreServed
  <2>1. r # p /\ snap'[r] = snap[r]
    BY <1>2 DEF IInv, Types
  <2>2. snap[r].from \in Member /\ snap[r].from # p /\ snap[r].from \in Peer
    BY <1>3, <2>1 DEF IInv, SnapsAreServed, Member
  <2>. QED
    BY <1>2, <1>3, <2>1, <2>2 DEF IInv, Types, SnapsAreServed
<1>6. EncodedIsEarlier'
  <2>. SUFFICES ASSUME NEW r \in Peer
       PROVE (\A e \in encoded'[r] : e \subseteq log'[r]) /\ (r \notin Member' => encoded'[r] = {})
    BY DEF EncodedIsEarlier
  <2>1. CASE r = p
    BY <1>1, <1>2, <1>3, <2>1 DEF IInv, Types, EncodedIsEarlier
  <2>2. CASE r # p
    BY <1>1, <1>2, <1>3, <2>2 DEF IInv, Types, EncodedIsEarlier
  <2>. QED
    BY <2>1, <2>2
<1>7. MembersHoldTheSession'
  BY <1>1, <1>2, <1>3 DEF IInv, Types, MembersHoldTheSession, Member
<1>8. SnapshotsAreCurrent'
  BY <1>2, NoSnapIsTyped DEF IInv, Types, SnapshotsAreCurrent
<1>. QED
  BY <1>4, <1>5, <1>6, <1>7, <1>8 DEF IInv

(* Putting some peers' sweeps back to idle keeps the sweeps in shape, and so   *)
(* does any sweep of one peer that is in shape for some partners.             *)
LEMMA IdleKeeps ==
    ASSUME Swept, NEW I, sweep' = [r \in Peer |-> IF r \in I THEN Idle ELSE sweep[r]]
    PROVE  Swept'
<1>1. PICK S : sweep \in [Peer -> SweepOver(S)]
  BY DEF Swept
<1>2. sweep' \in [Peer -> SweepOver(S \cup {Nobody})]
  BY <1>1 DEF SweepOver, Idle
<1>. QED
  BY <1>2 DEF Swept

LEMMA OneSweepKeeps ==
    ASSUME Swept, NEW p \in Peer, NEW S, NEW t \in SweepOver(S),
           sweep' = [sweep EXCEPT ![p] = t]
    PROVE  Swept'
<1>1. PICK T : sweep \in [Peer -> SweepOver(T)]
  BY DEF Swept
<1>2. sweep' \in [Peer -> SweepOver(S \cup T)]
  BY <1>1 DEF SweepOver
<1>. QED
  BY <1>2 DEF Swept

LEMMA OutHolds ==
    ASSUME IInv, NEW p \in Peer, Out(p)
    PROVE  IInv'
<1>1. Member' = Member \ {p}
  BY DEF IInv, Types, Out, Member
<1>2. Types'
  BY NoSnapIsTyped DEF IInv, Types, Out
<1>3. Swept'
  <2>1. PICK I : I = {r \in Peer : p \in {r, sweep[r].partner}}
    OBVIOUS
  <2>2. sweep' = [r \in Peer |-> IF r \in I THEN Idle ELSE sweep[r]]
    BY <2>1 DEF Out
  <2>. QED
    BY <2>2, IdleKeeps DEF IInv
<1>4. SnapsAreServed'
  <2>. SUFFICES ASSUME NEW r \in Peer, snap'[r] # NoSnap
       PROVE /\ stage'[r] = "joining" /\ snap'[r].from \in Member'
             /\ Base \subseteq snap'[r].held
             /\ snap'[r].actions \subseteq log'[snap'[r].from]
    BY DEF SnapsAreServed
  <2>1. r # p /\ snap[r].from # p /\ snap'[r] = snap[r]
    BY DEF Out
  <2>2. snap[r].from \in Member /\ snap[r].from \in Peer
    BY <2>1 DEF IInv, SnapsAreServed, Member
  <2>. QED
    BY <1>1, <2>1, <2>2 DEF IInv, Types, SnapsAreServed, Out
<1>5. EncodedIsEarlier' /\ MembersHoldTheSession'
  BY <1>1 DEF IInv, Types, EncodedIsEarlier, MembersHoldTheSession, Out, Member
<1>6. SnapshotsAreCurrent'
  BY NoSnapIsTyped DEF IInv, SnapshotsAreCurrent, Out
<1>. QED
  BY <1>2, <1>3, <1>4, <1>5, <1>6 DEF IInv

LEMMA StepHolds == IInv /\ [Next]_vars => IInv'
<1>. SUFFICES ASSUME IInv, [Next]_vars PROVE IInv'
  OBVIOUS
<1>1. CASE UNCHANGED vars
  <2>1. UNCHANGED <<stage, log, committed, outgoing, flight, snap, encoded, sweep>>
    BY <1>1 DEF vars
  <2>2. Types' /\ Swept'
    BY <2>1 DEF IInv, Types, Swept
  <2>. QED
    BY <2>1, <2>2, GrowingKeeps DEF IInv
<1>2. ASSUME NEW a \in Action, Broadcast(a) PROVE IInv'
  <2>1. Author[a] \in Peer
    BY SyncAssumption
  <2>2. Types' /\ Swept' /\ UNCHANGED <<stage, snap, encoded>>
    BY <1>2, <2>1 DEF Broadcast, IInv, Types, Swept
  <2>3. \A p \in Peer : log[p] \subseteq log'[p]
    BY <1>2, <2>1 DEF Broadcast, IInv, Types
  <2>. QED
    BY <2>2, <2>3, GrowingKeeps DEF IInv
<1>3. ASSUME NEW p \in Peer, Send(p) PROVE IInv'
  <2>1. PICK a \in outgoing[p] : /\ outgoing' = [outgoing EXCEPT ![p] = @ \ {a}]
                                 /\ flight' = flight \cup ({a} \X (Subscribed \ {p}))
    BY <1>3 DEF Send
  <2>2. UNCHANGED <<stage, log, committed, snap, encoded, sweep>>
    BY <1>3 DEF Send
  <2>3. {a} \X (Subscribed \ {p}) \subseteq Action \X Peer
    BY DEF IInv, Types, Subscribed
  <2>4. Types' /\ Swept'
    BY <2>1, <2>2, <2>3 DEF IInv, Types, Swept
  <2>. QED
    BY <2>2, <2>4, GrowingKeeps DEF IInv
<1>4. ASSUME NEW m \in flight, Deliver(m) PROVE IInv'
  <2>1. m[1] \in Action /\ m[2] \in Peer
    BY DEF IInv, Types
  <2>2. Types' /\ Swept' /\ UNCHANGED <<stage, snap, encoded>>
    BY <1>4, <2>1 DEF Deliver, IInv, Types, Swept
  <2>3. \A p \in Peer : log[p] \subseteq log'[p]
    BY <1>4, <2>1 DEF Deliver, IInv, Types
  <2>. QED
    BY <2>2, <2>3, GrowingKeeps DEF IInv
<1>5. ASSUME NEW p \in Peer, NEW q \in Peer,
             NeighborUp(p, q) \/ NeighborDown(p, q) \/ Subscribe(p, q) \/ Ask(p, q)
      PROVE IInv'
  <2>1. CASE NeighborUp(p, q) \/ NeighborDown(p, q)
    <3>1. UNCHANGED <<stage, log, committed, outgoing, flight, snap, encoded, sweep>>
      BY <2>1 DEF NeighborUp, NeighborDown
    <3>2. Types' /\ Swept'
      BY <3>1 DEF IInv, Types, Swept
    <3>. QED
      BY <3>1, <3>2, GrowingKeeps DEF IInv
  <2>2. CASE Subscribe(p, q)
    <3>1. /\ stage[p] = "out" /\ stage' = [stage EXCEPT ![p] = "joining"]
          /\ UNCHANGED <<log, committed, outgoing, flight, snap, encoded, sweep>>
      BY <2>2 DEF Subscribe
    <3>2. Member' = Member
      BY <3>1 DEF IInv, Types, Member
    <3>3. Types' /\ Swept'
      BY <3>1 DEF IInv, Types, Swept
    <3>4. SnapsAreServed'
      BY <3>1, <3>2 DEF IInv, Types, SnapsAreServed
    <3>5. EncodedIsEarlier' /\ MembersHoldTheSession' /\ SnapshotsAreCurrent'
      BY <3>1, <3>2 DEF IInv, EncodedIsEarlier, MembersHoldTheSession, SnapshotsAreCurrent
    <3>. QED
      BY <3>3, <3>4, <3>5 DEF IInv
  <2>3. CASE Ask(p, q)
    BY <2>3, AskHolds
  <2>. QED
    BY <1>5, <2>1, <2>2, <2>3
<1>6. ASSUME NEW p \in Peer, Receive(p) PROVE IInv'
  BY <1>6, ReceiveHolds
<1>7. ASSUME NEW p \in Peer, JoinFails(p) \/ Leave(p) PROVE IInv'
  BY <1>7, OutHolds DEF JoinFails, Leave
<1>8. ASSUME NEW p \in Peer, SweepOpen(p) \/ SweepCompare(p) \/ SweepFails(p) PROVE IInv'
  <2>1. UNCHANGED <<stage, log, committed, outgoing, flight, snap, encoded>>
    BY <1>8 DEF SweepOpen, SweepCompare, SweepFails
  <2>0. Swept
    BY DEF IInv
  <2>2. PICK S : sweep \in [Peer -> SweepOver(S)]
    BY DEF IInv, Swept
  <2>3. Idle \in SweepOver({Nobody})
    BY DEF Idle, SweepOver
  <2>4. ASSUME SweepOpen(p) PROVE Swept'
    <3>1. PICK q : q = Partner(p)
      OBVIOUS
    <3>. PICK t : t = [sweep[p] EXCEPT !.partner = q]
      OBVIOUS
    <3>2. t \in SweepOver({q})
      BY <2>2 DEF SweepOver
    <3>3. sweep' = [sweep EXCEPT ![p] = t]
      BY <2>2, <2>4, <3>1 DEF SweepOpen
    <3>. QED
      BY <2>0, <3>2, <3>3, OneSweepKeeps, Zenon
  <2>5. ASSUME SweepFails(p) PROVE Swept'
    <3>1. sweep' = [sweep EXCEPT ![p] = Idle]
      BY <2>5 DEF SweepFails
    <3>. QED
      BY <2>0, <2>3, <3>1, OneSweepKeeps, Zenon
  <2>6. ASSUME SweepCompare(p) PROVE Swept'
    <3>1. PICK as : as = log[sweep[p].partner] \ log[p]
      OBVIOUS
    <3>2. as \in SUBSET Action
      BY <2>6, <3>1 DEF SweepCompare, Serves, Member, IInv, Types
    <3>. PICK t : t = [sweep[p] EXCEPT !.missing = as]
      OBVIOUS
    <3>3. t \in SweepOver(S)
      BY <2>2, <3>2 DEF SweepOver
    <3>4. sweep' = [sweep EXCEPT ![p] = Idle] \/ sweep' = [sweep EXCEPT ![p] = t]
      BY <2>2, <2>6, <3>1 DEF SweepCompare
    <3>. QED
      BY <2>0, <2>3, <3>3, <3>4, OneSweepKeeps, Zenon
  <2>7. Types'
    BY <2>1 DEF IInv, Types
  <2>. QED
    BY <1>8, <2>1, <2>4, <2>5, <2>6, <2>7, GrowingKeeps DEF IInv
<1>9. ASSUME NEW p \in Peer, SweepRecover(p) PROVE IInv'
  <2>0. Swept
    BY DEF IInv
  <2>1. PICK S : sweep \in [Peer -> SweepOver(S)]
    BY <2>0 DEF Swept
  <2>2. PICK batch : batch = FirstOf(sweep[p].missing, RECOVER_BATCH)
    OBVIOUS
  <2>3. batch \in SUBSET Action
    BY <2>1, <2>2 DEF FirstOf, SweepOver
  <2>4. PICK got \in Answers(batch) : log' = [log EXCEPT ![p] = @ \cup got]
    BY <1>9, <2>2 DEF SweepRecover
  <2>5. got \in SUBSET Action
    BY <2>3, <2>4 DEF Answers, FirstOf
  <2>6. \A r \in Peer : log[r] \subseteq log'[r]
    BY <2>4, <2>5 DEF IInv, Types
  <2>7. UNCHANGED <<stage, committed, outgoing, flight, snap, encoded>>
    BY <1>9 DEF SweepRecover
  <2>8. Types'
    BY <2>4, <2>5, <2>7 DEF IInv, Types
  <2>9. Swept'
    <3>. PICK t : t = [sweep[p] EXCEPT !.missing = sweep[p].missing \ batch]
      OBVIOUS
    <3>1. t \in SweepOver(S)
      BY <2>1 DEF SweepOver
    <3>2. Idle \in SweepOver({Nobody})
      BY DEF Idle, SweepOver
    <3>3. sweep' = [sweep EXCEPT ![p] = Idle] \/ sweep' = [sweep EXCEPT ![p] = t]
      <4>1. sweep' = [sweep EXCEPT ![p] = IF sweep[p].missing = batch THEN Idle ELSE t]
        BY <1>9, <2>1, <2>2 DEF SweepRecover
      <4>. QED
        BY <4>1
    <3>. QED
      BY <2>0, <3>1, <3>2, <3>3, OneSweepKeeps, Zenon
  <2>. QED
    BY <2>6, <2>7, <2>8, <2>9, GrowingKeeps DEF IInv
<1>. QED
  BY <1>1, <1>2, <1>3, <1>4, <1>5, <1>6, <1>7, <1>8, <1>9 DEF Next

(* Who is near whom plays no part in the rest.                                *)
Swarm == neighbors \in [Peer -> SUBSET Peer] /\ walk \in [Peer -> SUBSET Peer]

LEMMA SwarmHolds == Swarm /\ [Next]_vars => Swarm'
<1>. SUFFICES ASSUME Swarm, [Next]_vars PROVE Swarm'
  OBVIOUS
<1>1. CASE UNCHANGED <<neighbors, walk>>
  BY <1>1 DEF Swarm
<1>2. ASSUME NEW p \in Peer, NEW q \in Peer, NeighborUp(p, q) \/ NeighborDown(p, q)
      PROVE  Swarm'
  BY <1>2 DEF Swarm, NeighborUp, NeighborDown
<1>3. ASSUME NEW p \in Peer, NEW q \in Peer, Subscribe(p, q) \/ Ask(p, q)
      PROVE  Swarm'
  BY <1>3 DEF Swarm, Subscribe, Ask
<1>4. ASSUME NEW p \in Peer, Receive(p)
      PROVE  Swarm'
  BY <1>4 DEF Swarm, Receive
<1>5. ASSUME NEW p \in Peer, JoinFails(p) \/ Leave(p)
      PROVE  Swarm'
  BY <1>5 DEF Swarm, JoinFails, Leave, Out
<1>. QED
  BY <1>1, <1>2, <1>3, <1>4, <1>5
     DEF Next, vars, Broadcast, Send, Deliver, SweepOpen, SweepCompare, SweepRecover, SweepFails

(* The mirrors, the swarm and the messages keep their types.                  *)
THEOREM TypeCorrect == Safety => []TypeOK
<1>1. Init => Swarm
  BY DEF Init, Swarm
<1>2. IInv /\ Swarm => TypeOK
  BY DEF IInv, Types, Swarm, TypeOK
<1>. QED
  BY InitHolds, StepHolds, SwarmHolds, <1>1, <1>2, PTL DEF Safety

(* No member is taken for an empty session: whoever has a session has at      *)
(* least the document that was shared (proto.rs:126).                         *)
THEOREM JoinersGetTheDocument == Safety => []MembersHoldTheSession
<1>1. IInv => MembersHoldTheSession
  BY DEF IInv
<1>. QED
  BY InitHolds, StepHolds, <1>1, PTL DEF Safety

(* The encode cache never serves the past (mirror.rs:273).                    *)
THEOREM CacheServesThePresent == Safety => []SnapshotsAreCurrent
<1>1. IInv => SnapshotsAreCurrent
  BY DEF IInv
<1>. QED
  BY InitHolds, StepHolds, <1>1, PTL DEF Safety
--------------------------------------------------------------------------------
(* Content (C is SessionContent, beside the mirrors): although joiners break  *)
(* promises, sweeps hand on what the flood lost and whoever imported a        *)
(* substrate leaves.                                                          *)

(* What must travel: named by its action after it was registered.             *)
Own(x) == x \in Substrate \ (Catalog \cup unregistered)

(* The hash goes with whatever names it, so a receiver waits for it; what has *)
(* not been broadcast was chosen before there was a session to tell; and what *)
(* a mirror has its engine has, so that what need not wait may be folded.     *)
HashesTravel == \A m \in flood : Own(m.action.names) => m.hashed
OwedWasUntold == \A a \in outbox : a.names \in unregistered
MirroredIsInstalled == \A p \in Peer : content[p] \subseteq installed[p]

ContentInv ==
    /\ C!TypeOK /\ HashesTravel /\ OwedWasUntold /\ MirroredIsInstalled
    /\ C!OwnSubstratesTravel

LEMMA ContentStarts == C!Init => ContentInv
BY DEF C!Init, ContentInv, C!TypeOK, HashesTravel, OwedWasUntold, MirroredIsInstalled,
       C!OwnSubstratesTravel

(* An action admitted with its hash known, or from a mirror that has what it  *)
(* names, is mirrored only once that is here.                                 *)
LEMMA AdmitHolds ==
    ASSUME ContentInv, NEW p \in Peer, NEW a \in C!Edit, NEW hashed \in BOOLEAN,
           Own(a.names) => hashed, C!Admit(p, a, hashed)
    PROVE  ContentInv'
<1>. USE DEF ContentInv, Own
<1>1. C!TypeOK'
  BY DEF C!TypeOK, C!Admit, C!Accept, C!Missing, C!Edit
<1>2. HashesTravel' /\ OwedWasUntold' /\ MirroredIsInstalled'
  BY DEF C!Admit, HashesTravel, OwedWasUntold, MirroredIsInstalled
<1>3. C!OwnSubstratesTravel'
  <2>1. CASE hashed /\ a.names \notin content[p]
    BY <2>1 DEF C!Admit, C!OwnSubstratesTravel
  <2>2. CASE ~(hashed /\ a.names \notin content[p])
    <3>1. logs' = [logs EXCEPT ![p] = @ \cup {a}] /\ UNCHANGED <<content, installed, unregistered>>
      BY <2>2 DEF C!Admit, C!Accept
    <3>2. Own(a.names) => a.names \in content[p] \cap installed[p]
      BY <2>2 DEF MirroredIsInstalled
    <3>. QED
      BY <3>1, <3>2 DEF C!OwnSubstratesTravel, C!TypeOK
  <2>. QED
    BY <2>1, <2>2
<1>. QED
  BY <1>1, <1>2, <1>3

(* Content that lands releases only what names it.                            *)
LEMMA LandHolds ==
    ASSUME ContentInv, NEW p \in Peer, NEW x \in C!Content, C!Land(p, x),
           UNCHANGED <<standing, flat, outbox, flood, unregistered, minted>>
    PROVE  ContentInv'
<1>. USE DEF ContentInv, Own
<1>1. C!TypeOK'
  BY DEF C!TypeOK, C!Land, C!Due
<1>2. HashesTravel' /\ OwedWasUntold'
  BY DEF HashesTravel, OwedWasUntold
<1>3. MirroredIsInstalled'
  BY DEF C!Land, MirroredIsInstalled, C!TypeOK
<1>4. C!OwnSubstratesTravel'
  BY DEF C!Land, C!Due, C!OwnSubstratesTravel, C!TypeOK
<1>. QED
  BY <1>1, <1>2, <1>3, <1>4

(* What a broadcast adds to the log and to the flood.                         *)
LEMMA NextNames ==
    ASSUME C!TypeOK, NEW p \in Peer \cup {Host}, NEW x \in C!Content
    PROVE  C!NextAction(p, x) \in C!Edit /\ C!NextAction(p, x).names = x
BY DEF C!TypeOK, C!NextAction, C!Edit

LEMMA BroadcastAdds ==
    ASSUME C!TypeOK, NEW p, NEW a \in C!Edit, NEW released, released \subseteq C!Edit,
           NEW known,
           C!Broadcast(p, a, released, known)
    PROVE  /\ logs' \in [Peer -> SUBSET C!Edit]
           /\ \A q \in Peer : logs'[q] \subseteq logs[q] \cup released \cup {a}
           /\ \A q \in Peer : q # p => logs'[q] = logs[q]
           /\ flood' \subseteq [action : C!Edit, hashed : BOOLEAN]
           /\ \A m \in flood' \ flood : m.action = a /\ m.hashed = (a.names \in known)
<1>. DEFINE sent == [action |-> a, hashed |-> a.names \in known]
<1>1. sent \in [action : C!Edit, hashed : BOOLEAN]
  OBVIOUS
<1>2. flood' = flood \cup {sent} /\ sent.action = a /\ sent.hashed = (a.names \in known)
  BY DEF C!Broadcast, C!Attached
<1>3. logs' = [logs EXCEPT ![p] = @ \cup released \cup {a}]
  BY DEF C!Broadcast
<1>4. logs \in [Peer -> SUBSET C!Edit]
  BY DEF C!TypeOK
<1>5. /\ logs' \in [Peer -> SUBSET C!Edit]
      /\ \A q \in Peer : logs'[q] \subseteq logs[q] \cup released \cup {a}
      /\ \A q \in Peer : q # p => logs'[q] = logs[q]
  BY <1>3, <1>4
<1>6. /\ flood' \subseteq [action : C!Edit, hashed : BOOLEAN]
      /\ \A m \in flood' \ flood : m.action = a /\ m.hashed = (a.names \in known)
  <2>. HIDE DEF sent
  <2>. QED
    BY <1>1, <1>2 DEF C!TypeOK
<1>. QED
  BY <1>5, <1>6

LEMMA SelectHolds ==
    ASSUME ContentInv, NEW p \in Peer, NEW x \in C!Content, C!Select(p, x)
    PROVE  ContentInv'
<1>. USE DEF ContentInv, Own
<1>0. PICK a \in C!Edit : a = C!NextAction(p, x) /\ a.names = x
  BY NextNames
<1>1. CASE /\ content' = [content EXCEPT ![p] = @ \cup {x}]
           /\ installed' = [installed EXCEPT ![p] = @ \cup {x}]
           /\ parked' = [parked EXCEPT ![p] = @ \ C!Due(p, x)]
           /\ C!Broadcast(p, C!NextAction(p, x), C!Due(p, x), content'[p])
  <2>1. C!Due(p, x) \in SUBSET C!Edit /\ \A b \in C!Due(p, x) : b.names = x
    BY DEF C!Due, C!TypeOK
  <2>2. PICK known : known = content'[p] /\ x \in known /\ x \in installed'[p]
    BY <1>1 DEF C!TypeOK
  <2>3. PICK released \in SUBSET C!Edit : released = C!Due(p, x)
    BY <2>1
  <2>4. /\ logs' \in [Peer -> SUBSET C!Edit]
        /\ \A q \in Peer : logs'[q] \subseteq logs[q] \cup released \cup {a}
        /\ \A q \in Peer : q # p => logs'[q] = logs[q]
        /\ flood' \subseteq [action : C!Edit, hashed : BOOLEAN]
        /\ \A m \in flood' \ flood : m.action = a /\ m.hashed = (a.names \in known)
    <3>0. /\ logs' = [logs EXCEPT ![p] = @ \cup C!Due(p, x) \cup {C!NextAction(p, x)}]
          /\ flood' = flood \cup {[action |-> C!NextAction(p, x),
                                   hashed |-> C!NextAction(p, x).names \in content'[p]]}
      BY <1>1 DEF C!Broadcast, C!Attached
    <3>1. C!Broadcast(p, a, released, known)
      <4>1. logs' = [logs EXCEPT ![p] = @ \cup released \cup {a}]
        BY <1>0, <2>3, <3>0
      <4>2. flood' = flood \cup {[action |-> a, hashed |-> a.names \in known]}
        BY <1>0, <2>2, <3>0
      <4>. QED
        BY <4>1, <4>2 DEF C!Broadcast, C!Attached
    <3>2. C!TypeOK /\ released \subseteq C!Edit
      OBVIOUS
    <3>. HIDE DEF ContentInv
    <3>. QED
      BY <3>1, <3>2, BroadcastAdds, ZenonT(30)
  <2>5. C!TypeOK'
    <3>1. minted' = minted + 1 /\ UNCHANGED <<standing, flat, outbox, unregistered>>
      BY DEF C!Select
    <3>2. minted' \in Nat
      BY <3>1 DEF C!TypeOK
    <3>3. content' \in [Peer -> SUBSET C!Content] /\ installed' \in [Peer -> SUBSET C!Content]
      BY <1>1 DEF C!TypeOK
    <3>4. parked' \in [Peer -> SUBSET C!Edit]
      BY <1>1, <2>3 DEF C!TypeOK
    <3>. QED
      BY <2>4, <3>1, <3>2, <3>3, <3>4 DEF C!TypeOK
  <2>6. HashesTravel' /\ OwedWasUntold'
    BY <1>0, <2>2, <2>4 DEF HashesTravel, OwedWasUntold, C!Select
  <2>7. MirroredIsInstalled'
    BY <1>1 DEF MirroredIsInstalled, C!TypeOK
  <2>8. C!OwnSubstratesTravel'
    BY <1>0, <1>1, <2>1, <2>2, <2>3, <2>4 DEF C!OwnSubstratesTravel, C!Select, C!TypeOK
  <2>. QED
    BY <2>5, <2>7, <2>8, <2>6
<1>2. CASE /\ x \in installed[p] \ Substrate
           /\ C!Broadcast(p, C!NextAction(p, x), {}, content[p])
           /\ UNCHANGED <<content, installed, parked>>
  <2>1. /\ logs' \in [Peer -> SUBSET C!Edit]
        /\ \A q \in Peer : logs'[q] \subseteq logs[q] \cup {} \cup {a}
        /\ flood' \subseteq [action : C!Edit, hashed : BOOLEAN]
        /\ \A m \in flood' \ flood : m.action = a
    <3>1. PICK known : known = content[p]
      OBVIOUS
    <3>2. C!Broadcast(p, a, {}, known)
      BY <1>0, <1>2, <3>1 DEF C!Broadcast, C!Attached
    <3>. QED
      BY <3>2, BroadcastAdds
  <2>2. C!TypeOK'
    BY <1>2, <2>1 DEF C!TypeOK, C!Select
  <2>3. HashesTravel' /\ OwedWasUntold' /\ MirroredIsInstalled'
    BY <1>0, <1>2, <2>1 DEF HashesTravel, OwedWasUntold, MirroredIsInstalled, C!Select
  <2>4. C!OwnSubstratesTravel'
    BY <1>0, <1>2, <2>1 DEF C!OwnSubstratesTravel, C!Select
  <2>. QED
    BY <2>2, <2>3, <2>4
<1>. QED
  BY <1>1, <1>2 DEF C!Select

LEMMA JoinHolds ==
    ASSUME ContentInv, NEW p \in Peer, NEW q \in Peer, C!Join(p, q)
    PROVE  ContentInv'
<1>. USE DEF ContentInv, Own
<1>1. PICK found \in SUBSET (C!Unbundled(q) \cap Catalog) :
        LET has == installed[p] \cup C!Bundled(q) \cup found
        IN  /\ installed' = [installed EXCEPT ![p] = has]
            /\ content' = [content EXCEPT ![p] = C!Bundled(q) \cup (has \ Substrate)]
            /\ flat' = [flat EXCEPT ![p] = C!Missing(logs[q], has)]
  BY DEF C!Join
<1>2. found \subseteq C!Content
  BY DEF C!Unbundled, C!Names, C!TypeOK, C!Edit
<1>3. C!TypeOK'
  BY <1>1, <1>2 DEF C!Join, C!TypeOK, C!Bundled, C!Missing
<1>4. HashesTravel' /\ OwedWasUntold'
  BY DEF C!Join, HashesTravel, OwedWasUntold
<1>5. MirroredIsInstalled'
  BY <1>1 DEF MirroredIsInstalled, C!TypeOK
<1>6. C!OwnSubstratesTravel'
  <2>1. \A b \in logs[q] : Own(b.names) => b.names \in C!Bundled(q)
    BY DEF C!OwnSubstratesTravel, C!Bundled
  <2>. QED
    BY <1>1, <2>1 DEF C!Join, C!OwnSubstratesTravel, C!TypeOK
<1>. QED
  BY <1>3, <1>4, <1>5, <1>6

LEMMA ContentStepHolds == ContentInv /\ [C!Next]_C!vars => ContentInv'
<1>. SUFFICES ASSUME ContentInv, [C!Next]_C!vars PROVE ContentInv'
  OBVIOUS
<1>. USE DEF ContentInv
<1>1. CASE UNCHANGED C!vars
  BY <1>1 DEF C!vars, C!TypeOK, HashesTravel, OwedWasUntold, MirroredIsInstalled,
              C!OwnSubstratesTravel, Own
<1>2. CASE C!Bound
  <2>1. C!TypeOK'
    BY <1>2 DEF C!Bound, C!TypeOK
  <2>. QED
    BY <1>2, <2>1 DEF C!Bound, HashesTravel, OwedWasUntold, MirroredIsInstalled,
                      C!OwnSubstratesTravel, Own
<1>3. CASE C!Flush
  <2>1. PICK a \in outbox : /\ C!Broadcast(Host, a, {}, content[Host])
                            /\ outbox' = outbox \ {a}
    BY <1>3 DEF C!Flush
  <2>2. a \in C!Edit /\ a.names \in unregistered
    BY DEF C!TypeOK, OwedWasUntold
  <2>3. /\ logs' \in [Peer -> SUBSET C!Edit]
        /\ \A q \in Peer : logs'[q] \subseteq logs[q] \cup {} \cup {a}
        /\ flood' \subseteq [action : C!Edit, hashed : BOOLEAN]
        /\ \A m \in flood' \ flood : m.action = a
    BY <2>1, <2>2, BroadcastAdds, ZenonT(30)
  <2>4. C!TypeOK'
    BY <1>3, <2>1, <2>3 DEF C!Flush, C!TypeOK
  <2>5. HashesTravel' /\ OwedWasUntold' /\ MirroredIsInstalled' /\ C!OwnSubstratesTravel'
    BY <1>3, <2>1, <2>2, <2>3 DEF C!Flush, HashesTravel, OwedWasUntold, MirroredIsInstalled,
                                  C!OwnSubstratesTravel, Own
  <2>. QED
    BY <2>4, <2>5
<1>4. ASSUME NEW x \in C!Content, C!SelectEarly(x) PROVE ContentInv'
  <2>1. PICK a \in C!Edit : a = C!NextAction(Host, x) /\ a.names = x
    BY NextNames
  <2>2. outbox' = outbox \cup {a} /\ unregistered' = unregistered \cup {x}
    BY <1>4, <2>1 DEF C!SelectEarly
  <2>3. /\ installed' = [installed EXCEPT ![Host] = @ \cup {x}]
        /\ minted' = minted + 1
        /\ UNCHANGED <<standing, logs, content, flat, parked, flood>>
    BY <1>4 DEF C!SelectEarly
  <2>4. installed' \in [Peer -> SUBSET C!Content]
    BY <2>3 DEF C!TypeOK
  <2>5. minted' \in Nat
    BY <2>3 DEF C!TypeOK
  <2>6. outbox' \subseteq C!Edit /\ unregistered' \subseteq C!Content
    BY <2>2 DEF C!TypeOK
  <2>7. C!TypeOK'
    BY <2>3, <2>4, <2>6, <2>5 DEF C!TypeOK
  <2>8. OwedWasUntold'
    BY <2>1, <2>2 DEF OwedWasUntold
  <2>9. HashesTravel' /\ MirroredIsInstalled' /\ C!OwnSubstratesTravel'
    BY <1>4 DEF C!SelectEarly, HashesTravel, MirroredIsInstalled, C!OwnSubstratesTravel,
                C!TypeOK, Own
  <2>. QED
    BY <2>9, <2>7, <2>8
<1>5. ASSUME NEW p \in Peer, NEW x \in C!Content, C!Select(p, x) PROVE ContentInv'
  BY <1>5, SelectHolds
<1>6. ASSUME NEW p \in Peer, C!Deliver(p) PROVE ContentInv'
  <2>1. PICK m \in flood : C!Admit(p, m.action, m.hashed)
    BY <1>6 DEF C!Deliver
  <2>2. m.action \in C!Edit /\ m.hashed \in BOOLEAN
    BY DEF C!TypeOK
  <2>3. Own(m.action.names) => m.hashed
    BY DEF HashesTravel
  <2>. QED
    BY <2>1, <2>2, <2>3, AdmitHolds
<1>7. ASSUME NEW p \in Peer, NEW q \in Peer, C!Recover(p, q) PROVE ContentInv'
  <2>1. PICK a \in logs[q] : C!Admit(p, a, C!Attached(q, a, content[q]))
    BY <1>7 DEF C!Recover
  <2>2. a \in C!Edit
    BY DEF C!TypeOK
  <2>3. Own(a.names) => C!Attached(q, a, content[q])
    BY DEF C!OwnSubstratesTravel, C!Attached, Own
  <2>4. C!Attached(q, a, content[q]) \in BOOLEAN
    BY DEF C!Attached
  <2>. HIDE DEF ContentInv
  <2>. QED
    BY <2>1, <2>2, <2>3, <2>4, AdmitHolds
<1>8. ASSUME NEW p \in Peer, C!Resolve(p) PROVE ContentInv'
  <2>1. PICK x \in C!Names(parked[p]) : C!Land(p, x)
    BY <1>8 DEF C!Resolve
  <2>2. x \in C!Content
    BY DEF C!TypeOK, C!Names, C!Edit
  <2>. QED
    BY <1>8, <2>1, <2>2, LandHolds DEF C!Resolve
<1>9. ASSUME NEW p \in Peer, C!Abandon(p) PROVE ContentInv'
  <2>1. PICK x \in C!Names(parked[p]) \ Substrate :
          /\ parked' = [parked EXCEPT ![p] = @ \ C!Due(p, x)]
          /\ logs' = [logs EXCEPT ![p] = @ \cup C!Due(p, x)]
    BY <1>9 DEF C!Abandon
  <2>2. C!TypeOK'
    BY <1>9, <2>1 DEF C!Abandon, C!TypeOK, C!Due
  <2>3. HashesTravel' /\ OwedWasUntold' /\ MirroredIsInstalled'
    BY <1>9 DEF C!Abandon, HashesTravel, OwedWasUntold, MirroredIsInstalled, Own
  <2>4. C!OwnSubstratesTravel'
    BY <1>9, <2>1 DEF C!Abandon, C!OwnSubstratesTravel, C!Due, C!TypeOK
  <2>. QED
    BY <2>2, <2>3, <2>4
<1>10. ASSUME NEW p \in Peer, C!Leave(p) PROVE ContentInv'
  <2>1. C!TypeOK' /\ MirroredIsInstalled'
    BY <1>10 DEF C!Leave, C!TypeOK, MirroredIsInstalled
  <2>2. HashesTravel' /\ OwedWasUntold' /\ C!OwnSubstratesTravel'
    BY <1>10 DEF C!Leave, HashesTravel, OwedWasUntold, C!OwnSubstratesTravel, C!TypeOK, Own
  <2>. QED
    BY <2>1, <2>2
<1>11. ASSUME NEW p \in Peer, NEW q \in Peer, C!Join(p, q) PROVE ContentInv'
  BY <1>11, JoinHolds
<1>. QED
  BY <1>1, <1>2, <1>3, <1>4, <1>5, <1>6, <1>7, <1>8, <1>9, <1>10, <1>11 DEF C!Next

(* The mirrors, engines, waiting actions and messages keep their types.       *)
THEOREM ContentTyped == C!Spec => []C!TypeOK
<1>1. ContentInv => C!TypeOK
  BY DEF ContentInv
<1>. QED
  BY ContentStarts, ContentStepHolds, <1>1, PTL DEF C!Spec

(* Nobody's log names an imported substrate its own mirror and engine lack:   *)
(* what publish.rs registers before it commits, inbox.rs and reconcile.rs     *)
(* wait for and mirror.rs bundles, answers and attaches.                      *)
THEOREM ImportsTravel == C!Spec => []OwnSubstratesTravel
<1>1. ContentInv => OwnSubstratesTravel
  BY DEF ContentInv, OwnSubstratesTravel
<1>. QED
  BY ContentStarts, ContentStepHolds, <1>1, PTL DEF C!Spec

-----------------------------------------------------------------------------
(* The doors (SessionDoors). *)

(* What the interface shows decides which act may wait and which session     *)
(* there is, except that a failed link leaves the native one solo over the   *)
(* session it holds.                                                         *)
Waitless == act = NoAct \/ (frontend = "native" /\ act = LinkAct)
PhaseAgrees ==
  \/ phase = "solo" /\ session = NoSession /\ Waitless /\ ~disowned
  \/ /\ phase = "connecting" /\ act.kind \in {"host", "join"}
     /\ session = NoSession /\ ~disowned
  \/ /\ phase = "connecting" /\ act.kind \in {"ticket", "adopt"}
     /\ session.stage = "bound" /\ ~disowned
  \/ phase = "shared" /\ session.stage = "held" /\ Waitless /\ ~disowned
  \/ /\ frontend = "native" /\ phase = "solo" /\ session.stage = "held"
     /\ act = NoAct /\ disowned

(* A shared engine is one an act has converted and the session is over, or   *)
(* on its way over; everything owed the wire is on the canvas.               *)
SharedFor ==
  engine.shared =>
    \/ session.stage = "held"
    \/ phase = "connecting" /\ act.kind \in {"host", "ticket"}
OwedIsLogged == IF engine.shared THEN engine.outbox \subseteq engine.log
                                 ELSE engine.outbox = {}

(* The document a session will serve, before and after it is bound: in the   *)
(* act while the endpoint is being bound, in the mirror from then on.        *)
Binding == phase = "connecting" /\ act.kind = "host"
Serving == session.stage # "none"
ServedReaches ==
  engine.shared =>
    /\ Binding => Ids(act.doc) \subseteq Ids(engine.log)
    /\ Serving => Ids(session.mirror) \subseteq
                    Ids(engine.log) \union Ids(session.events)
LoggedReaches ==
  engine.shared /\ frontend = "native" =>
    /\ Binding => Ids(engine.log) \subseteq Ids(act.doc) \union Ids(engine.outbox)
    /\ Serving => Ids(engine.log) \subseteq
                    Ids(session.mirror) \union Ids(engine.outbox)

(* What a join will show once it is adopted: the document it was served, and *)
(* what its session has buffered since.                                      *)
Adopting == phase = "connecting" /\ act.kind = "adopt"
AdoptedReaches ==
  Adopting => /\ Ids(act.doc) \subseteq Ids(session.mirror)
              /\ Ids(session.mirror) \subseteq
                   Ids(act.doc) \union Ids(session.events)

TypesHold ==
  /\ frontend \in {"web", "native"}
  /\ engine = [log |-> engine.log, shared |-> engine.shared,
               author |-> engine.author, clock |-> engine.clock,
               outbox |-> engine.outbox]
  /\ engine.shared \in BOOLEAN
  /\ session = [stage |-> session.stage, mirror |-> session.mirror,
                events |-> session.events]
  /\ session.events \subseteq session.mirror
  /\ act = [kind |-> act.kind, doc |-> act.doc]
  /\ disowned \in BOOLEAN

DoorsInv == /\ TypesHold /\ PhaseAgrees /\ SharedFor /\ OwedIsLogged
            /\ ServedReaches /\ LoggedReaches /\ AdoptedReaches

-----------------------------------------------------------------------------
(* Ids of what Insert leaves.                                                *)
LEMMA InsertIds ==
  ASSUME NEW L, NEW more
  PROVE  Ids(Insert(L, more)) = Ids(L) \union Ids(more)
  BY DEF Insert, Ids

LEMMA IdsUnion ==
  ASSUME NEW S, NEW T
  PROVE  Ids(S \union T) = Ids(S) \union Ids(T)
  BY DEF Ids

LEMMA IdsMonotone ==
  ASSUME NEW S, NEW T, S \subseteq T
  PROVE  Ids(S) \subseteq Ids(T)
  BY DEF Ids

LEMMA Acts ==
  /\ NoAct = [kind |-> "none", doc |-> {}]
  /\ LinkAct = [kind |-> "link", doc |-> {}]
  BY DEF NoAct, LinkAct

LEMMA DoorsInitHolds == DoorsInit => DoorsInv
  <1>. SUFFICES ASSUME DoorsInit PROVE DoorsInv
    OBVIOUS
  <1>. QED
    BY DoorsAssumption DEF DoorsInit, DoorsInv, TypesHold, PhaseAgrees, SharedFor,
       OwedIsLogged, ServedReaches, LoggedReaches, AdoptedReaches, Adopting,
       Fresh, NoAct, NoSession, Waitless

LEMMA StepKeeps == DoorsInv /\ [DoorsNext]_doors => DoorsInv'
  <1>. SUFFICES ASSUME DoorsInv, [DoorsNext]_doors PROVE DoorsInv'
    OBVIOUS
  <1>0. /\ TypesHold /\ PhaseAgrees /\ SharedFor /\ OwedIsLogged
        /\ ServedReaches /\ LoggedReaches /\ AdoptedReaches
        /\ NoAct = [kind |-> "none", doc |-> {}]
        /\ LinkAct = [kind |-> "link", doc |-> {}]
    BY Acts DEF DoorsInv
  <1>. USE DEF Waitless
  (* What the network and the other members do leaves all of it alone.       *)
  <1>1. CASE OtherCommits \/ OtherJoins \/ OtherLeaves \/ UNCHANGED doors
    <2>. UNCHANGED <<frontend, phase, act, engine, session, disowned>>
      BY <1>1 DEF OtherCommits, OtherJoins, OtherLeaves, doors
    <2>. QED
      BY <1>0 DEF DoorsInv, TypesHold, PhaseAgrees, SharedFor, OwedIsLogged, 
         ServedReaches, LoggedReaches, AdoptedReaches, Binding, Serving,
         Adopting
  <1>2. CASE Commit
    <2>. DEFINE a == [at |-> engine.clock, by |-> engine.author,
                      n |-> commits.mine + commits.others]
                owed == IF engine.shared THEN engine.outbox \union {a} ELSE {}
                S == session.mirror
    <2>1. /\ engine'.log = engine.log \union {a}
          /\ engine'.shared = engine.shared
          /\ engine'.outbox = Flushed(frontend, owed, session.stage)
          /\ session'.stage = session.stage /\ session'.events = session.events
          /\ session'.mirror = IF session.stage = "held"
                               THEN Insert(S, owed) ELSE S
          /\ UNCHANGED <<frontend, phase, act, disowned>>
      BY <1>0, <1>2 DEF Commit, TypesHold
    <2>2. TypesHold'
      BY <1>0, <1>2 DEF Commit, TypesHold, Insert
    <2>3. PhaseAgrees' /\ SharedFor'
      <3>1. session = NoSession => session' = NoSession
        BY <1>0, <1>2 DEF Commit, TypesHold, NoSession
      <3>. QED  BY <1>0, <2>1, <3>1 DEF PhaseAgrees, SharedFor
    <2>4. OwedIsLogged'
      BY <1>0, <2>1 DEF OwedIsLogged, Flushed
    <2>. HIDE DEF a
    <2>5. /\ Ids(engine'.log) = Ids(engine.log) \union Ids({a})
          /\ engine.shared => Ids(owed) = Ids(engine.outbox) \union Ids({a})
          /\ Ids(Insert(S, owed)) = Ids(S) \union Ids(owed)
      BY <2>1, IdsUnion, InsertIds
    <2>6. engine.shared => Ids(engine.outbox) \subseteq Ids(engine.log)
      BY <1>0, IdsMonotone DEF OwedIsLogged
    <2>. HIDE DEF owed, S
    <2>7. ServedReaches'
      <3>1. ASSUME engine.shared, Binding'
            PROVE  Ids(act'.doc) \subseteq Ids(engine'.log)
        BY <1>0, <2>1, <2>5, <3>1 DEF ServedReaches, Binding
      <3>2. ASSUME engine.shared, Serving'
            PROVE  Ids(session'.mirror) \subseteq
                     Ids(engine'.log) \union Ids(session'.events)
        BY <1>0, <2>1, <2>5, <2>6, <3>2 DEF ServedReaches, Serving, S
      <3>. QED  BY <2>1, <3>1, <3>2 DEF ServedReaches
    <2>8. LoggedReaches'
      <3>. SUFFICES ASSUME engine.shared, frontend = "native"
                    PROVE  LoggedReaches'
        BY <2>1 DEF LoggedReaches
      <3>1. CASE session.stage = "held"
        <4>1. Ids(session'.mirror) = Ids(session.mirror) \union Ids(owed)
          BY <2>1, <2>5, <3>1 DEF S
        <4>2. ~Binding'
          BY <1>0, <2>1, <3>1 DEF PhaseAgrees, Binding, NoSession
        <4>3. Ids(engine.log) \subseteq Ids(session.mirror) \union Ids(engine.outbox)
          BY <1>0, <3>1 DEF LoggedReaches, Serving
        <4>. QED  BY <2>5, <4>1, <4>2, <4>3 DEF LoggedReaches
      <3>2. CASE session.stage # "held"
        <4>1. engine'.outbox = owed
          BY <2>1, <3>2 DEF Flushed
        <4>. QED
          BY <1>0, <2>1, <2>5, <3>2, <4>1
         DEF LoggedReaches, Serving, Binding, S
      <3>. QED  BY <3>1, <3>2
    <2>9. AdoptedReaches'
      BY <1>0, <2>1 DEF AdoptedReaches, Adopting, PhaseAgrees, NoSession, S
    <2>. QED  BY <2>2, <2>3, <2>4, <2>7, <2>8, <2>9 DEF DoorsInv
  (* The steps that open a session, and those that end one.                  *)
  <1>3. CASE Share
    <2>1. /\ engine'.shared
          /\ engine'.outbox = {}
          /\ act'.kind = "host" /\ act'.doc = engine'.log
          /\ phase' = "connecting" /\ session.stage = "none"
          /\ UNCHANGED <<frontend, session>>
      BY <1>0, <1>3
         DEF Share, OneSession, Shared, NoSession, PhaseAgrees, TypesHold
    <2>2. TypesHold'
      BY <1>0, <1>3, <2>1 DEF Share, TypesHold, Shared, NoSession
    <2>3. PhaseAgrees' /\ SharedFor' /\ OwedIsLogged'
      BY <1>0, <1>3, <2>1
         DEF Share, PhaseAgrees, SharedFor, OwedIsLogged, Shared, NoSession,
             TypesHold
    <2>4. ServedReaches'
      BY <1>0, <1>3, <2>1 DEF ServedReaches, Binding, Serving, PhaseAgrees
    <2>5. LoggedReaches'
      BY <1>0, <1>3, <2>1 DEF LoggedReaches, Binding, Serving, PhaseAgrees
    <2>6. AdoptedReaches'
      BY <1>0, <1>3, <2>1 DEF AdoptedReaches, Adopting, PhaseAgrees, NoAct
    <2>. QED  BY <2>2, <2>3, <2>4, <2>5, <2>6 DEF DoorsInv
  <1>4. CASE HostBound
    <2>1. /\ phase = "connecting" /\ act.kind = "host"
          /\ session' = [stage |-> "bound", mirror |-> act.doc, events |-> {}]
          /\ act'.kind = "ticket"
          /\ UNCHANGED <<frontend, phase, engine>>
      BY <1>0, <1>4 DEF HostBound, NoAct, NoSession, PhaseAgrees, TypesHold
    <2>2. TypesHold'
      BY <1>0, <1>4, <2>1 DEF HostBound, TypesHold, NoAct, NoSession
    <2>3. PhaseAgrees' /\ SharedFor' /\ OwedIsLogged'
      BY <1>0, <1>4, <2>1
         DEF HostBound, PhaseAgrees, SharedFor, OwedIsLogged, NoAct,
             NoSession, TypesHold
    <2>4. ServedReaches'
      BY <1>0, <1>4, <2>1 DEF ServedReaches, Binding, Serving, PhaseAgrees
    <2>5. LoggedReaches'
      BY <1>0, <1>4, <2>1 DEF LoggedReaches, Binding, Serving, PhaseAgrees
    <2>6. AdoptedReaches'
      BY <1>0, <1>4, <2>1 DEF AdoptedReaches, Adopting, PhaseAgrees, NoAct
    <2>. QED  BY <2>2, <2>3, <2>4, <2>5, <2>6 DEF DoorsInv
  <1>5. CASE HostFails
    <2>1. /\ ~engine'.shared /\ engine'.outbox = {}
          /\ act' = NoAct /\ phase' = "solo" /\ session = NoSession
          /\ UNCHANGED <<frontend, session>>
      BY <1>0, <1>5
         DEF HostFails, Unconverted, Ended, NoAct, NoSession, PhaseAgrees,
             TypesHold
    <2>2. TypesHold'
      BY <1>0, <1>5, <2>1
         DEF HostFails, TypesHold, Unconverted, Ended, NoAct, NoSession
    <2>3. PhaseAgrees' /\ SharedFor' /\ OwedIsLogged'
      BY <1>0, <1>5, <2>1
         DEF HostFails, PhaseAgrees, SharedFor, OwedIsLogged, Unconverted,
             Ended, NoAct, NoSession, TypesHold
    <2>4. ServedReaches'
      BY <1>0, <1>5, <2>1 DEF ServedReaches, Binding, Serving, PhaseAgrees
    <2>5. LoggedReaches'
      BY <1>0, <1>5, <2>1 DEF LoggedReaches, Binding, Serving, PhaseAgrees
    <2>6. AdoptedReaches'
      BY <1>0, <1>5, <2>1 DEF AdoptedReaches, Adopting, PhaseAgrees, NoAct
    <2>. QED  BY <2>2, <2>3, <2>4, <2>5, <2>6 DEF DoorsInv
  <1>6. CASE StartJoin
    <2>1. /\ ~engine.shared /\ session = NoSession
          /\ act'.kind = "join" /\ phase' = "connecting"
          /\ UNCHANGED <<frontend, engine, session>>
      BY <1>0, <1>6
         DEF StartJoin, OneSession, NoAct, NoSession, PhaseAgrees, SharedFor,
             TypesHold
    <2>2. TypesHold'
      BY <1>0, <1>6, <2>1 DEF StartJoin, TypesHold, NoAct, NoSession
    <2>3. PhaseAgrees' /\ SharedFor' /\ OwedIsLogged'
      BY <1>0, <1>6, <2>1
         DEF StartJoin, PhaseAgrees, SharedFor, OwedIsLogged, NoAct,
             NoSession, TypesHold
    <2>4. ServedReaches'
      BY <1>0, <1>6, <2>1 DEF ServedReaches, Binding, Serving, PhaseAgrees
    <2>5. LoggedReaches'
      BY <1>0, <1>6, <2>1 DEF LoggedReaches, Binding, Serving, PhaseAgrees
    <2>6. AdoptedReaches'
      BY <1>0, <1>6, <2>1 DEF AdoptedReaches, Adopting, PhaseAgrees, NoAct
    <2>. QED  BY <2>2, <2>3, <2>4, <2>5, <2>6 DEF DoorsInv
  <1>7. CASE Joined
    <2>0. ~engine.shared /\ phase = "connecting" /\ ~disowned
      BY <1>0, <1>7 DEF Joined, PhaseAgrees, SharedFor, NoAct, NoSession
    <2>1. PICK o \in present :
            /\ session' = [stage |-> "bound", mirror |-> held[o], events |-> {}]
            /\ act' = [kind |-> "adopt", doc |-> held[o]]
            /\ UNCHANGED <<frontend, phase, engine, disowned>>
      BY <1>7 DEF Joined
    <2>2. TypesHold' /\ PhaseAgrees' /\ SharedFor' /\ OwedIsLogged'
      BY <1>0, <2>0, <2>1 DEF TypesHold, PhaseAgrees, SharedFor, OwedIsLogged
    <2>3. ServedReaches' /\ LoggedReaches'
      BY <2>0, <2>1 DEF ServedReaches, LoggedReaches
    <2>4. AdoptedReaches'
      BY <2>1 DEF AdoptedReaches, Adopting
    <2>. QED  BY <2>2, <2>3, <2>4 DEF DoorsInv
  <1>8. CASE DialFails
    <2>1. /\ ~engine'.shared /\ session = NoSession
          /\ engine'.outbox = engine.outbox \/ engine'.outbox = {}
          /\ act' = NoAct /\ phase' = "solo"
          /\ UNCHANGED <<frontend, session>>
      BY <1>0, <1>8
         DEF DialFails, Unconverted, Ended, NoAct, NoSession, PhaseAgrees, SharedFor,
             TypesHold
    <2>2. TypesHold'
      BY <1>0, <1>8, <2>1
         DEF DialFails, TypesHold, Unconverted, Ended, NoAct, NoSession
    <2>3. PhaseAgrees' /\ SharedFor' /\ OwedIsLogged'
      BY <1>0, <1>8, <2>1
         DEF DialFails, PhaseAgrees, SharedFor, OwedIsLogged, Unconverted,
             Ended, NoAct, NoSession, TypesHold
    <2>4. ServedReaches'
      BY <1>0, <1>8, <2>1 DEF ServedReaches, Binding, Serving, PhaseAgrees
    <2>5. LoggedReaches'
      BY <1>0, <1>8, <2>1 DEF LoggedReaches, Binding, Serving, PhaseAgrees
    <2>6. AdoptedReaches'
      BY <1>0, <1>8, <2>1 DEF AdoptedReaches, Adopting, PhaseAgrees, NoAct
    <2>. QED  BY <2>2, <2>3, <2>4, <2>5, <2>6 DEF DoorsInv
  <1>10. CASE Refuse
    <2>1. /\ ~engine.shared
          /\ act' = NoAct /\ phase' = "solo" /\ session' = NoSession
          /\ UNCHANGED <<frontend, engine>>
      BY <1>0, <1>10
         DEF Refuse, NoAct, NoSession, PhaseAgrees, SharedFor, TypesHold
    <2>2. TypesHold'
      BY <1>0, <1>10, <2>1 DEF Refuse, TypesHold, NoAct, NoSession
    <2>3. PhaseAgrees' /\ SharedFor' /\ OwedIsLogged'
      BY <1>0, <1>10, <2>1
         DEF Refuse, PhaseAgrees, SharedFor, OwedIsLogged, NoAct, NoSession,
             TypesHold
    <2>4. ServedReaches'
      BY <1>0, <1>10, <2>1 DEF ServedReaches, Binding, Serving, PhaseAgrees
    <2>5. LoggedReaches'
      BY <1>0, <1>10, <2>1 DEF LoggedReaches, Binding, Serving, PhaseAgrees
    <2>6. AdoptedReaches'
      BY <1>0, <1>10, <2>1 DEF AdoptedReaches, Adopting, PhaseAgrees, NoAct
    <2>. QED  BY <2>2, <2>3, <2>4, <2>5, <2>6 DEF DoorsInv
  <1>11. CASE Install
    <2>1. /\ session.stage = "bound" /\ session'.stage = "held"
          /\ session'.mirror = session.mirror /\ session'.events = session.events
          /\ act' = NoAct /\ phase' = "shared"
          /\ UNCHANGED <<frontend, engine>>
      BY <1>0, <1>11
         DEF Install, Installed, NoAct, NoSession, PhaseAgrees, TypesHold
    <2>2. TypesHold'
      BY <1>0, <1>11, <2>1 DEF Install, TypesHold, Installed, NoAct, NoSession
    <2>3. PhaseAgrees' /\ SharedFor' /\ OwedIsLogged'
      BY <1>0, <1>11, <2>1
         DEF Install, PhaseAgrees, SharedFor, OwedIsLogged, Installed, NoAct,
             NoSession, TypesHold
    <2>4. ServedReaches'
      BY <1>0, <1>11, <2>1 DEF ServedReaches, Binding, Serving, PhaseAgrees
    <2>5. LoggedReaches'
      BY <1>0, <1>11, <2>1 DEF LoggedReaches, Binding, Serving, PhaseAgrees
    <2>6. AdoptedReaches'
      BY <1>0, <1>11, <2>1 DEF AdoptedReaches, Adopting, PhaseAgrees, NoAct
    <2>. QED  BY <2>2, <2>3, <2>4, <2>5, <2>6 DEF DoorsInv
  <1>12. CASE LeaveSession
    <2>1. /\ ~engine'.shared /\ engine'.outbox = {}
          /\ act' = NoAct /\ phase' = "solo" /\ session' = NoSession
          /\ UNCHANGED <<frontend, act, disowned>>
      BY <1>0, <1>12 DEF LeaveSession, Ended, NoAct, NoSession, PhaseAgrees, TypesHold
    <2>2. TypesHold'
      <3>1. engine' = [engine EXCEPT !.shared = FALSE, !.outbox = {}]
        BY <1>12 DEF LeaveSession, Ended
      <3>2. session' = [stage |-> "none", mirror |-> {}, events |-> {}]
        BY <2>1 DEF NoSession
      <3>3. engine' = [log |-> engine.log, shared |-> FALSE,
                       author |-> engine.author, clock |-> engine.clock,
                       outbox |-> {}]
        BY <1>0, <3>1 DEF TypesHold
      <3>. QED
        BY <1>0, <2>1, <3>2, <3>3 DEF TypesHold
    <2>3. PhaseAgrees' /\ SharedFor' /\ OwedIsLogged'
      BY <1>0, <1>12, <2>1
         DEF LeaveSession, PhaseAgrees, SharedFor, OwedIsLogged, Ended, NoAct,
             NoSession, TypesHold
    <2>4. ServedReaches'
      BY <1>0, <1>12, <2>1 DEF ServedReaches, Binding, Serving, PhaseAgrees
    <2>5. LoggedReaches'
      BY <1>0, <1>12, <2>1 DEF LoggedReaches, Binding, Serving, PhaseAgrees
    <2>6. AdoptedReaches'
      BY <1>0, <1>12, <2>1 DEF AdoptedReaches, Adopting, PhaseAgrees, NoAct
    <2>. QED  BY <2>2, <2>3, <2>4, <2>5, <2>6 DEF DoorsInv
  <1>13. CASE New
    <2>1. /\ ~engine'.shared /\ engine' = Fresh
          /\ UNCHANGED <<frontend, act>>
          /\ \/ /\ session.stage = "held" /\ session' = NoSession
                /\ phase' = "solo" /\ disowned' = FALSE
             \/ session.stage # "held" /\ UNCHANGED <<session, phase, disowned>>
      BY <1>0, <1>13 DEF New, Fresh, NoAct, NoSession, PhaseAgrees, TypesHold
    <2>2. TypesHold'
      <3>1. engine' = [log |-> {}, shared |-> FALSE, author |-> Solo,
                       clock |-> 0, outbox |-> {}]
        BY <2>1 DEF Fresh
      <3>2. session' = session \/ session' = [stage |-> "none", mirror |-> {},
                                              events |-> {}]
        BY <2>1 DEF NoSession
      <3>3. disowned' \in BOOLEAN
        BY <1>0, <2>1 DEF TypesHold
      <3>4. session' = [stage |-> session'.stage, mirror |-> session'.mirror,
                        events |-> session'.events]
            /\ session'.events \subseteq session'.mirror
        BY <1>0, <3>2 DEF TypesHold
      <3>. QED  BY <1>0, <2>1, <3>1, <3>3, <3>4 DEF TypesHold
    <2>3. PhaseAgrees' /\ SharedFor' /\ OwedIsLogged'
      BY <1>0, <1>13, <2>1
         DEF New, PhaseAgrees, SharedFor, OwedIsLogged, Fresh, NoAct,
             NoSession, TypesHold
    <2>4. ServedReaches'
      BY <1>0, <1>13, <2>1 DEF ServedReaches, Binding, Serving, PhaseAgrees
    <2>5. LoggedReaches'
      BY <1>0, <1>13, <2>1 DEF LoggedReaches, Binding, Serving, PhaseAgrees
    <2>6. AdoptedReaches'
      BY <1>0, <1>13, <2>1 DEF AdoptedReaches, Adopting, PhaseAgrees, NoAct
    <2>. QED  BY <2>2, <2>3, <2>4, <2>5, <2>6 DEF DoorsInv
  <1>9. CASE Adopt
    <2>1. /\ engine'.log = act.doc /\ engine'.shared /\ engine'.outbox = {}
          /\ Adopting /\ session.stage = "bound"
          /\ session'.mirror = session.mirror
          /\ session'.events = session.events
          /\ act'.kind \in {"none", "ticket"} /\ UNCHANGED frontend
          /\ ~disowned'
          /\ \/ /\ phase' = "connecting" /\ act'.kind = "ticket"
                /\ session'.stage = "bound"
             \/ phase' = "shared" /\ act' = NoAct /\ session'.stage = "held"
      BY <1>0, <1>9 DEF Adopt, Arrived, Installed, NoAct, NoSession, 
         PhaseAgrees, TypesHold, Adopting
    <2>2. TypesHold'
      BY <1>0, <1>9 DEF Adopt, Arrived, Installed, NoAct, TypesHold
    <2>3. PhaseAgrees' /\ SharedFor' /\ OwedIsLogged'
      BY <2>1 DEF PhaseAgrees, SharedFor, OwedIsLogged
    <2>4. ServedReaches' /\ LoggedReaches' /\ AdoptedReaches'
      BY <1>0, <2>1 DEF ServedReaches, LoggedReaches, AdoptedReaches, Binding, 
         Serving, Adopting, NoAct
    <2>. QED  BY <2>2, <2>3, <2>4 DEF DoorsInv
  (* What a session brings.                                                  *)
  <1>14. CASE Pump
    <2>1. PICK x \in session.events :
            /\ engine' = Merged(engine, x)
            /\ session' = [session EXCEPT !.events = @ \ {x}]
            /\ session.stage = "held"
            /\ UNCHANGED <<frontend, phase, act, disowned>>
      BY <1>14 DEF Pump
    <2>2. TypesHold'
      BY <1>0, <2>1 DEF Merged, TypesHold
    <2>3. /\ engine'.shared = engine.shared /\ engine'.outbox = engine.outbox
          /\ engine.shared => engine'.log = Insert(engine.log, {x})
          /\ session'.stage = "held" /\ session'.mirror = session.mirror
          /\ session'.events = session.events \ {x}
          /\ phase # "connecting"
      BY <1>0, <2>1 DEF Merged, TypesHold, PhaseAgrees, NoSession
    <2>4. engine.shared => /\ engine.log \subseteq engine'.log
                           /\ Ids(engine'.log) = Ids(engine.log) \union Ids({x})
      BY <2>3, InsertIds DEF Insert
    <2>5. PhaseAgrees' /\ SharedFor' /\ OwedIsLogged' /\ AdoptedReaches'
      BY <1>0, <2>1, <2>3, <2>4 DEF PhaseAgrees, SharedFor, OwedIsLogged,
         AdoptedReaches, Adopting, NoSession
    <2>6. Ids(session.events) = Ids(session'.events) \union Ids({x})
      <3>1. session.events = session'.events \union {x}
        BY <2>1, <2>3
      <3>. QED  BY <3>1, IdsUnion
    <2>7. ServedReaches'
      BY <1>0, <2>1, <2>3, <2>4, <2>6
         DEF ServedReaches, Binding, Serving, NoAct
    <2>8. LoggedReaches'
      <3>1. Ids({x}) \subseteq Ids(session.mirror)
        BY <1>0, IdsMonotone DEF TypesHold
      <3>. QED
        BY <1>0, <2>1, <2>3, <2>4, <3>1
         DEF LoggedReaches, Binding, Serving, NoAct
    <2>. QED  BY <2>2, <2>5, <2>7, <2>8 DEF DoorsInv
  <1>15. CASE Reach
    <2>1. CASE UNCHANGED session
      <3>. UNCHANGED <<frontend, phase, act, engine, session, disowned>>
        BY <1>15, <2>1 DEF Reach
      <3>. QED
        BY <1>0 DEF DoorsInv, TypesHold, PhaseAgrees, SharedFor, OwedIsLogged, 
           ServedReaches, LoggedReaches, AdoptedReaches, Binding, Serving,
           Adopting
    <2>2. CASE ~UNCHANGED session
      <3>1. PICK x :
              /\ session.stage # "none"
              /\ session' = [session EXCEPT !.mirror = @ \union {x},
                                            !.events = @ \union {x}]
              /\ UNCHANGED <<frontend, phase, act, engine, disowned>>
        BY <1>15, <2>2 DEF Reach
      <3>2. /\ session'.stage = session.stage
            /\ session'.mirror = session.mirror \union {x}
            /\ session'.events = session.events \union {x}
        BY <1>0, <3>1 DEF TypesHold
      <3>3. /\ Ids(session'.mirror) = Ids(session.mirror) \union Ids({x})
            /\ Ids(session'.events) = Ids(session.events) \union Ids({x})
        BY <3>2, IdsUnion
      <3>4. TypesHold'
        BY <1>0, <3>1 DEF TypesHold
      <3>5. PhaseAgrees' /\ SharedFor' /\ OwedIsLogged'
        BY <1>0, <3>1, <3>2 DEF PhaseAgrees, SharedFor, OwedIsLogged, NoSession
      <3>6. ServedReaches' /\ LoggedReaches' /\ AdoptedReaches'
        BY <1>0, <3>1, <3>2, <3>3 DEF ServedReaches, LoggedReaches, 
           AdoptedReaches, Binding, Serving, Adopting
      <3>. QED  BY <3>4, <3>5, <3>6 DEF DoorsInv
    <2>. QED  BY <2>1, <2>2
  (* The link that is minted anew, and the one that is not.                  *)
  <1>16. CASE ShareAgain \/ LinkMinted
    <2>1. /\ act' = NoAct \/ (frontend = "native" /\ act' = LinkAct)
          /\ phase # "connecting" /\ ~disowned
          /\ UNCHANGED <<frontend, phase, engine, session, disowned>>
      BY <1>0, <1>16 DEF ShareAgain, LinkMinted, PhaseAgrees
    <2>2. TypesHold' /\ PhaseAgrees'
      BY <1>0, <2>1 DEF TypesHold, PhaseAgrees
    <2>3. /\ SharedFor' /\ OwedIsLogged' /\ ServedReaches' /\ LoggedReaches'
          /\ AdoptedReaches'
      BY <1>0, <2>1 DEF SharedFor, OwedIsLogged, ServedReaches, LoggedReaches,
         AdoptedReaches, Binding, Serving, Adopting
    <2>. QED  BY <2>2, <2>3 DEF DoorsInv
  <1>17. CASE LinkFails
    <2>1. /\ act' = NoAct /\ phase' = "solo" /\ frontend = "native"
          /\ phase # "connecting" /\ UNCHANGED <<frontend, session>>
          /\ disowned' = (session.stage = "held")
          /\ session.stage = "held" \/ session = NoSession
      BY <1>0, <1>17 DEF LinkFails, PhaseAgrees
    <2>2. TypesHold'
      BY <1>0, <1>17, <2>1 DEF LinkFails, TypesHold, Unconverted, Ended
    <2>3. PhaseAgrees'
      BY <2>1 DEF PhaseAgrees
    <2>4. CASE session.stage = "held"
      <3>1. engine' = engine
        BY <1>17, <2>4 DEF LinkFails, Unconverted
      <3>. QED
        BY <1>0, <2>1, <2>2, <2>3, <2>4, <3>1 DEF DoorsInv, SharedFor, OwedIsLogged,
           ServedReaches, LoggedReaches, AdoptedReaches, Binding, Serving, Adopting
    <2>5. CASE session.stage # "held"
      <3>1. ~engine'.shared /\ engine'.outbox = {}
        BY <1>0, <1>17, <2>5 DEF LinkFails, Unconverted, Ended, TypesHold
      <3>. QED
        BY <2>1, <2>2, <2>3, <3>1 DEF DoorsInv, SharedFor, OwedIsLogged,
           ServedReaches, LoggedReaches, AdoptedReaches, Adopting
    <2>. QED  BY <2>4, <2>5
  <1>. QED
    BY <1>1, <1>2, <1>3, <1>4, <1>5, <1>6, <1>7, <1>8, <1>9, <1>10, <1>11,
       <1>12, <1>13, <1>14, <1>15, <1>16, <1>17 DEF DoorsNext

THEOREM DoorsInvariant == DoorsSpec => []DoorsInv
  BY DoorsInitHolds, StepKeeps, PTL DEF DoorsSpec

-----------------------------------------------------------------------------
(* Whichever end of an act led there, a solo interface is over a solo engine *)
(* with no session and none on its way; only a native link that could not be *)
(* minted leaves it over the session it holds, until that session is left    *)
(* (stark-dioxus-frontend's collab.rs, stark-wgpui-frontend's canvas.rs).    *)
THEOREM SoloMeansSolo == DoorsSpec => []SoloIsSolo
  <1>1. DoorsInv => SoloIsSolo
    BY Acts DEF DoorsInv, PhaseAgrees, SharedFor, SoloIsSolo, NoSession, Waitless
  <1>. QED  BY <1>1, DoorsInvariant, PTL

(* All a held session serves is on this client's canvas or on its way there: *)
(* the events a join buffers before it is installed are not lost.            *)
THEOREM ServedMeansShown == DoorsSpec => []ServedIsShown
  <1>1. DoorsInv => ServedIsShown
    BY DEF DoorsInv, ServedReaches, Serving, ServedIsShown, Together
  <1>. QED  BY <1>1, DoorsInvariant, PTL

(* The native frontend asks for the session before it drains the outbox, so  *)
(* every action it commits is in the session's mirror or still owed to it.   *)
THEOREM NativeKeepsTheOutbox == DoorsSpec => []NativeDropsNothing
  <1>1. DoorsInv => NativeDropsNothing
    BY DEF DoorsInv, LoggedReaches, Serving, NativeDropsNothing,
       NothingIsDropped, Together
  <1>. QED  BY <1>1, DoorsInvariant, PTL
-----------------------------------------------------------------------------
(* Ids. No clock, and no Lamport time anywhere, is past the number of        *)
(* commits there have been, so that every log has a last time; and every id  *)
(* of this client's that its session can show it is behind its clock, or one *)
(* the log it returned by lacked.                                            *)
Total == commits.mine + commits.others
Person == {Me, Solo} \union Other
Minted(S) == \A a \in S : a \in [at : 0 .. Total - 1, by : Person, n : Nat]
TimesCount ==
  /\ commits = [mine |-> commits.mine, others |-> commits.others]
  /\ commits.mine \in Nat /\ commits.others \in Nat
  /\ engine.clock \in 0 .. Total /\ engine.author \in Person
  /\ Minted(engine.log) /\ Minted(act.doc) /\ Minted(session.mirror)
  /\ present \subseteq Other
  /\ held = [o \in Other |-> held[o]] /\ \A o \in Other : Minted(held[o])

(* What the session's members and this client's mirror of it hold.           *)
World == session.mirror \union UNION {held[o] : o \in present}

LogIsPast == \A a \in engine.log : a.at < engine.clock
OwnArePast ==
  engine.shared =>
    /\ engine.author = Me
    /\ Binding => \A a \in act.doc : a.at < engine.clock
    /\ Serving => \A a \in World :
                    a.by = Me => a.at < engine.clock \/ Id(a) \in forgotten
AdoptedIsAll ==
  Adopting => \A a \in World :
                a.by = Me => Id(a) \in Ids(act.doc) \union forgotten

ReturnInv == TimesCount /\ LogIsPast /\ OwnArePast /\ AdoptedIsAll

(* Any set of natural numbers has a least one.                               *)
LEMMA LeastNumber ==
  ASSUME NEW T \in SUBSET Nat, T # {}
  PROVE  \E n \in T : \A m \in T : n <= m
<1>. DEFINE R == {ss \in Nat \X Nat : ss[1] < ss[2]}
<1>1. IsWellFoundedOn(R, Nat)
  BY NatLessThanWellFounded DEF OpToRel
<1>. HIDE DEF R
<1>2. PICK n \in T : \A m \in T : ~ (<<m, n>> \in R)
  BY <1>1, WFMin
<1>3. ASSUME NEW m \in T
      PROVE  n <= m
  <2>1. m \in Nat /\ n \in Nat /\ <<m, n>> \notin R
    BY <1>2
  <2>2. ~ (m < n)
    BY <2>1 DEF R
  <2>. QED
    BY <2>1, <2>2
<1>. QED
  BY <1>3

(* A set of numbers below a number has a last one, which Past finds.         *)
LEMMA PastIsLast ==
  ASSUME NEW L, NEW k \in Nat, \A a \in L : a.at \in 0 .. k - 1
  PROVE  /\ Past(L) \in 0 .. k
         /\ \A a \in L : a.at < Past(L)
<1>1. CASE L = {}
  BY <1>1 DEF Past
<1>2. CASE L # {}
  <2>. DEFINE times == {a.at : a \in L}
              bounds == {b \in Nat : \A t \in times : t <= b}
  <2>1. times \subseteq 0 .. k - 1 /\ times # {}
    BY <1>2
  <2>2. k \in bounds
    BY <2>1
  <2>3. PICK b \in bounds : \A c \in bounds : b <= c
    <3>1. bounds \in SUBSET Nat /\ bounds # {}
      BY <2>2
    <3>. HIDE DEF bounds
    <3>. QED  BY <3>1, LeastNumber
  <2>4. b \in times
    <3>1. SUFFICES ASSUME b \notin times PROVE FALSE
      OBVIOUS
    <3>2. PICK t \in times : TRUE
      BY <2>1
    <3>3. \A u \in times : u \in Nat /\ u <= b /\ u # b
      BY <2>1, <2>3, <3>1
    <3>. HIDE DEF times
    <3>4. b \in Nat /\ b - 1 \in Nat /\ \A u \in times : u <= b - 1
      BY <2>3, <3>2, <3>3
    <3>5. b - 1 \in bounds
      BY <3>4
    <3>. QED  BY <2>3, <3>4, <3>5
  <2>5. \E t \in times : \A a \in L : a.at <= t
    BY <2>3, <2>4
  <2>. DEFINE last == CHOOSE t \in times : \A a \in L : a.at <= t
  <2>6. last \in times /\ \A a \in L : a.at <= last
    BY <2>5
  <2>7. Past(L) = 1 + last
    BY <1>2 DEF Past
  <2>8. last \in 0 .. k - 1
    BY <2>1, <2>6
  <2>. HIDE DEF last, times
  <2>9. \A a \in L : a.at \in Int /\ a.at <= last
    BY <2>6
  <2>. QED  BY <2>7, <2>8, <2>9
<1>. QED  BY <1>1, <1>2
LEMMA MintedLater ==
  ASSUME NEW S, Minted(S), Total' \in Nat, Total \in Nat, Total <= Total'
  PROVE  Minted(S)'
  BY DEF Minted

LEMMA StartsReturning == DoorsInit => ReturnInv
  BY DoorsAssumption
     DEF DoorsInit, ReturnInv, TimesCount, LogIsPast, OwnArePast, AdoptedIsAll, Adopting,
         Minted, Total, Person, Fresh, NoSession, NoAct

LEMMA StepReturns == DoorsInv /\ DoorsInv' /\ ReturnInv /\ [DoorsNext]_doors => ReturnInv'
<1>. SUFFICES ASSUME DoorsInv, DoorsInv', ReturnInv, [DoorsNext]_doors PROVE ReturnInv'
  OBVIOUS
<1>0. /\ TypesHold /\ PhaseAgrees /\ SharedFor /\ OwedIsLogged
      /\ TypesHold' /\ PhaseAgrees' /\ SharedFor'
      /\ TimesCount /\ LogIsPast /\ OwnArePast /\ AdoptedIsAll
      /\ NoAct = [kind |-> "none", doc |-> {}]
      /\ LinkAct = [kind |-> "link", doc |-> {}]
  BY Acts DEF DoorsInv, ReturnInv
<1>. USE DEF Waitless
<1>a. Total \in Nat
  BY <1>0 DEF TimesCount, Total
<1>1. CASE UNCHANGED doors
  BY <1>0, <1>1 DEF doors, ReturnInv, TimesCount, LogIsPast, OwnArePast, AdoptedIsAll,
     Adopting, Binding, Serving, World, Minted, Total
<1>2. CASE Commit
  <2>. DEFINE a == [at |-> engine.clock, by |-> engine.author,
                    n |-> commits.mine + commits.others]
              owed == IF engine.shared THEN engine.outbox \union {a} ELSE {}
  <2>1. /\ engine'.log = engine.log \union {a}
        /\ engine'.clock = engine.clock + 1
        /\ engine'.shared = engine.shared /\ engine'.author = engine.author
        /\ session'.stage = session.stage
        /\ session'.mirror \subseteq session.mirror \union owed
        /\ UNCHANGED <<phase, act, present, held, forgotten>>
        /\ commits' = [commits EXCEPT !.mine = @ + 1]
    BY <1>0, <1>2 DEF Commit, TypesHold, Insert
  <2>2. Total' = Total + 1 /\ commits' = [mine |-> commits.mine + 1, others |-> commits.others]
    BY <1>0, <2>1 DEF TimesCount, Total
  <2>3. a \in [at : 0 .. Total' - 1, by : Person, n : Nat]
    BY <1>0, <1>a, <2>2 DEF TimesCount, Total
  <2>4. owed \subseteq engine'.log
    BY <1>0, <2>1 DEF OwedIsLogged
  <2>. HIDE DEF a, owed
  <2>5. \A S : Minted(S) => Minted(S)'
    BY <1>a, <2>2, MintedLater
  <2>6. Minted(engine.log)' /\ Minted(session.mirror)'
    BY <1>0, <2>1, <2>3, <2>4, <2>5 DEF TimesCount, Minted
  <2>7. TimesCount'
    BY <1>0, <1>a, <2>1, <2>2, <2>5, <2>6 DEF TimesCount, Person
  <2>8. LogIsPast'
    <3>1. a.at = engine.clock
      BY DEF a
    <3>2. engine.clock \in Nat /\ \A b \in engine.log : b.at \in Nat
      BY <1>0, <1>a DEF TimesCount, Minted
    <3>. QED  BY <1>0, <2>1, <3>1, <3>2 DEF LogIsPast
  <2>9. OwnArePast'
    <3>. SUFFICES ASSUME engine'.shared PROVE OwnArePast'
      BY DEF OwnArePast
    <3>1. Binding' => \A b \in act.doc : b.at < engine'.clock
      <4>1. \A b \in act.doc : b.at \in Nat
        BY <1>0, <1>a DEF TimesCount, Minted
      <4>. QED
        BY <1>0, <2>1, <4>1 DEF OwnArePast, Binding, TimesCount
    <3>2. World' \subseteq World \union engine'.log
      BY <2>1, <2>4 DEF World
    <3>3. Serving => \A b \in World : b.by = Me => b.at < engine'.clock \/ Id(b) \in forgotten
      <4>1. \A b \in World : b.at \in Nat
        BY <1>0, <1>a DEF TimesCount, Minted, World
      <4>. QED
        BY <1>0, <2>1, <4>1 DEF OwnArePast, TimesCount
    <3>. QED
      BY <1>0, <2>1, <2>8, <3>1, <3>2, <3>3 DEF OwnArePast, LogIsPast, Serving, Id
  <2>10. AdoptedIsAll'
    <3>. SUFFICES ASSUME Adopting' PROVE AdoptedIsAll'
      BY DEF AdoptedIsAll
    <3>1. owed = {} /\ Adopting
      BY <1>0, <2>1 DEF SharedFor, PhaseAgrees, Adopting, owed
    <3>. QED  BY <1>0, <2>1, <3>1 DEF AdoptedIsAll, World, Id, Ids
  <2>. QED  BY <2>7, <2>8, <2>9, <2>10 DEF ReturnInv
<1>3. CASE Share
  <2>1. /\ engine' = Shared(engine)
        /\ act'.doc = engine'.log /\ act'.kind = "host" /\ phase' = "connecting"
        /\ session.stage = "none" /\ UNCHANGED <<session, present, held, forgotten, commits>>
    BY <1>0, <1>3 DEF Share, PhaseAgrees, NoSession
  <2>2. /\ engine'.log = Attributed(engine.log) /\ engine'.clock = engine.clock
        /\ engine'.author = Me
    BY <1>0, <2>1 DEF Shared, TypesHold
  <2>3. Minted(engine'.log)
    BY <1>0, <2>2 DEF TimesCount, Minted, Attributed, Person
  <2>4. \A a \in engine'.log : \E b \in engine.log : a.at = b.at
    BY <1>0, <2>2 DEF TimesCount, Minted, Attributed
  <2>5. TimesCount'
    BY <1>0, <2>1, <2>2, <2>3 DEF TimesCount, Minted, Total, Person
  <2>6. LogIsPast'
    BY <1>0, <2>2, <2>4 DEF LogIsPast
  <2>7. OwnArePast' /\ AdoptedIsAll'
    BY <2>1, <2>2, <2>6 DEF OwnArePast, LogIsPast, Serving, AdoptedIsAll, Adopting
  <2>. QED  BY <2>5, <2>6, <2>7 DEF ReturnInv
<1>4. CASE HostBound
  <2>1. /\ Binding /\ session'.mirror = act.doc /\ session'.stage = "bound"
        /\ act'.kind = "ticket" /\ act'.doc = {} /\ present' = {}
        /\ held' = [o \in Other |-> {}]
        /\ UNCHANGED <<phase, engine, forgotten, commits>>
    BY <1>0, <1>4 DEF HostBound, PhaseAgrees, Binding, NoAct
  <2>2. TimesCount'
    BY <1>0, <2>1 DEF TimesCount, Minted, Total
  <2>3. LogIsPast' /\ AdoptedIsAll'
    BY <1>0, <2>1 DEF LogIsPast, AdoptedIsAll, Adopting
  <2>4. World' = act.doc
    BY <2>1 DEF World
  <2>5. OwnArePast'
    BY <1>0, <2>1, <2>4 DEF OwnArePast, Binding
  <2>. QED  BY <2>2, <2>3, <2>5 DEF ReturnInv
<1>5. CASE HostFails \/ DialFails
  <2>0. session.stage = "none" /\ act.kind \in {"host", "join"}
    BY <1>0, <1>5 DEF HostFails, DialFails, PhaseAgrees, NoSession
  <2>a. /\ act' = NoAct /\ phase' = "solo"
        /\ UNCHANGED <<session, present, held, forgotten, commits>>
        /\ engine' = Ended(engine) \/ (engine' = engine /\ act.kind = "join")
    BY <1>5, <2>0 DEF HostFails, DialFails, Unconverted
  <2>1. /\ engine'.log = engine.log /\ engine'.clock = engine.clock
        /\ engine'.author = engine.author /\ ~engine'.shared
        /\ act' = NoAct /\ phase' = "solo"
        /\ UNCHANGED <<session, present, held, forgotten, commits>>
    BY <1>0, <2>0, <2>a DEF Ended, TypesHold, SharedFor
  <2>. QED
    BY <1>0, <2>1 DEF ReturnInv, TimesCount, Minted, Total, NoAct, LogIsPast, OwnArePast,
       AdoptedIsAll, Adopting
<1>6. CASE StartJoin
  <2>1. /\ act'.doc = {} /\ act'.kind = "join" /\ ~engine.shared
        /\ UNCHANGED <<engine, session, present, held, forgotten, commits>>
    BY <1>0, <1>6 DEF StartJoin, OneSession, NoAct, PhaseAgrees, SharedFor, NoSession
  <2>. QED
    BY <1>0, <2>1 DEF ReturnInv, TimesCount, Minted, Total, LogIsPast, OwnArePast,
       AdoptedIsAll, Adopting
<1>7. CASE Joined
  <2>1. PICK o \in present :
          /\ session' = [stage |-> "bound", mirror |-> held[o], events |-> {}]
          /\ act' = [kind |-> "adopt", doc |-> held[o]]
          /\ forgotten' = forgotten \union Unserved(held[o])
          /\ UNCHANGED <<engine, present, held, commits>>
    BY <1>7 DEF Joined
  <2>0. ~engine.shared
    BY <1>0, <1>7 DEF Joined, PhaseAgrees, SharedFor, NoAct
  <2>2. TimesCount' /\ LogIsPast' /\ OwnArePast'
    BY <1>0, <2>0, <2>1 DEF TimesCount, Minted, Total, LogIsPast, OwnArePast
  <2>3. World' = UNION {held[p] : p \in present}
    BY <2>1 DEF World
  <2>4. \A a \in World' : a.by = Me => Id(a) \in Ids(held[o]) \union Unserved(held[o])
    BY <2>3 DEF Unserved, Ids, Id
  <2>5. AdoptedIsAll'
    BY <2>1, <2>4 DEF AdoptedIsAll, Ids, Id
  <2>. QED  BY <2>2, <2>5 DEF ReturnInv
<1>8. CASE Adopt
  <2>1. /\ Adopting /\ engine' = Arrived(act.doc) /\ session.stage = "bound"
        /\ act'.doc = {} /\ act'.kind \in {"none", "ticket"}
        /\ session'.mirror = session.mirror
        /\ UNCHANGED <<present, held, forgotten, commits>>
    BY <1>0, <1>8 DEF Adopt, Adopting, PhaseAgrees, NoAct, TypesHold, Installed
  <2>2. \A a \in act.doc : a.at \in 0 .. Total - 1
    BY <1>0 DEF TimesCount, Minted
  <2>3. /\ Past(act.doc) \in 0 .. Total
        /\ \A a \in act.doc : a.at < Past(act.doc)
    BY <1>a, <2>2, PastIsLast
  <2>4. engine'.log = act.doc /\ engine'.clock = Past(act.doc) /\ engine'.author = Me
    BY <2>1 DEF Arrived, Resync
  <2>5. TimesCount'
    BY <1>0, <2>1, <2>3, <2>4 DEF TimesCount, Minted, Total, Person
  <2>6. LogIsPast' /\ AdoptedIsAll'
    BY <2>1, <2>3, <2>4 DEF LogIsPast, AdoptedIsAll, Adopting
  <2>7. OwnArePast'
    <3>1. ASSUME NEW a \in World', a.by = Me, Id(a) \notin forgotten
          PROVE  a.at < Past(act.doc)
      <4>1. Id(a) \in Ids(act.doc)
        BY <1>0, <2>1, <3>1 DEF AdoptedIsAll, World
      <4>2. PICK b \in act.doc : Id(a) = Id(b)
        BY <4>1 DEF Ids
      <4>3. a.at = b.at
        BY <4>2 DEF Id
      <4>. QED  BY <2>3, <4>3
    <3>. QED  BY <2>1, <2>4, <3>1 DEF OwnArePast, Binding, Id
  <2>. QED  BY <2>5, <2>6, <2>7 DEF ReturnInv
<1>9. CASE Refuse \/ LeaveSession
  <2>0. act' = NoAct
    BY <1>0, <1>9 DEF Refuse, LeaveSession, PhaseAgrees, NoSession
  <2>a. engine' = Ended(engine) \/ (engine' = engine /\ ~engine.shared)
    BY <1>0, <1>9 DEF Refuse, LeaveSession, PhaseAgrees, SharedFor, NoSession
  <2>1. /\ engine'.log = engine.log /\ engine'.clock = engine.clock
        /\ engine'.author = engine.author /\ ~engine'.shared
        /\ act' = NoAct /\ session' = NoSession
        /\ UNCHANGED <<present, held, forgotten, commits>>
    BY <1>0, <1>9, <2>0, <2>a DEF Refuse, LeaveSession, Ended, TypesHold
  <2>. QED
    BY <1>0, <2>1 DEF ReturnInv, TimesCount, Minted, Total, NoAct, NoSession, LogIsPast,
       OwnArePast, AdoptedIsAll, Adopting
<1>10. CASE Install
  <2>1. /\ act'.kind = "none" /\ act'.doc = {} /\ session'.mirror = session.mirror
        /\ session.stage = "bound"
        /\ UNCHANGED <<engine, present, held, forgotten, commits>>
    BY <1>0, <1>10 DEF Install, Installed, TypesHold, NoAct, PhaseAgrees, NoSession
  <2>. QED
    BY <1>0, <2>1 DEF ReturnInv, TimesCount, Minted, Total, LogIsPast, OwnArePast, World,
       Serving, Binding, AdoptedIsAll, Adopting
<1>11. CASE New
  <2>1. /\ engine' = Fresh
        /\ \/ session' = NoSession /\ phase' = "solo"
           \/ UNCHANGED <<session, phase>>
        /\ UNCHANGED <<act, present, held, forgotten, commits>>
    BY <1>11 DEF New
  <2>2. TimesCount' /\ LogIsPast' /\ OwnArePast'
    BY <1>0, <1>a, <2>1 DEF TimesCount, Minted, Total, Person, Fresh, NoSession,
       LogIsPast, OwnArePast
  <2>3. AdoptedIsAll'
    BY <1>0, <2>1 DEF AdoptedIsAll, Adopting, World
  <2>. QED  BY <2>2, <2>3 DEF ReturnInv
<1>12. CASE Pump
  <2>1. PICK x \in session.events :
          /\ engine' = Merged(engine, x) /\ session'.stage = session.stage
          /\ session'.mirror = session.mirror /\ phase # "connecting"
          /\ UNCHANGED <<phase, act, present, held, forgotten, commits>>
    BY <1>0, <1>12 DEF Pump, TypesHold, PhaseAgrees, NoAct, NoSession
  <2>2. /\ engine'.log \subseteq engine.log \union {x}
        /\ engine'.log # engine.log => x.at < engine'.clock
        /\ engine'.clock \in 0 .. Total /\ engine.clock <= engine'.clock
        /\ engine'.shared = engine.shared /\ engine'.author = engine.author
    <3>1. x \in [at : 0 .. Total - 1, by : Person, n : Nat] /\ engine.clock \in 0 .. Total
      BY <1>0, <2>1 DEF TimesCount, Minted, TypesHold
    <3>2. /\ engine'.clock = IF engine.clock > x.at THEN engine.clock ELSE x.at + 1
          /\ engine'.log = IF engine.shared THEN Insert(engine.log, {x}) ELSE engine.log
          /\ engine'.shared = engine.shared /\ engine'.author = engine.author
      BY <1>0, <2>1 DEF Merged, TypesHold
    <3>3. Insert(engine.log, {x}) \subseteq engine.log \union {x}
      BY DEF Insert
    <3>4. engine.clock \in Nat /\ x.at \in Nat /\ x.at + 1 \in 0 .. Total
      BY <1>a, <3>1
    <3>5. /\ x.at < engine'.clock /\ engine.clock <= engine'.clock
          /\ engine'.clock \in 0 .. Total
      BY <3>1, <3>2, <3>4
    <3>. QED  BY <3>2, <3>3, <3>5
  <2>3. TimesCount'
    BY <1>0, <2>1, <2>2 DEF TimesCount, Minted, Total, TypesHold
  <2>4. LogIsPast'
    <3>1. engine.clock \in Nat /\ engine'.clock \in Nat /\ \A a \in engine.log : a.at \in Nat
      BY <1>0, <1>a, <2>2 DEF TimesCount, Minted
    <3>. QED  BY <1>0, <2>2, <3>1 DEF LogIsPast
  <2>5. OwnArePast'
    <3>1. /\ engine.clock \in Nat /\ engine'.clock \in Nat
          /\ World' = World /\ \A a \in World : a.at \in Nat
      BY <1>0, <1>a, <2>1, <2>2 DEF TimesCount, Minted, World
    <3>. QED  BY <1>0, <2>1, <2>2, <3>1 DEF OwnArePast, Binding, Serving
  <2>6. AdoptedIsAll'
    BY <2>1 DEF AdoptedIsAll, Adopting
  <2>. QED  BY <2>3, <2>4, <2>5, <2>6 DEF ReturnInv
(* A link is minted anew, or is not.                                         *)
<1>17. CASE ShareAgain \/ LinkMinted \/ LinkFails
  <2>1. /\ act'.doc = {} /\ phase # "connecting" /\ phase' # "connecting"
        /\ UNCHANGED <<session, present, held, forgotten, commits>>
    BY <1>0, <1>17 DEF ShareAgain, LinkMinted, LinkFails, PhaseAgrees
  <2>2. /\ engine'.log = engine.log /\ engine'.clock = engine.clock
        /\ engine'.author = engine.author
        /\ engine'.shared => engine.shared
    BY <1>0, <1>17 DEF ShareAgain, LinkMinted, LinkFails, Unconverted, Ended, TypesHold
  <2>3. TimesCount'
    BY <1>0, <2>1, <2>2 DEF TimesCount, Minted, Total
  <2>. QED
    BY <1>0, <2>1, <2>2, <2>3 DEF ReturnInv, LogIsPast, OwnArePast, AdoptedIsAll,
       Adopting, Binding, Serving, World
(* What travels between the members was there before.                        *)
<1>13. CASE Reach
  <2>1. PICK x \in World : 
          /\ \/ /\ session.stage # "none"
                /\ session'.mirror = session.mirror \union {x} /\ UNCHANGED held
             \/ /\ session'.mirror = session.mirror
                /\ \E o \in present : held' = [held EXCEPT ![o] = @ \union {x}]
          /\ session'.stage = session.stage
          /\ UNCHANGED <<phase, act, engine, present, forgotten, commits>>
    BY <1>0, <1>13 DEF Reach, World, TypesHold
  <2>2. \A o \in Other : held'[o] \subseteq held[o] \union {x}
    BY <1>0, <2>1 DEF TimesCount
  <2>3. World' \subseteq World
    BY <1>0, <2>1, <2>2 DEF World, TimesCount
  <2>4. Minted(World)
    BY <1>0 DEF World, TimesCount, Minted
  <2>5. TimesCount'
    BY <1>0, <2>1, <2>2, <2>4 DEF TimesCount, Minted, Total
  <2>. QED
    BY <1>0, <2>1, <2>3, <2>5
       DEF ReturnInv, LogIsPast, OwnArePast, AdoptedIsAll, Adopting, Binding, Serving
<1>14. CASE OtherCommits
  <2>1. PICK o \in present :
          held' = [held EXCEPT ![o] = @ \union
            {[at |-> Past(@), by |-> o, n |-> commits.mine + commits.others]}]
    BY <1>14 DEF OtherCommits
  <2>. DEFINE x == [at |-> Past(held[o]), by |-> o, n |-> Total]
  <2>2. /\ UNCHANGED <<phase, act, engine, session, present, forgotten>>
        /\ commits' = [mine |-> commits.mine, others |-> commits.others + 1]
        /\ Total' = Total + 1
    BY <1>0, <1>14 DEF OtherCommits, TimesCount, Total
  <2>3. Past(held[o]) \in 0 .. Total
    BY <1>0, <1>a, <2>1, PastIsLast DEF TimesCount, Minted
  <2>4. x \in [at : 0 .. Total' - 1, by : Person, n : Nat] /\ x.by # Me
    BY <1>0, <1>a, <2>1, <2>2, <2>3, DoorsAssumption DEF TimesCount, Person
  <2>5. held' = [held EXCEPT ![o] = @ \union {x}] /\ o \in Other
    BY <1>0, <2>1 DEF Total, TimesCount
  <2>. HIDE DEF x
  <2>6. \A S : Minted(S) => Minted(S)'
    BY <1>a, <2>2, MintedLater
  <2>7. \A p \in Other : Minted(held[p])'
    BY <1>0, <2>4, <2>5, <2>6 DEF TimesCount, Minted
  <2>8. TimesCount'
    <3>1. Minted(engine.log)' /\ Minted(act.doc)' /\ Minted(session.mirror)'
      BY <1>0, <2>2, <2>6 DEF TimesCount, Minted
    <3>2. /\ commits' = [mine |-> commits'.mine, others |-> commits'.others]
          /\ commits'.mine \in Nat /\ commits'.others \in Nat
          /\ engine'.clock \in 0 .. Total' /\ engine'.author \in Person
      BY <1>0, <1>a, <2>2 DEF TimesCount
    <3>3. held' = [p \in Other |-> held'[p]] /\ present' \subseteq Other
      BY <1>0, <2>2, <2>5 DEF TimesCount
    <3>. QED  BY <2>7, <3>1, <3>2, <3>3 DEF TimesCount, Person
  <2>9. World' \subseteq World \union {x}
    BY <1>0, <2>2, <2>5 DEF World, TimesCount
  <2>. QED
    BY <1>0, <2>2, <2>4, <2>8, <2>9
       DEF ReturnInv, LogIsPast, OwnArePast, AdoptedIsAll, Adopting, Binding, Serving
<1>15. CASE OtherJoins
  <2>. DEFINE Served == {held[p] : p \in present} \union
                          (IF session.stage = "held" THEN {session.mirror} ELSE {})
  <2>1. PICK o \in Other, L \in Served :
          /\ held' = [held EXCEPT ![o] = L] /\ present' = present \union {o}
          /\ UNCHANGED <<phase, act, engine, session, forgotten, commits>>
    BY <1>15 DEF OtherJoins
  <2>2. L \subseteq World /\ Minted(L)
    BY <1>0, <2>1 DEF World, TimesCount
  <2>3. TimesCount'
    BY <1>0, <2>1, <2>2 DEF TimesCount, Minted, Total
  <2>4. World' \subseteq World
    <3>1. \A p \in Other : held'[p] = IF p = o THEN L ELSE held[p]
      BY <1>0, <2>1 DEF TimesCount
    <3>2. present' \subseteq Other /\ session'.mirror = session.mirror
      BY <1>0, <2>1 DEF TimesCount
    <3>3. \A p \in present' : held'[p] \subseteq World
      <4>. HIDE DEF Served
      <4>. SUFFICES ASSUME NEW p \in present' PROVE held'[p] \subseteq World
        OBVIOUS
      <4>1. CASE p = o
        BY <2>2, <3>1, <3>2, <4>1
      <4>2. CASE p # o
        BY <2>1, <3>1, <3>2, <4>2 DEF World
      <4>. QED  BY <4>1, <4>2
    <3>. QED  BY <3>2, <3>3 DEF World
  <2>. QED
    BY <1>0, <2>1, <2>3, <2>4
       DEF ReturnInv, LogIsPast, OwnArePast, AdoptedIsAll, Adopting, Binding, Serving
<1>16. CASE OtherLeaves
  <2>1. PICK o \in present :
          /\ present' = present \ {o} /\ held' = [held EXCEPT ![o] = {}]
          /\ UNCHANGED <<phase, act, engine, session, forgotten, commits>>
    BY <1>16 DEF OtherLeaves
  <2>2. TimesCount'
    BY <1>0, <2>1 DEF TimesCount, Minted, Total
  <2>3. World' \subseteq World
    BY <1>0, <2>1 DEF World, TimesCount
  <2>. QED
    BY <1>0, <2>1, <2>2, <2>3
       DEF ReturnInv, LogIsPast, OwnArePast, AdoptedIsAll, Adopting, Binding, Serving
<1>. QED
  BY <1>1, <1>2, <1>3, <1>4, <1>5, <1>6, <1>7, <1>8, <1>9, <1>10, <1>11, <1>12, <1>13,
     <1>14, <1>15, <1>16, <1>17 DEF DoorsNext

THEOREM ReturnInvariant == DoorsSpec => [](DoorsInv /\ ReturnInv)
  BY DoorsInitHolds, StepKeeps, StartsReturning, StepReturns, PTL DEF DoorsSpec

(* A commit into a session draws an id nothing else there has, except one    *)
(* that the log this client returned by had forgotten (resync_counters in    *)
(* stark-engine, engine/file.rs).                                            *)
THEOREM ReturningIsTheOnlyReuse == DoorsSpec => ReturningReusesOnlyTheForgotten
<1>. DEFINE Drawn == <<engine.clock, engine.author>>
<1>1. ASSUME DoorsInv, ReturnInv, engine.shared
      PROVE  Drawn \notin Ids(SessionLogs) \ forgotten
  <2>1. engine.author = Me
    BY <1>1 DEF ReturnInv, OwnArePast
  <2>2. ASSUME NEW a \in SessionLogs, Id(a) = Drawn, Id(a) \notin forgotten
        PROVE  FALSE
    <3>1. a.at = engine.clock /\ a.by = Me
      BY <2>1, <2>2 DEF Id
    <3>2. engine.clock \in Int
      BY <1>1 DEF ReturnInv, TimesCount, Total
    <3>3. a \in engine.log \/ (Serving /\ a \in World)
      <4>1. SessionLogs = engine.log \union (IF Serving THEN World ELSE {})
        BY DEF SessionLogs, Serving, World
      <4>. QED  BY <2>2, <4>1
    <3>4. a.at < engine.clock
      BY <1>1, <2>2, <3>1, <3>3 DEF ReturnInv, LogIsPast, OwnArePast
    <3>. QED  BY <3>1, <3>2, <3>4
  <2>. QED  BY <2>2 DEF Ids
<1>2. DoorsInv /\ ReturnInv /\ [DoorsNext]_doors =>
        [commits'.mine # commits.mine /\ engine.shared =>
           <<engine.clock, engine.author>> \notin Ids(SessionLogs) \ forgotten]_doors
  BY <1>1
<1>. QED
  BY <1>2, ReturnInvariant, PTL DEF DoorsSpec, ReturningReusesOnlyTheForgotten
=============================================================================
