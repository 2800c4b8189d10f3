---------------------------- MODULE MCSessionSync ----------------------------
(* Three peers, the first the host. Action 1 is its own, actions 2 and 3 are  *)
(* the second peer's and action 4 is the third's, whom a sweep that does not  *)
(* rotate asks last. One scene is about the content beside the mirrors: there *)
(* SessionContent runs and the mirrors stand still, elsewhere the reverse.    *)
EXTENDS SessionSync

CONSTANTS
    Scenes,  \* bound: the instances a run looks at
    Substrate, Brush, Catalog, PromiseFails, Early, MaxActions,
    shipped, imported, stamp

VARIABLES scene, standing, logs, content, installed, flat, parked, outbox, flood,
          unregistered, minted

cvars == <<standing, logs, content, installed, flat, parked, outbox, flood,
           unregistered, minted>>

C == INSTANCE SessionContent WITH Member <- Peer, phase <- standing, log <- logs

\* What an instance is: who takes part, what is committed, who may go.
Cast ==
    [join    |-> [peers |-> {1, 2, 3}, actions |-> {1, 4}, leavers |-> {1}, faults |-> 0],
     sweep   |-> [peers |-> {1, 2, 3}, actions |-> {4}, leavers |-> {}, faults |-> 1],
     recover |-> [peers |-> {1, 2}, actions |-> {1, 2, 3}, leavers |-> {2}, faults |-> 0]]

MCAuthor == [a \in Action |-> CASE a = 1 -> 1 [] a \in {2, 3} -> 2 [] a = 4 -> 3]

\* The session before anybody joined, or, for the sweep, once all have joined
\* through the host.
MCInit ==
    /\ scene \in Scenes
    /\ \/ scene # "sweep" /\ Init
       \/ /\ scene = "sweep"
          /\ stage = [p \in Peer |-> "member"] /\ log = [p \in Peer |-> Base] /\ committed = Base
          /\ outgoing = [p \in Peer |-> {}] /\ flight = {} /\ neighbors = [p \in Peer |-> {}]
          /\ walk = [p \in Peer |-> {}] /\ snap = [p \in Peer |-> NoSnap]
          /\ encoded = [p \in Peer |-> IF p = Host THEN {Base} ELSE {}]
          /\ next = [p \in Peer |-> 0] /\ sweep = [p \in Peer |-> Idle] /\ faults = 0
    /\ C!Init

\* A step of the scene's cast. Actions are committed in the order of their ids.
InScene ==
    LET c == Cast[scene]
    IN  /\ Subscribed' \subseteq c.peers
        /\ committed' \subseteq Base \cup c.actions
        /\ faults' <= c.faults
        /\ \A a \in committed', b \in c.actions : b < a => b \in committed'
        /\ \A p \in (Subscribed \ Subscribed') \ c.leavers :
              stage[p] = "joining" /\ walk[p] = {} /\ snap[p] = NoSnap

\* Of content only the first two commit; the third hears and passes on.
Heard == \A m \in flood' : m.action.by # 3

MCNext ==
    /\ \/ scene # "content" /\ Next /\ InScene /\ UNCHANGED cvars
       \/ scene = "content" /\ C!Next /\ Heard /\ UNCHANGED vars
    /\ UNCHANGED scene

MCSafety == MCInit /\ [][MCNext]_<<vars, cvars, scene>>
MCSpec == MCSafety /\ Fairness

\* SessionContent's promise: a substrate that was registered before it was named
\* is wherever an action that names it is.
OwnSubstratesTravel == C!OwnSubstratesTravel
==============================================================================
