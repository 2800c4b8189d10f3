---------------------------- MODULE SessionContent ----------------------------
(* The content a session's actions name, beside the members' mirrors: what a  *)
(* member registers before it commits, the transfer hash an action travels    *)
(* with, what a joiner promises to find in its own build and is not sent, and *)
(* what a recovery answers.  Content is a substrate, which is baked into the  *)
(* strokes that are replayed over it and has no fallback, or a brush.         *)
(*                                                                            *)
(* One member's waiting and fetching is one step here, whose inside Waitlist  *)
(* models; joining is one step, SessionSync and SessionDoors have its parts.  *)
(* The flood is a set of messages, any of which may arrive again or never.    *)
EXTENDS Naturals

CONSTANTS
    Member,
    Host,           \* who shares
    Substrate,      \* content an action must not be folded without
    Brush,          \* content with a fallback
    Catalog,        \* what every build ships and promises a host it can find
    PromiseFails,   \* whether fetching what one's own build ships may fail
    Early,          \* whether the host paints while its endpoint is being bound
    MaxActions      \* bound: actions committed

VARIABLES
    phase,          \* "out"; "binding", the host's endpoint; "in"
    log,            \* Mirror::actions
    content,        \* Mirror::content, with its hashes and its blobs
    installed,      \* the content each engine has
    flat,           \* the actions an engine folded without the substrate they name
    parked,         \* Waitlist::parked: actions a resolver is at work for
    outbox,         \* what the host has committed and not broadcast
    flood,          \* messages: an action, and whether its hash is attached
    unregistered,   \* history: content chosen while no session was there to tell
    minted          \* how many actions have been committed

vars == <<phase, log, content, installed, flat, parked, outbox, flood,
          unregistered, minted>>

Content == Substrate \cup Brush
Names(actions) == {a.names : a \in actions}
Missing(actions, held) == {a \in actions : a.names \in Substrate \ held}

\* Mutant of Attached: only an action's own author looks its hash up.
AttachedByAuthor(q, a, held) == q = a.by /\ a.names \in held

\* A hash is attached to what is sent or answered if the sender's mirror has
\* the content: `encode` of a broadcast, `recover` of a recovery.
Attached(q, a, held) == a.names \in held

Init ==
    /\ phase = [p \in Member |-> IF p = Host THEN IF Early THEN "binding" ELSE "in" ELSE "out"]
    /\ log = [p \in Member |-> {}] /\ content = [p \in Member |-> {}]
    /\ installed = [p \in Member |-> {}] /\ flat = [p \in Member |-> {}]
    /\ parked = [p \in Member |-> {}]
    /\ outbox = {} /\ flood = {} /\ unregistered = {} /\ minted = 0

-----------------------------------------------------------------------------
\* `take_parked`: what waited for `x`, to be mirrored and folded.
Due(p, x) == {a \in parked[p] : a.names = x}

\* Content comes to a member's mirror and engine, and releases what waited.
Land(p, x) ==
    /\ content' = [content EXCEPT ![p] = @ \cup {x}]
    /\ installed' = [installed EXCEPT ![p] = @ \cup {x}]
    /\ parked' = [parked EXCEPT ![p] = @ \ Due(p, x)]
    /\ log' = [log EXCEPT ![p] = @ \cup Due(p, x)]

\* `accept`: mirrored and handed to the engine, which folds it with what it has.
Accept(p, a) ==
    /\ log' = [log EXCEPT ![p] = @ \cup {a}]
    /\ flat' = [flat EXCEPT ![p] = @ \cup Missing({a}, installed[p])]

\* `admit`, by whichever door: an action without a hash is folded as it is, one
\* with a hash waits for its content. `claim` and `release` know it by its id.
Admit(p, a, hashed) ==
    /\ a \notin log[p] \cup parked[p]
    /\ IF hashed /\ a.names \notin content[p]
       THEN parked' = [parked EXCEPT ![p] = @ \cup {a}] /\ UNCHANGED <<log, flat>>
       ELSE Accept(p, a) /\ UNCHANGED parked
    /\ UNCHANGED <<phase, content, installed, outbox, flood, unregistered, minted>>

\* The type invariant.
Edit == [by : Member \cup {Host}, n : Nat, names : Content]
TypeOK ==
    /\ phase \in [Member -> {"out", "binding", "in"}]
    /\ log \in [Member -> SUBSET Edit] /\ parked \in [Member -> SUBSET Edit]
    /\ content \in [Member -> SUBSET Content] /\ installed \in [Member -> SUBSET Content]
    /\ flat \in [Member -> SUBSET Edit] /\ outbox \subseteq Edit
    /\ flood \subseteq [action : Edit, hashed : BOOLEAN]
    /\ unregistered \subseteq Content /\ minted \in Nat

\* The action `p` commits next, naming `x`.
NextAction(p, x) == [by |-> p, n |-> minted, names |-> x]

\* `broadcast`: mirrored and sent, with the hash if the mirror has the content.
Broadcast(p, a, released, held) ==
    /\ log' = [log EXCEPT ![p] = @ \cup released \cup {a}]
    /\ flood' = flood \cup {[action |-> a, hashed |-> Attached(p, a, held)]}

\* `select`: the content goes into the engine and to the session, which releases
\* what waited for it, and then an action that names it is committed and sent.
\* A brush the engine already has the native frontend does not offer again.
Select(p, x) ==
    /\ phase[p] = "in" /\ minted < MaxActions
    /\ \/ /\ content' = [content EXCEPT ![p] = @ \cup {x}]
          /\ installed' = [installed EXCEPT ![p] = @ \cup {x}]
          /\ parked' = [parked EXCEPT ![p] = @ \ Due(p, x)]
          /\ Broadcast(p, NextAction(p, x), Due(p, x), content'[p])
       \/ /\ x \in installed[p] \ Substrate
          /\ Broadcast(p, NextAction(p, x), {}, content[p])
          /\ UNCHANGED <<content, installed, parked>>
    /\ minted' = minted + 1
    /\ UNCHANGED <<phase, flat, outbox, unregistered>>

\* The same while the endpoint is being bound: `offer` finds no session to tell,
\* and the action waits in the outbox (the native frontend's; the web one drops it).
SelectEarly(x) ==
    /\ phase[Host] = "binding" /\ minted < MaxActions
    /\ installed' = [installed EXCEPT ![Host] = @ \cup {x}]
    /\ outbox' = outbox \cup {NextAction(Host, x)}
    /\ unregistered' = unregistered \cup {x}
    /\ minted' = minted + 1
    /\ UNCHANGED <<phase, log, content, flat, parked, flood>>

\* The session is there, over the document as it was when the host shared it.
Bound ==
    /\ phase[Host] = "binding"
    /\ phase' = [phase EXCEPT ![Host] = "in"]
    /\ UNCHANGED <<log, content, installed, flat, parked, outbox, flood, unregistered, minted>>

\* The dispatch after that broadcasts what the outbox has.
Flush ==
    /\ phase[Host] = "in"
    /\ \E a \in outbox :
         /\ Broadcast(Host, a, {}, content[Host])
         /\ outbox' = outbox \ {a}
    /\ UNCHANGED <<phase, content, installed, flat, parked, unregistered, minted>>

-----------------------------------------------------------------------------
Deliver(p) ==
    /\ phase[p] = "in"
    /\ \E m \in flood : Admit(p, m.action, m.hashed)

\* One action of a sweep's answer.
Recover(p, q) ==
    /\ phase[p] = "in" /\ phase[q] = "in" /\ p # q
    /\ \E a \in log[q] : Admit(p, a, Attached(q, a, content[q]))

\* A resolver: the frontend finds the content in its own build, or a member
\* sends its blob.
Resolve(p) ==
    /\ phase[p] = "in"
    /\ \E x \in Names(parked[p]) :
         /\ x \in Catalog \/ \E q \in Member : phase[q] = "in" /\ x \in content[q]
         /\ Land(p, x)
    /\ UNCHANGED <<phase, flat, outbox, flood, unregistered, minted>>

\* Only a brush is given up on.
Abandon(p) ==
    /\ phase[p] = "in"
    /\ \E x \in Names(parked[p]) \ Substrate :
         /\ parked' = [parked EXCEPT ![p] = @ \ Due(p, x)]
         /\ log' = [log EXCEPT ![p] = @ \cup Due(p, x)]
    /\ UNCHANGED <<phase, content, installed, flat, outbox, flood, unregistered, minted>>

-----------------------------------------------------------------------------
\* `without`: the payloads a snapshot carries, short of what the joiner promised.
Bundled(q) == content[q] \ Catalog

\* `unbundled_content`: what the log names and the snapshot does not carry.
Unbundled(q) == Names(log[q]) \ Bundled(q)

\* `join`: a member's log with its bundle; what is owed is sought in the joiner's
\* own build before the replay, and what is not found is left. Of what the engine
\* has afterwards the session is told of the brushes.
Join(p, q) ==
    /\ phase[p] = "out" /\ phase[q] = "in" /\ p # q
    /\ \E found \in SUBSET (Unbundled(q) \cap Catalog) :
         /\ PromiseFails \/ found = Unbundled(q) \cap Catalog
         /\ LET has == installed[p] \cup Bundled(q) \cup found
            IN  /\ installed' = [installed EXCEPT ![p] = has]
                /\ content' = [content EXCEPT ![p] = Bundled(q) \cup (has \ Substrate)]
                /\ flat' = [flat EXCEPT ![p] = Missing(log[q], has)]
    /\ log' = [log EXCEPT ![p] = log[q]]
    /\ phase' = [phase EXCEPT ![p] = "in"]
    /\ UNCHANGED <<parked, outbox, flood, unregistered, minted>>

\* `shutdown`: the mirror goes, the engine keeps its content.
Leave(p) ==
    /\ phase[p] = "in"
    /\ phase' = [phase EXCEPT ![p] = "out"]
    /\ log' = [log EXCEPT ![p] = {}] /\ content' = [content EXCEPT ![p] = {}]
    /\ flat' = [flat EXCEPT ![p] = {}] /\ parked' = [parked EXCEPT ![p] = {}]
    /\ outbox' = IF p = Host THEN {} ELSE outbox
    /\ UNCHANGED <<installed, flood, unregistered, minted>>

Next ==
    \/ Bound \/ Flush \/ \E x \in Content : SelectEarly(x)
    \/ \E p \in Member :
         \/ \E x \in Content : Select(p, x)
         \/ Deliver(p) \/ Resolve(p) \/ Abandon(p) \/ Leave(p)
         \/ \E q \in Member : Recover(p, q) \/ Join(p, q)

Spec == Init /\ [][Next]_vars

-----------------------------------------------------------------------------
\* A substrate no build ships is registered before it is named, so that whatever
\* a member's log names of it the member has, to draw with and to hand on:
\* joined or swept, broken promises and members leaving notwithstanding.
OwnSubstratesTravel ==
    \A p \in Member : \A a \in log[p] :
        a.names \in Substrate \ (Catalog \cup unregistered)
            => a.names \in content[p] \cap installed[p]

\* waitlist.rs: "An action off the gossip flood and one recovered by reconcile need
\* the same thing: a SetSubstrate applied before its substrate has landed bakes a
\* smooth deposit into stored tiles that no later arrival un-bakes, and it does not
\* matter which door it came through." No engine folds a substrate's action without
\* the substrate. Not so even when all builds are one and keep their promises.
SubstratesComeFirst == \A p \in Member : flat[p] = {}
=============================================================================
