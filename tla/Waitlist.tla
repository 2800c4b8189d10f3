------------------------------ MODULE Waitlist ------------------------------
(* One peer's receiving side: the waitlist an arriving action passes through *)
(* (stark-net/src/waitlist.rs), the resolvers that fetch what it waits for    *)
(* (content.rs) and the two doors that feed it, the gossip loop (inbox.rs)    *)
(* and the reconciliation sweep (reconcile.rs).                               *)
(*                                                                            *)
(* The tasks run in parallel on the runtime's threads, so an action here is   *)
(* what the code does under one hold of its locks: a claim and a delivery     *)
(* take both mutexes and are one step each, while what follows a delivery,    *)
(* announcing the content and releasing the batch, is a step per item. A      *)
(* session that is stopped is a behaviour that ends: nothing is claimed of    *)
(* what its tasks would have done next.                                       *)
EXTENDS Naturals, Sequences, Functions

CONSTANTS
    Doors,          \* "flood" the gossip loop, "sweep" the reconciler
    Action,         \* ids of the actions that can arrive or be committed here
    Own,            \* the ones this peer authors
    Need,           \* the content actions may name
    Brush,          \* the needs that are brush shapes: the others never degrade
    Resolvable,     \* NetOptions::resolvable: needs this build ships with
    Bare,           \* actions that may arrive without a transfer hash
    ContentOf,      \* action_content: the need an action names, or NoNeed
    NoNeed,
    BrushAttempts,  \* BRUSH_ATTEMPTS
    MaxFetches      \* bound: resolvers started in one session

ASSUME WaitlistAssumption ==
    /\ Doors \subseteq {"flood", "sweep"}
    /\ Own \subseteq Action /\ Bare \subseteq Action
    /\ Brush \subseteq Need /\ Resolvable \subseteq Need
    /\ NoNeed \notin Need
    /\ ContentOf \in [Action -> Need \cup {NoNeed}]
    /\ BrushAttempts \in Nat \ {0} /\ MaxFetches \in Nat

VARIABLES
    phase,      \* "live", or "unheard" once the engine dropped its Events
    log,        \* Mirror::actions
    content,    \* Mirror::content
    parked,     \* the needs being fetched, and the actions behind each
    fetch,      \* the resolvers: what each is after and how far it is
    work,       \* what each task still has to hand to the engine
    handed,     \* how often each action was sent to the engine
    installed   \* content the engine holds

vars == <<phase, log, content, parked, fetch, work, handed, installed>>

\* The tasks: the doors, the frontend's thread, the resolvers.
Door == {<<d, 0>> : d \in Doors}
Ui == <<"ui", 0>>
Fetch == 1 .. MaxFetches
Resolver(i) == <<"resolver", i>>
Task == Door \cup {Ui} \cup {Resolver(i) : i \in Fetch}

\* What is left of one resolved / imported / abandoned / accept call: the content
\* still to be announced and the batch still to be released.
Batch == [asset : Need \cup {NoNeed}, left : Seq(Action)]
Release(as) == [asset |-> NoNeed, left |-> as]
Idle == Release(<<>>)

\* A resolver asks the frontend, then fetches round by round: "pausing" is where
\* it looks whether it is still wanted, before the first round and after each.
AtWork == {"asking", "pausing", "fetching"}
Progress == [need : Need \cup {NoNeed}, round : 0 .. BrushAttempts,
             stage : AtWork \cup {"unused", "done"}]
Unused == [need |-> NoNeed, stage |-> "unused", round |-> 0]
Busy(i) == fetch[i].stage \in AtWork

TypeOK ==
    /\ phase \in {"live", "unheard"}
    /\ log \subseteq Action /\ content \subseteq Need /\ installed \subseteq Need
    /\ DOMAIN parked \subseteq Need
    /\ \A n \in DOMAIN parked : parked[n] \in Seq(Action) /\ IsInjective(parked[n])
    /\ fetch \in [Fetch -> Progress]
    /\ work \in [Task -> Batch]
    /\ handed \in [Action -> Nat]

Init ==
    /\ phase = "live"
    /\ log = {} /\ content = {} /\ installed = {}
    /\ parked = [n \in {} |-> <<>>]
    /\ fetch = [i \in Fetch |-> Unused]
    /\ work = [t \in Task |-> Idle]
    /\ handed = [a \in Action |-> 0]

(* ------------------------------ admission ------------------------------- *)

\* A resolver for n starts in a free slot: with the frontend when the build
\* promised n, with the peers otherwise.
Spawn(i, n) ==
    /\ i \in Fetch /\ fetch[i] = Unused
    /\ \A j \in 1 .. i - 1 : fetch[j] # Unused
    /\ fetch' = [fetch EXCEPT ![i] =
                   [need |-> n, round |-> 0,
                    stage |-> IF n \in Resolvable THEN "asking" ELSE "pausing"]]

\* Whether an arriving action waits: it names content, can be told apart by a
\* hash, and the mirror does not hold it.
Waits(a, hashed) == ContentOf[a] # NoNeed /\ hashed /\ ContentOf[a] \notin content

\* Mutant of Parked: a redelivered action parks beside its first copy.
ParkedAgain(a) ==
    LET n == ContentOf[a]
    IN  [m \in DOMAIN parked \cup {n} |->
            IF m # n THEN parked[m]
            ELSE IF n \notin DOMAIN parked THEN <<a>> ELSE Append(parked[n], a)]

Parked(a) ==
    LET n == ContentOf[a]
    IN  [m \in DOMAIN parked \cup {n} |->
            IF m # n THEN parked[m]
            ELSE IF n \notin DOMAIN parked THEN <<a>>
            ELSE IF a \in Range(parked[n]) THEN parked[n]
            ELSE Append(parked[n], a)]

\* The receive loop and the sweep both bring actions, any number of times; an
\* action of this peer's own can only come back after it went out.
Admit(d, a, hashed) ==
    /\ work[d] = Idle
    /\ a \in Own => a \in log
    /\ hashed \/ a \in Bare
    /\ IF ~Waits(a, hashed)
       THEN work' = [work EXCEPT ![d] = Release(<<a>>)] /\ UNCHANGED <<parked, fetch>>
       ELSE /\ parked' = Parked(a)
            /\ IF ContentOf[a] \in DOMAIN parked THEN UNCHANGED fetch
               ELSE \E i \in Fetch : Spawn(i, ContentOf[a])
            /\ UNCHANGED work
    /\ UNCHANGED <<phase, log, content, handed, installed>>

\* A live gesture's head names its shape: fetched, with nothing waiting on it.
AdmitDetached(n) ==
    /\ n \in Brush
    /\ n \notin content /\ n \notin DOMAIN parked
    /\ parked' = [m \in DOMAIN parked \cup {n} |-> IF m = n THEN <<>> ELSE parked[m]]
    /\ \E i \in Fetch : Spawn(i, n)
    /\ UNCHANGED <<phase, log, content, work, handed, installed>>

(* ------------------------------- delivery -------------------------------- *)

Behind(n) == IF n \in DOMAIN parked THEN parked[n] ELSE <<>>
Without(n) == [m \in DOMAIN parked \ {n} |-> parked[m]]

\* Mutant of Resolved: an engine that already holds the bytes is not sent them,
\* decided by whether anything was waiting.
ResolvedQuietly(i) ==
    LET n == fetch[i].need
    IN  /\ content' = content \cup {n}
        /\ parked' = Without(n)
        /\ work' = [work EXCEPT ![Resolver(i)] =
                      [Release(Behind(n)) EXCEPT !.asset = IF Behind(n) = <<>> THEN NoNeed ELSE n]]

\* take_parked with content, then what `resolved` still owes the engine.
Resolved(i) ==
    LET n == fetch[i].need
    IN  /\ content' = content \cup {n}
        /\ parked' = Without(n)
        /\ work' = [work EXCEPT ![Resolver(i)] = [Release(Behind(n)) EXCEPT !.asset = n]]

\* Mutant of Abandoned: giving up drops the batch instead of releasing it.
AbandonedDropped(i) ==
    /\ parked' = Without(fetch[i].need)
    /\ UNCHANGED work

\* take_parked without content: the batch goes to its kind's fallback.
Abandoned(i) ==
    /\ parked' = Without(fetch[i].need)
    /\ work' = [work EXCEPT ![Resolver(i)] = Release(Behind(fetch[i].need))]

\* Mutant of Imported: an import goes straight to the mirror, past the waitlist.
ImportedPast(n) ==
    /\ content' = content \cup {n}
    /\ installed' = installed \cup {n}
    /\ UNCHANGED <<parked, work>>

\* add_content: the content is in the engine before the session is told.
Imported(n) ==
    /\ content' = content \cup {n}
    /\ installed' = installed \cup {n}
    /\ parked' = Without(n)
    /\ work' = [work EXCEPT ![Ui] = Release(Behind(n))]

\* The painter imports content; a promise the frontend was asked to keep is
\* the same call.
Import(n) ==
    /\ work[Ui] = Idle /\ n \notin installed
    /\ Imported(n)
    /\ UNCHANGED <<phase, log, fetch, handed>>

\* A local commit is mirrored on its way out. Its content was registered first.
Publish(a) ==
    /\ a \in Own \ log
    /\ ContentOf[a] = NoNeed \/ ContentOf[a] \in content
    /\ log' = log \cup {a}
    /\ UNCHANGED <<phase, content, parked, fetch, work, handed, installed>>

\* The send of the content, between take_parked and the first release.
SendAsset(t) ==
    /\ work[t].asset # NoNeed
    /\ installed' = IF phase = "live" THEN installed \cup {work[t].asset} ELSE installed
    /\ work' = [work EXCEPT ![t].asset = NoNeed]
    /\ UNCHANGED <<phase, log, content, parked, fetch, handed>>

\* Mutant of Fresh: whatever arrives is handed on.
FreshAlways(a) == a \in Action

Fresh(a) == a \notin log

\* release, one action: into the mirror under its lock and, if it was new there,
\* to the engine. The send is outside the lock; only the order of two actions
\* depends on that, which merge_remote does not.
ReleaseNext(t) ==
    /\ work[t].asset = NoNeed /\ work[t].left # <<>>
    /\ LET a == Head(work[t].left)
       IN  /\ log' = log \cup {a}
           /\ handed' = IF Fresh(a) /\ phase = "live" THEN [handed EXCEPT ![a] = @ + 1] ELSE handed
    /\ work' = [work EXCEPT ![t].left = Tail(@)]
    /\ UNCHANGED <<phase, content, parked, fetch, installed>>

(* ------------------------------- resolvers ------------------------------- *)

Ended(i) == fetch' = [fetch EXCEPT ![i] = [Unused EXCEPT !.stage = "done"]]

\* LOCAL_GRACE is over: the frontend made good on its promise, or peers are asked.
GraceOver(i) ==
    /\ fetch[i].stage = "asking"
    /\ IF fetch[i].need \in content THEN Ended(i)
       ELSE fetch' = [fetch EXCEPT ![i].stage = "pausing"]
    /\ UNCHANGED <<phase, log, content, parked, work, handed, installed>>

\* `wanted`, asked between fetches and never during one: the engine still listens.
Wanted == phase = "live"

NextRound(i) ==
    /\ fetch[i].stage = "pausing"
    /\ IF Wanted THEN fetch' = [fetch EXCEPT ![i].stage = "fetching"] ELSE Ended(i)
    /\ UNCHANGED <<phase, log, content, parked, work, handed, installed>>

FetchSucceeds(i) ==
    /\ fetch[i].stage = "fetching"
    /\ Resolved(i) /\ Ended(i)
    /\ UNCHANGED <<phase, log, handed, installed>>

\* Mutant of GivesUp: a substrate is given up on like a brush.
GivesUpOnAll(n, round) == n \in Need /\ round >= BrushAttempts

\* Which needs are let go of after so many rounds.
GivesUp(n, round) == n \in Brush /\ round >= BrushAttempts

\* No provider served this round. The count stays at its cap for a substrate.
FetchFails(i) ==
    /\ fetch[i].stage = "fetching"
    /\ LET round == IF fetch[i].round < BrushAttempts THEN fetch[i].round + 1 ELSE BrushAttempts
       IN  IF GivesUp(fetch[i].need, round)
           THEN Abandoned(i) /\ Ended(i)
           ELSE /\ fetch' = [fetch EXCEPT ![i].round = round, ![i].stage = "pausing"]
                /\ UNCHANGED <<parked, work>>
    /\ UNCHANGED <<phase, log, content, handed, installed>>

\* Between two providers of a round: nobody is left to resolve for, so nothing is
\* released to a fallback.
FetchCancelled(i) ==
    /\ ~Wanted /\ fetch[i].stage = "fetching"
    /\ Ended(i)
    /\ UNCHANGED <<phase, log, content, parked, work, handed, installed>>

\* The engine drops its Events; the session goes on.
Deafen ==
    /\ phase = "live"
    /\ phase' = "unheard"
    /\ UNCHANGED <<log, content, parked, fetch, work, handed, installed>>

Hand(t) == SendAsset(t) \/ ReleaseNext(t)
Resolve(i) == GraceOver(i) \/ NextRound(i) \/ FetchSucceeds(i) \/ FetchFails(i) \/ FetchCancelled(i)

Next ==
    \/ \E d \in Door, a \in Action, hashed \in BOOLEAN : Admit(d, a, hashed)
    \/ \E n \in Need : AdmitDetached(n) \/ Import(n)
    \/ \E a \in Own : Publish(a)
    \/ \E t \in Task : Hand(t)
    \/ \E i \in Fetch : Resolve(i)
    \/ Deafen

\* The runtime runs every task it was given, timers fire, and each fetch attempt
\* ends within FETCH_ATTEMPT. Nothing is assumed of the peers: a fetch may fail
\* every time.
Fairness ==
    /\ \A t \in Task : WF_vars(Hand(t))
    /\ \A i \in Fetch : WF_vars(Resolve(i))

Safety == Init /\ [][Next]_vars
Spec == Safety /\ Fairness

(* ------------------------------ properties ------------------------------- *)

Fetched(n) == \E i \in Fetch : Busy(i) /\ fetch[i].need = n
Substrates == Need \ Brush    \* and placed pictures: whatever has no fallback

\* Nothing parks behind a resolver that has already finished (waitlist.rs:25):
\* while the session and its engine live, whatever is parked has a resolver that
\* is still asking or fetching, whoever supplied the content meanwhile.
NothingParksUnattended == phase = "live" => \A n \in DOMAIN parked : Fetched(n)

\* The same as the comment says it, for the life of the session: an engine that
\* stopped listening does not end it (waitlist.rs:304).
NothingParksInSession == \A n \in DOMAIN parked : Fetched(n)

\* However many doors bring an action, the engine is handed it at most once, and
\* what this peer committed itself never.
SurfacedOnce == \A a \in Action : handed[a] <= IF a \in Own THEN 0 ELSE 1

\* A substrate has no fallback: an action that names one, and came with its hash,
\* enters the log only once the content is held, however the fetch ended.
NoFallbackForSubstrates ==
    \A a \in log \ Bare : ContentOf[a] \in Substrates => ContentOf[a] \in content

\* Content reaches the engine before the actions that named it (waitlist.rs:29,
\* events.rs:43), claimed of the engine and not only of the mirror.
ContentBeforeActions ==
    phase = "live" =>
        \A a \in Action \ Bare :
            handed[a] > 0 /\ ContentOf[a] \in Substrates => ContentOf[a] \in installed

\* What the mirror answers for reaches the engine: an action let through because
\* the content is held is soon drawn with it.
MirroredContentIsInstalled ==
    \A n \in Need : (n \in content) ~> (n \in installed \/ phase # "live")

\* A brush that never arrives costs the round tip, not the stroke: whatever waits
\* on a brush is let through, though every fetch fail.
BrushesAreLetThrough ==
    \A a \in Action :
        (ContentOf[a] \in Brush /\ a \in Range(Behind(ContentOf[a])))
            ~> (a \in log \/ phase # "live")
==============================================================================
