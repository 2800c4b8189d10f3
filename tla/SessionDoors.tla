---------------------------- MODULE SessionDoors ----------------------------
(* The doors a frontend opens and closes a session through, over the three   *)
(* things they have to keep in step: the engine (which log it authors into,  *)
(* as whom, with what clock, and the outbox of what it owes the wire), the   *)
(* session object (the mirror the transport serves, and the events it has    *)
(* for the engine), and the phase the interface shows.  Every act but        *)
(* leaving waits on the network half way, and the painter goes on painting,  *)
(* or opens another document, while it waits.                                *)
(*                                                                           *)
(* The two frontends differ in two places, and the model keeps both: the     *)
(* native one asks for the broadcaster before it drains the outbox, and      *)
(* installs a joined session in the step that adopts its document.  They     *)
(* differ in two of the acts as well: only the web one leaves without        *)
(* opening something else, and only the native one mints a link anew.        *)
(*                                                                           *)
(* The network between the members is one action, Reach: an action some      *)
(* member's mirror holds gets to one that lacks it, by the flood or by a     *)
(* sweep, at any time or never (SessionSync models how).                     *)
EXTENDS Integers

CONSTANTS
  Frontend,      \* which frontends the model ranges over
  Me,            \* this client's actor, derived from its persisted key
  Other,         \* the other people's actors
  Solo,          \* ActorId::SOLO
  MaxMine,       \* bound: actions this client commits
  MaxOthers,     \* bound: actions the others commit
  MaxActs        \* bound: shares, joins, leavings and replacements

ASSUME DoorsAssumption ==
  /\ Frontend \subseteq {"web", "native"}
  /\ Me # Solo /\ Me \notin Other /\ Solo \notin Other

VARIABLES
  frontend,      \* rigid
  phase,         \* "solo", "connecting" or "shared": what the interface shows
  act,           \* the session act that waits on the network, and its document
  engine,        \* log, shared, author, clock, outbox
  session,       \* stage, mirror, events
  present,       \* the others who are in the session
  held,          \* what each other's mirror holds
  forgotten,     \* history: own ids the log this client returned by lacked
  disowned,      \* history: a link failed over the session still held
  commits, acts  \* actions committed and acts taken so far

doors == <<frontend, phase, act, engine, session, present, held, forgotten,
           disowned, commits, acts>>

(* An action is its id and the number of the commit that made it: the number *)
(* tells apart two actions under one id, and no code reads it.               *)
Id(a) == <<a.at, a.by>>
Ids(S) == {Id(a) : a \in S}

(* Mirror::insert, Timeline::merge: keyed by id, the first under one stays.  *)
Insert(log, more) == log \union {a \in more : Id(a) \notin Ids(log)}

(* The clock past every id of a log.                                         *)
Past(log) == IF log = {} THEN 0 ELSE 1 + CHOOSE t \in {a.at : a \in log} :
                                         \A a \in log : a.at <= t

Fresh == [log |-> {}, shared |-> FALSE, author |-> Solo, clock |-> 0,
          outbox |-> {}]
NoSession == [stage |-> "none", mirror |-> {}, events |-> {}]
NoAct == [kind |-> "none", doc |-> {}]
LinkAct == [NoAct EXCEPT !.kind = "link"]

(* The actor rewrite of start_collaboration.                                 *)
Attributed(log) ==
  {[a EXCEPT !.by = IF @ = Solo THEN Me ELSE @] : a \in log}

-----------------------------------------------------------------------------
(* The engine's doors.                                                       *)

(* start_collaboration: the log under this client's name, the outbox open,   *)
(* and the clock left alone.                                                 *)
Shared(e) == [e EXCEPT !.log = Attributed(@), !.shared = TRUE, !.author = Me,
                       !.outbox = {}]

(* end_collaboration: declines when nothing is shared; the outbox goes, the  *)
(* author and the clock stay.                                                *)
Ended(e) == [e EXCEPT !.shared = FALSE, !.outbox = {}]

(* Mutant of Resync: the clock a reset engine starts with is kept.           *)
ResyncForgotten(clock, log) == clock

(* resync_counters.                                                          *)
Resync(clock, log) == Past(log)

(* join_collaboration: the reset, the session's whole log, the clock.        *)
Arrived(doc) == [log |-> doc, shared |-> TRUE, author |-> Me,
                 clock |-> Resync(Fresh.clock, doc), outbox |-> {}]

(* merge_remote: the clock moves whatever comes of it; a linear timeline     *)
(* takes no peer's action.                                                   *)
Merged(e, a) ==
  [e EXCEPT !.clock = IF @ > a.at THEN @ ELSE a.at + 1,
            !.log = IF e.shared THEN Insert(@, {a}) ELSE @]

-----------------------------------------------------------------------------
(* Mutant of Flushed: either frontend drains before it asks for the sender.  *)
FlushedFirst(fe, outbox, stage) == {}

(* What a dispatch leaves in the outbox of what the engine has committed:    *)
(* the web frontend drains it and then asks for the session, the native one  *)
(* asks first.                                                               *)
Flushed(fe, outbox, stage) ==
  IF fe = "native" /\ stage # "held" THEN outbox ELSE {}

Commit ==
  /\ commits.mine < MaxMine
  /\ LET a == [at |-> engine.clock, by |-> engine.author,
               n |-> commits.mine + commits.others]
         owed == IF engine.shared THEN engine.outbox \union {a} ELSE {}
     IN /\ engine' = [engine EXCEPT
               !.log = @ \union {a}, !.clock = @ + 1,
               !.outbox = Flushed(frontend, owed, session.stage)]
        /\ session' = [session EXCEPT
               !.mirror = IF session.stage = "held" THEN Insert(@, owed) ELSE @]
  /\ commits' = [commits EXCEPT !.mine = @ + 1]
  /\ UNCHANGED <<frontend, phase, act, present, held, forgotten, disowned,
                 acts>>

-----------------------------------------------------------------------------
Acting == acts < MaxActs /\ acts' = acts + 1

(* Bound: no second session is opened over one a failed link has disowned.   *)
OneSession == session.stage # "held"

(* share: the engine is converted and its document taken, then the endpoint  *)
(* is bound.                                                                 *)
Share ==
  /\ phase = "solo" /\ Acting /\ OneSession
  /\ engine' = Shared(engine)
  /\ act' = [kind |-> "host", doc |-> engine'.log]
  /\ phase' = "connecting"
  /\ UNCHANGED <<frontend, session, present, held, forgotten, disowned,
                 commits>>

(* CollabSession::host: a new topic, its mirror seeded from the document.    *)
HostBound ==
  /\ act.kind = "host"
  /\ session' = [stage |-> "bound", mirror |-> act.doc, events |-> {}]
  /\ act' = [NoAct EXCEPT !.kind = "ticket"]
  /\ present' = {} /\ held' = [o \in Other |-> {}]
  /\ UNCHANGED <<frontend, phase, engine, forgotten, disowned, commits,
                 acts>>

(* Share in a live session, native: the act is a link to be minted, in the   *)
(* place of any other.                                                       *)
ShareAgain ==
  /\ frontend = "native" /\ phase = "shared" /\ session.stage = "held"
  /\ act' = LinkAct
  /\ UNCHANGED <<frontend, phase, engine, session, present, held, forgotten,
                 disowned, commits, acts>>

LinkMinted ==
  /\ act.kind = "link"
  /\ act' = NoAct
  /\ UNCHANGED <<frontend, phase, engine, session, present, held, forgotten,
                 disowned, commits, acts>>

(* Mutant of Unconverted: a failed share leaves the engine shared.           *)
UnconvertedNot(e, stage) == e

(* What a failed act leaves: the conversion is undone, unless the engine is  *)
(* shared for a session that is held.                                        *)
Unconverted(e, stage) == IF stage = "held" THEN e ELSE Ended(e)

HostFails ==
  /\ act.kind = "host"
  /\ engine' = Unconverted(engine, session.stage)
  /\ act' = NoAct /\ phase' = "solo"
  /\ UNCHANGED <<frontend, session, present, held, forgotten, disowned,
                 commits, acts>>

(* The link's task has panicked: the interface goes solo whether or not a    *)
(* session is held, and a held one stays, with its engine and its pump.      *)
LinkFails ==
  /\ act.kind = "link"
  /\ engine' = Unconverted(engine, session.stage)
  /\ act' = NoAct /\ phase' = "solo"
  /\ disowned' = (session.stage = "held")
  /\ UNCHANGED <<frontend, session, present, held, forgotten, commits, acts>>

(* join, up to the dial.                                                     *)
StartJoin ==
  /\ phase = "solo" /\ Acting /\ OneSession
  /\ act' = [NoAct EXCEPT !.kind = "join"]
  /\ phase' = "connecting"
  /\ UNCHANGED <<frontend, engine, session, present, held, forgotten,
                 disowned, commits>>

(* This client's ids that the session's members hold and a log served lacks. *)
Unserved(log) ==
  {i \in Ids(UNION {held[o] : o \in present}) \ Ids(log) : i[2] = Me}

(* CollabSession::join: a member serves its log, and the receive loop runs   *)
(* from here on.                                                             *)
Joined ==
  /\ act.kind = "join"
  /\ \E o \in present :
       /\ session' = [stage |-> "bound", mirror |-> held[o], events |-> {}]
       /\ act' = [kind |-> "adopt", doc |-> held[o]]
       /\ forgotten' = forgotten \union Unserved(held[o])
  /\ UNCHANGED <<frontend, phase, engine, present, held, disowned, commits,
                 acts>>

(* A dial that fails: the native frontend settles it as any failed act.      *)
DialFails ==
  /\ act.kind = "join"
  /\ engine' = IF frontend = "native" THEN Unconverted(engine, session.stage)
                                     ELSE engine
  /\ act' = NoAct /\ phase' = "solo"
  /\ UNCHANGED <<frontend, session, present, held, forgotten, disowned,
                 commits, acts>>

(* Mutant of Installed: the pump hears what comes after it is started.       *)
InstalledDeaf(s) == [s EXCEPT !.stage = "held", !.events = {}]

(* The session is stored and the pump started: the events it has buffered    *)
(* are the first the pump reads.                                             *)
Installed(s) == [s EXCEPT !.stage = "held"]

(* The joined document replaces this client's; the native frontend installs  *)
(* the session in the same step, the web one mints a ticket first.           *)
Adopt ==
  /\ act.kind = "adopt"
  /\ engine' = Arrived(act.doc)
  /\ \/ /\ frontend = "web"
        /\ act' = [NoAct EXCEPT !.kind = "ticket"]
        /\ UNCHANGED <<phase, session>>
     \/ /\ frontend = "native"
        /\ act' = NoAct /\ phase' = "shared"
        /\ session' = Installed(session)
  /\ UNCHANGED <<frontend, present, held, forgotten, disowned, commits,
                 acts>>

(* A session in a colour space this build lacks: refused with the document   *)
(* untouched, and dropping the session ends it.                              *)
Refuse ==
  /\ act.kind = "adopt"
  /\ session' = NoSession /\ act' = NoAct /\ phase' = "solo"
  /\ UNCHANGED <<frontend, engine, present, held, forgotten, disowned,
                 commits, acts>>

Install ==
  /\ act.kind = "ticket"
  /\ session' = Installed(session)
  /\ act' = NoAct /\ phase' = "shared"
  /\ UNCHANGED <<frontend, engine, present, held, forgotten, disowned,
                 commits, acts>>

(* leave, of the web frontend: a held session's pump is cancelled, the       *)
(* engine takes its history back, the transport goes and its mirror with it. *)
LeaveSession ==
  /\ frontend = "web" /\ session.stage = "held" /\ Acting
  /\ session' = NoSession /\ phase' = "solo"
  /\ engine' = Ended(engine)
  /\ UNCHANGED <<frontend, act, present, held, forgotten, disowned, commits>>

(* A new document or an opened file: a held session is left first, and the   *)
(* engine starts over; an act still waiting on the network is left alone.    *)
New ==
  /\ Acting
  /\ engine' = Fresh
  /\ IF session.stage = "held"
     THEN session' = NoSession /\ phase' = "solo" /\ disowned' = FALSE
     ELSE UNCHANGED <<session, phase, disowned>>
  /\ UNCHANGED <<frontend, act, present, held, forgotten, commits>>

-----------------------------------------------------------------------------
(* The pump: one event into the engine, in any order: the log is keyed by id *)
(* and the clock only rises, so none of what follows tells the orders apart. *)
Pump ==
  /\ session.stage = "held"
  /\ \E a \in session.events :
       /\ engine' = Merged(engine, a)
       /\ session' = [session EXCEPT !.events = @ \ {a}]
  /\ UNCHANGED <<frontend, phase, act, present, held, forgotten, disowned,
                 commits, acts>>

(* An action a member holds gets to one that lacks its id; here it is        *)
(* mirrored and handed on to the engine.                                     *)
Reach ==
  /\ \/ \E o \in present : \E a \in held[o] :
          /\ session.stage # "none" /\ Id(a) \notin Ids(session.mirror)
          /\ session' = [session EXCEPT !.mirror = @ \union {a},
                                        !.events = @ \union {a}]
          /\ UNCHANGED held
     \/ \E o \in present :
          \E a \in session.mirror \union UNION {held[p] : p \in present} :
             /\ Id(a) \notin Ids(held[o])
             /\ held' = [held EXCEPT ![o] = @ \union {a}]
             /\ UNCHANGED session
  /\ UNCHANGED <<frontend, phase, act, engine, present, forgotten, disowned,
                 commits, acts>>

OtherCommits ==
  /\ commits.others < MaxOthers
  /\ \E o \in present :
       held' = [held EXCEPT ![o] = @ \union
                 {[at |-> Past(@), by |-> o, n |-> commits.mine + commits.others]}]
  /\ commits' = [commits EXCEPT !.others = @ + 1]
  /\ UNCHANGED <<frontend, phase, act, engine, session, present, forgotten,
                 disowned, acts>>

(* Somebody follows a link into the session, and is served by a member.      *)
OtherJoins ==
  /\ \E o \in Other \ present :
       \E log \in {held[p] : p \in present} \union
                  (IF session.stage = "held" THEN {session.mirror} ELSE {}) :
         /\ held' = [held EXCEPT ![o] = log]
         /\ present' = present \union {o}
  /\ UNCHANGED <<frontend, phase, act, engine, session, forgotten, disowned,
                 commits, acts>>

OtherLeaves ==
  /\ \E o \in present :
       present' = present \ {o} /\ held' = [held EXCEPT ![o] = {}]
  /\ UNCHANGED <<frontend, phase, act, engine, session, forgotten, disowned,
                 commits, acts>>

DoorsInit ==
  /\ frontend \in Frontend
  /\ phase = "solo" /\ act = NoAct /\ engine = Fresh /\ session = NoSession
  /\ present \in {{}, Other} /\ held = [o \in Other |-> {}]
  /\ forgotten = {} /\ disowned = FALSE
  /\ commits = [mine |-> 0, others |-> 0] /\ acts = 0

DoorsNext ==
  \/ Commit \/ Share \/ HostBound \/ HostFails
  \/ ShareAgain \/ LinkMinted \/ LinkFails \/ StartJoin \/ Joined
  \/ DialFails \/ Adopt \/ Refuse \/ Install \/ LeaveSession \/ New
  \/ Pump \/ Reach \/ OtherCommits \/ OtherJoins \/ OtherLeaves

DoorsSpec == DoorsInit /\ [][DoorsNext]_doors

-----------------------------------------------------------------------------
(* The session and the engine hold the same document, once a session is held *)
(* over a shared engine.                                                     *)
Together == session.stage = "held" /\ engine.shared

(* take_outbox() returns a log, every action in order, none droppable: while *)
(* a session is held, what the engine's log has the session's mirror has, or *)
(* the outbox still owes it.  Not true of the web frontend.                  *)
NothingIsDropped ==
  Together => Ids(engine.log) \subseteq
                Ids(session.mirror) \union Ids(engine.outbox)

(* The native frontend's order of asking and draining keeps it: what was     *)
(* painted while the endpoint was being bound goes out after all.            *)
NativeDropsNothing == frontend = "native" => NothingIsDropped

(* The other direction, of both: what the mirror serves a joiner is on this  *)
(* client's own canvas, or on its way there; in particular what arrived      *)
(* between a join's snapshot and its installation.                           *)
ServedIsShown ==
  Together => Ids(session.mirror) \subseteq
                Ids(engine.log) \union Ids(session.events)

(* Whichever of the acts' ends led there: with the interface solo there is   *)
(* no session, none on its way, and the engine has its history back.  One    *)
(* end is set apart, because the code does otherwise there: the native       *)
(* frontend goes solo over the session it holds when a link cannot be        *)
(* minted, until the session is left.  Nothing else disowns a session.       *)
SoloIsSolo ==
  /\ phase = "solo" =>
       /\ act.kind \in {"none", "link"}
       /\ ~disowned => session.stage = "none" /\ ~engine.shared
  /\ disowned => frontend = "native" /\ phase = "solo" /\ session.stage = "held"

(* A commit draws an id that names nothing else in its session, with one     *)
(* exception: a client that left and came back by a member who lacked an     *)
(* action of its own draws that action's id again, and the two never meet    *)
(* in a mirror, which keeps the first it has under an id.                    *)
SessionLogs ==
  engine.log \union
  (IF session.stage = "none" THEN {}
   ELSE session.mirror \union UNION {held[o] : o \in present})
ReturningReusesOnlyTheForgotten ==
  [][commits'.mine # commits.mine /\ engine.shared =>
       <<engine.clock, engine.author>> \notin Ids(SessionLogs) \ forgotten]_doors
=============================================================================
