----------------------------- MODULE PeerProofs -----------------------------
(* What one peer keeps of what the others send it. Its waitlist, for any set   *)
(* of actions, any content, any number of resolvers and of attempts: nothing   *)
(* acquired is lost and nothing is handed on before its content. Its presence, *)
(* for any number of runs, frames, gestures, reports and points: whatever the  *)
(* flood loses, repeats or reorders, it draws what the author drew.            *)
EXTENDS Waitlist, MCPresence, SequenceTheorems, TLAPS

(* -------------------------------- The waitlist ---------------------------- *)

(* ------------------------- batches of actions ---------------------------- *)

LEMMA RangeOfNone == Range(<<>>) = {}
  BY DEF Range

LEMMA RangeOfOne == ASSUME NEW a PROVE Range(<<a>>) = {a}
  BY DEF Range

LEMMA RangeOfHead ==
  ASSUME NEW s \in Seq(Action), s # <<>>
  PROVE  Head(s) \in Range(s) /\ Head(s) \in Action
<1>1. 1 \in DOMAIN s /\ Head(s) = s[1] /\ s[1] \in Action
  OBVIOUS
<1> QED
  BY <1>1 DEF Range

LEMMA RangeOfTail ==
  ASSUME NEW s \in Seq(Action), s # <<>>
  PROVE  Tail(s) \in Seq(Action) /\ Range(Tail(s)) \subseteq Range(s)
<1>1. \A k \in DOMAIN Tail(s) : k + 1 \in DOMAIN s /\ Tail(s)[k] = s[k + 1]
  OBVIOUS
<1> QED
  BY <1>1 DEF Range

LEMMA RangeOfAppend ==
  ASSUME NEW s \in Seq(Action), NEW a \in Action
  PROVE  Append(s, a) \in Seq(Action) /\ Range(Append(s, a)) = Range(s) \cup {a}
<1> DEFINE t == Append(s, a)
<1>1. /\ t \in Seq(Action) /\ DOMAIN t = 1 .. Len(s) + 1 /\ t[Len(s) + 1] = a
      /\ DOMAIN s = 1 .. Len(s) /\ Len(s) \in Nat
      /\ \A k \in DOMAIN s : t[k] = s[k]
  OBVIOUS
<1>2. DOMAIN t = DOMAIN s \cup {Len(s) + 1}
  BY <1>1
<1> HIDE DEF t
<1>3. Range(t) = Range(s) \cup {a}
  BY <1>1, <1>2 DEF Range
<1> QED
  BY <1>1, <1>3 DEF t

\* claim (waitlist.rs:201): an action not parked yet parks once.
LEMMA AppendFreshIsInjective ==
  ASSUME NEW s \in Seq(Action), IsInjective(s), NEW a \in Action, a \notin Range(s)
  PROVE  IsInjective(Append(s, a))
<1> DEFINE t == Append(s, a)
<1>1. /\ DOMAIN t = 1 .. Len(s) + 1 /\ t[Len(s) + 1] = a
      /\ DOMAIN s = 1 .. Len(s) /\ Len(s) \in Nat
      /\ \A k \in DOMAIN s : t[k] = s[k] /\ t[k] \in Range(s)
  BY DEF Range
<1> HIDE DEF t
<1>2. \A j, k \in DOMAIN t : t[j] = t[k] => j = k
  BY <1>1 DEF IsInjective
<1> QED
  BY <1>2 DEF IsInjective, t

LEMMA RangeInActions ==
  ASSUME NEW s \in Seq(Action) PROVE Range(s) \subseteq Action
  BY DEF Range

(* -------------------------- inductive invariant -------------------------- *)

\* The locks' work: content is never both here and being waited for.
HeldIsNotParked == DOMAIN parked \cap content = {}

\* Whatever waits behind a need names it.
ParkedByNeed ==
    \A n \in DOMAIN parked : \A a \in Range(parked[n]) : ContentOf[a] = n

\* A resolver at work is after something.
BusyNeeds == \A i \in Fetch : Busy(i) => fetch[i].need \in Need

\* What this peer committed is mirrored before it can come back.
OwnAreLogged ==
    \A a \in Own :
        /\ \A n \in DOMAIN parked : a \in Range(parked[n]) => a \in log
        /\ \A t \in Task : a \in Range(work[t].left) => a \in log

HandedAreLogged == \A a \in Action : handed[a] > 0 => a \in log

\* A batch on its way to the engine already has its substrates.
ReleasedAreServed ==
    \A t \in Task : \A a \in Range(work[t].left) \ Bare :
        ContentOf[a] \in Substrates => ContentOf[a] \in content

IInv ==
    /\ TypeOK
    /\ HeldIsNotParked /\ ParkedByNeed /\ BusyNeeds /\ OwnAreLogged /\ HandedAreLogged
    /\ ReleasedAreServed
    /\ NothingParksUnattended /\ SurfacedOnce /\ NoFallbackForSubstrates

LEMMA InitIsGood == Init => IInv
<1> SUFFICES ASSUME Init PROVE IInv
  OBVIOUS
<1> USE WaitlistAssumption DEF Init
<1>1. TypeOK
  BY DEF TypeOK, Batch, Idle, Release, Unused, Progress, Fetch, IsInjective
<1>2. \A t \in Task : Range(work[t].left) = {}
  BY RangeOfNone DEF Idle, Release
<1> QED
  BY <1>1, <1>2 DEF IInv, HeldIsNotParked, ParkedByNeed, BusyNeeds, Busy, AtWork, Unused,
     OwnAreLogged, HandedAreLogged, ReleasedAreServed, NothingParksUnattended, SurfacedOnce, NoFallbackForSubstrates

\* A step that hands tasks nothing they did not have, and takes nothing from
\* the log or the content, leaves batches served and this peer's own logged.
LEMMA BatchFields ==
  ASSUME TypeOK, NEW t \in Task
  PROVE  /\ work[t].left \in Seq(Action)
         /\ work[t].asset \in Need \cup {NoNeed}
  BY DEF TypeOK, Batch

LEMMA ReleaseFields ==
  ASSUME NEW as \in Seq(Action)
  PROVE  /\ Release(as) \in Batch
         /\ Release(as).left = as /\ Release(as).asset = NoNeed
  BY DEF Release, Batch

LEMMA BehindType ==
  ASSUME IInv, NEW n \in Need
  PROVE  /\ Behind(n) \in Seq(Action)
         /\ \A a \in Range(Behind(n)) :
              ContentOf[a] = n /\ a \in Action /\ (a \in Own => a \in log)
<1>1. Behind(n) \in Seq(Action)
  BY DEF IInv, TypeOK, Behind
<1>2. Range(Behind(n)) \subseteq Action
  BY <1>1, RangeInActions
<1>3. CASE n \in DOMAIN parked
  BY <1>1, <1>2, <1>3 DEF IInv, ParkedByNeed, OwnAreLogged, Behind
<1>4. CASE n \notin DOMAIN parked
  BY <1>1, <1>4, RangeOfNone DEF Behind
<1> QED
  BY <1>3, <1>4

\* waitlist.rs:190: what parking leaves behind each need.
LEMMA ParkedFields ==
  ASSUME IInv, NEW a \in Action, ContentOf[a] \in Need
  PROVE  /\ DOMAIN Parked(a) = DOMAIN parked \cup {ContentOf[a]}
         /\ \A n \in DOMAIN Parked(a) :
              /\ Parked(a)[n] \in Seq(Action) /\ IsInjective(Parked(a)[n])
              /\ \A b \in Range(Parked(a)[n]) :
                   \/ b = a /\ n = ContentOf[a]
                   \/ n \in DOMAIN parked /\ b \in Range(parked[n])
<1> DEFINE c == ContentOf[a]
<1>1. DOMAIN Parked(a) = DOMAIN parked \cup {c}
  BY DEF Parked
<1>2. ASSUME NEW n \in DOMAIN parked
      PROVE  parked[n] \in Seq(Action) /\ IsInjective(parked[n])
  BY DEF IInv, TypeOK
<1>3. <<a>> \in Seq(Action) /\ IsInjective(<<a>>) /\ Range(<<a>>) = {a}
  BY RangeOfOne DEF IsInjective
<1>4. ASSUME NEW n \in DOMAIN parked \cup {c}, n # c
      PROVE  Parked(a)[n] = parked[n] /\ n \in DOMAIN parked
  BY <1>4 DEF Parked
<1>5. CASE c \notin DOMAIN parked
  <2>1. Parked(a)[c] = <<a>>
    BY <1>5 DEF Parked
  <2> QED
    BY <1>1, <1>2, <1>3, <1>4, <2>1
<1>6. CASE c \in DOMAIN parked /\ a \in Range(parked[c])
  <2>1. Parked(a)[c] = parked[c]
    BY <1>6 DEF Parked
  <2> QED
    BY <1>1, <1>2, <1>4, <1>6, <2>1
<1>7. CASE c \in DOMAIN parked /\ a \notin Range(parked[c])
  <2>1. Parked(a)[c] = Append(parked[c], a)
    BY <1>7 DEF Parked
  <2>2. /\ Append(parked[c], a) \in Seq(Action) /\ IsInjective(Append(parked[c], a))
        /\ Range(Append(parked[c], a)) = Range(parked[c]) \cup {a}
    BY <1>2, <1>7, RangeOfAppend, AppendFreshIsInjective
  <2> QED
    BY <1>1, <1>2, <1>4, <1>7, <2>1, <2>2
<1> QED
  BY <1>5, <1>6, <1>7

\* Starting a resolver gives the need one and takes none away.
LEMMA SpawnFields ==
  ASSUME TypeOK, NEW i \in Fetch, NEW n \in Need, Spawn(i, n)
  PROVE  /\ fetch' \in [Fetch -> Progress]
         /\ \A m \in Need : m = n \/ Fetched(m) => Fetched(m)'
         /\ BusyNeeds => BusyNeeds'
<1>1. BrushAttempts \in Nat \ {0}
  BY WaitlistAssumption
<1>2. fetch \in [Fetch -> Progress]
  BY DEF TypeOK
<1> DEFINE r == [need |-> n, round |-> 0,
                 stage |-> IF n \in Resolvable THEN "asking" ELSE "pausing"]
<1>3. /\ r \in [need : {n}, round : {0}, stage : {"asking", "pausing"}]
      /\ fetch' = [fetch EXCEPT ![i] = r]
  BY DEF Spawn
<1> HIDE DEF r
<1>4. fetch'[i] = r /\ \A j \in Fetch : j # i => fetch'[j] = fetch[j]
  BY <1>2, <1>3
<1>5. fetch[i].stage = "unused"
  BY DEF Spawn, Unused
<1>6. Fetched(n)'
  BY <1>3, <1>4 DEF Fetched, Busy, AtWork
<1>7. ASSUME NEW m \in Need, Fetched(m) PROVE Fetched(m)'
  BY <1>4, <1>5, <1>7 DEF Fetched, Busy, AtWork
<1>8. BusyNeeds => BusyNeeds'
  BY <1>3, <1>4 DEF BusyNeeds, Busy, AtWork
<1> QED
  BY <1>1, <1>2, <1>3, <1>4, <1>6, <1>7, <1>8 DEF Progress, AtWork

LEMMA AdmitKeeps ==
  ASSUME IInv, NEW d \in Door, NEW a \in Action, NEW hashed \in BOOLEAN, Admit(d, a, hashed)
  PROVE  IInv'
<1> USE WaitlistAssumption
<1>d. d \in Task /\ work \in [Task -> Batch]
  BY DEF Task, IInv, TypeOK
<1>1. CASE ~Waits(a, hashed)
  <2>1. /\ work' = [work EXCEPT ![d] = Release(<<a>>)]
        /\ UNCHANGED <<phase, log, content, parked, fetch, handed, installed>>
    BY <1>1 DEF Admit
  <2>2. <<a>> \in Seq(Action)
    OBVIOUS
  <2>3. /\ work' \in [Task -> Batch] /\ Range(work'[d].left) = {a}
        /\ \A t \in Task : t # d => work'[t] = work[t]
    BY <1>d, <2>1, <2>2, ReleaseFields, RangeOfOne
  <2>4. TypeOK'
    BY <2>1, <2>3 DEF IInv, TypeOK
  <2>5. OwnAreLogged'
    BY <2>1, <2>3 DEF IInv, OwnAreLogged, Admit
  <2>6. a \notin Bare /\ ContentOf[a] \in Substrates => ContentOf[a] \in content
    BY <1>1 DEF Admit, Waits, Substrates
  <2>7. ReleasedAreServed'
    BY <2>1, <2>3, <2>6 DEF IInv, ReleasedAreServed
  <2> QED
    BY <2>1, <2>4, <2>5, <2>7
       DEF IInv, HeldIsNotParked, ParkedByNeed, BusyNeeds, HandedAreLogged,
           NothingParksUnattended, SurfacedOnce, NoFallbackForSubstrates, Fetched, Busy, AtWork
<1>2. CASE Waits(a, hashed)
  <2> DEFINE c == ContentOf[a]
  <2>1. /\ parked' = Parked(a)
        /\ UNCHANGED <<phase, log, content, work, handed, installed>>
    BY <1>2 DEF Admit
  <2>2. c \in Need /\ c \notin content
    BY <1>2 DEF Waits
  <2>3. /\ DOMAIN parked' = DOMAIN parked \cup {c}
        /\ \A n \in DOMAIN parked' :
             /\ parked'[n] \in Seq(Action) /\ IsInjective(parked'[n])
             /\ \A b \in Range(parked'[n]) :
                  \/ b = a /\ n = c
                  \/ n \in DOMAIN parked /\ b \in Range(parked[n])
    BY <2>1, <2>2, ParkedFields
  <2>4. /\ fetch' \in [Fetch -> Progress]
        /\ BusyNeeds'
        /\ \A m \in Need : Fetched(m) => Fetched(m)'
        /\ c \notin DOMAIN parked => Fetched(c)'
    <3>1. CASE c \in DOMAIN parked
      BY <1>2, <3>1 DEF Admit, Fetched, Busy, AtWork, BusyNeeds, IInv, TypeOK
    <3>2. CASE c \notin DOMAIN parked
      <4>1. PICK i \in Fetch : Spawn(i, c)
        BY <1>2, <3>2 DEF Admit
      <4> QED
        BY <2>2, <3>2, <4>1, SpawnFields DEF IInv
    <3> QED
      BY <3>1, <3>2
  <2>5. TypeOK'
    BY <2>1, <2>2, <2>3, <2>4 DEF IInv, TypeOK
  <2>6. HeldIsNotParked' /\ ParkedByNeed'
    <3>1. HeldIsNotParked'
      BY <2>1, <2>2, <2>3 DEF IInv, HeldIsNotParked
    <3>2. ParkedByNeed'
      BY <2>3 DEF IInv, ParkedByNeed
    <3> QED
      BY <3>1, <3>2
  <2>7. OwnAreLogged'
    BY <2>1, <2>3 DEF IInv, OwnAreLogged, Admit
  <2>8. NothingParksUnattended'
    BY <2>1, <2>2, <2>3, <2>4 DEF IInv, TypeOK, NothingParksUnattended
  <2> QED
    BY <2>1, <2>4, <2>5, <2>6, <2>7, <2>8
       DEF IInv, HandedAreLogged, ReleasedAreServed, SurfacedOnce, NoFallbackForSubstrates
<1> QED
  BY <1>1, <1>2
LEMMA AdmitDetachedKeeps ==
  ASSUME IInv, NEW n \in Need, AdmitDetached(n)
  PROVE  IInv'
<1> USE WaitlistAssumption
<1>1. PICK i \in Fetch : Spawn(i, n)
  BY DEF AdmitDetached
<1>2. /\ n \notin content /\ n \notin DOMAIN parked
      /\ parked' = [m \in DOMAIN parked \cup {n} |-> IF m = n THEN <<>> ELSE parked[m]]
      /\ UNCHANGED <<phase, log, content, work, handed, installed>>
  BY DEF AdmitDetached
<1>3. /\ DOMAIN parked' = DOMAIN parked \cup {n} /\ Range(parked'[n]) = {}
      /\ parked'[n] \in Seq(Action) /\ IsInjective(parked'[n])
      /\ \A m \in DOMAIN parked : parked'[m] = parked[m]
  BY <1>2, RangeOfNone DEF IsInjective
<1>4. /\ fetch' \in [Fetch -> Progress]
      /\ BusyNeeds'
      /\ \A m \in Need : m = n \/ Fetched(m) => Fetched(m)'
  BY <1>1, SpawnFields DEF IInv
<1>5. TypeOK'
  BY <1>2, <1>3, <1>4 DEF IInv, TypeOK
<1>6. HeldIsNotParked'
  BY <1>2, <1>3 DEF IInv, HeldIsNotParked
<1>7. ParkedByNeed'
  BY <1>3 DEF IInv, ParkedByNeed
<1>8. OwnAreLogged'
  BY <1>2, <1>3 DEF IInv, OwnAreLogged
<1>9. NothingParksUnattended'
  BY <1>2, <1>3, <1>4 DEF IInv, TypeOK, NothingParksUnattended
<1> QED
  BY <1>2, <1>4, <1>5, <1>6, <1>7, <1>8, <1>9
     DEF IInv, HandedAreLogged, ReleasedAreServed, SurfacedOnce, NoFallbackForSubstrates

\* waitlist.rs take_parked: detaching a need leaves the others as they were.
LEMMA WithoutFields ==
  ASSUME TypeOK, NEW n
  PROVE  /\ DOMAIN Without(n) = DOMAIN parked \ {n}
         /\ \A m \in DOMAIN parked : m # n =>
              /\ Without(n)[m] = parked[m]
              /\ parked[m] \in Seq(Action) /\ IsInjective(parked[m])
  BY DEF Without, TypeOK

\* A need detached, its batch handed to one task, its content recorded or not:
\* the part every kind of delivery shares.
LEMMA DeliveryKeeps ==
  ASSUME IInv, NEW n \in Need, NEW t \in Task,
         log' = log /\ handed' = handed /\ phase' = phase,
         content' \in {content, content \cup {n}},
         n \in Substrates => n \in content',
         parked' = Without(n),
         work' \in [Task -> Batch],
         work'[t].left = Behind(n),
         \A u \in Task : u # t => work'[u] = work[u]
  PROVE  /\ content' \subseteq Need /\ DOMAIN parked' = DOMAIN parked \ {n}
         /\ \A m \in DOMAIN parked' : parked'[m] \in Seq(Action) /\ IsInjective(parked'[m])
         /\ HeldIsNotParked' /\ ParkedByNeed' /\ OwnAreLogged' /\ HandedAreLogged'
         /\ ReleasedAreServed' /\ SurfacedOnce' /\ NoFallbackForSubstrates'
<1>1. content \subseteq content' /\ content' \subseteq content \cup {n}
  OBVIOUS
<1>2. /\ DOMAIN parked' = DOMAIN parked \ {n}
      /\ \A m \in DOMAIN parked' :
           /\ m \in DOMAIN parked /\ parked'[m] = parked[m]
           /\ parked'[m] \in Seq(Action) /\ IsInjective(parked'[m])
  BY WithoutFields DEF IInv
<1>3. /\ content' \subseteq Need
      /\ HeldIsNotParked'
  BY <1>1, <1>2 DEF IInv, TypeOK, HeldIsNotParked
<1>4. ParkedByNeed'
  BY <1>2 DEF IInv, ParkedByNeed
<1>5. OwnAreLogged'
  BY <1>2, BehindType DEF IInv, OwnAreLogged
<1>6. ReleasedAreServed'
  <2>1. ASSUME NEW u \in Task, NEW a \in Range(work'[u].left) \ Bare, ContentOf[a] \in Substrates
        PROVE  ContentOf[a] \in content'
    <3>1. CASE u = t
      BY <2>1, <3>1, BehindType
    <3>2. CASE u # t
      BY <1>1, <2>1, <3>2 DEF IInv, ReleasedAreServed
    <3> QED
      BY <3>1, <3>2
  <2> QED
    BY <2>1 DEF ReleasedAreServed, Substrates
<1>7. HandedAreLogged' /\ SurfacedOnce'
  BY DEF IInv, HandedAreLogged, SurfacedOnce
<1>8. NoFallbackForSubstrates'
  BY <1>1 DEF IInv, NoFallbackForSubstrates, Substrates
<1> QED
  BY <1>2, <1>3, <1>4, <1>5, <1>6, <1>7, <1>8

\* A resolver that ends stops attending its own need and no other.
LEMMA EndedFields ==
  ASSUME IInv, NEW i \in Fetch, Ended(i)
  PROVE  /\ fetch' \in [Fetch -> Progress]
         /\ BusyNeeds'
         /\ \A m \in Need : m # fetch[i].need /\ Fetched(m) => Fetched(m)'
<1> DEFINE r == [Unused EXCEPT !.stage = "done"]
<1>1. /\ r \in [need : Need \cup {NoNeed}, round : 0 .. BrushAttempts, stage : {"done"}]
      /\ fetch' = [fetch EXCEPT ![i] = r]
  BY WaitlistAssumption DEF Ended, Unused
<1> HIDE DEF r
<1>2. fetch \in [Fetch -> Progress]
  BY DEF IInv, TypeOK
<1>3. fetch'[i] = r /\ \A j \in Fetch : j # i => fetch'[j] = fetch[j]
  BY <1>1, <1>2
<1>4. BusyNeeds'
  BY <1>1, <1>3 DEF IInv, BusyNeeds, Busy, AtWork
<1>5. \A m \in Need : m # fetch[i].need /\ Fetched(m) => Fetched(m)'
  BY <1>3 DEF Fetched, Busy, AtWork
<1> QED
  BY <1>1, <1>2, <1>4, <1>5 DEF Progress

LEMMA ImportKeeps ==
  ASSUME IInv, NEW n \in Need, Import(n)
  PROVE  IInv'
<1> USE WaitlistAssumption
<1>1. /\ content' = content \cup {n} /\ installed' = installed \cup {n}
      /\ parked' = Without(n) /\ work' = [work EXCEPT ![Ui] = Release(Behind(n))]
      /\ UNCHANGED <<phase, log, fetch, handed>>
  BY DEF Import, Imported
<1>2. Ui \in Task /\ work \in [Task -> Batch]
  BY DEF Task, IInv, TypeOK
<1>3. /\ work' \in [Task -> Batch] /\ work'[Ui].left = Behind(n)
      /\ \A u \in Task : u # Ui => work'[u] = work[u]
  BY <1>1, <1>2, BehindType, ReleaseFields
<1>4. /\ content' \subseteq Need /\ DOMAIN parked' = DOMAIN parked \ {n}
      /\ \A m \in DOMAIN parked' : parked'[m] \in Seq(Action) /\ IsInjective(parked'[m])
      /\ HeldIsNotParked' /\ ParkedByNeed' /\ OwnAreLogged' /\ HandedAreLogged'
      /\ ReleasedAreServed' /\ SurfacedOnce' /\ NoFallbackForSubstrates'
  BY <1>1, <1>2, <1>3, DeliveryKeeps
<1>5. TypeOK'
  BY <1>1, <1>3, <1>4 DEF IInv, TypeOK
<1>6. NothingParksUnattended' /\ BusyNeeds'
  BY <1>1, <1>4 DEF IInv, NothingParksUnattended, Fetched, Busy, AtWork, BusyNeeds
<1> QED
  BY <1>4, <1>5, <1>6 DEF IInv

LEMMA PublishKeeps ==
  ASSUME IInv, NEW a \in Own, Publish(a)
  PROVE  IInv'
<1> USE WaitlistAssumption
<1>1. /\ log' = log \cup {a} /\ a \in Action
      /\ ContentOf[a] = NoNeed \/ ContentOf[a] \in content
      /\ UNCHANGED <<phase, content, parked, fetch, work, handed, installed>>
  BY DEF Publish
<1>2. TypeOK'
  BY <1>1 DEF IInv, TypeOK
<1>3. NoFallbackForSubstrates'
  BY <1>1 DEF IInv, NoFallbackForSubstrates, Substrates
<1> QED
  BY <1>1, <1>2, <1>3
     DEF IInv, HeldIsNotParked, ParkedByNeed, BusyNeeds, OwnAreLogged, HandedAreLogged,
         ReleasedAreServed, NothingParksUnattended, SurfacedOnce, Fetched, Busy, AtWork

LEMMA SendAssetKeeps ==
  ASSUME IInv, NEW t \in Task, SendAsset(t)
  PROVE  IInv'
<1>1. /\ work[t].asset \in Need /\ work[t].left \in Seq(Action) /\ work \in [Task -> Batch]
      /\ installed' \in {installed, installed \cup {work[t].asset}}
      /\ work' = [work EXCEPT ![t].asset = NoNeed]
      /\ UNCHANGED <<phase, log, content, parked, fetch, handed>>
  BY BatchFields DEF SendAsset, IInv, TypeOK
<1>2. \A u \in Task : work'[u].left = work[u].left
  BY <1>1 DEF Batch
<1>3. work' \in [Task -> Batch]
  BY <1>1 DEF Batch
<1>4. TypeOK'
  BY <1>1, <1>3 DEF IInv, TypeOK
<1> QED
  BY <1>1, <1>2, <1>4
     DEF IInv, HeldIsNotParked, ParkedByNeed, BusyNeeds, OwnAreLogged, HandedAreLogged,
         ReleasedAreServed, NothingParksUnattended, SurfacedOnce, NoFallbackForSubstrates,
         Fetched, Busy, AtWork

LEMMA ReleaseNextKeeps ==
  ASSUME IInv, NEW t \in Task, ReleaseNext(t)
  PROVE  IInv'
<1> DEFINE a == Head(work[t].left)
<1>1. /\ work[t].left \in Seq(Action) /\ work[t].left # <<>>
      /\ work \in [Task -> Batch] /\ handed \in [Action -> Nat]
      /\ log' = log \cup {a}
      /\ handed' = IF Fresh(a) /\ phase = "live" THEN [handed EXCEPT ![a] = @ + 1] ELSE handed
      /\ work' = [work EXCEPT ![t].left = Tail(@)]
      /\ UNCHANGED <<phase, content, parked, fetch, installed>>
  BY BatchFields DEF ReleaseNext, IInv, TypeOK
<1>2. a \in Range(work[t].left) /\ a \in Action
  BY <1>1, RangeOfHead
<1>3. Tail(work[t].left) \in Seq(Action) /\ Range(Tail(work[t].left)) \subseteq Range(work[t].left)
  BY <1>1, RangeOfTail
<1>4. /\ work' \in [Task -> Batch]
      /\ \A u \in Task : Range(work'[u].left) \subseteq Range(work[u].left)
  BY <1>1, <1>3 DEF Batch
<1>5. /\ handed' \in [Action -> Nat]
      /\ \A b \in Action : b # a => handed'[b] = handed[b]
      /\ handed'[a] = handed[a] \/ (a \notin log /\ handed'[a] = handed[a] + 1)
  BY <1>1, <1>2 DEF Fresh
<1>6. TypeOK'
  BY <1>1, <1>2, <1>4, <1>5 DEF IInv, TypeOK
<1>7. OwnAreLogged'
  BY <1>1, <1>4 DEF IInv, OwnAreLogged
<1>8. HandedAreLogged'
  BY <1>1, <1>5 DEF IInv, HandedAreLogged
<1>9. ReleasedAreServed'
  BY <1>1, <1>4 DEF IInv, ReleasedAreServed, Substrates
<1>10. SurfacedOnce'
  <2>1. a \notin log => handed[a] = 0
    BY <1>1, <1>2 DEF IInv, HandedAreLogged
  <2>2. a \in Own => a \in log
    BY <1>2 DEF IInv, OwnAreLogged
  <2>3. \A b \in Action : handed[b] \in Nat /\ handed'[b] \in Nat
    BY <1>1, <1>5
  <2> QED
    BY <1>2, <1>5, <2>1, <2>2, <2>3 DEF IInv, SurfacedOnce
<1>11. NoFallbackForSubstrates'
  BY <1>1, <1>2 DEF IInv, NoFallbackForSubstrates, ReleasedAreServed
<1> QED
  BY <1>1, <1>6, <1>7, <1>8, <1>9, <1>10, <1>11
     DEF IInv, HeldIsNotParked, ParkedByNeed, BusyNeeds, NothingParksUnattended, Fetched, Busy, AtWork

LEMMA GraceOverKeeps ==
  ASSUME IInv, NEW i \in Fetch, GraceOver(i)
  PROVE  IInv'
<1> USE WaitlistAssumption
<1>1. /\ fetch[i].stage = "asking"
      /\ UNCHANGED <<phase, log, content, parked, work, handed, installed>>
  BY DEF GraceOver
<1>2. fetch \in [Fetch -> Progress]
  BY DEF IInv, TypeOK
<1>3. CASE fetch[i].need \in content
  <2>1. Ended(i) /\ fetch[i].need \notin DOMAIN parked
    BY <1>3 DEF GraceOver, IInv, HeldIsNotParked
  <2>2. NothingParksUnattended' /\ BusyNeeds' /\ TypeOK'
    BY <1>1, <2>1, EndedFields DEF IInv, TypeOK, NothingParksUnattended
  <2> QED
    BY <1>1, <2>2
       DEF IInv, HeldIsNotParked, ParkedByNeed, OwnAreLogged, HandedAreLogged,
           ReleasedAreServed, SurfacedOnce, NoFallbackForSubstrates
<1>4. CASE fetch[i].need \notin content
  <2>1. /\ fetch' = [fetch EXCEPT ![i].stage = "pausing"]
        /\ fetch' \in [Fetch -> Progress]
    BY <1>2, <1>4 DEF GraceOver, Progress, AtWork
  <2>2. \A j \in Fetch : Busy(j) <=> Busy(j)'
    BY <1>1, <1>2, <2>1 DEF Busy, AtWork
  <2>3. \A j \in Fetch : fetch'[j].need = fetch[j].need
    BY <1>2, <2>1
  <2>4. NothingParksUnattended' /\ BusyNeeds' /\ TypeOK'
    BY <1>1, <2>1, <2>2, <2>3 DEF IInv, TypeOK, NothingParksUnattended, BusyNeeds, Fetched
  <2> QED
    BY <1>1, <2>4
       DEF IInv, HeldIsNotParked, ParkedByNeed, OwnAreLogged, HandedAreLogged,
           ReleasedAreServed, SurfacedOnce, NoFallbackForSubstrates
<1> QED
  BY <1>3, <1>4

LEMMA NextRoundKeeps ==
  ASSUME IInv, NEW i \in Fetch, NextRound(i)
  PROVE  IInv'
<1> USE WaitlistAssumption
<1>1. /\ fetch[i].stage = "pausing"
      /\ UNCHANGED <<phase, log, content, parked, work, handed, installed>>
  BY DEF NextRound
<1>2. NothingParksUnattended' /\ BusyNeeds' /\ TypeOK'
  <2>1. CASE phase = "live"
    <3>1. fetch' = [fetch EXCEPT ![i].stage = "fetching"]
      BY <2>1 DEF NextRound, Wanted
    <3>2. /\ fetch' \in [Fetch -> Progress]
          /\ \A j \in Fetch : fetch'[j].need = fetch[j].need /\ (Busy(j) <=> Busy(j)')
      BY <1>1, <3>1 DEF IInv, TypeOK, Progress, AtWork, Busy
    <3> QED
      BY <1>1, <3>2 DEF IInv, TypeOK, NothingParksUnattended, BusyNeeds, Fetched
  <2>2. CASE phase # "live"
    BY <1>1, <2>2, EndedFields DEF NextRound, Wanted, IInv, TypeOK, NothingParksUnattended
  <2> QED
    BY <2>1, <2>2
<1> QED
  BY <1>1, <1>2
     DEF IInv, HeldIsNotParked, ParkedByNeed, OwnAreLogged, HandedAreLogged,
         ReleasedAreServed, SurfacedOnce, NoFallbackForSubstrates

LEMMA FetchSucceedsKeeps ==
  ASSUME IInv, NEW i \in Fetch, FetchSucceeds(i)
  PROVE  IInv'
<1> USE WaitlistAssumption
<1> DEFINE n == fetch[i].need
<1>1. n \in Need
  BY DEF FetchSucceeds, IInv, BusyNeeds, Busy, AtWork
<1>2. /\ content' = content \cup {n} /\ parked' = Without(n) /\ Ended(i)
      /\ work' = [work EXCEPT ![Resolver(i)] = [Release(Behind(n)) EXCEPT !.asset = n]]
      /\ UNCHANGED <<phase, log, handed, installed>>
  BY DEF FetchSucceeds, Resolved
<1>3. Resolver(i) \in Task /\ work \in [Task -> Batch]
  BY DEF Task, IInv, TypeOK
<1>4. /\ [Release(Behind(n)) EXCEPT !.asset = n] \in Batch
      /\ [Release(Behind(n)) EXCEPT !.asset = n].left = Behind(n)
  BY <1>1, BehindType DEF Release, Batch
<1>5. /\ work' \in [Task -> Batch] /\ work'[Resolver(i)].left = Behind(n)
      /\ \A u \in Task : u # Resolver(i) => work'[u] = work[u]
  BY <1>2, <1>3, <1>4
<1>6. /\ content' \subseteq Need /\ DOMAIN parked' = DOMAIN parked \ {n}
      /\ \A m \in DOMAIN parked' : parked'[m] \in Seq(Action) /\ IsInjective(parked'[m])
      /\ HeldIsNotParked' /\ ParkedByNeed' /\ OwnAreLogged' /\ HandedAreLogged'
      /\ ReleasedAreServed' /\ SurfacedOnce' /\ NoFallbackForSubstrates'
  BY <1>1, <1>2, <1>3, <1>5, DeliveryKeeps
<1>7. TypeOK' /\ BusyNeeds'
  BY <1>2, <1>5, <1>6, EndedFields DEF IInv, TypeOK
<1>8. NothingParksUnattended'
  BY <1>2, <1>6, EndedFields DEF IInv, TypeOK, NothingParksUnattended
<1> QED
  BY <1>6, <1>7, <1>8 DEF IInv

LEMMA FetchFailsKeeps ==
  ASSUME IInv, NEW i \in Fetch, FetchFails(i)
  PROVE  IInv'
<1> USE WaitlistAssumption
<1> DEFINE n == fetch[i].need
           round == IF fetch[i].round < BrushAttempts THEN fetch[i].round + 1 ELSE BrushAttempts
<1>1. n \in Need /\ fetch[i].stage = "fetching"
  BY DEF FetchFails, IInv, BusyNeeds, Busy, AtWork
<1>2. fetch \in [Fetch -> Progress]
  BY DEF IInv, TypeOK
<1>3. round \in 0 .. BrushAttempts
  BY <1>2 DEF Progress
<1>4. CASE GivesUp(n, round)
  <2>1. /\ parked' = Without(n) /\ Ended(i)
        /\ work' = [work EXCEPT ![Resolver(i)] = Release(Behind(n))]
        /\ UNCHANGED <<phase, log, content, handed, installed>>
    BY <1>4 DEF FetchFails, Abandoned
  <2>2. n \notin Substrates
    BY <1>4 DEF GivesUp, Substrates
  <2>3. Resolver(i) \in Task /\ work \in [Task -> Batch]
    BY DEF Task, IInv, TypeOK
  <2>4. /\ work' \in [Task -> Batch] /\ work'[Resolver(i)].left = Behind(n)
        /\ \A u \in Task : u # Resolver(i) => work'[u] = work[u]
    BY <1>1, <2>1, <2>3, BehindType, ReleaseFields
  <2>5. /\ content' \subseteq Need /\ DOMAIN parked' = DOMAIN parked \ {n}
        /\ \A m \in DOMAIN parked' : parked'[m] \in Seq(Action) /\ IsInjective(parked'[m])
        /\ HeldIsNotParked' /\ ParkedByNeed' /\ OwnAreLogged' /\ HandedAreLogged'
        /\ ReleasedAreServed' /\ SurfacedOnce' /\ NoFallbackForSubstrates'
    BY <1>1, <2>1, <2>2, <2>3, <2>4, DeliveryKeeps
  <2>6. TypeOK' /\ BusyNeeds'
    BY <2>1, <2>4, <2>5, EndedFields DEF IInv, TypeOK
  <2>7. NothingParksUnattended'
    BY <2>1, <2>5, EndedFields DEF IInv, TypeOK, NothingParksUnattended
  <2> QED
    BY <2>5, <2>6, <2>7 DEF IInv
<1>5. CASE ~GivesUp(n, round)
  <2>1. /\ fetch' = [fetch EXCEPT ![i].round = round, ![i].stage = "pausing"]
        /\ UNCHANGED <<phase, log, content, parked, work, handed, installed>>
    BY <1>5 DEF FetchFails
  <2> HIDE DEF round
  <2>2. /\ fetch' \in [Fetch -> Progress]
        /\ \A j \in Fetch : fetch'[j].need = fetch[j].need /\ (Busy(j) <=> Busy(j)')
    BY <1>1, <1>2, <1>3, <2>1 DEF Progress, AtWork, Busy
  <2>3. NothingParksUnattended' /\ BusyNeeds' /\ TypeOK'
    BY <2>1, <2>2 DEF IInv, TypeOK, NothingParksUnattended, BusyNeeds, Fetched, Busy, AtWork
  <2> QED
    BY <2>1, <2>3
       DEF IInv, HeldIsNotParked, ParkedByNeed, OwnAreLogged, HandedAreLogged,
           ReleasedAreServed, SurfacedOnce, NoFallbackForSubstrates
<1> QED
  BY <1>4, <1>5

\* A resolver that is cancelled leaves its need unattended: the engine is gone.
LEMMA FetchCancelledKeeps ==
  ASSUME IInv, NEW i \in Fetch, FetchCancelled(i)
  PROVE  IInv'
<1>1. /\ phase # "live" /\ Ended(i)
      /\ UNCHANGED <<phase, log, content, parked, work, handed, installed>>
  BY DEF FetchCancelled, Wanted
<1>2. NothingParksUnattended' /\ BusyNeeds' /\ TypeOK'
  BY <1>1, EndedFields DEF IInv, TypeOK, NothingParksUnattended
<1> QED
  BY <1>1, <1>2
     DEF IInv, HeldIsNotParked, ParkedByNeed, OwnAreLogged, HandedAreLogged,
         ReleasedAreServed, SurfacedOnce, NoFallbackForSubstrates

LEMMA QuietStepKeeps ==
  ASSUME IInv, Deafen \/ UNCHANGED vars
  PROVE  IInv'
<1>1. /\ UNCHANGED <<log, content, parked, fetch, work, handed, installed>>
      /\ phase' \in {phase, "unheard"}
  BY DEF Deafen, vars
<1>2. TypeOK'
  BY <1>1 DEF IInv, TypeOK
<1> QED
  BY <1>1, <1>2
     DEF IInv, HeldIsNotParked, ParkedByNeed, BusyNeeds, OwnAreLogged, HandedAreLogged,
         ReleasedAreServed, NothingParksUnattended, SurfacedOnce, NoFallbackForSubstrates,
         Fetched, Busy, AtWork

LEMMA StepKeeps == IInv /\ [Next]_vars => IInv'
<1> SUFFICES ASSUME IInv, [Next]_vars PROVE IInv'
  OBVIOUS
<1>1. ASSUME NEW d \in Door, NEW a \in Action, NEW hashed \in BOOLEAN, Admit(d, a, hashed)
      PROVE  IInv'
  BY <1>1, AdmitKeeps
<1>2. ASSUME NEW n \in Need, AdmitDetached(n) \/ Import(n) PROVE IInv'
  BY <1>2, AdmitDetachedKeeps, ImportKeeps
<1>3. ASSUME NEW a \in Own, Publish(a) PROVE IInv'
  BY <1>3, PublishKeeps
<1>4. ASSUME NEW t \in Task, Hand(t) PROVE IInv'
  BY <1>4, SendAssetKeeps, ReleaseNextKeeps DEF Hand
<1>5. ASSUME NEW i \in Fetch, Resolve(i) PROVE IInv'
  BY <1>5, GraceOverKeeps, NextRoundKeeps, FetchSucceedsKeeps, FetchFailsKeeps, FetchCancelledKeeps
     DEF Resolve
<1>6. CASE Deafen \/ UNCHANGED vars
  BY <1>6, QuietStepKeeps
<1> QED
  BY <1>1, <1>2, <1>3, <1>4, <1>5, <1>6 DEF Next

\* Everything below holds in every state of every behaviour of one peer's
\* waitlist (waitlist.rs, content.rs), whatever the peers and the painter do.
THEOREM WaitlistInvariance == Safety => []IInv
<1>1. Init => IInv
  BY InitIsGood
<1>2. IInv /\ [Next]_vars => IInv'
  BY StepKeeps
<1> QED
  BY <1>1, <1>2, PTL DEF Safety

\* The state keeps its shape; in particular an action parks behind a need at most
\* once, however often the flood redelivers it (waitlist.rs:197).
THEOREM TypeCorrect == Safety => []TypeOK
<1>1. IInv => TypeOK
  BY DEF IInv
<1> QED
  BY <1>1, WaitlistInvariance, PTL

\* While the engine listens, nothing parks behind a resolver that has finished
\* (waitlist.rs:25).
THEOREM ParkedAreAttended == Safety => []NothingParksUnattended
<1>1. IInv => NothingParksUnattended
  BY DEF IInv
<1> QED
  BY <1>1, WaitlistInvariance, PTL

\* The engine is handed each remote action at most once and its own never
\* (waitlist.rs release, published).
THEOREM EachSurfacesOnce == Safety => []SurfacedOnce
<1>1. IInv => SurfacedOnce
  BY DEF IInv
<1> QED
  BY <1>1, WaitlistInvariance, PTL

\* No action that came with its hash enters the log before the substrate it names
\* is held: there is no way round the wait (content.rs:11).
THEOREM SubstratesHaveNoFallback == Safety => []NoFallbackForSubstrates
<1>1. IInv => NoFallbackForSubstrates
  BY DEF IInv
<1> QED
  BY <1>1, WaitlistInvariance, PTL


(* --------------------------------- Presence ------------------------------- *)

(* Two paths have the same first n points.                                    *)
Agree(p, q, n) == n <= Len(p) /\ n <= Len(q) /\ \A i \in 1..n : p[i] = q[i]

(* A stroke as it was drawn at some frame, or as it is drawn now, which the   *)
(* next frame would say.                                                      *)
Now == [boot |-> run, seq |-> seq + 1, id |-> ordinal, path |-> hand.path]
Drawn == drew \cup (IF hand.path = <<>> THEN {} ELSE {Now})

Stroke(f) == f.gesture.id # P!None /\ ~f.gesture.region

(* Nothing is ahead of the author.                                            *)
PathBehind ==
    /\ \A f \in sent : f.boot <= run
                       /\ (f.boot = run => f.seq <= seq /\ f.gesture.id <= ordinal)
    /\ \A d \in drew : d.boot <= run /\ (d.boot = run => d.seq <= seq /\ d.id <= ordinal)
    /\ tx.id <= ordinal
    /\ peer.boot <= run /\ (peer.boot = run => peer.seq <= seq /\ peer.rx.id <= ordinal)

(* A frame that shows a stroke says of it all from its first point on that it *)
(* does not take as told, and a head takes none as told.                      *)
FramesShowStrokes ==
    \A f \in sent : Stroke(f) =>
        /\ f.gesture.head => f.gesture.from = 0
        /\ \E d \in drew : /\ d.boot = f.boot /\ d.seq = f.seq /\ d.id = f.gesture.id
                           /\ f.gesture.from <= Len(d.path)
                           /\ f.gesture.points = SubSeq(d.path, f.gesture.from + 1, Len(d.path))

(* What a frame takes as told is final since the frame before it.             *)
ToldIsFinal ==
    \A f \in sent : Stroke(f) =>
        \A d, e \in Drawn :
            /\ d.boot = f.boot /\ d.id = f.gesture.id /\ d.seq + 1 >= f.seq
            /\ e.boot = f.boot /\ e.id = f.gesture.id /\ e.seq + 1 >= f.seq
            => Agree(d.path, e.path, f.gesture.from)

(* What the sender will take as told is final since the last frame.           *)
SentIsFinal ==
    tx.id = ordinal =>
        \A d, e \in Drawn :
            /\ d.boot = run /\ d.id = ordinal /\ d.seq >= seq
            /\ e.boot = run /\ e.id = ordinal /\ e.seq >= seq
            => Agree(d.path, e.path, tx.sent)

Assembly == peer.rx.assembly

Holding == Assembly # P!NoAssembly

(* What the watcher holds below its watermark is final since the frame it was *)
(* spliced from.                                                              *)
HeldIsFinal ==
    Holding =>
        /\ Assembly.last # P!None /\ Assembly.last <= peer.seq
        /\ Assembly.frozen <= Len(Assembly.path)
        /\ \A d \in Drawn : d.boot = peer.boot /\ d.id = peer.rx.id /\ d.seq >= Assembly.last
               => Agree(d.path, Assembly.path, Assembly.frozen)

(* None of these points is one the fit may still move.                        *)
FinalIsFrozen ==
    hand.path # <<>> =>
        /\ \A f \in sent : Stroke(f) /\ f.boot = run /\ f.gesture.id = ordinal
               => f.gesture.from <= hand.frozen
        /\ tx.id = ordinal => tx.sent <= hand.frozen
        /\ Holding /\ peer.boot = run /\ peer.rx.id = ordinal => Assembly.frozen <= hand.frozen

(* The watcher's gesture is that of the newest frame it heard, if it draws.   *)
HeardIsSent ==
    peer # P!NoPeer =>
        \E f \in sent : /\ f.boot = peer.boot /\ f.seq = peer.seq
                        /\ P!Drawing(peer.rx) => peer.rx.id = f.gesture.id

OneFrameEach ==
    \A f, g \in sent : f.boot = g.boot /\ f.seq = g.seq => f = g

PresenceInv ==
    /\ P!TypeOK /\ PathBehind /\ FramesShowStrokes /\ ToldIsFinal /\ SentIsFinal
    /\ HeldIsFinal /\ FinalIsFrozen /\ HeardIsSent /\ OneFrameEach
    /\ P!HeldPathWasTheAuthors /\ P!ClearingFrameIsOwed

-------------------------------------------------------------------------------
(* Paths                                                                      *)

LEMMA FunctionsArePaths ==
    ASSUME NEW n \in Nat, NEW f \in [1..n -> Nat]
    PROVE  f \in P!Path /\ Len(f) = n
<1>1. f \in P!Path
  BY SeqDef DEF P!Path
<1>2. Len(f) \in Nat /\ 1..Len(f) = 1..n
  BY <1>1, LenProperties DEF P!Path
<1>. QED
  BY <1>1, <1>2

LEMMA AgreeReflexive ==
    ASSUME NEW p \in P!Path, NEW n \in Nat, n <= Len(p)
    PROVE  Agree(p, p, n)
BY DEF Agree

LEMMA AgreeSymmetric ==
    ASSUME NEW p, NEW q, NEW n, Agree(p, q, n)
    PROVE  Agree(q, p, n)
BY DEF Agree

LEMMA AgreeTransitive ==
    ASSUME NEW p, NEW q, NEW r, NEW n, Agree(p, q, n), Agree(q, r, n)
    PROVE  Agree(p, r, n)
BY DEF Agree

LEMMA AgreeOnLess ==
    ASSUME NEW p \in P!Path, NEW q \in P!Path, NEW n \in Nat, NEW m \in Nat,
           m <= n, Agree(p, q, n)
    PROVE  Agree(p, q, m)
<1>1. Len(p) \in Nat /\ Len(q) \in Nat
  BY LenProperties DEF P!Path
<1>. QED
  BY <1>1 DEF Agree

LEMMA AgreeOnMore ==
    ASSUME NEW p \in P!Path, NEW q \in P!Path, NEW n \in Nat, NEW m \in Nat,
           Agree(p, q, n), Agree(p, q, m)
    PROVE  Agree(p, q, P!Larger(n, m))
BY DEF P!Larger

(* The prefix the author and the watcher agree on, in the property's words.   *)
LEMMA AgreeingPrefixes ==
    ASSUME NEW p \in P!Path, NEW q \in P!Path, NEW n \in Nat, Agree(p, q, n)
    PROVE  SubSeq(p, 1, n) = SubSeq(q, 1, n)
<1>1. Len(p) \in Nat /\ Len(q) \in Nat /\ n <= Len(p) /\ n <= Len(q)
  BY LenProperties DEF P!Path, Agree
<1>2. (\A i \in 1..n : p[i] \in Nat) /\ (\A i \in 1..n : q[i] \in Nat)
  <2>1. (\A i \in 1..Len(p) : p[i] \in Nat) /\ (\A i \in 1..Len(q) : q[i] \in Nat)
    BY ElementOfSeq DEF P!Path
  <2>. QED
    BY ONLY n \in Nat, <1>1, <2>1
<1>3. /\ SubSeq(p, 1, n) \in Seq(Nat) /\ Len(SubSeq(p, 1, n)) = n
      /\ \A i \in 1..n : SubSeq(p, 1, n)[i] = p[i]
  BY <1>2, SubSeqProperties
<1>4. /\ SubSeq(q, 1, n) \in Seq(Nat) /\ Len(SubSeq(q, 1, n)) = n
      /\ \A i \in 1..n : SubSeq(q, 1, n)[i] = q[i]
  BY <1>2, SubSeqProperties
<1>5. \A i \in 1..n : p[i] = q[i]
  BY DEF Agree
<1>. QED
  BY <1>3, <1>4, <1>5, SeqEqual

(* What a splice puts together is the path the frame was encoded from.        *)
LEMMA TailIsPath ==
    ASSUME NEW p \in P!Path, NEW n \in Nat, n <= Len(p)
    PROVE  /\ SubSeq(p, n + 1, Len(p)) \in P!Path
           /\ Len(SubSeq(p, n + 1, Len(p))) = Len(p) - n
           /\ \A i \in 1..(Len(p) - n) : SubSeq(p, n + 1, Len(p))[i] = p[n + i]
<1>1. Len(p) \in Nat
  BY LenProperties DEF P!Path
<1>2. \A i \in (n + 1)..Len(p) : p[i] \in Nat
  BY <1>1, ElementOfSeq DEF P!Path
<1>3. /\ SubSeq(p, n + 1, Len(p)) \in Seq(Nat)
      /\ Len(SubSeq(p, n + 1, Len(p))) = IF n + 1 <= Len(p) THEN Len(p) - (n + 1) + 1 ELSE 0
      /\ \A i \in 1..(Len(p) - (n + 1) + 1) : SubSeq(p, n + 1, Len(p))[i] = p[n + 1 + i - 1]
  BY <1>1, <1>2, SubSeqProperties
<1>. QED
  BY <1>1, <1>3 DEF P!Path

LEMMA SplicedWhole ==
    ASSUME NEW p \in P!Path, NEW q \in P!Path, NEW n \in Nat, Agree(p, q, n)
    PROVE  SubSeq(q, 1, n) \o SubSeq(p, n + 1, Len(p)) = p
<1>. DEFINE head == SubSeq(q, 1, n)
            tail == SubSeq(p, n + 1, Len(p))
<1>1. Len(p) \in Nat /\ Len(q) \in Nat /\ n <= Len(p) /\ n <= Len(q)
  BY LenProperties DEF P!Path, Agree
<1>2. \A i \in 1..n : q[i] \in Nat
  BY <1>1, ElementOfSeq DEF P!Path
<1>3. /\ head \in Seq(Nat) /\ Len(head) = n
      /\ \A i \in 1..n : head[i] = q[i]
  BY <1>2, SubSeqProperties
<1>4. tail \in Seq(Nat) /\ Len(tail) = Len(p) - n /\ \A i \in 1..(Len(p) - n) : tail[i] = p[n + i]
  BY <1>1, TailIsPath DEF P!Path
<1>. HIDE DEF head, tail
<1>5. /\ head \o tail \in Seq(Nat) /\ Len(head \o tail) = Len(p)
      /\ \A i \in 1..Len(p) : (head \o tail)[i] = IF i <= n THEN head[i] ELSE tail[i - n]
  BY <1>1, <1>3, <1>4, ConcatProperties
<1>6. \A i \in 1..Len(p) : (head \o tail)[i] = p[i]
  <2>. SUFFICES ASSUME NEW i \in 1..Len(p) PROVE (head \o tail)[i] = p[i]
    OBVIOUS
  <2>0. i \in Int /\ 1 <= i /\ i <= Len(p) /\ (i <= n \/ i > n)
    BY <1>1
  <2>1. CASE i <= n
    <3>1. i \in 1..n
      BY <2>0, <2>1
    <3>2. p[i] = q[i]
      BY <3>1 DEF Agree
    <3>. QED
      BY <1>3, <1>5, <2>1, <3>1, <3>2
  <2>2. CASE i > n
    <3>1. i - n \in 1..(Len(p) - n) /\ n + (i - n) = i
      BY <1>1, <2>2
    <3>. QED
      BY <1>1, <1>4, <1>5, <2>2, <3>1
  <2>. QED
    BY <2>0, <2>1, <2>2
<1>7. head \o tail = p
  BY <1>5, <1>6, SeqEqual DEF P!Path
<1>. QED
  BY <1>7 DEF head, tail

LEMMA AgreeThrough ==
    ASSUME NEW p, NEW q, NEW pp, NEW qq, NEW n,
           p = pp \/ Agree(p, pp, n), q = qq \/ Agree(q, qq, n), Agree(pp, qq, n)
    PROVE  Agree(p, q, n)
BY DEF Agree

-------------------------------------------------------------------------------
(* The author                                                                 *)

LEMMA DrawnIsTyped == P!TypeOK => Drawn \subseteq P!DrawnType
BY DEF P!TypeOK, Drawn, Now, P!DrawnType

LEMMA InitHolds == P!Init => PresenceInv
<1>. SUFFICES ASSUME P!Init PROVE PresenceInv
  OBVIOUS
<1>1. P!TypeOK
  BY EmptySeq DEF P!Init, P!TypeOK, P!IdleHand, P!NewTx, P!NoPeer, P!IdleRx, P!NoAssembly, P!None, P!Path, P!Id, P!Rx, P!AssemblyType
<1>2. PathBehind /\ FramesShowStrokes /\ ToldIsFinal /\ OneFrameEach
  BY DEF P!Init, PathBehind, FramesShowStrokes, ToldIsFinal, OneFrameEach, P!NewTx, P!NoPeer, P!None
<1>3. SentIsFinal
  BY DEF P!Init, SentIsFinal, P!NewTx, P!None
<1>4. ~Holding
  BY DEF P!Init, Holding, Assembly, P!NoPeer, P!IdleRx
<1>5. HeldIsFinal /\ FinalIsFrozen /\ P!HeldPathWasTheAuthors
  BY <1>4 DEF P!Init, HeldIsFinal, FinalIsFrozen, P!HeldPathWasTheAuthors, Holding, Assembly, P!IdleHand
<1>6. HeardIsSent /\ P!ClearingFrameIsOwed
  BY DEF P!Init, HeardIsSent, P!ClearingFrameIsOwed
<1>. QED
  BY <1>1, <1>2, <1>3, <1>5, <1>6 DEF PresenceInv

(* The hand opens another gesture, lets go of the one it has, or moves what of*)
(* its stroke is not frozen.                                                  *)
LEMMA HandKeeps ==
    ASSUME PresenceInv, P!TypeOK', UNCHANGED <<run, seq, tx, sent, drew, peer>>,
           \/ ordinal' = ordinal + 1
           \/ ordinal' = ordinal /\ hand'.path = <<>>
           \/ /\ ordinal' = ordinal /\ hand.path # <<>> /\ hand.frozen <= hand'.frozen
              /\ Agree(hand'.path, hand.path, hand.frozen)
    PROVE  PresenceInv'
<1>. USE DEF PresenceInv
<1>1. /\ ordinal \in Nat /\ ordinal' \in Nat /\ ordinal <= ordinal' /\ run \in Nat /\ seq \in Nat
      /\ hand.path \in P!Path /\ hand'.path \in P!Path /\ hand.frozen \in Nat /\ hand'.frozen \in Nat
  BY DEF P!TypeOK
<1>2. Drawn \subseteq P!DrawnType /\ Drawn' \subseteq P!DrawnType
  <2>1. Drawn \subseteq P!DrawnType
    BY DrawnIsTyped
  <2>2. drew \subseteq P!DrawnType /\ (hand'.path # <<>> => Now' \in P!DrawnType)
    BY <1>1 DEF P!TypeOK, Now, P!DrawnType
  <2>3. Drawn' \subseteq drew \cup {Now'} /\ (hand'.path = <<>> => Drawn' = drew)
    BY DEF Drawn
  <2>. QED
    BY ONLY <2>1, <2>2, <2>3
<1>3. ASSUME NEW d \in Drawn', NEW n \in Nat, d.boot = run => d.id <= ordinal,
             hand.path # <<>> /\ d.boot = run /\ d.id = ordinal => n <= hand.frozen
      PROVE  \E o \in Drawn : /\ o.boot = d.boot /\ o.id = d.id /\ o.seq = d.seq
                              /\ d.path = o.path \/ Agree(d.path, o.path, n)
  <2>1. CASE d \in drew
    BY <1>3, <2>1 DEF Drawn
  <2>2. CASE d \notin drew
    <3>1. d = Now' /\ hand'.path # <<>>
      BY <2>2 DEF Drawn
    <3>2. d.boot = run /\ d.id = ordinal' /\ d.seq = seq + 1 /\ d.path = hand'.path
      BY <3>1 DEF Now
    <3>3. /\ ordinal' = ordinal /\ hand.path # <<>>
          /\ Agree(hand'.path, hand.path, hand.frozen)
      BY <1>1, <1>3, <3>1, <3>2
    <3>4. Now \in Drawn /\ Now.boot = run /\ Now.id = ordinal /\ Now.seq = seq + 1 /\ Now.path = hand.path
      BY <3>3 DEF Drawn, Now
    <3>5. Agree(hand'.path, hand.path, n)
      BY <1>1, <1>3, <3>2, <3>3, AgreeOnLess
    <3>. QED
      BY <1>3, <3>2, <3>3, <3>4, <3>5
  <2>. QED
    BY <2>1, <2>2
<1>4. PathBehind'
  <2>1. \A f \in sent : f.gesture.id \in Int
    BY DEF P!TypeOK, P!FrameType, P!Gesture, P!Id, P!None
  <2>2. \A d \in drew : d.id \in Int
    BY DEF P!TypeOK, P!DrawnType
  <2>3. tx.id \in Int
    BY DEF P!TypeOK, P!Id, P!None
  <2>4. peer.rx.id \in Int
    BY DEF P!TypeOK, P!Rx, P!Id, P!None
  <2>. QED
    BY <1>1, <2>1, <2>2, <2>3, <2>4 DEF PathBehind
<1>5. ToldIsFinal'
  <2>. SUFFICES ASSUME NEW f \in sent, Stroke(f), NEW d \in Drawn', NEW e \in Drawn',
                       d.boot = f.boot, d.id = f.gesture.id, d.seq + 1 >= f.seq,
                       e.boot = f.boot, e.id = f.gesture.id, e.seq + 1 >= f.seq
                PROVE  Agree(d.path, e.path, f.gesture.from)
    BY DEF ToldIsFinal
  <2>1. /\ f.gesture.from \in Nat
        /\ f.boot = run => f.gesture.id <= ordinal
        /\ hand.path # <<>> /\ f.boot = run /\ f.gesture.id = ordinal => f.gesture.from <= hand.frozen
    BY DEF P!TypeOK, P!FrameType, P!Gesture, PathBehind, FinalIsFrozen
  <2>2. PICK o \in Drawn : /\ o.boot = d.boot /\ o.id = d.id /\ o.seq = d.seq
                           /\ d.path = o.path \/ Agree(d.path, o.path, f.gesture.from)
    BY <1>3, <2>1
  <2>3. PICK u \in Drawn : /\ u.boot = e.boot /\ u.id = e.id /\ u.seq = e.seq
                           /\ e.path = u.path \/ Agree(e.path, u.path, f.gesture.from)
    BY <1>3, <2>1
  <2>4. Agree(o.path, u.path, f.gesture.from)
    BY <2>2, <2>3 DEF ToldIsFinal
  <2>. QED
    BY <2>2, <2>3, <2>4, AgreeThrough
<1>6. SentIsFinal'
  <2>. SUFFICES ASSUME tx.id = ordinal', NEW d \in Drawn', NEW e \in Drawn',
                       d.boot = run, d.id = ordinal', d.seq >= seq,
                       e.boot = run, e.id = ordinal', e.seq >= seq
                PROVE  Agree(d.path, e.path, tx.sent)
    BY DEF SentIsFinal
  <2>1. tx.id <= ordinal
    BY DEF PathBehind
  <2>2. ordinal' = ordinal /\ tx.sent \in Nat /\ (hand.path # <<>> => tx.sent <= hand.frozen)
    BY <1>1, <2>1 DEF P!TypeOK, FinalIsFrozen
  <2>3. PICK o \in Drawn : /\ o.boot = run /\ o.id = ordinal /\ o.seq = d.seq
                           /\ d.path = o.path \/ Agree(d.path, o.path, tx.sent)
    BY <1>1, <1>3, <2>2
  <2>4. PICK u \in Drawn : /\ u.boot = run /\ u.id = ordinal /\ u.seq = e.seq
                           /\ e.path = u.path \/ Agree(e.path, u.path, tx.sent)
    BY <1>1, <1>3, <2>2
  <2>5. Agree(o.path, u.path, tx.sent)
    BY <2>2, <2>3, <2>4 DEF SentIsFinal
  <2>. QED
    BY <2>3, <2>4, <2>5, AgreeThrough
<1>7. HeldIsFinal'
  <2>1. Assembly' = Assembly /\ Holding' = Holding
    BY DEF Assembly, Holding
  <2>. SUFFICES ASSUME Holding, NEW d \in Drawn',
                       d.boot = peer.boot, d.id = peer.rx.id, d.seq >= Assembly.last
                PROVE  Agree(d.path, Assembly.path, Assembly.frozen)
    BY <2>1 DEF HeldIsFinal
  <2>2. /\ Assembly.frozen \in Nat
        /\ peer.boot = run => peer.rx.id <= ordinal
        /\ hand.path # <<>> /\ peer.boot = run /\ peer.rx.id = ordinal => Assembly.frozen <= hand.frozen
    BY DEF P!TypeOK, P!Rx, P!AssemblyType, PathBehind, FinalIsFrozen, Assembly
  <2>3. PICK o \in Drawn : /\ o.boot = d.boot /\ o.id = d.id /\ o.seq = d.seq
                           /\ d.path = o.path \/ Agree(d.path, o.path, Assembly.frozen)
    BY <1>3, <2>2
  <2>4. Agree(o.path, Assembly.path, Assembly.frozen)
    BY <2>3 DEF HeldIsFinal
  <2>. QED
    BY <2>3, <2>4, AgreeThrough
<1>8. FinalIsFrozen'
  <2>1. Assembly' = Assembly /\ Holding' = Holding
    BY DEF Assembly, Holding
  <2>2. CASE ordinal' = ordinal + 1
    <3>1. \A f \in sent : f.boot = run => f.gesture.id # ordinal'
      BY <1>1, <2>2 DEF PathBehind, P!TypeOK, P!FrameType, P!Gesture, P!Id, P!None
    <3>2. tx.id # ordinal' /\ (peer.boot = run => peer.rx.id # ordinal')
      BY <1>1, <2>2 DEF PathBehind, P!TypeOK, P!Rx, P!Id, P!None
    <3>. QED
      BY <3>1, <3>2 DEF FinalIsFrozen
  <2>3. CASE ordinal' = ordinal
    BY <1>1, <2>1, <2>3 DEF FinalIsFrozen, P!TypeOK, P!FrameType, P!Gesture, P!Rx, P!AssemblyType, Assembly
  <2>. QED
    BY <2>2, <2>3
<1>9. FramesShowStrokes' /\ HeardIsSent' /\ OneFrameEach' /\ P!HeldPathWasTheAuthors' /\ P!ClearingFrameIsOwed'
  BY DEF FramesShowStrokes, HeardIsSent, OneFrameEach, P!HeldPathWasTheAuthors, P!ClearingFrameIsOwed
<1>. QED
  BY <1>4, <1>5, <1>6, <1>7, <1>8, <1>9

LEMMA HandHolds ==
    ASSUME PresenceInv, P!StartStroke \/ P!StartRegion \/ P!Report \/ P!Steer \/ P!Snap \/ P!End
    PROVE  PresenceInv'
<1>1. /\ P!TypeOK /\ ordinal \in Nat /\ reports \in Nat /\ hand.path \in P!Path /\ hand.frozen \in Nat
      /\ hand.doing \in {"nothing", "stroke", "snapped", "region"}
      /\ Len(hand.path) \in Nat /\ hand.frozen <= Len(hand.path)
  BY LenProperties DEF PresenceInv, P!TypeOK, P!Path
<1>2. UNCHANGED <<run, seq, tx, sent, drew, peer>>
  BY DEF P!StartStroke, P!StartRegion, P!Report, P!Steer, P!Snap, P!End
<1>3. ASSUME ordinal' \in Nat, reports' \in Nat,
             hand' \in [doing : {"nothing", "stroke", "snapped", "region"}, path : P!Path, frozen : Nat],
             hand'.frozen <= Len(hand'.path),
             hand'.doing \in {"stroke", "snapped"} <=> hand'.path # <<>>,
             hand'.doing = "snapped" => hand'.frozen = 0
      PROVE  P!TypeOK'
  BY <1>1, <1>2, <1>3 DEF P!TypeOK
<1>4. ASSUME NEW n \in Nat, n > 0, NEW f \in [1..n -> Nat]
      PROVE  f \in P!Path /\ Len(f) = n /\ f # <<>>
  BY <1>4, FunctionsArePaths, EmptySeq
<1>5. ASSUME NEW n \in Nat, hand.frozen <= n
      PROVE  /\ P!Refit(n) \in [1..n -> Nat]
             /\ \A i \in 1..hand.frozen : P!Refit(n)[i] = hand.path[i]
  <2>1. \A i \in 1..hand.frozen : hand.path[i] \in Nat
    BY <1>1, ElementOfSeq DEF P!Path
  <2>. QED
    BY <1>1, <1>5, <2>1 DEF P!Refit
<1>6. CASE P!StartStroke
  <2>1. /\ hand' = [doing |-> "stroke", path |-> <<reports + 1>>, frozen |-> 0]
        /\ ordinal' = ordinal + 1 /\ reports' = reports + 1
    BY <1>6 DEF P!StartStroke, P!NextOrdinal, P!NextReport
  <2>2. <<reports + 1>> \in P!Path /\ Len(<<reports + 1>>) = 1 /\ <<reports + 1>> # <<>>
    BY <1>1 DEF P!Path
  <2>3. P!TypeOK'
    BY <1>1, <1>3, <2>1, <2>2
  <2>. QED
    BY <1>2, <2>1, <2>3, HandKeeps
<1>7. CASE P!StartRegion
  <2>1. /\ hand' = [doing |-> "region", path |-> <<>>, frozen |-> 0]
        /\ ordinal' = ordinal + 1 /\ reports' = reports
    BY <1>7 DEF P!StartRegion, P!NextOrdinal, P!IdleHand
  <2>2. P!TypeOK'
    BY <1>1, <1>3, <2>1, EmptySeq DEF P!Path
  <2>. QED
    BY <1>2, <2>1, <2>2, HandKeeps
<1>8. CASE P!Report
  <2>0. PICK n \in P!Larger(hand.frozen, 1)..MaxPath :
           \E f \in hand.frozen..n : hand' = [hand EXCEPT !.path = P!Refit(n), !.frozen = f]
    BY <1>8 DEF P!Report
  <2>1. PICK f \in hand.frozen..n : hand' = [hand EXCEPT !.path = P!Refit(n), !.frozen = f]
    BY <2>0
  <2>2. n \in Nat /\ n > 0 /\ hand.frozen <= n /\ f \in Nat /\ hand.frozen <= f /\ f <= n
    BY <1>1, <2>0, <2>1 DEF P!Larger
  <2>3. /\ P!Refit(n) \in P!Path /\ Len(P!Refit(n)) = n /\ P!Refit(n) # <<>>
        /\ \A i \in 1..hand.frozen : P!Refit(n)[i] = hand.path[i]
    BY <1>4, <1>5, <2>2
  <2>4. /\ ordinal' = ordinal /\ reports' = reports + 1 /\ hand.doing = "stroke"
        /\ hand'.path = P!Refit(n) /\ hand'.frozen = f /\ hand'.doing = "stroke"
        /\ hand' \in [doing : {"nothing", "stroke", "snapped", "region"}, path : P!Path, frozen : Nat]
    BY <1>8, <2>1, <2>2, <2>3 DEF P!Report, P!NextReport, PresenceInv, P!TypeOK
  <2>5. P!TypeOK'
    BY <1>1, <1>3, <2>2, <2>3, <2>4
  <2>6. Agree(hand'.path, hand.path, hand.frozen)
    BY <1>1, <2>2, <2>3, <2>4 DEF Agree
  <2>7. hand.path # <<>>
    BY <1>1, <2>4 DEF P!TypeOK
  <2>. QED
    BY <1>2, <2>2, <2>4, <2>5, <2>6, <2>7, HandKeeps
<1>9. CASE P!Steer
  <2>1. PICK n \in 1..MaxPath : hand' = [hand EXCEPT !.path = P!Refit(n)]
    BY <1>9 DEF P!Steer
  <2>2. /\ n \in Nat /\ n > 0 /\ hand.frozen = 0 /\ hand.frozen <= n
        /\ hand.doing = "snapped" /\ hand.path # <<>>
    BY <1>1, <1>9, <2>1 DEF P!Steer, P!TypeOK
  <2>3. P!Refit(n) \in P!Path /\ Len(P!Refit(n)) = n /\ P!Refit(n) # <<>>
    BY <1>4, <1>5, <2>2
  <2>4. /\ ordinal' = ordinal /\ reports' = reports + 1
        /\ hand'.path = P!Refit(n) /\ hand'.frozen = 0 /\ hand'.doing = "snapped"
        /\ hand' \in [doing : {"nothing", "stroke", "snapped", "region"}, path : P!Path, frozen : Nat]
    BY <1>9, <2>1, <2>2, <2>3 DEF P!Steer, P!NextReport, PresenceInv, P!TypeOK
  <2>5. P!TypeOK'
    BY <1>1, <1>3, <2>2, <2>3, <2>4
  <2>6. Agree(hand'.path, hand.path, hand.frozen)
    BY <1>1, <2>2, <2>3, <2>4 DEF Agree
  <2>. QED
    BY <1>2, <2>2, <2>4, <2>5, <2>6, HandKeeps
<1>10. CASE P!Snap
  <2>1. PICK n \in 1..MaxPath :
           hand' = [doing |-> "snapped", path |-> [i \in 1..n |-> reports + 1], frozen |-> 0]
    BY <1>10 DEF P!Snap
  <2>2. n \in Nat /\ n > 0 /\ [i \in 1..n |-> reports + 1] \in [1..n -> Nat]
    BY <1>1, <2>1
  <2>3. /\ [i \in 1..n |-> reports + 1] \in P!Path /\ Len([i \in 1..n |-> reports + 1]) = n
        /\ [i \in 1..n |-> reports + 1] # <<>>
    BY <1>4, <2>2
  <2>4. ordinal' = ordinal + 1 /\ reports' = reports + 1
    BY <1>10 DEF P!Snap, P!NextOrdinal, P!NextReport
  <2>5. P!TypeOK'
    BY <1>1, <1>3, <2>1, <2>2, <2>3, <2>4
  <2>. QED
    BY <1>2, <2>4, <2>5, HandKeeps
<1>11. CASE P!End
  <2>1. hand' = [doing |-> "nothing", path |-> <<>>, frozen |-> 0] /\ UNCHANGED <<ordinal, reports>>
    BY <1>11 DEF P!End, P!IdleHand
  <2>2. P!TypeOK'
    BY <1>1, <1>3, <2>1, EmptySeq DEF P!Path
  <2>. QED
    BY <1>2, <2>1, <2>2, HandKeeps
<1>. QED
  BY <1>6, <1>7, <1>8, <1>9, <1>10, <1>11

(* A frame is numbered, and may say what is drawn now. Nothing but the number *)
(* of what is drawn now and next changes in what has been drawn.              *)
LEMMA NumberingKeeps ==
    ASSUME PresenceInv, seq' = seq + 1, UNCHANGED <<run, ordinal, hand, peer>>,
           drew' = drew \/ (hand.path # <<>> /\ drew' = drew \cup {Now})
    PROVE  /\ \A d \in Drawn' : \E o \in Drawn :
                 /\ o.boot = d.boot /\ o.id = d.id /\ o.path = d.path
                 /\ o.seq = d.seq \/ (o.boot = run /\ o.seq = seq + 1 /\ d.seq >= seq + 1)
           /\ HeldIsFinal'
           /\ \A f \in sent : Stroke(f) =>
                 \A d, e \in Drawn' :
                     /\ d.boot = f.boot /\ d.id = f.gesture.id /\ d.seq + 1 >= f.seq
                     /\ e.boot = f.boot /\ e.id = f.gesture.id /\ e.seq + 1 >= f.seq
                     => Agree(d.path, e.path, f.gesture.from)
           /\ tx.id = ordinal =>
                 \A d, e \in Drawn' :
                     /\ d.boot = run /\ d.id = ordinal /\ d.seq >= seq
                     /\ e.boot = run /\ e.id = ordinal /\ e.seq >= seq
                     => Agree(d.path, e.path, tx.sent)
<1>1. /\ run \in Nat /\ seq \in Nat /\ P!TypeOK
      /\ \A f \in sent : f.seq \in Nat /\ (f.boot = run => f.seq <= seq)
      /\ \A d \in drew : d.seq \in Nat
  BY DEF PresenceInv, P!TypeOK, PathBehind, P!FrameType, P!DrawnType
<1>2. \A d \in Drawn' : \E o \in Drawn :
         /\ o.boot = d.boot /\ o.id = d.id /\ o.path = d.path
         /\ o.seq = d.seq \/ (o.boot = run /\ o.seq = seq + 1 /\ d.seq >= seq + 1)
  <2>. SUFFICES ASSUME NEW d \in Drawn'
                PROVE  \E o \in Drawn :
                          /\ o.boot = d.boot /\ o.id = d.id /\ o.path = d.path
                          /\ o.seq = d.seq \/ (o.boot = run /\ o.seq = seq + 1 /\ d.seq >= seq + 1)
    OBVIOUS
  <2>1. CASE d \in drew
    BY <2>1 DEF Drawn
  <2>2. CASE d \notin drew
    <3>1. hand.path # <<>> /\ Now \in Drawn /\ (d = Now \/ d = Now')
      BY <2>2 DEF Drawn
    <3>2. /\ d.boot = run /\ d.id = ordinal /\ d.path = hand.path
          /\ d.seq = seq + 1 \/ d.seq = seq + 1 + 1
      BY <3>1 DEF Now
    <3>3. Now.boot = run /\ Now.id = ordinal /\ Now.path = hand.path /\ Now.seq = seq + 1
      BY DEF Now
    <3>. QED
      BY <1>1, <3>1, <3>2, <3>3
  <2>. QED
    BY <2>1, <2>2
<1>3. Drawn \subseteq P!DrawnType /\ \A d \in Drawn' : d.seq \in Nat
  BY <1>1, DrawnIsTyped DEF Drawn, Now
<1>4. HeldIsFinal'
  <2>1. Assembly' = Assembly /\ Holding' = Holding
    BY DEF Assembly, Holding
  <2>. SUFFICES ASSUME Holding, NEW d \in Drawn',
                       d.boot = peer.boot, d.id = peer.rx.id, d.seq >= Assembly.last
                PROVE  Agree(d.path, Assembly.path, Assembly.frozen)
    BY <2>1 DEF HeldIsFinal, PresenceInv
  <2>2. PICK o \in Drawn :
         /\ o.boot = d.boot /\ o.id = d.id /\ o.path = d.path
         /\ o.seq = d.seq \/ (o.boot = run /\ o.seq = seq + 1 /\ d.seq >= seq + 1)
    BY <1>2
  <2>3. peer.seq \in Int /\ Assembly.last \in Int /\ Assembly.last <= peer.seq
    BY DEF PresenceInv, P!TypeOK, P!Rx, P!AssemblyType, P!Id, P!None, Assembly, HeldIsFinal
  <2>4. peer.boot = run => peer.seq <= seq
    BY DEF PresenceInv, PathBehind
  <2>5. o.seq >= Assembly.last
    BY <1>1, <2>2, <2>3, <2>4
  <2>. QED
    BY <2>2, <2>5 DEF PresenceInv, HeldIsFinal
<1>5. ASSUME NEW f \in sent, Stroke(f), NEW d \in Drawn', NEW e \in Drawn',
             d.boot = f.boot, d.id = f.gesture.id, d.seq + 1 >= f.seq,
             e.boot = f.boot, e.id = f.gesture.id, e.seq + 1 >= f.seq
      PROVE  Agree(d.path, e.path, f.gesture.from)
  <2>1. PICK o \in Drawn :
         /\ o.boot = d.boot /\ o.id = d.id /\ o.path = d.path
         /\ o.seq = d.seq \/ (o.boot = run /\ o.seq = seq + 1 /\ d.seq >= seq + 1)
    BY <1>2
  <2>2. PICK u \in Drawn :
         /\ u.boot = e.boot /\ u.id = e.id /\ u.path = e.path
         /\ u.seq = e.seq \/ (u.boot = run /\ u.seq = seq + 1 /\ e.seq >= seq + 1)
    BY <1>2
  <2>3. o.seq + 1 >= f.seq /\ u.seq + 1 >= f.seq
    BY <1>1, <1>5, <2>1, <2>2
  <2>4. Agree(o.path, u.path, f.gesture.from)
    BY <1>5, <2>1, <2>2, <2>3 DEF PresenceInv, ToldIsFinal
  <2>. QED
    BY <2>1, <2>2, <2>4
<1>6. ASSUME tx.id = ordinal, NEW d \in Drawn', NEW e \in Drawn',
             d.boot = run, d.id = ordinal, d.seq >= seq,
             e.boot = run, e.id = ordinal, e.seq >= seq
      PROVE  Agree(d.path, e.path, tx.sent)
  <2>1. PICK o \in Drawn :
         /\ o.boot = d.boot /\ o.id = d.id /\ o.path = d.path
         /\ o.seq = d.seq \/ (o.boot = run /\ o.seq = seq + 1 /\ d.seq >= seq + 1)
    BY <1>2
  <2>2. PICK u \in Drawn :
         /\ u.boot = e.boot /\ u.id = e.id /\ u.path = e.path
         /\ u.seq = e.seq \/ (u.boot = run /\ u.seq = seq + 1 /\ e.seq >= seq + 1)
    BY <1>2
  <2>3. o.seq >= seq /\ u.seq >= seq
    BY <1>1, <1>6, <2>1, <2>2
  <2>4. Agree(o.path, u.path, tx.sent)
    BY <1>6, <2>1, <2>2, <2>3 DEF PresenceInv, SentIsFinal
  <2>. QED
    BY <2>1, <2>2, <2>4
<1>. QED
  BY <1>2, <1>4, <1>5, <1>6

LEMMA LeaveHolds ==
    ASSUME PresenceInv, P!Leave
    PROVE  PresenceInv'
<1>. DEFINE F == P!Frame(P!NoGesture, TRUE)
<1>1. /\ seq' = seq + 1 /\ sent' = sent \cup {F} /\ drew' = drew
      /\ UNCHANGED <<run, ordinal, hand, reports, tx, peer>>
  BY DEF P!Leave
<1>2. /\ F \in P!FrameType /\ F.boot = run /\ F.seq = seq + 1 /\ F.gesture.id = P!None /\ ~Stroke(F)
  <2>1. run \in Nat /\ seq \in Nat
    BY DEF PresenceInv, P!TypeOK
  <2>2. P!NoGesture \in P!Gesture /\ P!NoGesture.id = P!None
    BY EmptySeq DEF P!NoGesture, P!Gesture, P!Id, P!None, P!Path
  <2>. QED
    BY <2>1, <2>2 DEF P!Frame, P!FrameType, Stroke
<1>. HIDE DEF F
<1>3. P!TypeOK'
  BY <1>1, <1>2 DEF PresenceInv, P!TypeOK
<1>4. /\ seq \in Nat /\ ordinal \in Nat /\ run \in Nat /\ peer.seq \in Int
      /\ \A f \in sent : f.seq \in Nat
      /\ \A d \in drew : d.seq \in Nat
  BY DEF PresenceInv, P!TypeOK, P!FrameType, P!DrawnType, P!Id, P!None
<1>5. PathBehind'
  BY <1>1, <1>2, <1>4 DEF PresenceInv, PathBehind, P!None
<1>6. FramesShowStrokes' /\ FinalIsFrozen'
  <2>1. Assembly' = Assembly /\ Holding' = Holding
    BY <1>1 DEF Assembly, Holding
  <2>. QED
    BY <1>1, <1>2, <2>1 DEF PresenceInv, FramesShowStrokes, FinalIsFrozen
<1>7. ToldIsFinal' /\ HeldIsFinal'
  BY <1>1, <1>2, NumberingKeeps DEF ToldIsFinal
<1>8. SentIsFinal'
  <2>1. \A d \in Drawn' : d.seq \in Nat
    BY <1>1, <1>4 DEF Drawn, Now
  <2>. SUFFICES ASSUME tx.id = ordinal, NEW d \in Drawn', NEW e \in Drawn',
                       d.boot = run, d.id = ordinal, d.seq >= seq + 1,
                       e.boot = run, e.id = ordinal, e.seq >= seq + 1
                PROVE  Agree(d.path, e.path, tx.sent)
    BY <1>1 DEF SentIsFinal
  <2>2. d.seq >= seq /\ e.seq >= seq
    BY <1>4, <2>1
  <2>. QED
    BY <1>1, <2>2, NumberingKeeps
<1>9. HeardIsSent' /\ P!HeldPathWasTheAuthors'
  BY <1>1 DEF PresenceInv, HeardIsSent, P!HeldPathWasTheAuthors
<1>10. OneFrameEach' /\ P!ClearingFrameIsOwed'
  BY <1>1, <1>2, <1>4 DEF PresenceInv, PathBehind, OneFrameEach, P!ClearingFrameIsOwed
<1>. QED
  BY <1>3, <1>5, <1>6, <1>7, <1>8, <1>9, <1>10 DEF PresenceInv

LEMMA PublishHolds ==
    ASSUME PresenceInv, P!Publish
    PROVE  PresenceInv'
<1>1. /\ run \in Nat /\ seq \in Nat /\ ordinal \in Nat /\ hand.frozen \in Nat
      /\ hand.path \in P!Path /\ Len(hand.path) \in Nat /\ hand.frozen <= Len(hand.path)
      /\ hand.doing \in {"nothing", "stroke", "snapped", "region"}
      /\ hand.doing \in {"stroke", "snapped"} <=> hand.path # <<>>
      /\ tx.sent \in Nat /\ tx.id \in Int /\ tx.id <= ordinal
      /\ \A f \in sent : f.seq \in Nat
      /\ \A d \in drew : d.seq \in Nat
  BY LenProperties DEF PresenceInv, P!TypeOK, PathBehind, P!FrameType, P!DrawnType, P!Id, P!None, P!Path
<1>2. PICK resync \in BOOLEAN,
           showing \in IF hand.doing = "region" THEN BOOLEAN ELSE {hand.doing # "nothing"} :
         /\ sent' = sent \cup {P!Frame(P!Encoded(showing, resync), FALSE)}
         /\ tx' = P!TxAfter(showing, resync)
  BY DEF P!Publish
<1>. DEFINE g == P!Encoded(showing, resync)
            F == P!Frame(g, FALSE)
<1>3. /\ sent' = sent \cup {F} /\ seq' = seq + 1
      /\ UNCHANGED <<run, ordinal, hand, reports, peer>>
      /\ drew' = IF hand.path = <<>> THEN drew ELSE drew \cup {Now}
  BY <1>2 DEF P!Publish, Now
<1>4. \/ g = P!NoGesture /\ tx' = P!NewTx
      \/ /\ hand.path = <<>> /\ g = [id |-> ordinal, region |-> TRUE, head |-> FALSE, from |-> 0, points |-> <<>>]
         /\ tx' = [id |-> ordinal, sent |-> 0]
      \/ /\ hand.path # <<>>
         /\ \E n \in Nat :
               /\ g = [id |-> ordinal, region |-> FALSE, head |-> resync \/ tx.id # ordinal,
                       from |-> n, points |-> SubSeq(hand.path, n + 1, Len(hand.path))]
               /\ n <= Len(hand.path) /\ (tx.id = ordinal => n <= tx.sent)
               /\ (tx.id # ordinal \/ resync => n = 0)
         /\ tx' = [id |-> ordinal, sent |-> hand.frozen]
  <2>1. CASE ~showing
    BY <1>2, <2>1 DEF P!Encoded, P!TxAfter
  <2>2. CASE showing /\ hand.doing = "region"
    <3>1. g = [P!NoGesture EXCEPT !.id = ordinal, !.region = TRUE]
      BY <2>2 DEF P!Encoded
    <3>2. g = [id |-> ordinal, region |-> TRUE, head |-> FALSE, from |-> 0, points |-> <<>>]
      BY <3>1 DEF P!NoGesture
    <3>3. hand.path = <<>> /\ tx' = [id |-> ordinal, sent |-> 0]
      BY <1>1, <1>2, <2>2 DEF P!TxAfter
    <3>. QED
      BY <3>2, <3>3
  <2>3. CASE showing /\ hand.doing # "region"
    <3>. DEFINE n == IF resync \/ tx.id # ordinal THEN 0 ELSE P!Smaller(tx.sent, Len(hand.path))
    <3>1. n \in Nat /\ n <= Len(hand.path) /\ n <= tx.sent
      BY <1>1 DEF P!Smaller
    <3>2. hand.path # <<>>
      BY <1>1, <1>2, <2>3
    <3>3. tx' = [id |-> ordinal, sent |-> hand.frozen]
      BY <1>1, <1>2, <2>3 DEF P!TxAfter, P!Told, P!Smaller
    <3>4. g = [id |-> ordinal, region |-> FALSE, head |-> resync \/ tx.id # ordinal,
               from |-> n, points |-> SubSeq(hand.path, n + 1, Len(hand.path))]
      BY <2>3 DEF P!Encoded
    <3>. QED
      BY <3>1, <3>2, <3>3, <3>4
  <2>. QED
    BY <2>1, <2>2, <2>3
<1>5. /\ g \in P!Gesture /\ g.id \in {ordinal, P!None} /\ tx' \in [id : P!Id, sent : Nat]
      /\ tx'.id = g.id
  <2>1. CASE g = P!NoGesture /\ tx' = P!NewTx
    BY <2>1, EmptySeq DEF P!NoGesture, P!NewTx, P!Gesture, P!Id, P!None, P!Path
  <2>2. CASE /\ g = [id |-> ordinal, region |-> TRUE, head |-> FALSE, from |-> 0, points |-> <<>>]
             /\ tx' = [id |-> ordinal, sent |-> 0]
    BY <1>1, <2>2, EmptySeq DEF P!Gesture, P!Id, P!Path
  <2>3. CASE /\ \E n \in Nat :
                   /\ g = [id |-> ordinal, region |-> FALSE, head |-> resync \/ tx.id # ordinal,
                           from |-> n, points |-> SubSeq(hand.path, n + 1, Len(hand.path))]
                   /\ n <= Len(hand.path)
             /\ tx' = [id |-> ordinal, sent |-> hand.frozen]
    <3>1. PICK n \in Nat :
             /\ g = [id |-> ordinal, region |-> FALSE, head |-> resync \/ tx.id # ordinal,
                     from |-> n, points |-> SubSeq(hand.path, n + 1, Len(hand.path))]
             /\ n <= Len(hand.path)
      BY <2>3
    <3>2. SubSeq(hand.path, n + 1, Len(hand.path)) \in P!Path
      BY <1>1, <3>1, TailIsPath
    <3>. QED
      BY <1>1, <2>3, <3>1, <3>2 DEF P!Gesture, P!Id
  <2>. QED
    BY <1>4, <2>1, <2>2, <2>3
<1>6. /\ F \in P!FrameType /\ F.boot = run /\ F.seq = seq + 1 /\ F.gesture = g
  BY <1>1, <1>5 DEF P!Frame, P!FrameType
<1>7. Now \in P!DrawnType /\ Now.boot = run /\ Now.seq = seq + 1 /\ Now.id = ordinal /\ Now.path = hand.path
  BY <1>1 DEF Now, P!DrawnType
<1>8. Stroke(F) =>
         /\ hand.path # <<>> /\ g.id = ordinal /\ g.from \in Nat /\ g.from <= Len(hand.path)
         /\ g.points = SubSeq(hand.path, g.from + 1, Len(hand.path))
         /\ g.head => g.from = 0
         /\ g.from # 0 => tx.id = ordinal /\ g.from <= tx.sent
  <2>. SUFFICES ASSUME Stroke(F)
       PROVE /\ hand.path # <<>> /\ g.id = ordinal /\ g.from \in Nat /\ g.from <= Len(hand.path)
             /\ g.points = SubSeq(hand.path, g.from + 1, Len(hand.path))
             /\ g.head => g.from = 0
             /\ g.from # 0 => tx.id = ordinal /\ g.from <= tx.sent
    OBVIOUS
  <2>1. g.id # P!None /\ ~g.region
    BY <1>6 DEF Stroke
  <2>2. hand.path # <<>>
    <3>. SUFFICES ASSUME hand.path = <<>> PROVE FALSE
      OBVIOUS
    <3>1. \/ g = P!NoGesture
          \/ g = [id |-> ordinal, region |-> TRUE, head |-> FALSE, from |-> 0, points |-> <<>>]
      BY ONLY <1>4, hand.path = <<>>
    <3>2. CASE g = P!NoGesture
      BY <2>1, <3>2 DEF P!NoGesture
    <3>3. CASE g = [id |-> ordinal, region |-> TRUE, head |-> FALSE, from |-> 0, points |-> <<>>]
      BY <2>1, <3>3
    <3>. QED
      BY <3>1, <3>2, <3>3
  <2>3. PICK n \in Nat :
               /\ g = [id |-> ordinal, region |-> FALSE, head |-> resync \/ tx.id # ordinal,
                       from |-> n, points |-> SubSeq(hand.path, n + 1, Len(hand.path))]
               /\ n <= Len(hand.path) /\ (tx.id = ordinal => n <= tx.sent)
               /\ (tx.id # ordinal \/ resync => n = 0)
    BY <1>4, <2>1, <2>2 DEF P!NoGesture
  <2>. QED
    BY <2>2, <2>3
<1>9. tx'.id = ordinal => tx'.sent \in Nat /\ tx'.sent <= hand.frozen
  BY <1>1, <1>4 DEF P!NewTx, P!None
<1>. HIDE DEF g, F
<1>10. P!TypeOK'
  BY <1>3, <1>5, <1>6, <1>7 DEF PresenceInv, P!TypeOK
<1>11. PathBehind'
  <2>1. g.id <= ordinal /\ tx'.id <= ordinal
    BY <1>1, <1>5 DEF P!None
  <2>2. \A f \in sent : f.seq \in Int
    BY DEF PresenceInv, P!TypeOK, P!FrameType
  <2>3. \A d \in drew : d.seq \in Int
    BY DEF PresenceInv, P!TypeOK, P!DrawnType
  <2>4. peer.seq \in Int
    BY DEF PresenceInv, P!TypeOK, P!Id, P!None
  <2>. QED
    BY <1>1, <1>3, <1>6, <1>7, <2>1, <2>2, <2>3, <2>4 DEF PresenceInv, PathBehind
<1>12. FramesShowStrokes'
  BY <1>3, <1>6, <1>7, <1>8 DEF PresenceInv, FramesShowStrokes
<1>13. drew' = drew \/ (hand.path # <<>> /\ drew' = drew \cup {Now})
  BY <1>3
<1>14. /\ \A d \in Drawn' : d.seq \in Nat /\ d.path \in P!Path
       /\ \A d \in Drawn' : d.boot = run /\ d.id = ordinal /\ d.seq >= seq + 1 => d.path = hand.path
  <2>1. \A d \in Drawn' : d \in drew \/ d = Now \/ (hand.path # <<>> /\ d = Now')
    BY <1>3 DEF Drawn
  <2>2. Now'.seq = seq + 2 /\ Now'.path = hand.path
    BY <1>1, <1>3 DEF Now
  <2>3. \A d \in drew : d.path \in P!Path /\ d.seq \in Nat /\ (d.boot = run => d.seq <= seq)
    BY DEF PresenceInv, P!TypeOK, PathBehind, P!DrawnType
  <2>. QED
    BY <1>1, <1>7, <2>1, <2>2, <2>3
<1>15. HeldIsFinal'
  BY <1>3, <1>13, NumberingKeeps
<1>16. ToldIsFinal'
  <2>. SUFFICES ASSUME NEW f \in sent', Stroke(f), NEW d \in Drawn', NEW e \in Drawn',
                       d.boot = f.boot, d.id = f.gesture.id, d.seq + 1 >= f.seq,
                       e.boot = f.boot, e.id = f.gesture.id, e.seq + 1 >= f.seq
                PROVE  Agree(d.path, e.path, f.gesture.from)
    BY DEF ToldIsFinal
  <2>1. CASE f \in sent
    BY <1>3, <1>13, <2>1, NumberingKeeps
  <2>2. CASE f = F
    <3>1. d.boot = run /\ d.id = ordinal /\ d.seq >= seq /\ e.boot = run /\ e.id = ordinal /\ e.seq >= seq
      <4>1. f.boot = run /\ f.seq = seq + 1 /\ f.gesture.id = ordinal
        BY <1>6, <1>8, <2>2
      <4>. QED
        BY ONLY <1>1, <1>14, <4>1, d \in Drawn', d.boot = f.boot, d.id = f.gesture.id,
                d.seq + 1 >= f.seq, e \in Drawn', e.boot = f.boot, e.id = f.gesture.id,
                e.seq + 1 >= f.seq
    <3>2. d.path \in P!Path /\ e.path \in P!Path /\ Len(d.path) \in Nat /\ Len(e.path) \in Nat
      BY <1>14, LenProperties DEF P!Path
    <3>3. CASE g.from = 0
      BY <1>6, <2>2, <3>2, <3>3 DEF Agree
    <3>4. CASE g.from # 0
      <4>1. tx.id = ordinal /\ g.from \in Nat /\ g.from <= tx.sent
        BY <1>8, <2>2, <3>4
      <4>2. Agree(d.path, e.path, tx.sent)
        BY <1>3, <1>13, <3>1, <4>1, NumberingKeeps
      <4>. QED
        BY <1>1, <1>6, <2>2, <3>2, <4>1, <4>2, AgreeOnLess
    <3>. QED
      BY <3>3, <3>4
  <2>. QED
    BY <1>3, <2>1, <2>2
<1>17. SentIsFinal'
  <2>. SUFFICES ASSUME tx'.id = ordinal, NEW d \in Drawn', NEW e \in Drawn',
                       d.boot = run, d.id = ordinal, d.seq >= seq + 1,
                       e.boot = run, e.id = ordinal, e.seq >= seq + 1
                PROVE  Agree(d.path, e.path, tx'.sent)
    BY <1>3 DEF SentIsFinal
  <2>1. d.path = hand.path /\ e.path = hand.path
    BY <1>14
  <2>. QED
    BY <1>1, <1>9, <2>1, AgreeReflexive
<1>18. FinalIsFrozen'
  <2>1. Assembly' = Assembly /\ Holding' = Holding
    BY <1>3 DEF Assembly, Holding
  <2>2. Stroke(F) /\ hand.path # <<>> => F.gesture.from <= hand.frozen
    BY <1>1, <1>6, <1>8 DEF PresenceInv, FinalIsFrozen
  <2>. QED
    BY <1>3, <1>9, <2>1, <2>2 DEF PresenceInv, FinalIsFrozen
<1>19. HeardIsSent' /\ P!HeldPathWasTheAuthors'
  BY <1>3 DEF PresenceInv, HeardIsSent, P!HeldPathWasTheAuthors
<1>20. OneFrameEach' /\ P!ClearingFrameIsOwed'
  BY <1>1, <1>3, <1>5, <1>6 DEF PresenceInv, PathBehind, OneFrameEach, P!ClearingFrameIsOwed
<1>. QED
  BY <1>10, <1>11, <1>12, <1>15, <1>16, <1>17, <1>18, <1>19, <1>20 DEF PresenceInv

(* A new run is another author, as far as frames go.                          *)
LEMMA RestartHolds ==
    ASSUME PresenceInv, P!Restart
    PROVE  PresenceInv'
<1>1. /\ run' = run + 1 /\ ordinal' = 0 /\ seq' = 0
      /\ hand' = [doing |-> "nothing", path |-> <<>>, frozen |-> 0]
      /\ tx' = [id |-> P!None, sent |-> 0]
      /\ UNCHANGED <<reports, sent, drew, peer>>
  BY DEF P!Restart, P!IdleHand, P!NewTx
<1>2. run \in Nat /\ peer.boot \in Int /\ peer.boot <= run
  BY DEF PresenceInv, P!TypeOK, PathBehind, P!Id, P!None
<1>3. /\ \A f \in sent : f.boot \in Nat /\ f.boot <= run
      /\ \A d \in drew : d.boot \in Nat /\ d.boot <= run
  BY DEF PresenceInv, P!TypeOK, PathBehind, P!FrameType, P!DrawnType
<1>4. P!TypeOK'
  BY <1>1, EmptySeq DEF PresenceInv, P!TypeOK, P!Id, P!Path
<1>5. PathBehind'
  BY <1>1, <1>2, <1>3 DEF PathBehind, P!None
<1>6. Drawn' \subseteq Drawn
  BY <1>1 DEF Drawn
<1>7. FramesShowStrokes' /\ ToldIsFinal' /\ SentIsFinal'
  BY <1>1, <1>6 DEF PresenceInv, FramesShowStrokes, ToldIsFinal, SentIsFinal, P!None
<1>8. HeldIsFinal' /\ FinalIsFrozen'
  BY <1>1, <1>6 DEF PresenceInv, HeldIsFinal, FinalIsFrozen, Assembly, Holding
<1>9. HeardIsSent' /\ OneFrameEach' /\ P!HeldPathWasTheAuthors'
  BY <1>1 DEF PresenceInv, HeardIsSent, OneFrameEach, P!HeldPathWasTheAuthors
<1>10. P!ClearingFrameIsOwed'
  BY <1>1, <1>2, <1>3 DEF P!ClearingFrameIsOwed
<1>. QED
  BY <1>4, <1>5, <1>7, <1>8, <1>9, <1>10 DEF PresenceInv

-------------------------------------------------------------------------------
(* The watcher                                                                *)

(* The watermark a frame finds.                                               *)
Kept(f) ==
    IF Holding /\ peer.boot = f.boot /\ peer.rx.id = f.gesture.id THEN Assembly.frozen ELSE 0

(* The assembly after a frame: none, the one there was, or the path the frame *)
(* was encoded from.                                                          *)
Cleared(f, rx) == rx.assembly = P!NoAssembly /\ rx.id \in {P!None, f.gesture.id}
                  /\ (P!Drawing(rx) => rx.id = f.gesture.id)

Untouched(f, rx) == /\ Holding /\ rx.assembly = Assembly
                    /\ f.boot = peer.boot /\ rx.id = peer.rx.id /\ rx.id = f.gesture.id

Drew(f, rx, d) ==
    /\ Stroke(f) /\ rx.id = f.gesture.id
    /\ d.boot = f.boot /\ d.seq = f.seq /\ d.id = f.gesture.id
    /\ rx.assembly = [path |-> d.path, last |-> f.seq,
                      frozen |-> P!Smaller(P!Larger(Kept(f), f.gesture.from), Len(d.path))]

LEMMA FramesApply ==
    ASSUME PresenceInv, NEW f \in sent,
           NEW rx, rx = P!Applied(IF f.boot = peer.boot THEN peer.rx ELSE P!IdleRx, f)
    PROVE  rx \in P!Rx /\ (Cleared(f, rx) \/ Untouched(f, rx) \/ \E d \in drew : Drew(f, rx, d))
<1>. DEFINE g == f.gesture
            was == P!Tracked(IF f.boot = peer.boot THEN peer.rx ELSE P!IdleRx, g.id)
            held == IF g.head THEN P!Opening(was.assembly) ELSE was.assembly
            new == IF held = P!NoAssembly /\ ~g.head THEN P!NoAssembly ELSE P!Spliced(held, f)
<1>1. /\ g.id \in P!Id /\ g.region \in BOOLEAN /\ g.head \in BOOLEAN /\ g.from \in Nat
      /\ g.points \in P!Path /\ f.seq \in Nat /\ peer.rx \in P!Rx /\ Assembly.frozen \in Nat
      /\ Assembly.path \in P!Path /\ Assembly.last \in P!Id
  BY DEF PresenceInv, P!TypeOK, P!FrameType, P!Gesture, P!Rx, P!AssemblyType, Assembly
<1>2. P!IdleRx \in P!Rx /\ P!IdleRx.assembly = P!NoAssembly /\ P!IdleRx.id = P!None /\ ~P!IdleRx.region
  BY EmptySeq DEF P!IdleRx, P!Rx, P!AssemblyType, P!NoAssembly, P!Id, P!None, P!Path
<1>10. /\ P!NoAssembly \in P!AssemblyType /\ Assembly \in P!AssemblyType
      /\ \A r \in BOOLEAN, a \in P!AssemblyType :
            LET x == [id |-> g.id, region |-> r, assembly |-> a]
            IN  x \in P!Rx /\ x.id = g.id /\ x.region = r /\ x.assembly = a
  BY <1>1, <1>2 DEF P!Rx, Assembly
<1>3. /\ was \in P!Rx
      /\ \/ was = P!IdleRx
         \/ was = peer.rx /\ f.boot = peer.boot /\ peer.rx.id = g.id
  BY <1>1, <1>2 DEF P!Tracked
<1>4. was.assembly.frozen = Kept(f)
  <2>1. CASE Holding /\ peer.boot = f.boot /\ peer.rx.id = g.id
    BY <2>1 DEF Kept, P!Tracked, Assembly
  <2>2. CASE ~(Holding /\ peer.boot = f.boot /\ peer.rx.id = g.id)
    <3>1. was.assembly = P!NoAssembly
      BY <1>2, <1>3, <2>2 DEF Holding, Assembly
    <3>. QED
      BY <2>2, <3>1 DEF Kept, P!NoAssembly
  <2>. QED
    BY <2>1, <2>2
<1>5. rx = IF g.id = P!None THEN P!IdleRx
           ELSE IF g.region THEN [P!IdleRx EXCEPT !.id = g.id, !.region = TRUE]
           ELSE IF was.region /\ ~g.head THEN was
           ELSE [id |-> g.id, region |-> FALSE, assembly |-> new]
  BY DEF P!Applied
<1>. HIDE DEF was
<1>6. CASE g.id = P!None
  BY <1>2, <1>5, <1>6 DEF Cleared, P!Drawing
<1>7. CASE g.id # P!None /\ g.region
  <2>1. rx = [id |-> g.id, region |-> TRUE, assembly |-> P!NoAssembly]
    BY <1>5, <1>7 DEF P!IdleRx
  <2>. QED
    <3>1. rx \in P!Rx /\ rx.id = g.id /\ rx.assembly = P!NoAssembly
      BY ONLY <1>10, <2>1
    <3>. QED
      BY <3>1 DEF Cleared
<1>8. CASE g.id # P!None /\ ~g.region /\ was.region /\ ~g.head
  <2>1. rx = peer.rx /\ f.boot = peer.boot /\ peer.rx.id = g.id
    BY <1>2, <1>3, <1>5, <1>8
  <2>2. CASE Holding
    BY <1>1, <2>1, <2>2 DEF Untouched, Assembly
  <2>3. CASE ~Holding
    BY <1>1, <2>1, <2>3 DEF Cleared, Assembly, Holding
  <2>. QED
    BY <2>2, <2>3
<1>9. CASE g.id # P!None /\ ~g.region /\ ~(was.region /\ ~g.head)
  <2>1. rx = [id |-> g.id, region |-> FALSE, assembly |-> new] /\ Stroke(f)
    BY <1>5, <1>9 DEF Stroke
  <2>2. PICK d \in drew : /\ d.boot = f.boot /\ d.seq = f.seq /\ d.id = g.id
                          /\ g.from <= Len(d.path)
                          /\ g.points = SubSeq(d.path, g.from + 1, Len(d.path))
    BY <2>1 DEF PresenceInv, FramesShowStrokes
  <2>3. d.path \in P!Path /\ Len(d.path) \in Nat
    BY LenProperties DEF PresenceInv, P!TypeOK, P!DrawnType, P!Path
  <2>. DEFINE w == P!Smaller(P!Larger(Kept(f), g.from), Len(d.path))
  <2>4. Kept(f) \in Nat /\ w \in Nat
    BY <1>1, <2>3 DEF Kept, P!Smaller, P!Larger
  <2>5. ASSUME NEW q \in P!Path, Agree(d.path, q, g.from), held.path = q,
               new = [path |-> SubSeq(q, 1, g.from) \o g.points, last |-> f.seq,
                      frozen |-> P!Smaller(P!Larger(Kept(f), g.from), Len(SubSeq(q, 1, g.from) \o g.points))]
        PROVE  rx \in P!Rx /\ Drew(f, rx, d)
    <3>1. SubSeq(q, 1, g.from) \o SubSeq(d.path, g.from + 1, Len(d.path)) = d.path
      <4>1. g.from \in Nat
        BY <1>1
      <4>. HIDE DEF g
      <4>. QED
        BY ONLY <2>3, <4>1, q \in P!Path, Agree(d.path, q, g.from), SplicedWhole
    <3>2. new = [path |-> d.path, last |-> f.seq, frozen |-> w]
      BY <2>2, <2>5, <3>1
    <3>3. [path |-> d.path, last |-> f.seq, frozen |-> w] \in P!AssemblyType
      BY <1>1, <2>3, <2>4 DEF P!AssemblyType, P!Id
    <3>. HIDE DEF w, new
    <3>4. rx \in P!Rx
      BY <1>10, <2>1, <3>2, <3>3
    <3>5. rx.assembly = [path |-> d.path, last |-> f.seq, frozen |-> w] /\ rx.id = g.id
      BY <2>1, <3>2
    <3>. QED
      BY <2>1, <2>2, <3>4, <3>5 DEF Drew, w
  <2>6. CASE g.head
    <3>1. g.from = 0
      BY <2>1, <2>6 DEF PresenceInv, FramesShowStrokes
    <3>2. held = [path |-> <<>>, frozen |-> Kept(f), last |-> P!None]
      BY <1>4, <2>6 DEF P!Opening, P!NoAssembly
    <3>3. <<>> \in P!Path /\ Len(<<>>) = 0
      BY EmptySeq DEF P!Path
    <3>4. new = P!Spliced(held, f)
      BY <2>6
    <3>5. new = [path |-> SubSeq(<<>>, 1, g.from) \o g.points, last |-> f.seq,
                 frozen |-> P!Smaller(P!Larger(Kept(f), g.from), Len(SubSeq(<<>>, 1, g.from) \o g.points))]
      <4>1. held.path = <<>> /\ held.frozen = Kept(f)
        BY <3>2
      <4>2. g.head /\ g.from = 0 /\ ~(g.from > Len(held.path))
        BY <2>6, <3>1, <3>3, <4>1
      <4>. HIDE DEF held
      <4>. QED
        BY <3>4, <4>1, <4>2 DEF P!Spliced
    <3>6. Agree(d.path, <<>>, g.from)
      BY <2>3, <3>1, <3>3 DEF Agree
    <3>7. held.path = <<>>
      BY <3>2
    <3>. HIDE DEF held, new
    <3>. QED
      BY <2>5, <3>3, <3>5, <3>6, <3>7
  <2>7. CASE ~g.head /\ was.assembly = P!NoAssembly
    <3>1. rx = [id |-> g.id, region |-> FALSE, assembly |-> P!NoAssembly]
      BY <2>1, <2>7
    <3>. QED
      <4>1. rx \in P!Rx /\ rx.id = g.id /\ rx.assembly = P!NoAssembly
        BY ONLY <1>10, <3>1
      <4>. QED
        BY <4>1 DEF Cleared
  <2>8. CASE ~g.head /\ was.assembly # P!NoAssembly
    <3>1. was = peer.rx /\ f.boot = peer.boot /\ peer.rx.id = g.id /\ held = Assembly /\ Holding
      BY <1>2, <1>3, <2>8 DEF Assembly, Holding
    <3>2. new = P!Spliced(Assembly, f) /\ Kept(f) = Assembly.frozen
      BY <2>8, <3>1 DEF Holding, Kept
    <3>3. CASE new = Assembly
      <4>1. rx = [id |-> g.id, region |-> FALSE, assembly |-> Assembly]
        BY <2>1, <3>3
      <4>. QED
        <5>1. rx \in P!Rx /\ rx.id = g.id /\ rx.assembly = Assembly
          BY ONLY <1>10, <4>1
        <5>. QED
          BY <3>1, <5>1 DEF Untouched
    <3>4. CASE new # Assembly
      <4>1. /\ P!Continues(Assembly, f)
            /\ new = [path |-> SubSeq(Assembly.path, 1, g.from) \o g.points, last |-> f.seq,
                      frozen |-> P!Smaller(P!Larger(Kept(f), g.from),
                                         Len(SubSeq(Assembly.path, 1, g.from) \o g.points))]
        BY <2>8, <3>2, <3>4 DEF P!Spliced
      <4>2. PICK e \in drew : /\ e.boot = peer.boot /\ e.seq = Assembly.last
                              /\ e.id = peer.rx.id /\ e.path = Assembly.path
        BY <3>1 DEF PresenceInv, P!HeldPathWasTheAuthors, Holding, Assembly
      <4>3. e.seq + 1 = f.seq /\ d.seq + 1 >= f.seq
        BY <1>1, <2>2, <4>1, <4>2 DEF P!Continues
      <4>4. Agree(d.path, e.path, g.from)
        BY <1>1, <2>1, <2>2, <3>1, <4>2, <4>3 DEF PresenceInv, ToldIsFinal, Drawn
      <4>. QED
        BY <1>1, <2>5, <3>1, <4>1, <4>2, <4>4
    <3>. QED
      BY <3>3, <3>4
  <2>. QED
    BY <2>6, <2>7, <2>8
<1>. QED
  BY <1>1, <1>6, <1>7, <1>8, <1>9

(* What a frame leaves below the watermark is final from that frame on, and   *)
(* nothing of what was below it is given up.                                  *)
LEMMA DrewIsFinal ==
    ASSUME PresenceInv, NEW f \in sent, peer = P!NoPeer \/ P!Newer(f),
           NEW rx \in P!Rx, NEW d \in drew, Drew(f, rx, d)
    PROVE  /\ rx.assembly.frozen <= Len(rx.assembly.path) /\ Kept(f) <= rx.assembly.frozen
           /\ \A e \in Drawn : e.boot = f.boot /\ e.id = f.gesture.id /\ e.seq >= f.seq
                  => Agree(e.path, rx.assembly.path, rx.assembly.frozen)
           /\ hand.path # <<>> /\ f.boot = run /\ f.gesture.id = ordinal
                  => rx.assembly.frozen <= hand.frozen
<1>. DEFINE k == Kept(f)
            n == f.gesture.from
<1>1. /\ f.gesture.from \in Nat /\ Assembly.frozen \in Nat /\ Assembly.last \in Int /\ Assembly.path \in P!Path
      /\ f.seq \in Nat /\ f.boot \in Nat /\ peer.boot \in Int /\ peer.seq \in Int
      /\ d.path \in P!Path /\ Len(d.path) \in Nat /\ d \in Drawn /\ hand.frozen \in Nat
  <2>1. d.path \in P!Path /\ d \in Drawn /\ hand.frozen \in Nat
    BY DEF PresenceInv, P!TypeOK, P!DrawnType, Drawn
  <2>2. Len(d.path) \in Nat
    BY <2>1, LenProperties DEF P!Path
  <2>3. f.gesture.from \in Nat /\ f.seq \in Nat /\ f.boot \in Nat
    BY DEF PresenceInv, P!TypeOK, P!FrameType, P!Gesture
  <2>4. Assembly \in P!AssemblyType /\ peer.boot \in Int /\ peer.seq \in Int
    BY DEF PresenceInv, P!TypeOK, P!Rx, Assembly, P!Id, P!None
  <2>5. Assembly.frozen \in Nat /\ Assembly.last \in Int /\ Assembly.path \in P!Path
    BY <2>4 DEF P!AssemblyType, P!Id, P!None
  <2>. QED
    BY <2>1, <2>2, <2>3, <2>4, <2>5
<1>2. k \in Nat /\ n \in Nat
  BY <1>1 DEF Kept
<1>3. rx.assembly.path = d.path /\ rx.assembly.frozen = P!Smaller(P!Larger(k, n), Len(d.path))
  BY DEF Drew
<1>4. ASSUME NEW e \in Drawn, e.boot = f.boot, e.id = f.gesture.id, e.seq >= f.seq
      PROVE  e.path \in P!Path /\ Agree(e.path, d.path, k) /\ Agree(e.path, d.path, n)
  <2>1. e.path \in P!Path /\ Len(e.path) \in Nat /\ e.seq \in Nat
    BY DrawnIsTyped, LenProperties DEF PresenceInv, P!DrawnType, P!Path
  <2>2. Agree(e.path, d.path, n)
    BY <1>1, <1>4, <2>1 DEF PresenceInv, ToldIsFinal, Drew
  <2>3. CASE Holding /\ peer.boot = f.boot /\ peer.rx.id = f.gesture.id
    <3>1. f.seq > peer.seq /\ Assembly.last <= peer.seq
      <4>1. Assembly.last <= peer.seq
        BY <2>3 DEF PresenceInv, HeldIsFinal
      <4>2. peer # P!NoPeer
        BY <2>3 DEF Holding, P!NoPeer, Assembly, P!IdleRx
      <4>. QED
        BY <1>1, <2>3, <4>1, <4>2 DEF P!Newer
    <3>2. e.seq >= Assembly.last /\ d.seq >= Assembly.last
      BY <1>1, <1>4, <2>1, <3>1 DEF Drew
    <3>3. Agree(e.path, Assembly.path, Assembly.frozen) /\ Agree(d.path, Assembly.path, Assembly.frozen)
      BY <1>1, <1>4, <2>3, <3>2 DEF PresenceInv, HeldIsFinal, Drew
    <3>. QED
      BY <2>1, <2>2, <2>3, <3>3, AgreeSymmetric, AgreeTransitive DEF Kept
  <2>4. CASE ~(Holding /\ peer.boot = f.boot /\ peer.rx.id = f.gesture.id)
    <3>1. k = 0
      BY <2>4 DEF Kept
    <3>2. Agree(e.path, d.path, 0)
      BY <1>1, <2>1 DEF Agree
    <3>. QED
      BY <2>1, <2>2, <3>1, <3>2
  <2>. QED
    BY <2>3, <2>4
<1>5. k <= Len(d.path) /\ n <= Len(d.path)
  BY <1>1, <1>4 DEF Drew, Agree
<1>6. rx.assembly.frozen = P!Larger(k, n)
  BY <1>1, <1>2, <1>3, <1>5 DEF P!Larger, P!Smaller
<1>7. hand.path # <<>> /\ f.boot = run /\ f.gesture.id = ordinal => k <= hand.frozen /\ n <= hand.frozen
  BY <1>1 DEF PresenceInv, FinalIsFrozen, Kept, Drew
<1>. HIDE DEF k, n
<1>8. \A e \in Drawn : e.boot = f.boot /\ e.id = f.gesture.id /\ e.seq >= f.seq
          => Agree(e.path, d.path, P!Larger(k, n))
  BY <1>1, <1>2, <1>4, AgreeOnMore
<1>. QED
  BY <1>1, <1>2, <1>3, <1>5, <1>6, <1>7, <1>8 DEF P!Larger, k

(* A watcher that holds nothing of the author, or only that they are there.   *)
LEMMA GoneHolds ==
    ASSUME PresenceInv, UNCHANGED <<run, ordinal, hand, reports, seq, tx, sent, drew>>,
           \/ peer' = P!NoPeer
           \/ peer # P!NoPeer /\ peer' = [peer EXCEPT !.rx = P!IdleRx]
    PROVE  PresenceInv'
<1>1. P!IdleRx \in P!Rx /\ P!IdleRx.assembly = P!NoAssembly /\ P!IdleRx.id = P!None /\ ~P!Drawing(P!IdleRx)
  BY EmptySeq DEF P!IdleRx, P!Rx, P!AssemblyType, P!NoAssembly, P!Id, P!None, P!Path, P!Drawing
<1>2. /\ peer'.boot \in P!Id /\ peer'.seq \in P!Id /\ peer'.rx = P!IdleRx /\ peer' \in [boot : P!Id, seq : P!Id, rx : P!Rx]
      /\ peer' # P!NoPeer => peer # P!NoPeer /\ peer'.boot = peer.boot /\ peer'.seq = peer.seq
      /\ peer' = P!NoPeer => peer'.boot = P!None
  BY <1>1 DEF P!NoPeer, PresenceInv, P!TypeOK, P!Id
<1>3. ~Holding' /\ Drawn' = Drawn
  BY <1>1, <1>2 DEF Holding, Assembly, Drawn, Now
<1>4. P!TypeOK'
  BY <1>2 DEF PresenceInv, P!TypeOK
<1>5. PathBehind'
  BY <1>1, <1>2 DEF PresenceInv, P!TypeOK, PathBehind, P!None
<1>6. HeldIsFinal' /\ FinalIsFrozen' /\ P!HeldPathWasTheAuthors'
  BY <1>3 DEF PresenceInv, HeldIsFinal, FinalIsFrozen, P!HeldPathWasTheAuthors, Holding, Assembly
<1>7. HeardIsSent'
  BY <1>1, <1>2 DEF PresenceInv, HeardIsSent
<1>8. FramesShowStrokes' /\ OneFrameEach' /\ P!ClearingFrameIsOwed'
  BY DEF PresenceInv, FramesShowStrokes, OneFrameEach, P!ClearingFrameIsOwed
<1>9. ToldIsFinal' /\ SentIsFinal'
  BY <1>3 DEF PresenceInv, ToldIsFinal, SentIsFinal
<1>. QED
  BY <1>4, <1>5, <1>6, <1>7, <1>8, <1>9 DEF PresenceInv

LEMMA MergeHolds ==
    ASSUME PresenceInv, P!Merge
    PROVE  PresenceInv'
<1>1. UNCHANGED <<run, shared, ordinal, hand, reports, seq, tx, sent, drew>>
  BY DEF P!Merge, P!author
<1>2. PICK f \in sent :
         /\ peer = P!NoPeer \/ P!Newer(f)
         /\ peer' = IF f.leaving THEN P!NoPeer
                    ELSE [boot |-> f.boot, seq |-> f.seq,
                          rx |-> P!Applied(IF f.boot = peer.boot THEN peer.rx ELSE P!IdleRx, f)]
  BY DEF P!Merge
<1>3. CASE f.leaving
  BY <1>1, <1>2, <1>3, GoneHolds
<1>4. CASE ~f.leaving
  <2>1. PICK rx : rx = P!Applied(IF f.boot = peer.boot THEN peer.rx ELSE P!IdleRx, f)
    OBVIOUS
  <2>2. rx \in P!Rx /\ (Cleared(f, rx) \/ Untouched(f, rx) \/ \E d \in drew : Drew(f, rx, d))
    BY <2>1, FramesApply
  <2>3. peer'.boot = f.boot /\ peer'.seq = f.seq /\ peer'.rx = rx /\ Assembly' = rx.assembly
    BY <1>2, <1>4, <2>1 DEF Assembly
  <2>4. /\ f.boot \in Nat /\ f.seq \in Nat /\ f.boot <= run
        /\ f.boot = run => f.seq <= seq /\ f.gesture.id <= ordinal
    BY DEF PresenceInv, P!TypeOK, PathBehind, P!FrameType
  <2>5. Drawn' = Drawn
    BY <1>1 DEF Drawn, Now
  <2>6. rx.id \in {P!None, f.gesture.id} /\ (P!Drawing(rx) => rx.id = f.gesture.id)
    BY <2>2 DEF Cleared, Untouched, Drew
  <2>7. P!TypeOK'
    BY <1>1, <1>2, <1>4, <2>1, <2>2, <2>4 DEF PresenceInv, P!TypeOK, P!Id
  <2>8. PathBehind'
    BY <1>1, <2>3, <2>4, <2>6 DEF PresenceInv, P!TypeOK, PathBehind, P!None
  <2>9. HeldIsFinal' /\ FinalIsFrozen' /\ P!HeldPathWasTheAuthors'
    <3>1. CASE Cleared(f, rx)
      BY <1>1, <2>3, <3>1 DEF PresenceInv, Cleared, HeldIsFinal, FinalIsFrozen, P!HeldPathWasTheAuthors,
                              Holding, Assembly
    <3>2. CASE Untouched(f, rx)
      <4>1. f.seq > peer.seq /\ peer.seq \in Int /\ Assembly.last \in Int
        BY <1>2, <2>4, <3>2 DEF Untouched, P!Newer, P!NoPeer, Holding, Assembly, P!IdleRx, PresenceInv, P!TypeOK, P!Rx,
                                P!AssemblyType, P!Id, P!None
      <4>2. Holding' = Holding /\ Assembly' = Assembly /\ peer'.boot = peer.boot /\ peer'.rx.id = peer.rx.id
        BY <2>3, <3>2 DEF Untouched, Holding
      <4>3. HeldIsFinal'
        BY <2>3, <2>4, <2>5, <4>1, <4>2 DEF PresenceInv, HeldIsFinal
      <4>4. FinalIsFrozen'
        BY <1>1, <4>2 DEF PresenceInv, FinalIsFrozen
      <4>5. P!HeldPathWasTheAuthors'
        BY <1>1, <4>2 DEF PresenceInv, P!HeldPathWasTheAuthors, Assembly
      <4>. QED
        BY <4>3, <4>4, <4>5
    <3>3. CASE \E d \in drew : Drew(f, rx, d)
      <4>1. PICK d \in drew : Drew(f, rx, d)
        BY <3>3
      <4>2. /\ rx.assembly.frozen <= Len(rx.assembly.path)
            /\ \A e \in Drawn : e.boot = f.boot /\ e.id = f.gesture.id /\ e.seq >= f.seq
                  => Agree(e.path, rx.assembly.path, rx.assembly.frozen)
            /\ hand.path # <<>> /\ f.boot = run /\ f.gesture.id = ordinal
                  => rx.assembly.frozen <= hand.frozen
        BY <1>2, <2>2, <4>1, DrewIsFinal
      <4>3. rx.id = f.gesture.id /\ rx.assembly.last = f.seq
            /\ d.boot = f.boot /\ d.seq = f.seq /\ d.id = f.gesture.id /\ rx.assembly.path = d.path
        BY <4>1 DEF Drew
      <4>4. HeldIsFinal'
        BY <2>3, <2>4, <2>5, <4>2, <4>3 DEF HeldIsFinal, P!None
      <4>5. FinalIsFrozen'
        BY <1>1, <2>3, <4>2, <4>3 DEF PresenceInv, FinalIsFrozen
      <4>6. P!HeldPathWasTheAuthors'
        BY <1>1, <2>3, <4>3 DEF P!HeldPathWasTheAuthors
      <4>. QED
        BY <4>4, <4>5, <4>6
    <3>. QED
      BY <2>2, <3>1, <3>2, <3>3
  <2>10. HeardIsSent'
    BY <1>1, <2>3, <2>6 DEF HeardIsSent
  <2>11. FramesShowStrokes' /\ OneFrameEach' /\ P!ClearingFrameIsOwed'
    BY <1>1 DEF PresenceInv, FramesShowStrokes, OneFrameEach, P!ClearingFrameIsOwed
  <2>12. ToldIsFinal' /\ SentIsFinal'
    BY <1>1, <2>5 DEF PresenceInv, ToldIsFinal, SentIsFinal
  <2>. QED
    BY <2>7, <2>8, <2>9, <2>10, <2>11, <2>12 DEF PresenceInv
<1>. QED
  BY <1>3, <1>4

LEMMA StepHolds == PresenceInv /\ [P!Next]_(P!vars) => PresenceInv'
<1>. SUFFICES ASSUME PresenceInv, [P!Next]_(P!vars) PROVE PresenceInv'
  OBVIOUS
<1>1. CASE P!StartStroke \/ P!StartRegion \/ P!Report \/ P!Steer \/ P!Snap \/ P!End
  BY <1>1, HandHolds
<1>2. CASE P!Publish
  BY <1>2, PublishHolds
<1>3. CASE P!Leave
  BY <1>3, LeaveHolds
<1>4. CASE P!Share \/ UNCHANGED P!vars
  <2>1. UNCHANGED <<run, ordinal, hand, reports, seq, tx, sent, drew, peer>>
    BY <1>4 DEF P!Share, P!vars
  <2>2. Drawn' = Drawn /\ Assembly' = Assembly /\ Holding' = Holding
    BY <2>1 DEF Drawn, Now, Assembly, Holding
  <2>3. P!TypeOK' /\ PathBehind' /\ FramesShowStrokes' /\ ToldIsFinal' /\ SentIsFinal'
    BY <2>1, <2>2 DEF PresenceInv, P!TypeOK, PathBehind, FramesShowStrokes, ToldIsFinal, SentIsFinal
  <2>4. HeldIsFinal' /\ FinalIsFrozen' /\ HeardIsSent' /\ OneFrameEach'
    BY <2>1, <2>2 DEF PresenceInv, HeldIsFinal, FinalIsFrozen, HeardIsSent, OneFrameEach
  <2>5. P!HeldPathWasTheAuthors' /\ P!ClearingFrameIsOwed'
    BY <2>1 DEF PresenceInv, P!HeldPathWasTheAuthors, P!ClearingFrameIsOwed
  <2>. QED
    BY <2>3, <2>4, <2>5 DEF PresenceInv
<1>5. CASE P!Restart
  BY <1>5, RestartHolds
<1>6. CASE P!Merge
  BY <1>6, MergeHolds
<1>7. CASE P!TakeDown
  <2>1. ~P!Drawing(P!NoPeer.rx)
    BY DEF P!NoPeer, P!IdleRx, P!Drawing
  <2>2. peer # P!NoPeer /\ peer' = [peer EXCEPT !.rx = P!IdleRx]
    BY <1>7, <2>1 DEF P!TakeDown
  <2>. QED
    BY <1>7, <2>2, GoneHolds DEF P!TakeDown, P!author
<1>8. CASE P!Forget
  BY <1>8, GoneHolds DEF P!Forget, P!author
<1>. QED
  BY <1>1, <1>2, <1>3, <1>4, <1>5, <1>6, <1>7, <1>8 DEF P!Next

LEMMA PresenceInvariance == P!Spec => []PresenceInv
BY InitHolds, StepHolds, PTL DEF P!Spec

(* The sender, the frames and the watcher keep their types.                   *)
THEOREM PresenceTyped == PresenceSpec => []P!TypeOK
<1>1. PresenceInv => P!TypeOK
  BY DEF PresenceInv
<1>. QED
  BY PresenceInvariance, <1>1, PTL DEF PresenceSpec

(* The stroke a watcher holds is one its author had: the splice (presence.rs, *)
(* Assembly::splice) never mixes gestures, runs or fits.                      *)
THEOREM WatchersHoldTheAuthorsPath == PresenceSpec => []HeldPathWasTheAuthors
<1>1. PresenceInv => P!HeldPathWasTheAuthors
  BY DEF PresenceInv
<1>. QED
  BY PresenceInvariance, <1>1, PTL DEF PresenceSpec, HeldPathWasTheAuthors

(* The author never again moves a point below a watcher's watermark, so the   *)
(* repaint that retires it is right to (presence.rs, Assembly::opening).      *)
THEOREM WatermarkIsFinal == PresenceSpec => []FrozenPointsAgree
<1>1. PresenceInv => P!FrozenPointsAgree
  <2>. SUFFICES ASSUME PresenceInv, NEW d \in drew, d.boot = peer.boot, d.id = peer.rx.id,
                       Holding, d.seq >= Assembly.last
                PROVE  SubSeq(d.path, 1, Assembly.frozen) = SubSeq(Assembly.path, 1, Assembly.frozen)
    BY DEF P!FrozenPointsAgree, Holding, Assembly
  <2>1. Agree(d.path, Assembly.path, Assembly.frozen)
    BY DEF PresenceInv, HeldIsFinal, Drawn
  <2>2. d.path \in P!Path /\ Assembly.path \in P!Path /\ Assembly.frozen \in Nat
    BY DEF PresenceInv, P!TypeOK, P!DrawnType, P!Rx, P!AssemblyType, Assembly
  <2>. QED
    BY <2>1, <2>2, AgreeingPrefixes
<1>. QED
  BY PresenceInvariance, <1>1, PTL DEF PresenceSpec, FrozenPointsAgree

(* A watcher that has heard the newest frame draws its gesture or none        *)
(* (presence.rs, GestureRx::apply).                                           *)
THEOREM TheNewestFrameRules == PresenceSpec => []NewestFrameRules
<1>1. PresenceInv => P!NewestFrameRules
  <2>. SUFFICES ASSUME PresenceInv, NEW f \in sent, f.boot = peer.boot, f.seq = peer.seq, P!Drawing(peer.rx)
                PROVE  peer.rx.id = f.gesture.id
    BY DEF P!NewestFrameRules
  <2>1. peer # P!NoPeer
    BY DEF P!NoPeer, P!IdleRx, P!Drawing
  <2>2. PICK g \in sent : g.boot = peer.boot /\ g.seq = peer.seq /\ peer.rx.id = g.gesture.id
    BY <2>1 DEF PresenceInv, HeardIsSent
  <2>. QED
    BY <2>2 DEF PresenceInv, OneFrameEach
<1>. QED
  BY PresenceInvariance, <1>1, PTL DEF PresenceSpec, NewestFrameRules

(* A run that still shows a gesture knows that it owes the frame that takes   *)
(* it down (presence.rs, PresenceTx::in_flight).                              *)
THEOREM TheClearingFrameIsOwed == PresenceSpec => []ClearingFrameIsOwed
<1>1. PresenceInv => P!ClearingFrameIsOwed
  BY DEF PresenceInv
<1>. QED
  BY PresenceInvariance, <1>1, PTL DEF PresenceSpec, ClearingFrameIsOwed

(* Within one gesture the watermark never walks back (presence.rs,            *)
(* Assembly::opening).                                                        *)
THEOREM TheWatermarkAdvances == PresenceSpec => WatermarkAdvances
<1>. DEFINE Advances ==
       peer.boot = peer'.boot /\ peer.rx.id = peer'.rx.id
       /\ peer.rx.assembly # P!NoAssembly /\ peer'.rx.assembly # P!NoAssembly
       => peer'.rx.assembly.frozen >= peer.rx.assembly.frozen
<1>1. PresenceInv /\ [P!Next]_(P!vars) => [Advances]_(P!vars)
  <2>. SUFFICES ASSUME PresenceInv, P!Next, peer.boot = peer'.boot, peer.rx.id = peer'.rx.id,
                       Holding, Holding'
                PROVE  Assembly'.frozen >= Assembly.frozen
    BY DEF Holding, Assembly
  <2>1. Assembly.frozen \in Nat
    BY DEF PresenceInv, P!TypeOK, P!Rx, P!AssemblyType, Assembly
  <2>2. CASE UNCHANGED peer
    BY <2>1, <2>2 DEF Assembly
  <2>3. CASE P!Merge
    <3>1. PICK f \in sent :
             /\ peer = P!NoPeer \/ P!Newer(f)
             /\ peer' = IF f.leaving THEN P!NoPeer
                        ELSE [boot |-> f.boot, seq |-> f.seq,
                              rx |-> P!Applied(IF f.boot = peer.boot THEN peer.rx ELSE P!IdleRx, f)]
      BY <2>3 DEF P!Merge
    <3>2. ~f.leaving
      BY <3>1 DEF Holding, Assembly, P!NoPeer, P!IdleRx
    <3>3. PICK rx : rx = P!Applied(IF f.boot = peer.boot THEN peer.rx ELSE P!IdleRx, f)
      OBVIOUS
    <3>4. rx \in P!Rx /\ (Cleared(f, rx) \/ Untouched(f, rx) \/ \E d \in drew : Drew(f, rx, d))
      BY <3>3, FramesApply
    <3>5. peer'.boot = f.boot /\ peer'.rx = rx /\ Assembly' = rx.assembly
      BY <3>1, <3>2, <3>3 DEF Assembly
    <3>6. ~Cleared(f, rx)
      BY <3>5 DEF Cleared, Holding
    <3>7. CASE Untouched(f, rx)
      BY <2>1, <3>5, <3>7 DEF Untouched
    <3>8. CASE \E d \in drew : Drew(f, rx, d)
      <4>1. PICK d \in drew : Drew(f, rx, d)
        BY <3>8
      <4>2. Kept(f) = Assembly.frozen
        BY <3>5, <4>1 DEF Kept, Drew
      <4>3. Kept(f) <= rx.assembly.frozen
        BY <3>1, <3>4, <4>1, DrewIsFinal
      <4>. QED
        BY <2>1, <3>4, <3>5, <4>2, <4>3 DEF P!Rx, P!AssemblyType
    <3>. QED
      BY <3>4, <3>6, <3>7, <3>8
  <2>4. CASE P!TakeDown \/ P!Forget
    <3>1. Assembly' = P!NoAssembly
      BY <2>4 DEF P!TakeDown, P!Forget, Assembly, P!NoPeer, P!IdleRx, PresenceInv, P!TypeOK
    <3>. QED
      BY <3>1 DEF Holding
  <2>. QED
    BY <2>2, <2>3, <2>4 DEF P!Next, P!StartStroke, P!StartRegion, P!Report, P!Steer, P!Snap, P!End,
                             P!Publish, P!Leave, P!Share, P!Restart
<1>2. [][Advances]_(P!vars) <=> P!WatermarkAdvances
  BY DEF P!WatermarkAdvances
<1>. QED
  BY PresenceInvariance, <1>1, <1>2, PTL DEF PresenceSpec, WatermarkAdvances, P!Spec
==============================================================================
