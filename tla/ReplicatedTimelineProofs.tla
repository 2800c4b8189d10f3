---------------------- MODULE ReplicatedTimelineProofs ----------------------
(***************************************************************************)
(* What holds of ReplicatedTimeline for any number of members, any set of  *)
(* kinds and footprints, and any number of actions.                        *)
(***************************************************************************)
EXTENDS ReplicatedTimeline, DocFoldProofs

-----------------------------------------------------------------------------
(* The undo algebra. *)

\* effect.rs undo_target answers an effective action of its actor, or nothing.
LEMMA UndoTargetIsOwn ==
  ASSUME NEW l \in SUBSET Action, NEW r, NEW gone, UndoTarget(l, r, gone) # NoId
  PROVE  \E a \in l : a.id = UndoTarget(l, r, gone) /\ a.id.actor = r
<1> DEFINE ids == {a.id : a \in {x \in Effective(l, gone) : x.id.actor = r}}
<1>1. Latest(ids) \in ids
  BY LatestIsMember DEF UndoTarget
<1> QED
  BY <1>1 DEF UndoTarget, Effective

\* effect.rs redo_target answers an Undo of its actor, or nothing.
LEMMA RedoTargetIsOwn ==
  ASSUME NEW l \in SUBSET Action, NEW r, NEW gone, RedoTarget(l, r, gone) # NoId
  PROVE  \E a \in l : a.id = RedoTarget(l, r, gone) /\ a.id.actor = r
<1> DEFINE latest == UndoTarget(l, r, gone)
           ids == {a.id : a \in {x \in Undos(l) :
                     /\ x.id.actor = r
                     /\ x.id \notin gone
                     /\ latest = NoId \/ IdLess(latest, x.id)
                     /\ x.target \in gone
                     /\ \E t \in l : t.id = x.target /\ Ordinary(t)}}
<1>1. RedoTarget(l, r, gone) = Latest(ids)
  BY DEF RedoTarget
<1> HIDE DEF ids
<1>2. Latest(ids) \in ids
  BY <1>1, LatestIsMember
<1>3. ids \subseteq {a.id : a \in {x \in l : x.id.actor = r}}
  BY DEF ids, Undos
<1> QED
  BY <1>1, <1>2, <1>3

LEMMA TargetsType ==
  ASSUME NEW l \in SUBSET Action, NEW r, NEW gone
  PROVE  Targets(l, r, gone) \in
           [undo : ActionId \cup {NoId}, redo : ActionId \cup {NoId}]
<1>1. UndoTarget(l, r, gone) \in ActionId \cup {NoId}
  BY UndoTargetIsOwn, ActionFields
<1>2. RedoTarget(l, r, gone) \in ActionId \cup {NoId}
  BY RedoTargetIsOwn, ActionFields
<1> QED
  BY <1>1, <1>2 DEF Targets

-----------------------------------------------------------------------------
(* timeline.rs insert's fast path: what an ordinary action newer than the     *)
(* whole log, and not undone, does to everything the timeline caches.         *)

LEMMA UndosOfPushed ==
  ASSUME NEW l, NEW a, Ordinary(a)
  PROVE  Undos(l \cup {a}) = Undos(l)
  BY DEF Undos

\* The undone set does not move: it is a function of the log's Undos alone.
LEMMA UndoneOfPushed ==
  ASSUME NEW l, NEW a, Ordinary(a)
  PROVE  UndoneIds(l \cup {a}) = UndoneIds(l)
  BY UndosOfPushed DEF UndoneIds

LEMMA EffectiveOfPushed ==
  ASSUME NEW l, NEW gone, NEW a, Ordinary(a), a.id \notin gone
  PROVE  Effective(l \cup {a}, gone) = Effective(l, gone) \cup {a}
  BY DEF Effective

\* retarget_appended on an action of the actor's own: it becomes the undo
\* target and leaves nothing to redo.
LEMMA TargetsOfOwnPush ==
  ASSUME NEW l \in SUBSET Action, NEW a \in Action, NEW gone,
         Ordinary(a), a.id \notin gone,
         \A b \in l : IdLess(b.id, a.id)
  PROVE  Targets(l \cup {a}, a.id.actor, gone) = [undo |-> a.id, redo |-> NoId]
<1> DEFINE r == a.id.actor
           new == l \cup {a}
           ids == {x.id : x \in {y \in Effective(new, gone) : y.id.actor = r}}
           redos == {x.id : x \in {y \in Undos(new) :
                       /\ y.id.actor = r
                       /\ y.id \notin gone
                       /\ a.id = NoId \/ IdLess(a.id, y.id)
                       /\ y.target \in gone
                       /\ \E t \in new : t.id = y.target /\ Ordinary(t)}}
<1>1. a.id \in ids
  BY DEF Effective
<1>2. ids \in SUBSET ActionId
  BY ActionFields DEF Effective
<1>3. \A i \in ids : i = a.id \/ IdLess(i, a.id)
  BY DEF Effective
<1>4. UndoTarget(new, r, gone) = a.id
  <2> HIDE DEF ids
  <2>1. Latest(ids) = a.id
    BY <1>1, <1>2, <1>3, LatestOfTop
  <2> QED
    BY <2>1 DEF UndoTarget, ids
<1>5. \A y \in Undos(new) : ~IdLess(a.id, y.id)
  <2>1. \A y \in Undos(new) : y \in l
    BY UndosOfPushed DEF Undos
  <2> QED
    BY <2>1, IdLessAsymmetric, ActionFields
<1>6. a.id # NoId
  BY NoIdIsNoActionId, ActionFields
<1>7. redos = {}
  BY <1>5, <1>6
<1>8. RedoTarget(new, r, gone) = Latest(redos)
  BY <1>4 DEF RedoTarget
<1> QED
  BY <1>4, <1>7, <1>8, LatestOfNone DEF Targets

\* retarget_appended on a peer's action: both targets hold.
LEMMA TargetsOfPeerPush ==
  ASSUME NEW l, NEW a, NEW r, NEW gone,
         Ordinary(a), a.id \notin gone, a.id.actor # r
  PROVE  Targets(l \cup {a}, r, gone) = Targets(l, r, gone)
<1> DEFINE new == l \cup {a}
<1>1. {x \in Effective(new, gone) : x.id.actor = r}
        = {x \in Effective(l, gone) : x.id.actor = r}
  BY EffectiveOfPushed
<1>2. UndoTarget(new, r, gone) = UndoTarget(l, r, gone)
  BY <1>1 DEF UndoTarget
<1>3. \A i \in gone : (\E t \in new : t.id = i /\ Ordinary(t))
                       <=> (\E t \in l : t.id = i /\ Ordinary(t))
  OBVIOUS
<1> DEFINE Redoable(m, latest) ==
             {x \in Undos(m) :
                /\ x.id.actor = r
                /\ x.id \notin gone
                /\ latest = NoId \/ IdLess(latest, x.id)
                /\ x.target \in gone
                /\ \E t \in m : t.id = x.target /\ Ordinary(t)}
<1>4. \A latest : Redoable(new, latest) = Redoable(l, latest)
  BY <1>3, UndosOfPushed
<1>5. \A m : RedoTarget(m, r, gone)
               = Latest({x.id : x \in Redoable(m, UndoTarget(m, r, gone))})
  BY DEF RedoTarget
<1>6. RedoTarget(new, r, gone) = RedoTarget(l, r, gone)
  BY <1>2, <1>4, <1>5, ZenonT(30)
<1> QED
  BY <1>2, <1>6 DEF Targets

-----------------------------------------------------------------------------
(* timeline.rs resync: making a history match an effective sequence.         *)

\* The shared prefix is found, and no longer one would do.
LEMMA PrefixFound ==
  ASSUME NEW s, NEW t, Len(s) \in Nat, Len(t) \in Nat
  PROVE  /\ CommonPrefix(s, t) \in 0..Len(s) /\ CommonPrefix(s, t) <= Len(t)
         /\ \A i \in 1..CommonPrefix(s, t) : s[i] = t[i]
         /\ CommonPrefix(s, t) < Len(s) /\ CommonPrefix(s, t) < Len(t) =>
              s[CommonPrefix(s, t) + 1] # t[CommonPrefix(s, t) + 1]
<1>. DEFINE Stops == {n \in Nat : n >= Len(s) \/ n >= Len(t) \/ s[n + 1] # t[n + 1]}
            Fits(n) == /\ n <= Len(t) /\ \A i \in 1..n : s[i] = t[i]
                       /\ n < Len(s) /\ n < Len(t) => s[n + 1] # t[n + 1]
<1>1. PICK n \in Stops : \A m \in Stops : n <= m
  <2>1. Stops \in SUBSET Nat
    BY ZenonT(30)
  <2>2. Len(s) >= Len(s)
    OBVIOUS
  <2>3. Len(s) \in Stops
    BY <2>2, ZenonT(30)
  <2>. HIDE DEF Stops
  <2>. QED
    BY <2>1, <2>3, LeastNumber
<1>2. \A m \in Nat : m < n => m < Len(s) /\ m < Len(t) /\ s[m + 1] = t[m + 1]
  BY <1>1
<1>3. n \in 0..Len(s) /\ n <= Len(t)
  <2>1. CASE n = 0
    BY <2>1
  <2>2. CASE n # 0
    <3>1. n - 1 \in Nat /\ n - 1 < n
      BY <1>1, <2>2
    <3>2. n - 1 < Len(s) /\ n - 1 < Len(t)
      BY <1>2, <3>1
    <3>. QED
      BY <1>1, <3>2
  <2>. QED
    BY <2>1, <2>2
<1>4. \A i \in 1..n : s[i] = t[i]
  <2>. SUFFICES ASSUME NEW i \in 1..n PROVE s[i] = t[i]
    OBVIOUS
  <2>1. i - 1 \in Nat /\ i - 1 < n /\ (i - 1) + 1 = i
    BY <1>1
  <2>. QED
    BY <1>2, <2>1
<1>5. Fits(n)
  BY <1>1, <1>3, <1>4
<1>6. CommonPrefix(s, t) = CHOOSE m \in 0..Len(s) : Fits(m)
  BY DEF CommonPrefix
<1>. HIDE DEF Fits
<1>7. CommonPrefix(s, t) \in 0..Len(s) /\ Fits(CommonPrefix(s, t))
  BY <1>3, <1>5, <1>6
<1>. QED
  BY <1>7 DEF Fits

\* Whichever of push, shift-out and rewind-and-replay resync chooses, what it
\* leaves is a fold of the effective sequence.
LEMMA MatchedIsHistory ==
  ASSUME NEW base, base = [c \in Cell |-> base[c]], NEW h, IsHistory(base, h),
         NEW eff, Edits(eff)
  PROVE  IsHistory(base, Matched(h, eff)) /\ Matched(h, eff).acts = eff
<1>. DEFINE n == CommonPrefix(h.acts, eff)
            rest == SubSeq(eff, n + 1, Len(eff))
<1>1. /\ Line(h.acts) /\ Line(eff) /\ Len(h.acts) \in Nat /\ Len(eff) \in Nat
      /\ \A i \in 1..Len(eff) : eff[i].kind \in Kind
  BY DEF IsHistory, Edits, Line
<1>2. /\ n \in 0..Len(h.acts) /\ n <= Len(eff)
      /\ \A i \in 1..n : h.acts[i] = eff[i]
      /\ n < Len(h.acts) /\ n < Len(eff) => h.acts[n + 1] # eff[n + 1]
  BY <1>1, PrefixFound
<1>3. Matched(h, eff) = IF n = Len(h.acts) THEN PushAll(h, rest)
                        ELSE IF OneLeft(h.acts, eff, n) THEN RemoveAction(h, n + 1)
                        ELSE PushAll(Rewind(h, n), rest)
  BY DEF Matched
<1>. HIDE DEF n
<1>4. /\ Line(rest) /\ Len(rest) = Len(eff) - n
      /\ \A i \in 1..Len(eff) - n : rest[i] = eff[n + i]
  <2>1. n + 1 \in Nat /\ Len(eff) \in Nat /\ n + 1 <= Len(eff) + 1
    BY <1>1, <1>2
  <2>2. /\ Line(rest) /\ Len(rest) = Len(eff) - (n + 1) + 1
        /\ \A i \in 1..Len(eff) - (n + 1) + 1 : rest[i] = eff[(n + 1) + i - 1]
    BY ONLY <2>1, SubSeqOfLine
  <2>3. Len(eff) - (n + 1) + 1 = Len(eff) - n /\ \A i \in 1..Len(eff) - n : (n + 1) + i - 1 = n + i
    BY <1>1, <1>2
  <2>. HIDE DEF rest
  <2>. QED
    BY <2>2, <2>3
<1>5. Edits(rest)
  <2>1. \A i \in 1..Len(eff) - n : n + i \in 1..Len(eff)
    BY <1>1, <1>2
  <2>. QED
    BY <1>1, <1>4, <2>1 DEF Edits
<1>. HIDE DEF rest
\* Keeping the first n of the history and pushing the rest of the sequence.
<1>6. ASSUME NEW g, IsHistory(base, g), Len(g.acts) = n, \A i \in 1..n : g.acts[i] = eff[i]
      PROVE  IsHistory(base, PushAll(g, rest)) /\ PushAll(g, rest).acts = eff
  <2>. DEFINE all == g.acts \o rest
  <2>1. IsHistory(base, PushAll(g, rest)) /\ PushAll(g, rest).acts = all
    BY <1>5, <1>6, PushAllIsHistory
  <2>2. Line(g.acts)
    BY <1>6 DEF IsHistory, Edits
  <2>3. /\ Line(all) /\ Len(all) = Len(g.acts) + Len(rest)
        /\ \A i \in 1..Len(g.acts) : all[i] = g.acts[i]
        /\ \A i \in 1..Len(rest) : all[Len(g.acts) + i] = rest[i]
    <3>1. Line(g.acts) /\ Line(rest)
      BY <1>4, <2>2
    <3>. QED
      BY ONLY <3>1, ConcatOfLines
  <2>. HIDE DEF all
  <2>4. Len(all) = Len(eff)
    BY <1>1, <1>2, <1>4, <1>6, <2>3
  <2>5. ASSUME NEW i \in 1..Len(eff) PROVE all[i] = eff[i]
    <3>1. CASE i <= n
      <4>1. i \in 1..n
        BY <1>1, <1>2, <3>1
      <4>. QED
        BY <1>6, <2>3, <4>1
    <3>2. CASE ~(i <= n)
      <4>1. i - n \in 1..Len(eff) - n /\ n + (i - n) = i
        BY <1>1, <1>2, <3>2
      <4>2. all[n + (i - n)] = rest[i - n]
        BY <1>4, <1>6, <2>3, <4>1
      <4>. QED
        BY <1>4, <4>1, <4>2
    <3>. QED
      BY <3>1, <3>2
  <2>6. all = eff
    BY <1>1, <2>3, <2>4, <2>5, LinesEqual
  <2>. QED
    BY <2>1, <2>6
<1>7. CASE n = Len(h.acts)
  BY <1>2, <1>3, <1>6, <1>7
<1>8. CASE n # Len(h.acts) /\ OneLeft(h.acts, eff, n)
  <2>. DEFINE g == RemoveAction(h, n + 1)
  <2>1. n + 1 \in 1..Len(h.acts)
    BY <1>1, <1>2, <1>8
  <2>2. /\ IsHistory(base, g) /\ Len(g.acts) = Len(h.acts) - 1
        /\ \A j \in 1..Len(h.acts) - 1 :
             g.acts[j] = IF j < n + 1 THEN h.acts[j] ELSE h.acts[j + 1]
    BY <2>1, RemoveActionIsHistory
  <2>3. /\ Len(eff) = Len(h.acts) - 1
        /\ \A i \in n + 1 .. Len(eff) : eff[i] = h.acts[i + 1]
    BY <1>1, <1>8 DEF OneLeft
  <2>. HIDE DEF g
  <2>4. ASSUME NEW j \in 1..Len(eff) PROVE g.acts[j] = eff[j]
    <3>1. CASE j < n + 1
      <4>1. j \in 1..n
        BY <1>1, <1>2, <3>1
      <4>. QED
        BY <1>2, <2>2, <2>3, <3>1, <4>1
    <3>2. CASE ~(j < n + 1)
      <4>1. j \in n + 1 .. Len(eff)
        BY <1>1, <1>2, <3>2
      <4>. QED
        BY <2>2, <2>3, <3>2, <4>1
    <3>. QED
      BY <3>1, <3>2
  <2>5. Line(g.acts)
    BY <2>2 DEF IsHistory, Edits
  <2>6. g.acts = eff
    BY <1>1, <2>2, <2>3, <2>4, <2>5, LinesEqual
  <2>7. Matched(h, eff) = g
    BY <1>3, <1>8 DEF g
  <2>. QED
    BY <2>2, <2>6, <2>7
<1>9. CASE n # Len(h.acts) /\ ~OneLeft(h.acts, eff, n)
  <2>. DEFINE g == Rewind(h, n)
  <2>1. n \in Nat /\ n <= Len(h.acts)
    BY <1>2
  <2>2. IsHistory(base, g) /\ g.acts = SubSeq(h.acts, 1, n)
    BY <2>1, RewindIsHistory
  <2>3. Len(g.acts) = n /\ \A i \in 1..n : g.acts[i] = eff[i]
    <3>1. /\ Len(SubSeq(h.acts, 1, n)) = n - 1 + 1
          /\ \A i \in 1..n - 1 + 1 : SubSeq(h.acts, 1, n)[i] = h.acts[1 + i - 1]
      <4>1. 1 \in Nat /\ n \in Nat /\ 1 <= n + 1
        BY <2>1
      <4>. QED
        BY ONLY <4>1, SubSeqOfLine
    <3>2. n - 1 + 1 = n /\ \A i \in 1..n : 1 + i - 1 = i
      BY <2>1
    <3>. QED
      BY <1>2, <2>2, <3>1, <3>2
  <2>4. Matched(h, eff) = PushAll(g, rest)
    BY <1>3, <1>9
  <2>. HIDE DEF g
  <2>. QED
    BY <1>6, <2>2, <2>3, <2>4
<1>. QED
  BY <1>7, <1>8, <1>9

-----------------------------------------------------------------------------
(* The inductive invariant.  The caches are fresh because insert either       *)
(* rederives them or meets the fast path's conditions; ids are distinct       *)
(* because a member's clock is past every id it minted and every id it holds. *)

\* A member's clock is past everything in its log, and the log is empty or has
\* a newest action: what resync_counters needs to find.
LogBehindClock ==
  \A r \in Actor :
    /\ \A a \in log[r] : a.id.lamport < clock[r]
    /\ log[r] # {} =>
         \E top \in log[r] : \A a \in log[r] : a.id.lamport <= top.id.lamport

\* Everything broadcast was minted by a member whose clock has moved past it.
MintedBehindClock ==
  \A a \in sent : a.id.actor \in joined /\ a.id.lamport < clock[a.id.actor]

LogsWereSent == \A r \in Actor : log[r] \subseteq sent

\* A member's materialization is the fold of its effective actions.
HistoriesFold ==
  /\ DOMAIN history = Actor
  /\ \A r \in joined :
       /\ IsHistory(Origin, history[r])
       /\ history[r].acts = EffectiveActions(log[r], undone[r])

IInv ==
  /\ TypeOK
  /\ CachesFresh
  /\ LogsWereSent
  /\ LogBehindClock
  /\ MintedBehindClock
  /\ DistinctIds
  /\ UndoAfterOwnTarget
  /\ IsFiniteSet(sent)
  /\ HistoriesFold

\* insert keeps the caches fresh and their types, whichever branch serves it.
LEMMA InsertKeepsCaches ==
  ASSUME IInv, NEW r \in joined, NEW a \in Action, Insert(r, a)
  PROVE  /\ log' \in [Actor -> SUBSET Action]
         /\ undone' \in [Actor -> SUBSET ActionId]
         /\ targets' \in
              [Actor -> [undo : ActionId \cup {NoId}, redo : ActionId \cup {NoId}]]
         /\ \A s \in Actor : s # r => log'[s] = log[s] /\ undone'[s] = undone[s]
                                        /\ targets'[s] = targets[s]
         /\ log'[r] = log[r] \/ log'[r] = log[r] \cup {a}
         /\ a.id \notin Ids(log[r]) => log'[r] = log[r] \cup {a}
         /\ undone'[r] = UndoneIds(log'[r])
         /\ targets'[r] = Targets(log'[r], r, undone'[r])
<1> USE DEF IInv
<1>1. /\ r \in Actor
      /\ log[r] \in SUBSET Action
      /\ undone[r] = UndoneIds(log[r])
      /\ targets[r] = Targets(log[r], r, undone[r])
  BY DEF TypeOK, CachesFresh
<1>2. CASE a.id \in Ids(log[r]) /\ UNCHANGED <<log, history, undone, targets>>
  BY <1>1, <1>2 DEF TypeOK
<1>3. CASE Appends(r, a) /\ Push(r, a)
  <2> DEFINE new == log[r] \cup {a}
  <2>1. /\ log' = [log EXCEPT ![r] = new]
        /\ undone' = undone
        /\ targets' = [targets EXCEPT ![r] =
             IF a.id.actor = r THEN [undo |-> a.id, redo |-> NoId] ELSE targets[r]]
    BY <1>3 DEF Push
  <2>2. log'[r] = new /\ undone'[r] = undone[r]
    BY <1>1, <2>1 DEF TypeOK
  <2>3. undone'[r] = UndoneIds(log'[r])
    BY <1>1, <1>3, <2>2, UndoneOfPushed DEF Appends
  <2>4. targets'[r] = Targets(new, r, undone[r])
    <3>1. CASE a.id.actor = r
      <4>1. targets'[r] = [undo |-> a.id, redo |-> NoId]
        BY <1>1, <2>1, <3>1 DEF TypeOK
      <4>2. Targets(new, a.id.actor, undone[r]) = [undo |-> a.id, redo |-> NoId]
        BY <1>1, <1>3, TargetsOfOwnPush DEF Appends
      <4> QED
        BY <3>1, <4>1, <4>2
    <3>2. CASE a.id.actor # r
      <4>1. targets'[r] = targets[r]
        BY <1>1, <2>1, <3>2 DEF TypeOK
      <4>2. Ordinary(a) /\ a.id \notin undone[r]
        BY <1>3 DEF Appends
      <4>3. Targets(new, r, undone[r]) = Targets(log[r], r, undone[r])
        BY <3>2, <4>2, TargetsOfPeerPush
      <4> QED
        BY <1>1, <4>1, <4>3
    <3> QED
      BY <3>1, <3>2
  <2>5. targets'[r] \in [undo : ActionId \cup {NoId}, redo : ActionId \cup {NoId}]
    <3>1. new \in SUBSET Action
      BY <1>1
    <3> QED
      BY <2>4, <3>1, TargetsType
  <2>6. /\ log' \in [Actor -> SUBSET Action]
        /\ undone' \in [Actor -> SUBSET ActionId]
    BY <1>1, <2>1 DEF TypeOK
  <2>7. targets' \in
          [Actor -> [undo : ActionId \cup {NoId}, redo : ActionId \cup {NoId}]]
    BY <1>1, <2>1, <2>5 DEF TypeOK
  <2>8. \A s \in Actor : s # r => log'[s] = log[s] /\ undone'[s] = undone[s]
                                   /\ targets'[s] = targets[s]
    BY <2>1 DEF TypeOK
  <2> QED
    BY <2>2, <2>3, <2>4, <2>6, <2>7, <2>8
<1>4. CASE Resync(r, log[r] \cup {a}, history[r])
  <2> DEFINE new == log[r] \cup {a}
             gone == UndoneIds(new)
  <2>1. /\ log' = [log EXCEPT ![r] = new]
        /\ undone' = [undone EXCEPT ![r] = gone]
        /\ targets' = [targets EXCEPT ![r] = Targets(new, r, gone)]
    BY <1>4 DEF Resync
  <2>2. new \in SUBSET Action /\ gone \in SUBSET ActionId
    BY <1>1, UndoneIdsType
  <2>3. Targets(new, r, gone) \in
          [undo : ActionId \cup {NoId}, redo : ActionId \cup {NoId}]
    BY <2>2, TargetsType
  <2> HIDE DEF new, gone
  <2>4. /\ log' \in [Actor -> SUBSET Action]
        /\ undone' \in [Actor -> SUBSET ActionId]
        /\ targets' \in
             [Actor -> [undo : ActionId \cup {NoId}, redo : ActionId \cup {NoId}]]
        /\ \A s \in Actor : s # r => log'[s] = log[s] /\ undone'[s] = undone[s]
                                       /\ targets'[s] = targets[s]
    BY <2>1, <2>2, <2>3 DEF TypeOK
  <2>5. log'[r] = new /\ undone'[r] = gone /\ targets'[r] = Targets(new, r, gone)
    BY <1>1, <2>1 DEF TypeOK
  <2>6. undone'[r] = UndoneIds(log'[r]) /\ targets'[r] = Targets(log'[r], r, undone'[r])
    BY <2>5 DEF gone
  <2> QED
    BY <2>4, <2>5, <2>6 DEF new
<1> QED
  BY <1>2, <1>3, <1>4 DEF Insert

\* What is broadcast, and so what a member has logged of it, is a log.
LEMMA LogsAreLogs ==
  ASSUME IInv
  PROVE  /\ IsLog(sent)
         /\ \A l \in SUBSET sent : IsLog(l)
         /\ \A r \in Actor : IsLog(log[r])
<1>1. \A l \in SUBSET sent : IsLog(l)
  BY FS_Subset DEF IInv, TypeOK, DistinctIds, IsLog
<1>. QED
  BY <1>1 DEF IInv, LogsWereSent

LEMMA OriginIsDocument == Origin = [c \in Cell |-> Origin[c]]
  BY DEF Origin

\* insert leaves the fold of the effective actions, whichever branch serves it:
\* the fast path because the newcomer takes the last slot, resync because each of
\* its three ways ends in the sequence it aims at.
LEMMA InsertKeepsHistories ==
  ASSUME IInv, NEW r \in joined, NEW a \in Action, IsLog(log[r] \cup {a}), Insert(r, a)
  PROVE  /\ DOMAIN history' = Actor
         /\ \A s \in Actor : s # r => history'[s] = history[s]
         /\ IsHistory(Origin, history'[r])
         /\ history'[r].acts = EffectiveActions(log'[r], undone'[r])
<1>1. /\ r \in Actor
      /\ log \in [Actor -> SUBSET Action] /\ undone \in [Actor -> SUBSET ActionId]
      /\ DOMAIN history = Actor
      /\ IsHistory(Origin, history[r])
      /\ history[r].acts = EffectiveActions(log[r], undone[r])
  BY DEF IInv, TypeOK, HistoriesFold
<1>2. CASE UNCHANGED <<log, history, undone, targets>>
  BY <1>1, <1>2
<1>3. CASE Appends(r, a) /\ Push(r, a)
  <2>1. /\ log'[r] = log[r] \cup {a} /\ undone'[r] = undone[r]
        /\ DOMAIN history' = Actor
        /\ \A s \in Actor : s # r => history'[s] = history[s]
        /\ history'[r] = PushAll(history[r], <<a>>)
    BY <1>1, <1>3 DEF Push
  <2>2. EffectiveActions(log[r] \cup {a}, undone[r])
          = EffectiveActions(log[r], undone[r]) \o <<a>>
    <3>1. \A u \in Undos(log[r]) : u.target # a.id
      <4>. SUFFICES ASSUME NEW u \in Undos(log[r]), u.target = a.id PROVE FALSE
        OBVIOUS
      <4>1. u \in log[r] /\ u \in Undos(sent) /\ u \in Action
        BY <1>1 DEF IInv, LogsWereSent, Undos
      <4>2. IdLess(u.target, u.id) /\ IdLess(u.id, a.id)
        BY <1>3, <4>1 DEF IInv, UndoAfterOwnTarget, Appends
      <4>. QED
        BY <4>1, <4>2, ActionFields, IdLessAsymmetric
    <3>2. IsLog(log[r])
      BY <1>1, LogsAreLogs
    <3>. QED
      BY <1>3, <3>1, <3>2, EffectiveOfAppended DEF Appends
  <2>3. Edits(<<a>>)
    <3>1. a.kind \in Kind
      BY <1>3, NoIdIsNoActionId DEF Appends, Ordinary, Action
    <3>. DEFINE one == <<a>>
    <3>2. Line(one) /\ Len(one) = 1 /\ one[1] = a
      BY LineOfOne
    <3>. HIDE DEF one
    <3>3. Edits(one)
      BY <3>1, <3>2 DEF Edits
    <3>. QED
      BY <3>3 DEF one
  <2>4. /\ IsHistory(Origin, PushAll(history[r], <<a>>))
        /\ PushAll(history[r], <<a>>).acts = history[r].acts \o <<a>>
    BY <1>1, <2>3, PushAllIsHistory
  <2>. QED
    BY <1>1, <2>1, <2>2, <2>4
<1>4. CASE Resync(r, log[r] \cup {a}, history[r])
  <2>. DEFINE new == log[r] \cup {a}
              gone == UndoneIds(new)
              eff == EffectiveActions(new, gone)
  <2>1. Edits(eff)
    BY EffectiveAreEdits
  <2>2. /\ log'[r] = new /\ undone'[r] = gone
        /\ DOMAIN history' = Actor
        /\ \A s \in Actor : s # r => history'[s] = history[s]
        /\ history'[r] = Matched(history[r], eff)
    BY <1>1, <1>4 DEF Resync
  <2>. HIDE DEF new, gone
  <2>3. IsHistory(Origin, Matched(history[r], eff)) /\ Matched(history[r], eff).acts = eff
    BY <1>1, <2>1, OriginIsDocument, MatchedIsHistory
  <2>. QED
    BY <2>2, <2>3
<1>. QED
  BY <1>2, <1>3, <1>4 DEF Insert

LEMMA NothingLogged ==
  /\ UndoneIds({}) = {}
  /\ \A r : Targets({}, r, {}) = NoTargets
<1>1. Undos({}) = {} /\ UndoneIds({}) = {}
  BY DEF Undos, UndoneIds, Suppressed
<1>2. \A r : UndoTarget({}, r, {}) = NoId
  BY LatestOfNone DEF UndoTarget, Effective
<1>3. \A r : RedoTarget({}, r, {}) = NoId
  BY <1>1, LatestOfNone DEF RedoTarget
<1> QED
  BY <1>1, <1>2, <1>3 DEF Targets, NoTargets

\* Host alone, with an empty log, satisfies the invariant.
LEMMA InitEstablishes == Init => IInv
<1> SUFFICES ASSUME Init PROVE IInv
  OBVIOUS
<1> USE HostAssumption DEF Init
<1>1. TypeOK
  BY DEF TypeOK, NoTargets
<1>2. CachesFresh
  BY NothingLogged DEF CachesFresh
<1>3. LogsWereSent /\ LogBehindClock /\ MintedBehindClock /\ DistinctIds
  BY DEF LogsWereSent, LogBehindClock, MintedBehindClock, DistinctIds
<1>4. UndoAfterOwnTarget
  BY DEF UndoAfterOwnTarget, Undos
<1>5. IsFiniteSet(sent)
  BY FS_EmptySet
<1>6. HistoriesFold
  <2>1. EffectiveActions({}, {}) = <<>>
    <3>. DEFINE none == EffectiveActions({}, {})
                empty == <<>>
    <3>1. IsLog({})
      BY FS_EmptySet DEF IsLog
    <3>2. Effective({}, {}) = {}
      BY DEF Effective
    <3>3. Line(none) /\ Len(none) = 0
      BY <3>1, <3>2, EffectiveInOrder, FS_EmptySet
    <3>4. Line(empty) /\ Len(empty) = 0
      BY LineOfNone
    <3>5. none = empty
      <4>. HIDE DEF none, empty
      <4>. QED
        BY <3>3, <3>4, LinesEqual
    <3>. QED
      BY <3>5
  <2>2. IsHistory(Origin, NewHistory(Origin)) /\ NewHistory(Origin).acts = <<>>
    BY NewHistoryIsHistory
  <2>. QED
    BY <2>1, <2>2 DEF HistoriesFold
<1> QED
  BY <1>1, <1>2, <1>3, <1>4, <1>5, <1>6 DEF IInv

\* commit_sanitized: a fresh id, inserted and queued.
LEMMA CommitPreserves ==
  ASSUME IInv, NEW r \in joined, NEW target, NEW kind,
         CommitWith(r, target, kind),
         [id |-> NextId(r), target |-> target, kind |-> kind] \in Action,
         target # NoId => target.actor = r /\ target.lamport < clock[r]
  PROVE  IInv' /\ \A x \in sent' \ sent : \A b \in log[x.id.actor] : IdLess(b.id, x.id)
<1> DEFINE a == [id |-> NextId(r), target |-> target, kind |-> kind]
<1>1. /\ Insert(r, a)
      /\ clock' = [clock EXCEPT ![r] = clock[r] + 1]
      /\ sent' = sent \cup {a}
      /\ joined' = joined
  BY DEF CommitWith
<1>2. /\ a \in Action
      /\ a.id = [lamport |-> clock[r], actor |-> r]
      /\ a.id.lamport = clock[r] /\ a.id.actor = r /\ a.target = target
  BY DEF NextId
<1> HIDE DEF a
<1>3. /\ r \in Actor /\ joined \subseteq Actor /\ clock \in [Actor -> Nat]
      /\ clock[r] \in Nat /\ log[r] \subseteq sent
      /\ log \in [Actor -> SUBSET Action] /\ sent \subseteq Action
  BY DEF IInv, TypeOK, LogsWereSent
<1>4. clock' \in [Actor -> Nat] /\ clock'[r] = clock[r] + 1
        /\ \A s \in Actor : s # r => clock'[s] = clock[s]
  BY <1>1, <1>3
<1>5. \A b \in log[r] : b.id.lamport \in Nat /\ b.id.lamport < clock[r] /\ IdLess(b.id, a.id)
  BY <1>2, <1>3, ActionFields DEF IInv, LogBehindClock, IdLess
<1>6. \A b \in sent : b.id.lamport \in Nat /\ b.id # a.id
  <2>1. \A b \in sent : b.id.lamport \in Nat /\ b.id.actor \in Actor
    BY <1>3, ActionFields
  <2>2. \A b \in sent : b.id.actor = r => b.id.lamport < clock[r]
    BY <1>3 DEF IInv, MintedBehindClock
  <2> QED
    BY <1>2, <1>3, <2>1, <2>2
<1>7. log'[r] = log[r] \cup {a}
  BY <1>1, <1>2, <1>3, <1>6, InsertKeepsCaches DEF Ids
<1>8. \A s \in Actor : s # r => log'[s] = log[s] /\ undone'[s] = undone[s]
                                  /\ targets'[s] = targets[s]
  BY <1>1, <1>2, InsertKeepsCaches
<1>9. TypeOK'
  BY <1>1, <1>2, <1>3, <1>4, InsertKeepsCaches DEF TypeOK
<1>10. CachesFresh'
  <2>1. undone'[r] = UndoneIds(log'[r]) /\ targets'[r] = Targets(log'[r], r, undone'[r])
    BY <1>1, <1>2, InsertKeepsCaches
  <2>2. ASSUME NEW s \in joined, s # r
        PROVE  undone'[s] = UndoneIds(log'[s]) /\ targets'[s] = Targets(log'[s], s, undone'[s])
    BY <1>3, <1>8, <2>2 DEF IInv, CachesFresh
  <2> QED
    BY <1>1, <2>1, <2>2 DEF CachesFresh
<1>11. LogsWereSent'
  BY <1>1, <1>7, <1>8 DEF IInv, LogsWereSent
<1>12. LogBehindClock'
  <2>1. \A b \in log'[r] : b.id.lamport < clock'[r] /\ b.id.lamport <= a.id.lamport
    BY <1>2, <1>3, <1>4, <1>5, <1>7
  <2>2. a \in log'[r]
    BY <1>7
  <2> QED
    BY <1>4, <1>8, <2>1, <2>2 DEF IInv, LogBehindClock
<1>13. MintedBehindClock'
  <2>1. ASSUME NEW b \in sent PROVE b.id.actor \in joined /\ b.id.lamport < clock'[b.id.actor]
    BY <1>3, <1>4, <1>6 DEF IInv, MintedBehindClock
  <2> QED
    BY <1>1, <1>2, <1>3, <1>4, <2>1 DEF MintedBehindClock
<1>14. DistinctIds'
  BY <1>1, <1>6 DEF IInv, DistinctIds
<1>15. UndoAfterOwnTarget'
  <2>1. ~Ordinary(a) => IdLess(a.target, a.id) /\ a.target.actor = a.id.actor
    BY <1>2 DEF Ordinary, IdLess
  <2> QED
    BY <1>1, <2>1 DEF IInv, UndoAfterOwnTarget, Undos
<1>16. \A x \in sent' \ sent : \A b \in log[x.id.actor] : IdLess(b.id, x.id)
  BY <1>1, <1>2, <1>5
<1>17. IsFiniteSet(sent')
  BY <1>1, FS_AddElement DEF IInv
<1>18. HistoriesFold'
  <2>1. IsLog(log[r] \cup {a})
    <3>1. IsLog(log[r])
      BY <1>3, LogsAreLogs
    <3>. QED
      BY <1>2, <1>3, <1>6, <3>1, FS_AddElement DEF IsLog
  <2>2. /\ DOMAIN history' = Actor
        /\ \A s \in Actor : s # r => history'[s] = history[s]
        /\ IsHistory(Origin, history'[r])
        /\ history'[r].acts = EffectiveActions(log'[r], undone'[r])
    BY <1>1, <1>2, <2>1, InsertKeepsHistories
  <2>. QED
    BY <1>1, <1>3, <1>8, <2>2 DEF IInv, HistoriesFold
<1> QED
  BY <1>9, <1>10, <1>11, <1>12, <1>13, <1>14, <1>15, <1>16, <1>17, <1>18 DEF IInv

\* merge_remote: whatever was sent, whenever it comes and however often.
LEMMA MergePreserves ==
  ASSUME IInv, NEW r \in Actor, NEW a \in sent, MergeRemote(r, a)
  PROVE  IInv'
<1>1. /\ Insert(r, a)
      /\ clock' = [clock EXCEPT ![r] = IF clock[r] > a.id.lamport THEN clock[r]
                                       ELSE a.id.lamport + 1]
      /\ r \in joined
      /\ sent' = sent
      /\ joined' = joined
  BY DEF MergeRemote
<1>2. /\ joined \subseteq Actor /\ clock \in [Actor -> Nat] /\ clock[r] \in Nat
      /\ log \in [Actor -> SUBSET Action] /\ sent \subseteq Action
      /\ a \in Action /\ a.id.lamport \in Nat /\ log[r] \subseteq sent
      /\ \A b \in sent : b.id.lamport \in Nat /\ b.id.actor \in Actor
  BY ActionFields DEF IInv, TypeOK, LogsWereSent
<1>3. /\ clock' \in [Actor -> Nat]
      /\ clock'[r] >= clock[r] /\ clock'[r] > a.id.lamport
      /\ \A s \in Actor : s # r => clock'[s] = clock[s]
  BY <1>1, <1>2
<1>4. /\ log'[r] = log[r] \/ log'[r] = log[r] \cup {a}
      /\ \A s \in Actor : s # r => log'[s] = log[s] /\ undone'[s] = undone[s]
                                     /\ targets'[s] = targets[s]
  BY <1>1, <1>2, InsertKeepsCaches
<1>5. TypeOK'
  BY <1>1, <1>2, <1>3, InsertKeepsCaches DEF TypeOK
<1>6. CachesFresh'
  <2>1. undone'[r] = UndoneIds(log'[r]) /\ targets'[r] = Targets(log'[r], r, undone'[r])
    BY <1>1, <1>2, InsertKeepsCaches
  <2>2. ASSUME NEW s \in joined, s # r
        PROVE  undone'[s] = UndoneIds(log'[s]) /\ targets'[s] = Targets(log'[s], s, undone'[s])
    BY <1>2, <1>4, <2>2 DEF IInv, CachesFresh
  <2> QED
    BY <1>1, <2>1, <2>2 DEF CachesFresh
<1>7. LogsWereSent'
  BY <1>1, <1>4 DEF IInv, LogsWereSent
<1>8. LogBehindClock'
  <2>1. \A b \in log'[r] : b.id.lamport < clock'[r]
    BY <1>2, <1>3, <1>4 DEF IInv, LogBehindClock
  <2>2. log'[r] # {} =>
          \E top \in log'[r] : \A b \in log'[r] : b.id.lamport <= top.id.lamport
    <3>1. CASE log'[r] = log[r]
      BY <3>1 DEF IInv, LogBehindClock
    <3>2. CASE log'[r] = log[r] \cup {a} /\ log[r] = {}
      BY <1>2, <3>2
    <3>3. CASE log'[r] = log[r] \cup {a} /\ log[r] # {}
      <4>1. PICK top \in log[r] : \A b \in log[r] : b.id.lamport <= top.id.lamport
        BY <3>3 DEF IInv, LogBehindClock
      <4>2. CASE top.id.lamport <= a.id.lamport
        BY <1>2, <3>3, <4>1, <4>2, SMTT(30)
      <4>3. CASE ~(top.id.lamport <= a.id.lamport)
        BY <1>2, <3>3, <4>1, <4>3
      <4> QED
        BY <4>2, <4>3
    <3> QED
      BY <1>4, <3>1, <3>2, <3>3
  <2> QED
    BY <1>3, <1>4, <2>1, <2>2 DEF IInv, LogBehindClock
<1>9. MintedBehindClock'
  BY <1>1, <1>2, <1>3 DEF IInv, MintedBehindClock
<1>10. DistinctIds' /\ UndoAfterOwnTarget' /\ IsFiniteSet(sent')
  BY <1>1 DEF IInv, DistinctIds, UndoAfterOwnTarget
<1>11. HistoriesFold'
  <2>1. IsLog(log[r] \cup {a})
    BY <1>2, LogsAreLogs
  <2>2. /\ DOMAIN history' = Actor
        /\ \A s \in Actor : s # r => history'[s] = history[s]
        /\ IsHistory(Origin, history'[r])
        /\ history'[r].acts = EffectiveActions(log'[r], undone'[r])
    BY <1>1, <1>2, <2>1, InsertKeepsHistories
  <2>. QED
    BY <1>1, <1>2, <1>4, <2>2 DEF IInv, HistoriesFold
<1> QED
  BY <1>5, <1>6, <1>7, <1>8, <1>9, <1>10, <1>11 DEF IInv

\* resync_counters: the clock goes past everything the snapshot held.
LEMMA NewestLamportBounds ==
  ASSUME NEW l \in SUBSET Action, NEW top \in l,
         \A b \in l : b.id.lamport <= top.id.lamport
  PROVE  NewestLamport(l) \in Nat /\ \A b \in l : b.id.lamport <= NewestLamport(l)
<1> DEFINE lamports == {b.id.lamport : b \in l}
           Bound(n) == \A b \in l : b.id.lamport <= n
<1>1. top.id.lamport \in lamports /\ Bound(top.id.lamport)
  OBVIOUS
<1>2. lamports \subseteq Nat
  BY ActionFields
<1>3. NewestLamport(l) = CHOOSE n \in lamports : Bound(n)
  BY DEF NewestLamport
<1> HIDE DEF lamports, Bound
<1>4. NewestLamport(l) \in lamports /\ Bound(NewestLamport(l))
  BY <1>1, <1>3
<1> QED
  BY <1>2, <1>4 DEF Bound

\* join_collaboration: everything of the newcomer's comes from one snapshot.
LEMMA JoinPreserves ==
  ASSUME IInv, NEW r \in Actor, NEW s \in Actor, Join(r, s)
  PROVE  IInv'
<1> DEFINE gone == UndoneIds(log[s])
           past == IF log[s] = {} THEN 0 ELSE NewestLamport(log[s]) + 1
<1>1. /\ r \notin joined /\ s \in joined
      /\ joined' = joined \cup {r}
      /\ log' = [log EXCEPT ![r] = log[s]]
      /\ undone' = [undone EXCEPT ![r] = gone]
      /\ targets' = [targets EXCEPT ![r] = Targets(log[s], r, gone)]
      /\ clock' = [clock EXCEPT ![r] = past]
      /\ sent' = sent
  BY DEF Join, Resync
<1>2. /\ joined \subseteq Actor /\ clock \in [Actor -> Nat]
      /\ log \in [Actor -> SUBSET Action] /\ sent \subseteq Action
      /\ log[s] \subseteq sent
      /\ undone \in [Actor -> SUBSET ActionId]
  BY DEF IInv, TypeOK, LogsWereSent
<1>3. gone \in SUBSET ActionId
  BY <1>2, UndoneIdsType
<1>4. Targets(log[s], r, gone) \in
        [undo : ActionId \cup {NoId}, redo : ActionId \cup {NoId}]
  BY <1>2, TargetsType
<1>5. past \in Nat /\ \A b \in log[s] : b.id.lamport < past
  <2>1. CASE log[s] = {}
    BY <2>1
  <2>2. CASE log[s] # {}
    <3>1. PICK top \in log[s] : \A b \in log[s] : b.id.lamport <= top.id.lamport
      BY <2>2 DEF IInv, LogBehindClock
    <3>2. NewestLamport(log[s]) \in Nat
            /\ \A b \in log[s] : b.id.lamport <= NewestLamport(log[s])
      BY <1>2, <3>1, NewestLamportBounds
    <3>3. \A b \in log[s] : b.id.lamport \in Nat
      BY <1>2, ActionFields
    <3> QED
      BY <2>2, <3>2, <3>3
  <2> QED
    BY <2>1, <2>2
<1> HIDE DEF gone, past
<1>6. /\ log'[r] = log[s] /\ undone'[r] = gone /\ clock'[r] = past
      /\ targets'[r] = Targets(log[s], r, gone)
      /\ \A q \in Actor : q # r => /\ log'[q] = log[q] /\ undone'[q] = undone[q]
                                   /\ clock'[q] = clock[q] /\ targets'[q] = targets[q]
  BY <1>1, <1>2 DEF IInv, TypeOK
<1>7. TypeOK'
  BY <1>1, <1>2, <1>3, <1>4, <1>5 DEF IInv, TypeOK
<1>8. CachesFresh'
  <2>1. undone'[r] = UndoneIds(log'[r]) /\ targets'[r] = Targets(log'[r], r, undone'[r])
    BY <1>6 DEF gone
  <2>2. ASSUME NEW q \in joined
        PROVE  undone'[q] = UndoneIds(log'[q]) /\ targets'[q] = Targets(log'[q], q, undone'[q])
    BY <1>1, <1>2, <1>6 DEF IInv, CachesFresh
  <2> QED
    BY <1>1, <2>1, <2>2 DEF CachesFresh
<1>9. LogsWereSent'
  BY <1>1, <1>2, <1>6 DEF IInv, LogsWereSent
<1>10. LogBehindClock'
  <2>1. \A b \in log'[r] : b.id.lamport < clock'[r]
    BY <1>5, <1>6
  <2>2. log'[r] # {} =>
          \E top \in log'[r] : \A b \in log'[r] : b.id.lamport <= top.id.lamport
    BY <1>6 DEF IInv, LogBehindClock
  <2> QED
    BY <1>6, <2>1, <2>2 DEF IInv, LogBehindClock
<1>11. MintedBehindClock'
  <2>1. \A b \in sent : b.id.actor \in Actor /\ b.id.actor # r
    BY <1>1, <1>2 DEF IInv, MintedBehindClock
  <2> QED
    BY <1>1, <1>6, <2>1 DEF IInv, MintedBehindClock
<1>12. DistinctIds' /\ UndoAfterOwnTarget' /\ IsFiniteSet(sent')
  BY <1>1 DEF IInv, DistinctIds, UndoAfterOwnTarget
<1>13. HistoriesFold'
  <2>. DEFINE eff == EffectiveActions(log[s], gone)
  <2>1. history' = [history EXCEPT ![r] = Matched(NewHistory(Origin), eff)]
    BY DEF Join, Resync, gone
  <2>2. Edits(eff)
    BY LogsAreLogs, EffectiveAreEdits
  <2>. HIDE DEF eff
  <2>3. /\ IsHistory(Origin, Matched(NewHistory(Origin), eff))
        /\ Matched(NewHistory(Origin), eff).acts = eff
    BY <2>2, OriginIsDocument, NewHistoryIsHistory, MatchedIsHistory
  <2>4. ASSUME NEW q \in joined'
        PROVE  /\ IsHistory(Origin, history'[q])
               /\ history'[q].acts = EffectiveActions(log'[q], undone'[q])
    <3>1. CASE q = r
      BY <1>6, <2>1, <2>3, <3>1 DEF IInv, HistoriesFold, eff
    <3>2. CASE q # r
      BY <1>1, <1>2, <1>6, <2>1, <3>2 DEF IInv, HistoriesFold
    <3>. QED
      BY <3>1, <3>2
  <2>. QED
    BY <2>1, <2>4 DEF IInv, HistoriesFold
<1> QED
  BY <1>7, <1>8, <1>9, <1>10, <1>11, <1>12, <1>13 DEF IInv

-----------------------------------------------------------------------------
(* The theorems. *)

LEMMA MintedIdIsActionId ==
  ASSUME IInv, NEW r \in joined
  PROVE  NextId(r) \in ActionId
  BY DEF IInv, TypeOK, NextId, ActionId

\* An id a cached target names was minted by r, behind r's clock.
LEMMA TargetsAreOwn ==
  ASSUME IInv, NEW r \in joined, NEW t \in {targets[r].undo, targets[r].redo}, t # NoId
  PROVE  t \in ActionId /\ t.actor = r /\ t.lamport < clock[r]
<1>1. /\ r \in Actor /\ log[r] \in SUBSET Action
      /\ targets[r] = Targets(log[r], r, undone[r])
  BY DEF IInv, TypeOK, CachesFresh
<1>2. t = UndoTarget(log[r], r, undone[r]) \/ t = RedoTarget(log[r], r, undone[r])
  BY <1>1 DEF Targets
<1>3. \E a \in log[r] : a.id = t /\ a.id.actor = r
  BY <1>1, <1>2, UndoTargetIsOwn, RedoTargetIsOwn
<1> QED
  BY <1>1, <1>3, ActionFields DEF IInv, LogBehindClock

\* One step keeps the invariant, and what it mints follows what its author saw.
LEMMA StepPreserves ==
  ASSUME IInv, [Next]_vars
  PROVE  IInv' /\ \A x \in sent' \ sent : \A b \in log[x.id.actor] : IdLess(b.id, x.id)
<1>1. ASSUME NEW r \in Actor, NEW kind \in Kind, Commit(r, kind)
      PROVE  IInv' /\ \A x \in sent' \ sent : \A b \in log[x.id.actor] : IdLess(b.id, x.id)
  <2>1. r \in joined /\ CommitWith(r, NoId, kind)
    BY <1>1 DEF Commit, CommitWith
  <2>2. [id |-> NextId(r), target |-> NoId, kind |-> kind] \in Action
    BY <2>1, MintedIdIsActionId DEF Action
  <2> QED
    BY <2>1, <2>2, CommitPreserves
<1>2. ASSUME NEW r \in Actor, Undo(r) \/ Redo(r)
      PROVE  IInv' /\ \A x \in sent' \ sent : \A b \in log[x.id.actor] : IdLess(b.id, x.id)
  <2>1. PICK t \in {targets[r].undo, targets[r].redo} :
               t # NoId /\ CommitWith(r, t, UndoKind)
    BY <1>2 DEF Undo, Redo
  <2>2. r \in joined
    BY <2>1 DEF CommitWith
  <2>3. t \in ActionId /\ t.actor = r /\ t.lamport < clock[r]
    BY <2>1, <2>2, TargetsAreOwn
  <2>4. [id |-> NextId(r), target |-> t, kind |-> UndoKind] \in Action
    BY <2>2, <2>3, MintedIdIsActionId DEF Action
  <2> QED
    BY <2>1, <2>2, <2>3, <2>4, CommitPreserves
<1>3. ASSUME NEW r \in Actor, NEW a \in sent, MergeRemote(r, a)
      PROVE  IInv' /\ sent' = sent
  BY <1>3, MergePreserves DEF MergeRemote
<1>4. ASSUME NEW r \in Actor, NEW s \in Actor, Join(r, s)
      PROVE  IInv' /\ sent' = sent
  BY <1>4, JoinPreserves DEF Join
<1>5. CASE UNCHANGED vars
  BY <1>5 DEF vars, IInv, TypeOK, CachesFresh, LogsWereSent, LogBehindClock,
              MintedBehindClock, DistinctIds, UndoAfterOwnTarget, HistoriesFold
<1> QED
  BY <1>1, <1>2, <1>3, <1>4, <1>5 DEF Next

THEOREM Invariance == Spec => []IInv
<1>1. IInv /\ [Next]_vars => IInv'
  BY StepPreserves
<1> QED
  BY InitEstablishes, <1>1, PTL DEF Spec

\* Every variable keeps its type, for any set of actors and kinds.
THEOREM TypeCorrect == Spec => []TypeOK
<1>1. IInv => TypeOK
  BY DEF IInv
<1> QED
  BY Invariance, <1>1, PTL

\* timeline.rs: the cached undone set and targets never disagree with the log
\* they were derived from, whichever of insert's paths served each action.
THEOREM CachesStayFresh == Spec => []CachesFresh
<1>1. IInv => CachesFresh
  BY DEF IInv
<1> QED
  BY Invariance, <1>1, PTL

\* action.rs: ids are unique across the session while no member rejoins.
THEOREM IdsAreDistinct == Spec => []DistinctIds
<1>1. IInv => DistinctIds
  BY DEF IInv
<1> QED
  BY Invariance, <1>1, PTL

\* effect.rs: an Undo targets its author's own, older action, which is what
\* makes undone_ids' single newest-to-oldest pass sufficient.
THEOREM UndosFollowOwnTargets == Spec => []UndoAfterOwnTarget
<1>1. IInv => UndoAfterOwnTarget
  BY DEF IInv
<1> QED
  BY Invariance, <1>1, PTL

\* collab.rs: a new action orders after everything its author had seen.
THEOREM CausallyOrdered == Spec => CausalOrder
<1>1. IInv /\ [Next]_vars =>
        [\A a \in sent' \ sent : \A b \in log[a.id.actor] : IdLess(b.id, a.id)]_vars
  BY StepPreserves
<1> QED
  BY Invariance, <1>1, PTL DEF Spec, CausalOrder

\* timeline.rs: the materialization is exactly the effective actions in
\* canonical order, whatever came when and whichever path served it.
THEOREM MaterializesTheEffective == Spec => []HistoryIsEffective
<1>1. IInv => HistoryIsEffective
  BY DEF IInv, HistoriesFold, HistoryIsEffective
<1> QED
  BY Invariance, <1>1, PTL

\* timeline.rs, fold.rs: every snapshot is the replay of its prefix from the
\* origin, so no shift past a commuting run ever left a wrong document.
THEOREM SnapshotsFold == Spec => []SnapshotsAreReplays
<1>1. IInv => SnapshotsAreReplays
  <2>1. \A h : IsHistory(Origin, h) => h.docs = Replay(Origin, h.acts)
    BY DEF IsHistory
  <2>. QED
    BY <2>1 DEF IInv, HistoriesFold, SnapshotsAreReplays
<1> QED
  BY Invariance, <1>1, PTL

-----------------------------------------------------------------------------
(* The timeline implements the session's promise.                            *)

\* The promise speaks of the same folds and the same undo algebra.
LEMMA SameAlgebra ==
  /\ Contract!Origin = Origin
  /\ \A base, acts : Contract!Replay(base, acts) = Replay(base, acts)
  /\ \A l : Contract!UndoneIds(l) = UndoneIds(l)
  /\ \A l, gone : Contract!EffectiveActions(l, gone) = EffectiveActions(l, gone)
<1>1. Contract!Origin = Origin
  BY DEF Contract!Origin, Origin
<1>2. \A base, acts : Contract!Replay(base, acts) = Replay(base, acts)
  BY DEF Contract!Replay, Replay, Contract!Apply, Apply
<1>3. \A l : Contract!UndoneIds(l) = UndoneIds(l)
  BY DEF Contract!UndoneIds, UndoneIds, Contract!Suppressed, Suppressed, Contract!Counted, Counted,
         Contract!Undos, Undos, Contract!Ordinary, Ordinary, Contract!IdLess, IdLess
<1>4. \A l, gone : Contract!EffectiveActions(l, gone) = EffectiveActions(l, gone)
  BY DEF Contract!EffectiveActions, EffectiveActions, Contract!Effective, Effective,
         Contract!MaterialKey, MaterialKey, Contract!Revivals, Revivals, Contract!Latest, Latest,
         Contract!Undos, Undos, Contract!Ordinary, Ordinary, Contract!IdLess, IdLess, Contract!Cardinality, Cardinality
<1>. QED
  BY <1>1, <1>2, <1>3, <1>4

\* What a member's materialization ends in is the promised document.
LEMMA ShowsThePromise ==
  ASSUME NEW l, IsLog(l), NEW h, IsHistory(Origin, h),
         h.acts = EffectiveActions(l, UndoneIds(l))
  PROVE  Current(h) = Contract!Show(l)
BY CurrentIsLast, SameAlgebra DEF Contract!Show

\* Nothing has been done and nothing is shown.
LEMMA InitKeepsPromise == Init => Contract!Init
<1>. SUFFICES ASSUME Init PROVE Contract!Init
  OBVIOUS
<1>1. IInv
  BY InitEstablishes
<1>2. /\ joined = {Host} /\ log = [r \in Actor |-> {}] /\ sent = {}
      /\ history = [r \in Actor |-> NewHistory(Origin)]
      /\ Host \in Actor
  BY HostAssumption DEF Init
<1>3. IsHistory(Origin, history[Host]) /\ history[Host].acts = EffectiveActions(log[Host], UndoneIds(log[Host]))
  BY <1>1, <1>2 DEF IInv, HistoriesFold, CachesFresh
<1>4. Current(NewHistory(Origin)) = Contract!Show({})
  BY <1>1, <1>2, <1>3, LogsAreLogs, ShowsThePromise
<1>5. [r \in Actor |-> Current(history[r])] = [r \in Actor |-> Contract!Show({})]
  BY <1>2, <1>4
<1>. QED
  BY <1>2, <1>5 DEF Contract!Init

\* One member's timeline changes, and its promised view with it.
LEMMA SeesThePromise ==
  ASSUME IInv, IInv', NEW r \in joined', NEW l, log' = [log EXCEPT ![r] = l],
         DOMAIN history' = Actor, \A s \in Actor : s # r => history'[s] = history[s]
  PROVE  Contract!See(r, l)
<1>1. r \in Actor /\ log \in [Actor -> SUBSET Action] /\ log'[r] = l /\ IsLog(l)
  <2>1. r \in Actor /\ log \in [Actor -> SUBSET Action]
    BY DEF IInv, TypeOK
  <2>2. log'[r] = l
    BY <2>1
  <2>3. IsLog(log'[r])
    <3>1. log'[r] \in SUBSET sent' /\ sent' \in SUBSET Action /\ IsFiniteSet(sent')
      BY <2>1 DEF IInv, TypeOK, LogsWereSent
    <3>. QED
      BY <3>1, FS_Subset DEF IInv, DistinctIds, IsLog
  <2>. QED
    BY <2>1, <2>2, <2>3
<1>2. IsHistory(Origin, history'[r]) /\ history'[r].acts = EffectiveActions(l, UndoneIds(l))
  BY <1>1 DEF IInv, HistoriesFold, CachesFresh
<1>3. Current(history'[r]) = Contract!Show(l)
  BY <1>1, <1>2, ShowsThePromise
<1>4. [s \in Actor |-> Current(history'[s])]
        = [[s \in Actor |-> Current(history[s])] EXCEPT ![r] = Contract!Show(l)]
  BY <1>1, <1>3
<1>. QED
  BY <1>4 DEF Contract!See

\* commit_sanitized logs an action of its author's that is new to the session and
\* newer than all its author has logged.
LEMMA CommitLogs ==
  ASSUME IInv, NEW r \in joined, NEW target, NEW kind,
         CommitWith(r, target, kind),
         [id |-> NextId(r), target |-> target, kind |-> kind] \in Action
  PROVE  LET a == [id |-> NextId(r), target |-> target, kind |-> kind]
         IN  /\ a.target = target /\ a.id.actor = r
             /\ \A b \in log[r] : IdLess(b.id, a.id)
             /\ \A b \in sent : b.id # a.id
             /\ IsLog(log[r] \cup {a})
             /\ Insert(r, a)
             /\ log' = [log EXCEPT ![r] = log[r] \cup {a}]
             /\ sent' = sent \cup {a}
             /\ joined' = joined
<1>. DEFINE a == [id |-> NextId(r), target |-> target, kind |-> kind]
<1>1. /\ Insert(r, a)
      /\ sent' = sent \cup {a}
      /\ joined' = joined
  BY DEF CommitWith
<1>2. /\ a \in Action /\ a.target = target /\ a.id.actor = r
      /\ a.id = [lamport |-> clock[r], actor |-> r] /\ a.id.lamport = clock[r]
  BY DEF NextId
<1>. HIDE DEF a
<1>3. r \in Actor /\ log \in [Actor -> SUBSET Action] /\ log[r] \subseteq sent /\ clock[r] \in Nat
  BY DEF IInv, TypeOK, LogsWereSent
<1>4. \A b \in log[r] : IdLess(b.id, a.id)
  <2>1. \A b \in log[r] : b.id.lamport < clock[r]
    BY <1>3 DEF IInv, LogBehindClock
  <2>. QED
    BY <1>2, <2>1 DEF IdLess
<1>5. \A b \in sent : b.id # a.id
  <2>1. \A b \in sent : b.id.actor = r => b.id.lamport < clock[r]
    BY <1>3 DEF IInv, MintedBehindClock
  <2>. QED
    BY <1>2, <1>3, <2>1
<1>6. IsLog(log[r] \cup {a})
  <2>1. IsLog(log[r])
    BY <1>3, LogsAreLogs
  <2>. QED
    BY <1>2, <1>3, <1>5, <2>1, FS_AddElement DEF IsLog
<1>7. log' = [log EXCEPT ![r] = log[r] \cup {a}]
  <2>1. a.id \notin Ids(log[r])
    BY <1>3, <1>5 DEF Ids
  <2>. QED
    BY <1>1, <2>1 DEF Insert, Push, Resync
<1>. QED
  BY <1>1, <1>2, <1>4, <1>5, <1>6, <1>7 DEF a

\* commit_sanitized mints an action the promise allows.
LEMMA CommitKeepsPromise ==
  ASSUME IInv, IInv', NEW r \in joined, NEW target, NEW kind,
         CommitWith(r, target, kind),
         [id |-> NextId(r), target |-> target, kind |-> kind] \in Action,
         target # NoId => \E b \in log[r] : b.id = target /\ b.id.actor = r
  PROVE  Contract!Next
<1>. DEFINE a == [id |-> NextId(r), target |-> target, kind |-> kind]
<1>1. /\ a.target = target /\ a.id.actor = r
      /\ \A b \in log[r] : IdLess(b.id, a.id)
      /\ \A b \in sent : b.id # a.id
      /\ IsLog(log[r] \cup {a})
      /\ Insert(r, a)
      /\ log' = [log EXCEPT ![r] = log[r] \cup {a}]
      /\ sent' = sent \cup {a}
      /\ joined' = joined
  BY CommitLogs
<1>2. r \in Actor /\ a \in Action
  BY DEF IInv, TypeOK
<1>. HIDE DEF a
<1>3. Contract!Follows(r, a)
  BY <1>1 DEF Contract!Follows, Contract!Ordinary, Contract!IdLess, IdLess
<1>4. /\ DOMAIN history' = Actor
      /\ \A s \in Actor : s # r => history'[s] = history[s]
  BY <1>1, <1>2, InsertKeepsHistories
<1>5. Contract!See(r, log[r] \cup {a})
  BY <1>1, <1>4, SeesThePromise
<1>6. Contract!Commit(r, a)
  BY <1>1, <1>3, <1>5 DEF Contract!Commit
<1>. QED
  BY <1>1, <1>2, <1>6 DEF Contract!Next

\* merge_remote hears an action, or hears it again.
LEMMA MergeKeepsPromise ==
  ASSUME IInv, IInv', NEW r \in Actor, NEW a \in sent, MergeRemote(r, a)
  PROVE  Contract!Next
<1>1. /\ Insert(r, a)
      /\ r \in joined
      /\ sent' = sent
      /\ joined' = joined
  BY DEF MergeRemote
<1>2. /\ log \in [Actor -> SUBSET Action] /\ log[r] \subseteq sent /\ a \in Action
      /\ DOMAIN history = Actor
      /\ \A b \in sent : b.id = a.id => b = a
  BY DEF IInv, TypeOK, LogsWereSent, DistinctIds, HistoriesFold
<1>3. IsLog(log[r] \cup {a})
  BY <1>2, LogsAreLogs
<1>4. log' = [log EXCEPT ![r] = log[r] \cup {a}]
  <2>1. CASE a.id \in Ids(log[r])
    <3>1. a \in log[r]
      BY <1>2, <2>1 DEF Ids
    <3>2. log' = log
      BY <1>1, <2>1 DEF Insert
    <3>3. log[r] \cup {a} = log[r]
      BY <3>1
    <3>. QED
      BY <1>2, <3>2, <3>3
  <2>2. CASE a.id \notin Ids(log[r])
    BY <1>1, <2>2 DEF Insert, Push, Resync
  <2>. QED
    BY <2>1, <2>2
<1>5. /\ DOMAIN history' = Actor
      /\ \A s \in Actor : s # r => history'[s] = history[s]
  BY <1>1, <1>2, <1>3, InsertKeepsHistories
<1>6. Contract!See(r, log[r] \cup {a})
  BY <1>1, <1>4, <1>5, SeesThePromise
<1>7. Contract!Hear(r, a)
  BY <1>1, <1>6 DEF Contract!Hear
<1>. QED
  BY <1>7 DEF Contract!Next

\* join_collaboration sees what the member that served the snapshot had seen.
LEMMA JoinKeepsPromise ==
  ASSUME IInv, IInv', NEW r \in Actor, NEW s \in Actor, Join(r, s)
  PROVE  Contract!Next
<1>1. /\ r \notin joined /\ s \in joined /\ joined' = joined \cup {r} /\ sent' = sent
      /\ log' = [log EXCEPT ![r] = log[s]]
  BY DEF Join, Resync
<1>2. /\ DOMAIN history' = Actor
      /\ \A q \in Actor : q # r => history'[q] = history[q]
  BY DEF Join, Resync, IInv, HistoriesFold
<1>3. Contract!See(r, log[s])
  BY <1>1, <1>2, SeesThePromise
<1>4. Contract!Join(r, s)
  BY <1>1, <1>3 DEF Contract!Join
<1>. QED
  BY <1>4 DEF Contract!Next

\* Every step of the timeline is a step of the promise, or invisible to it.
LEMMA StepKeepsPromise ==
  ASSUME IInv, IInv', [Next]_vars
  PROVE  [Contract!Next]_(Contract!vars)
<1>1. ASSUME NEW r \in Actor, NEW kind \in Kind, Commit(r, kind)
      PROVE  Contract!Next
  <2>1. r \in joined /\ CommitWith(r, NoId, kind)
    BY <1>1 DEF Commit, CommitWith
  <2>2. [id |-> NextId(r), target |-> NoId, kind |-> kind] \in Action
    BY <2>1, MintedIdIsActionId DEF Action
  <2>. QED
    BY <2>1, <2>2, CommitKeepsPromise
<1>2. ASSUME NEW r \in Actor, Undo(r) \/ Redo(r)
      PROVE  Contract!Next
  <2>1. PICK t \in {targets[r].undo, targets[r].redo} :
               t # NoId /\ CommitWith(r, t, UndoKind)
    BY <1>2 DEF Undo, Redo
  <2>2. r \in joined
    BY <2>1 DEF CommitWith
  <2>3. t \in ActionId /\ t.actor = r /\ t.lamport < clock[r]
    BY <2>1, <2>2, TargetsAreOwn
  <2>4. [id |-> NextId(r), target |-> t, kind |-> UndoKind] \in Action
    BY <2>2, <2>3, MintedIdIsActionId DEF Action
  <2>5. \E b \in log[r] : b.id = t /\ b.id.actor = r
    <3>1. /\ r \in Actor /\ log[r] \in SUBSET Action
          /\ targets[r] = Targets(log[r], r, undone[r])
      BY <2>2 DEF IInv, TypeOK, CachesFresh
    <3>2. t = UndoTarget(log[r], r, undone[r]) \/ t = RedoTarget(log[r], r, undone[r])
      BY <2>1, <3>1 DEF Targets
    <3>. QED
      BY <2>1, <3>1, <3>2, UndoTargetIsOwn, RedoTargetIsOwn
  <2>. QED
    BY <2>1, <2>2, <2>4, <2>5, CommitKeepsPromise
<1>3. ASSUME NEW r \in Actor, NEW a \in sent, MergeRemote(r, a)
      PROVE  Contract!Next
  BY <1>3, MergeKeepsPromise
<1>4. ASSUME NEW r \in Actor, NEW s \in Actor, Join(r, s)
      PROVE  Contract!Next
  BY <1>4, JoinKeepsPromise
<1>5. CASE UNCHANGED vars
  BY <1>5 DEF vars, Contract!vars
<1>. QED
  BY <1>1, <1>2, <1>3, <1>4, <1>5 DEF Next

\* timeline.rs, effect.rs: whichever of push, shift-out and rewind-and-replay
\* served each change, a member shows the canonical document of what it has seen.
THEOREM Implements == Spec => ImplementsSharedDocument
<1>1. IInv /\ IInv' /\ [Next]_vars => [Contract!Next]_(Contract!vars)
  BY StepKeepsPromise
<1>. QED
  BY Invariance, InitKeepsPromise, <1>1, PTL DEF Spec, ImplementsSharedDocument, Contract!Spec

\* What a member of a session that keeps the promise shows is decided by the set
\* of actions it has seen.
ShownIsShow ==
  /\ joined \subseteq Actor /\ DOMAIN log = Actor
  /\ \A r \in joined : Current(history[r]) = Contract!Show(log[r])

\* Whatever a member sees, it shows the fold of it, and the others are left alone.
LEMMA SeeingShows ==
  ASSUME ShownIsShow, NEW r \in Actor, NEW actions, Contract!See(r, actions),
         joined' \subseteq joined \cup {r}
  PROVE  ShownIsShow'
<1>1. /\ joined' \subseteq Actor
      /\ log' = [log EXCEPT ![r] = actions]
      /\ [q \in Actor |-> Current(history'[q])]
           = [[q \in Actor |-> Current(history[q])] EXCEPT ![r] = Contract!Show(actions)]
  BY DEF ShownIsShow, Contract!See
<1>2. /\ DOMAIN log' = Actor
      /\ log'[r] = actions /\ \A q \in Actor \ {r} : log'[q] = log[q]
  BY <1>1 DEF ShownIsShow
<1>3. /\ Current(history'[r]) = Contract!Show(actions)
      /\ \A q \in Actor \ {r} : Current(history'[q]) = Current(history[q])
  BY <1>1
<1>4. ASSUME NEW q \in joined'
      PROVE  Current(history'[q]) = Contract!Show(log'[q])
  BY <1>1, <1>2, <1>3 DEF ShownIsShow
<1>. QED
  BY <1>1, <1>2, <1>4 DEF ShownIsShow

\* Strong eventual consistency follows from the promise alone: in any session that
\* keeps it, members that have seen the same actions show the same document.
THEOREM PromiseConverges == Contract!Spec => []Contract!Convergence
<1>1. Contract!Init => ShownIsShow
  BY DEF Contract!Init, ShownIsShow
<1>2. ShownIsShow /\ [Contract!Next]_(Contract!vars) => ShownIsShow'
  <2>. SUFFICES ASSUME ShownIsShow, [Contract!Next]_(Contract!vars) PROVE ShownIsShow'
    OBVIOUS
  <2>1. ASSUME NEW r \in Actor, NEW a, Contract!Commit(r, a) \/ Contract!Hear(r, a)
        PROVE  ShownIsShow'
    BY <2>1, SeeingShows DEF Contract!Commit, Contract!Hear
  <2>2. ASSUME NEW r \in Actor, NEW s \in Actor, Contract!Join(r, s)
        PROVE  ShownIsShow'
    BY <2>2, SeeingShows DEF Contract!Join
  <2>3. CASE UNCHANGED Contract!vars
    BY <2>3 DEF Contract!vars, ShownIsShow
  <2>. QED
    BY <2>1, <2>2, <2>3 DEF Contract!Next
<1>3. ShownIsShow => Contract!Convergence
  BY DEF ShownIsShow, Contract!Convergence
<1>. QED
  BY <1>1, <1>2, <1>3, PTL DEF Contract!Spec

\* The timeline keeps the promise, so a session of it converges (docs: "12.6"),
\* whatever order the actions reached each member in.
THEOREM Converges == Spec => []Contract!Convergence
BY Implements, PromiseConverges, PTL DEF ImplementsSharedDocument

-----------------------------------------------------------------------------
(* What undo and redo may do.                                                *)

\* Each member has logged everything it minted.
OwnLogged == \A a \in sent : a \in log[a.id.actor]

\* Of the Undos of one id, at most one counts: undoing needs its target effective,
\* redoing its target counting.
OneCounts ==
  \A u, v \in Undos(sent) :
    Counted(Undos(sent))[u] /\ Counted(Undos(sent))[v] /\ u.target = v.target => u = v

LEMMA LogsAreOrdered ==
  ASSUME IInv, NEW l \in SUBSET sent
  PROVE  IsLog(l) /\ Backwards(l) /\ OwnTargets(l)
<1>1. \A u \in Undos(l) : u \in Undos(sent)
  BY DEF Undos
<1>. QED
  BY <1>1, LogsAreLogs DEF IInv, UndoAfterOwnTarget, Backwards, OwnTargets

\* effect.rs undo_target and redo_target: what a target names is not undone; it is
\* an edit, or an Undo of an edit that is undone.
LEMMA TargetsStand ==
  ASSUME IInv, NEW r \in joined, NEW t \in {targets[r].undo, targets[r].redo}, t # NoId
  PROVE  /\ t \notin undone[r]
         /\ \E b \in log[r] :
              /\ b.id = t /\ b.id.actor = r
              /\ ~Ordinary(b) =>
                   /\ b.target \in undone[r]
                   /\ \E o \in log[r] : o.id = b.target /\ Ordinary(o)
<1>. DEFINE l == log[r]
            gone == undone[r]
            latest == UndoTarget(l, r, gone)
            mine == {x \in Effective(l, gone) : x.id.actor = r}
            redos == {x \in Undos(l) :
                        /\ x.id.actor = r
                        /\ x.id \notin gone
                        /\ latest = NoId \/ IdLess(latest, x.id)
                        /\ x.target \in gone
                        /\ \E o \in l : o.id = x.target /\ Ordinary(o)}
            mineIds == {x.id : x \in mine}
            redoIds == {x.id : x \in redos}
<1>1. targets[r] = Targets(l, r, gone)
  BY DEF IInv, CachesFresh
<1>2. t = Latest(mineIds) \/ t = Latest(redoIds)
  BY <1>1 DEF Targets, UndoTarget, RedoTarget
<1>3. CASE t = Latest(mineIds)
  <2>1. t \in mineIds
    <3>. HIDE DEF mineIds
    <3>. QED
      BY <1>3, LatestIsMember
  <2>2. PICK b \in mine : t = b.id
    BY <2>1
  <2>. QED
    BY <2>2 DEF Effective
<1>4. CASE t = Latest(redoIds)
  <2>1. t \in redoIds
    <3>. HIDE DEF redoIds
    <3>. QED
      BY <1>4, LatestIsMember
  <2>2. PICK b \in redos : t = b.id
    BY <2>1
  <2>. QED
    BY <2>2 DEF Undos
<1>. QED
  BY <1>2, <1>3, <1>4

\* What an author's own log counts among its Undos is what the session counts.
LEMMA OwnCounts ==
  ASSUME IInv, OwnLogged, NEW r \in Actor
  PROVE  \A u \in Undos(sent) : u.id.actor = r =>
           /\ u \in Undos(log[r])
           /\ Counted(Undos(sent))[u] <=> Counted(Undos(log[r]))[u]
<1>1. log[r] \in SUBSET sent /\ sent \in SUBSET sent
  BY DEF IInv, LogsWereSent
<1>2. {a \in sent : a.id.actor = r} = {a \in log[r] : a.id.actor = r}
  BY <1>1 DEF OwnLogged
<1>. DEFINE l == log[r]
<1>3. /\ IsLog(sent) /\ Backwards(sent) /\ OwnTargets(sent)
      /\ IsLog(l) /\ Backwards(l) /\ OwnTargets(l)
  BY <1>1, LogsAreOrdered
<1>. HIDE DEF l
<1>4. \A u \in Undos(sent) : u.id.actor = r =>
           u \in Undos(l) /\ (Counted(Undos(sent))[u] <=> Counted(Undos(l))[u])
  BY <1>2, <1>3, UndoneIsOwnDoing DEF l
<1>. QED
  BY <1>4, Zenon DEF l

\* An Undo `a`, new and taken back by nothing, of an action `x`: it counts, x does
\* not if it is an Undo, and no other Undo is touched, provided what x takes back
\* is an edit.
LEMMA CountedWithNewest ==
  ASSUME NEW l, NEW a, ~Ordinary(a), IsLog(l \cup {a}), a \notin l,
         \A b \in l : b.target # a.id,
         NEW x \in l, x.id = a.target, IdLess(x.id, a.id),
         ~Ordinary(x) => \E o \in l : o.id = x.target /\ Ordinary(o)
  PROVE  LET U == Undos(l)
             V == Undos(l \cup {a})
         IN  /\ V = U \cup {a}
             /\ Counted(V)[a]
             /\ x \in U => ~Counted(V)[x]
             /\ \A u \in U : u # x => (Counted(U)[u] <=> Counted(V)[u])
<1>. DEFINE U == Undos(l)
            V == Undos(l \cup {a})
            D == U \ {x}
<1>1. V = U \cup {a}
  BY DEF Undos
<1>2. IsLog(l)
  <2>1. l \in SUBSET (l \cup {a})
    OBVIOUS
  <2>. QED
    BY <2>1, FS_Subset DEF IsLog
<1>3. IsLog(U) /\ IsLog(V)
  BY <1>2, UndosAreLog
<1>4. /\ \A b \in l \cup {a} : b.id \in ActionId
      /\ \A b, c \in l \cup {a} : b.id = c.id => b = c
      /\ \A u \in V : u \in l \cup {a} /\ ~Ordinary(u)
      /\ U \subseteq l
  BY ActionFields DEF IsLog, Undos
<1>. HIDE DEF U, V
<1>5. \A v \in V : v.target # a.id
  BY <1>1, <1>4, IdLessAsymmetric
<1>6. Counted(V)[a]
  <2>1. a \in V
    BY <1>1
  <2>2. \A v \in V : ~TakesBack(v, a)
    BY <1>5 DEF TakesBack
  <2>3. Counted(V)[a] <=> \A v \in V : TakesBack(v, a) => ~Counted(V)[v]
    BY <1>3, <2>1, CountedUnfolds
  <2>. QED
    BY <2>2, <2>3
<1>7. ASSUME x \in U PROVE ~Counted(V)[x]
  <2>1. x \in V /\ a \in V
    BY <1>1, <1>7
  <2>2. TakesBack(a, x)
    BY DEF TakesBack
  <2>3. Counted(V)[x] <=> \A v \in V : TakesBack(v, x) => ~Counted(V)[v]
    BY <1>3, <2>1, CountedUnfolds
  <2>. QED
    BY <1>6, <2>1, <2>2, <2>3, Zenon
<1>8. \A u \in D : \A v \in U \cup V : TakesBack(v, u) => v \in D
  <2>. SUFFICES ASSUME NEW u \in D, NEW v \in U \cup V, TakesBack(v, u) PROVE v \in D
    OBVIOUS
  <2>1. v.target = u.id /\ u \in l /\ u # x /\ u \in V
    BY <1>1, <1>4 DEF TakesBack
  <2>2. v # a
    BY <1>4, <2>1
  <2>3. v # x
    <3>. SUFFICES ASSUME v = x PROVE FALSE
      OBVIOUS
    <3>1. ~Ordinary(x)
      BY <1>1, <1>4
    <3>2. PICK o \in l : o.id = x.target /\ Ordinary(o)
      BY <3>1
    <3>3. o = u
      BY <1>4, <2>1, <3>2
    <3>. QED
      BY <1>4, <2>1, <3>2, <3>3
  <2>. QED
    BY <1>1, <2>2, <2>3
<1>9. \A u \in D : Counted(U)[u] <=> Counted(V)[u]
  <2>1. D \subseteq U /\ D \subseteq V
    BY <1>1
  <2>. HIDE DEF D
  <2>. QED
    BY <1>3, <1>8, <2>1, CountedLocal
<1>10. \A u \in U : u # x => (Counted(U)[u] <=> Counted(V)[u])
  BY <1>9, Zenon
<1>. QED
  BY <1>1, <1>6, <1>7, <1>10, Zenon DEF U, V

\* An edit of r's, or an Undo or redo r's cached targets allow.
Allowed(r, target, kind) ==
  /\ [id |-> NextId(r), target |-> target, kind |-> kind] \in Action
  /\ CommitWith(r, target, kind)
  /\ target # NoId => target \in {targets[r].undo, targets[r].redo}

\* What a step adds to the session is one such action, or nothing.
LEMMA OnlyAllowedIsAdded ==
  ASSUME IInv, [Next]_vars
  PROVE  \/ \E r \in joined : \E target, kind : Allowed(r, target, kind)
         \/ /\ sent' = sent
            /\ \A r \in joined : log[r] \subseteq log'[r]
<1>1. ASSUME NEW r \in Actor, NEW kind \in Kind, Commit(r, kind)
      PROVE  r \in joined /\ Allowed(r, NoId, kind)
  <2>1. r \in joined /\ CommitWith(r, NoId, kind)
    BY <1>1 DEF Commit, CommitWith
  <2>2. [id |-> NextId(r), target |-> NoId, kind |-> kind] \in Action
    BY <2>1, MintedIdIsActionId DEF Action
  <2>. QED
    BY <2>1, <2>2 DEF Allowed
<1>2. ASSUME NEW r \in Actor, Undo(r) \/ Redo(r)
      PROVE  r \in joined /\ \E target, kind : Allowed(r, target, kind)
  <2>1. PICK t \in {targets[r].undo, targets[r].redo} :
               t # NoId /\ CommitWith(r, t, UndoKind)
    BY <1>2 DEF Undo, Redo
  <2>2. r \in joined
    BY <2>1 DEF CommitWith
  <2>3. t \in ActionId
    BY <2>1, <2>2, TargetsAreOwn
  <2>4. [id |-> NextId(r), target |-> t, kind |-> UndoKind] \in Action
    BY <2>2, <2>3, MintedIdIsActionId DEF Action
  <2>. QED
    BY <2>1, <2>2, <2>4 DEF Allowed
<1>3. ASSUME NEW r \in Actor, NEW a \in sent, MergeRemote(r, a)
      PROVE  sent' = sent /\ \A q \in joined : log[q] \subseteq log'[q]
  <2>1. sent' = sent /\ Insert(r, a) /\ r \in joined
    BY <1>3 DEF MergeRemote
  <2>2. a \in Action
    BY DEF IInv, TypeOK
  <2>3. joined \subseteq Actor
    BY DEF IInv, TypeOK
  <2>4. /\ log'[r] = log[r] \/ log'[r] = log[r] \cup {a}
        /\ \A s \in Actor : s # r => log'[s] = log[s]
    BY <2>1, <2>2, InsertKeepsCaches
  <2>. QED
    BY <2>1, <2>3, <2>4
<1>4. ASSUME NEW r \in Actor, NEW s \in Actor, Join(r, s)
      PROVE  sent' = sent /\ \A q \in joined : log[q] \subseteq log'[q]
  BY <1>4 DEF Join, Resync, IInv, TypeOK
<1>5. CASE UNCHANGED vars
  BY <1>5 DEF vars
<1>. QED
  BY <1>1, <1>2, <1>3, <1>4, <1>5 DEF Next

\* Adding the Undo `a` of x to m counts it in place of x, and changes nothing else.
CountsInstead(m, a, x) ==
  /\ Undos(m \cup {a}) = Undos(m) \cup {a}
  /\ Counted(Undos(m \cup {a}))[a]
  /\ x \in Undos(m) => ~Counted(Undos(m \cup {a}))[x]
  /\ \A u \in Undos(m) : u # x =>
       (Counted(Undos(m))[u] <=> Counted(Undos(m \cup {a}))[u])

\* A committed Undo: whose it is, what it takes back, and how the counting changes,
\* in its author's log and in the session.
LEMMA CommittedUndo ==
  ASSUME IInv, OwnLogged, NEW r \in joined, NEW target, NEW kind,
         Allowed(r, target, kind), target # NoId
  PROVE  LET a == [id |-> NextId(r), target |-> target, kind |-> kind]
             l == log[r]
         IN  \E x \in l :
               /\ x.id = target /\ x.id.actor = r /\ x.id \notin undone[r]
               /\ ~Ordinary(x) => /\ x.target \in undone[r]
                                  /\ \E o \in l : o.id = x.target /\ Ordinary(o)
               /\ CountsInstead(l, a, x) /\ CountsInstead(sent, a, x)
<1>. DEFINE a == [id |-> NextId(r), target |-> target, kind |-> kind]
            l == log[r]
<1>1. /\ a.target = target /\ a.id.actor = r
      /\ \A b \in log[r] : IdLess(b.id, a.id)
      /\ \A b \in sent : b.id # a.id
      /\ IsLog(log[r] \cup {a})
  BY CommitLogs DEF Allowed
<1>2. r \in Actor /\ a \in Action /\ a \notin l /\ a \notin sent /\ ~Ordinary(a)
      /\ l \in SUBSET sent /\ sent \in SUBSET sent
  BY <1>1 DEF IInv, TypeOK, LogsWereSent, Allowed, Ordinary
<1>. HIDE DEF a
<1>3. PICK x \in l :
           /\ x.id = target /\ x.id.actor = r /\ x.id \notin undone[r]
           /\ ~Ordinary(x) => /\ x.target \in undone[r]
                              /\ \E o \in l : o.id = x.target /\ Ordinary(o)
  BY TargetsStand DEF Allowed
<1>4. IsLog(l) /\ Backwards(l) /\ IsLog(sent) /\ OwnTargets(sent)
  BY <1>2, LogsAreOrdered
<1>5. \A b \in l : b.target # a.id
  <2>. SUFFICES ASSUME NEW b \in l, b.target = a.id PROVE FALSE
    OBVIOUS
  <2>1. b \in Undos(l) /\ b.id \in ActionId /\ a.id \in ActionId
    BY <1>2, <1>4, NoIdIsNoActionId, ActionFields DEF Undos, Ordinary, IsLog
  <2>2. IdLess(a.id, b.id) /\ IdLess(b.id, a.id)
    BY <1>1, <1>4, <2>1 DEF Backwards
  <2>. QED
    BY <2>1, <2>2, IdLessAsymmetric
<1>6. \A b \in sent : b.target # a.id
  <2>. SUFFICES ASSUME NEW b \in sent, b.target = a.id PROVE FALSE
    OBVIOUS
  <2>1. b \in Undos(sent)
    BY <1>2, NoIdIsNoActionId, ActionFields DEF Undos, Ordinary
  <2>2. b.id.actor = r
    BY <1>1, <1>4, <2>1 DEF OwnTargets
  <2>3. b \in l
    BY <2>2 DEF OwnLogged
  <2>. QED
    BY <1>5, <2>3
<1>7. IsLog(sent \cup {a})
  BY <1>1, <1>2, <1>4, FS_AddElement DEF IsLog
<1>8. ASSUME NEW m \in {l, sent}
      PROVE  CountsInstead(m, a, x)
  <2>1. IsLog(m \cup {a}) /\ a \notin m /\ (\A b \in m : b.target # a.id)
    BY <1>1, <1>2, <1>5, <1>6, <1>7
  <2>2. x \in m /\ x.id = a.target /\ IdLess(x.id, a.id)
    BY <1>1, <1>2, <1>3
  <2>3. ~Ordinary(x) => \E o \in m : o.id = x.target /\ Ordinary(o)
    BY <1>2, <1>3
  <2>. HIDE DEF l
  <2>. QED
    BY <1>2, <2>1, <2>2, <2>3, CountedWithNewest DEF CountsInstead
<1>. QED
  BY <1>3, <1>8 DEF a

\* Nobody's own log misses what it minted, and no id is taken back twice over.
LEMMA StepKeepsOwn ==
  ASSUME IInv, OwnLogged, OneCounts, [Next]_vars
  PROVE  OwnLogged' /\ OneCounts'
<1>1. joined \subseteq Actor /\ log \in [Actor -> SUBSET Action] /\ sent \subseteq Action
      /\ \A b \in sent : b.id.actor \in joined
  BY DEF IInv, TypeOK, MintedBehindClock
<1>2. ASSUME NEW r \in joined, NEW target, NEW kind, Allowed(r, target, kind)
      PROVE  OwnLogged' /\ OneCounts'
  <2>. DEFINE a == [id |-> NextId(r), target |-> target, kind |-> kind]
  <2>1. /\ a.target = target /\ a.id.actor = r
        /\ log' = [log EXCEPT ![r] = log[r] \cup {a}]
        /\ sent' = sent \cup {a}
    BY <1>2, CommitLogs DEF Allowed
  <2>2. r \in Actor
    BY <1>1
  <2>3. OwnLogged'
    <3>. HIDE DEF a
    <3>1. /\ log'[r] = log[r] \cup {a}
          /\ \A q \in Actor : q # r => log'[q] = log[q]
      BY <1>1, <2>1, <2>2
    <3>2. \A b \in sent : b.id.actor \in Actor /\ b \in log[b.id.actor]
      BY <1>1 DEF OwnLogged
    <3>3. \A b \in sent : b \in log'[b.id.actor]
      BY <3>1, <3>2
    <3>. QED
      BY <2>1, <3>1, <3>3 DEF OwnLogged
  <2>4. CASE target = NoId
    <3>. HIDE DEF a
    <3>1. Undos(sent') = Undos(sent)
      BY <2>1, <2>4, UndosOfPushed DEF Ordinary
    <3>. QED
      BY <2>3, <3>1, Zenon DEF OneCounts
  <2>5. CASE target # NoId
    <3>. DEFINE U == Undos(sent)
                V == Undos(sent \cup {a})
    <3>0. PICK x \in log[r] :
               /\ x.id = target /\ x.id.actor = r /\ x.id \notin undone[r]
               /\ CountsInstead(sent, a, x)
      BY <1>2, <2>5, CommittedUndo
    <3>. HIDE DEF a
    <3>1. /\ x.id = target /\ x.id.actor = r /\ x.id \notin undone[r]
          /\ V = U \cup {a}
          /\ x \in U => ~Counted(V)[x]
          /\ \A u \in U : u # x => (Counted(U)[u] <=> Counted(V)[u])
      BY <3>0, Zenon DEF CountsInstead
    <3>2. \A u \in U : Counted(V)[u] => Counted(U)[u]
      <4>. HIDE DEF U, V
      <4>. QED
        BY <3>1, Zenon
    <3>3. ASSUME NEW u \in U, Counted(V)[u] PROVE u.target # target
      <4>. SUFFICES ASSUME u.target = target PROVE FALSE
        OBVIOUS
      <4>1. u.id.actor = r
        BY <3>1 DEF IInv, UndoAfterOwnTarget
      <4>2. Counted(U)[u]
        BY <3>2, <3>3, Zenon
      <4>3. u \in Undos(log[r]) /\ Counted(Undos(log[r]))[u]
        BY <2>2, <4>1, <4>2, OwnCounts, Zenon
      <4>4. target \in UndoneIds(log[r])
        BY <4>3, UndoneMeans, Zenon
      <4>. QED
        BY <3>1, <4>4 DEF IInv, CachesFresh
    <3>4. ASSUME NEW u \in V, NEW v \in V, Counted(V)[u], Counted(V)[v], u.target = v.target
          PROVE  u = v
      <4>1. CASE u \in U /\ v \in U
        <5>1. Counted(U)[u] /\ Counted(U)[v]
          BY <3>2, <3>4, <4>1, Zenon
        <5>. QED
          BY <3>4, <4>1, <5>1, Zenon DEF OneCounts
      <4>2. CASE u \notin U \/ v \notin U
        <5>1. \A w \in V : w \in U \/ w = a
          BY <3>1
        <5>. HIDE DEF U, V
        <5>. QED
          BY <2>1, <3>3, <3>4, <4>2, <5>1, Zenon
      <4>. QED
        BY <4>1, <4>2
    <3>5. OneCounts'
      BY <2>1, <3>4, Zenon DEF OneCounts
    <3>. QED
      BY <2>3, <3>5
  <2>. QED
    BY <2>4, <2>5
<1>3. ASSUME sent' = sent, \A r \in joined : log[r] \subseteq log'[r]
      PROVE  OwnLogged' /\ OneCounts'
  <2>1. OwnLogged'
    BY <1>1, <1>3 DEF OwnLogged
  <2>2. OneCounts'
    BY <1>3, Zenon DEF OneCounts
  <2>. QED
    BY <2>1, <2>2
<1>. QED
  BY <1>2, <1>3, OnlyAllowedIsAdded

\* A committed Undo moves one action of its author's.
LEMMA CommittedUndoMovesOne ==
  ASSUME IInv, IInv', OwnLogged, OneCounts, NEW r \in joined, NEW target, NEW kind,
         Allowed(r, target, kind), target # NoId
  PROVE  LET was == Effective(log[r], undone[r])
             is  == Effective(log'[r], undone'[r])
         IN  \E b \in was \cup is :
               /\ b.id.actor = r
               /\ target = b.id => is = was \ {b}
               /\ target # b.id => b \notin was /\ is = was \cup {b}
<1>. DEFINE a == [id |-> NextId(r), target |-> target, kind |-> kind]
            l == log[r]
            U == Undos(l)
            V == Undos(l \cup {a})
            gone == undone[r]
            been == undone'[r]
            was == Effective(l, gone)
            is == Effective(l \cup {a}, been)
<1>1. /\ a.target = target /\ a.id.actor = r
      /\ log' = [log EXCEPT ![r] = l \cup {a}]
      /\ joined' = joined
      /\ IsLog(l \cup {a})
      /\ ~Ordinary(a)
  BY CommitLogs DEF Allowed, Ordinary
<1>2. r \in Actor /\ log \in [Actor -> SUBSET Action] /\ l \in SUBSET sent /\ joined \subseteq Actor
  BY DEF IInv, TypeOK, LogsWereSent
<1>3. log'[r] = l \cup {a}
  BY <1>1, <1>2
<1>4. gone = UndoneIds(l) /\ been = UndoneIds(l \cup {a})
  BY <1>1, <1>3 DEF IInv, CachesFresh
<1>5. IsLog(l) /\ Backwards(l) /\ OwnTargets(l)
  BY <1>2, LogsAreOrdered
<1>0. PICK x \in l :
           /\ x.id = target /\ x.id.actor = r /\ x.id \notin gone
           /\ ~Ordinary(x) => /\ x.target \in gone
                              /\ \E o \in l : o.id = x.target /\ Ordinary(o)
           /\ CountsInstead(l, a, x)
  BY CommittedUndo
<1>6. /\ x.id = target /\ x.id.actor = r /\ x.id \notin gone
      /\ ~Ordinary(x) => /\ x.target \in gone
                         /\ \E o \in l : o.id = x.target /\ Ordinary(o)
      /\ V = U \cup {a}
      /\ Counted(V)[a]
      /\ x \in U => ~Counted(V)[x]
      /\ \A u \in U : u # x => (Counted(U)[u] <=> Counted(V)[u])
  BY <1>0, Zenon DEF CountsInstead
<1>7. /\ \A i : i \in gone <=> \E u \in U : u.target = i /\ Counted(U)[u]
      /\ \A i : i \in been <=> \E u \in V : u.target = i /\ Counted(V)[u]
  <2>1. \A i : i \in gone <=> \E u \in U : u.target = i /\ Counted(U)[u]
    BY <1>4, UndoneMeans
  <2>2. \A i : i \in been <=> \E u \in V : u.target = i /\ Counted(V)[u]
    <3>. DEFINE m == l \cup {a}
    <3>1. been = UndoneIds(m)
      BY <1>4
    <3>. HIDE DEF m
    <3>2. \A i : i \in been <=> \E u \in Undos(m) : u.target = i /\ Counted(Undos(m))[u]
      BY <3>1, UndoneMeans
    <3>. QED
      BY <3>2, Zenon DEF m
  <2>. QED
    BY <2>1, <2>2
<1>8. /\ \A b, c \in l : b.id = c.id => b = c
      /\ \A u \in U : u \in l /\ ~Ordinary(u)
  BY <1>5 DEF IsLog, Undos
<1>. HIDE DEF a, U, V, gone, been
<1>9. \A i : i \in been <=> i = target \/ \E u \in U : u # x /\ u.target = i /\ Counted(U)[u]
  <2>1. \A u \in V : u \in U \/ u = a
    BY <1>6
  <2>2. \A u \in U : u \in V
    BY <1>6
  <2>3. a \in V
    BY <1>6
  <2>. SUFFICES ASSUME NEW i
                PROVE  i \in been <=> i = target \/ \E u \in U : u # x /\ u.target = i /\ Counted(U)[u]
    OBVIOUS
  <2>4. ASSUME i \in been
        PROVE  i = target \/ \E u \in U : u # x /\ u.target = i /\ Counted(U)[u]
    <3>1. PICK u \in V : u.target = i /\ Counted(V)[u]
      BY <1>7, <2>4, Zenon
    <3>2. CASE u = a
      BY <1>1, <3>1, <3>2
    <3>3. CASE u \in U
      BY <1>6, <3>1, <3>3, Zenon
    <3>. QED
      BY <2>1, <3>2, <3>3
  <2>5. ASSUME NEW u \in U, u # x, u.target = i, Counted(U)[u] PROVE i \in been
    BY <1>6, <1>7, <2>2, <2>5, Zenon
  <2>6. ASSUME i = target PROVE i \in been
    BY <1>1, <1>6, <1>7, <2>3, <2>6, Zenon
  <2>. QED
    BY <2>4, <2>5, <2>6, Zenon
<1>10. is = {b \in l : Ordinary(b) /\ b.id \notin been} /\ was = {b \in l : Ordinary(b) /\ b.id \notin gone}
  BY <1>1 DEF Effective
<1>. HIDE DEF was, is
<1>11. CASE Ordinary(x)
  <2>1. \A u \in U : u # x
    BY <1>8, <1>11
  <2>2. \A i : i \in been <=> i = target \/ i \in gone
    BY <1>7, <1>9, <2>1, Zenon
  <2>3. x \in was
    BY <1>6, <1>10, <1>11
  <2>4. is = was \ {x}
    <3>1. \A b \in l : b.id = target => b = x
      BY <1>6, <1>8
    <3>. QED
      BY <1>6, <1>10, <2>2, <3>1
  <2>. QED
    BY <1>3, <1>6, <2>3, <2>4 DEF was, is, l, gone, been
<1>12. CASE ~Ordinary(x)
  <2>1. PICK o \in l : o.id = x.target /\ Ordinary(o) /\ o.id \in gone
    BY <1>6, <1>12
  <2>2. x \in U /\ Counted(U)[x]
    <3>1. x \in U
      BY <1>12 DEF U, Undos
    <3>2. Counted(U)[x] <=> x.id \notin gone
      BY <1>4, <1>5, <3>1, CountedIsNotUndone DEF U
    <3>. QED
      BY <1>6, <3>1, <3>2
  <2>3. o.id.actor = r /\ o # x /\ o.id # target
    BY <1>5, <1>6, <1>8, <1>12, <2>1, <2>2 DEF OwnTargets, U
  <2>4. ASSUME NEW u \in U, u # x, u.target = o.id, Counted(U)[u] PROVE FALSE
    <3>1. u.id.actor = r
      BY <1>5, <2>3, <2>4 DEF OwnTargets, U
    <3>2. u \in Undos(sent) /\ x \in Undos(sent)
      BY <1>2, <2>2 DEF U, Undos
    <3>3. Counted(Undos(sent))[u] /\ Counted(Undos(sent))[x]
      BY <1>2, <1>6, <2>2, <2>4, <3>1, <3>2, OwnCounts, Zenon DEF U, l
    <3>. QED
      BY <2>1, <2>4, <3>2, <3>3, Zenon DEF OneCounts
  <2>5. o.id \notin been
    BY <1>9, <2>3, <2>4, Zenon
  <2>6. \A b \in l : Ordinary(b) /\ b # o => (b.id \in been <=> b.id \in gone)
    <3>. SUFFICES ASSUME NEW b \in l, Ordinary(b), b # o PROVE b.id \in been <=> b.id \in gone
      OBVIOUS
    <3>1. b.id # target /\ b.id # x.target
      BY <1>6, <1>8, <1>12, <2>1
    <3>. QED
      BY <1>7, <1>9, <3>1, Zenon
  <2>7. is = was \cup {o} /\ o \notin was /\ o \in is
    BY <1>10, <2>1, <2>5, <2>6
  <2>. QED
    BY <1>3, <2>3, <2>7 DEF was, is, l, gone, been
<1>. QED
  BY <1>11, <1>12

\* A change to a log that brings in nothing of an actor's leaves that actor's
\* effective actions alone.
LEMMA OthersLeaveMineAlone ==
  ASSUME IInv, IInv', NEW r \in joined, log[r] \subseteq log'[r], r \in joined',
         \A a \in log'[r] \ log[r] : a.id.actor # r
  PROVE  Mine(r, log'[r], undone'[r]) = Mine(r, log[r], undone[r])
<1>. DEFINE l == log[r]
            m == log'[r]
<1>1. l \in SUBSET sent /\ m \in SUBSET sent'
  BY DEF IInv, TypeOK, LogsWereSent
<1>2. IsLog(l) /\ Backwards(l) /\ OwnTargets(l)
  BY <1>1, LogsAreOrdered
<1>3. IsLog(m) /\ Backwards(m) /\ OwnTargets(m)
  <2>1. \A u \in Undos(m) : u \in Undos(sent')
    BY <1>1 DEF Undos
  <2>2. Backwards(m) /\ OwnTargets(m)
    BY <2>1 DEF IInv, UndoAfterOwnTarget, Backwards, OwnTargets
  <2>3. IsLog(m)
    <3>1. IsFiniteSet(sent') /\ sent' \subseteq Action /\ \A a, b \in sent' : a.id = b.id => a = b
      BY DEF IInv, TypeOK, DistinctIds
    <3>. HIDE DEF m
    <3>. QED
      BY <1>1, <3>1, FS_Subset DEF IsLog
  <2>. QED
    BY <2>2, <2>3
<1>4. undone[r] = UndoneIds(l) /\ undone'[r] = UndoneIds(m)
  BY DEF IInv, CachesFresh
<1>5. {a \in l : a.id.actor = r} = {a \in m : a.id.actor = r}
  OBVIOUS
<1>6. \A i : i.actor = r => (i \in UndoneIds(l) <=> i \in UndoneIds(m))
  <2>. HIDE DEF l, m
  <2>. QED
    BY <1>2, <1>3, <1>5, UndoneIsOwnDoing
<1>. QED
  BY <1>4, <1>5, <1>6 DEF Mine, Effective

LEMMA InitOwn == Init => OwnLogged /\ OneCounts
BY DEF Init, OwnLogged, OneCounts, Undos

\* Nobody's own log misses what it minted, and of the Undos of one id at most one
\* counts: what Z Z Y Y walking back and forth rests on.
THEOREM OneUndoCounts == Spec => [](OwnLogged /\ OneCounts)
<1>1. IInv /\ OwnLogged /\ OneCounts /\ [Next]_vars => (OwnLogged /\ OneCounts)'
  BY StepKeepsOwn
<1>. QED
  BY Invariance, InitOwn, <1>1, PTL DEF Spec

\* effect.rs: the single newest-to-oldest pass answers a fixed point, an id undone
\* exactly when some Undo of it is not itself undone.
THEOREM UndoneIsFixed == Spec => []UndoneIsFixpoint
<1>1. IInv => UndoneIsFixpoint
  <2>. SUFFICES ASSUME IInv, NEW r \in joined, NEW i
                PROVE  i \in undone[r] <=> \E u \in Undos(log[r]) : u.target = i /\ u.id \notin undone[r]
    BY DEF UndoneIsFixpoint
  <2>. DEFINE l == log[r]
  <2>1. l \in SUBSET sent /\ undone[r] = UndoneIds(l)
    BY DEF IInv, TypeOK, LogsWereSent, CachesFresh
  <2>2. IsLog(l) /\ Backwards(l)
    BY <2>1, LogsAreOrdered
  <2>. HIDE DEF l
  <2>3. \A u \in Undos(l) : Counted(Undos(l))[u] <=> u.id \notin UndoneIds(l)
    BY <2>2, CountedIsNotUndone
  <2>4. i \in UndoneIds(l) <=> \E u \in Undos(l) : u.target = i /\ Counted(Undos(l))[u]
    BY UndoneMeans
  <2>. QED
    BY <2>1, <2>3, <2>4, Zenon DEF l
<1>. QED
  BY Invariance, <1>1, PTL

\* effect.rs: an action arriving from a peer never makes one of mine effective or
\* ineffective.
THEOREM PeersLeaveAlone == Spec => PeersLeaveMineAlone
<1>1. IInv /\ IInv' /\ [Next]_vars =>
        [\A r \in joined :
           (\A a \in log'[r] \ log[r] : a.id.actor # r) =>
              Mine(r, log'[r], undone'[r]) = Mine(r, log[r], undone[r])]_vars
  <2>. SUFFICES ASSUME IInv, IInv', [Next]_vars, NEW r \in joined,
                       \A a \in log'[r] \ log[r] : a.id.actor # r
                PROVE  Mine(r, log'[r], undone'[r]) = Mine(r, log[r], undone[r])
    OBVIOUS
  <2>1. joined \subseteq joined'
    BY DEF Next, Commit, Undo, Redo, CommitWith, MergeRemote, Join, vars
  <2>2. log[r] \subseteq log'[r]
    <3>1. ASSUME NEW q \in joined, NEW target, NEW kind, Allowed(q, target, kind)
          PROVE  log[r] \subseteq log'[r]
      <4>. DEFINE a == [id |-> NextId(q), target |-> target, kind |-> kind]
      <4>1. log' = [log EXCEPT ![q] = log[q] \cup {a}]
        BY <3>1, CommitLogs DEF Allowed
      <4>. HIDE DEF a
      <4>2. r \in Actor /\ log \in [Actor -> SUBSET Action]
        BY DEF IInv, TypeOK
      <4>. QED
        BY <4>1, <4>2
    <3>. QED
      BY <3>1, OnlyAllowedIsAdded
  <2>. QED
    BY <2>1, <2>2, OthersLeaveMineAlone
<1>. QED
  BY Invariance, <1>1, PTL DEF Spec, PeersLeaveMineAlone

\* effect.rs: a logged undo or redo moves exactly one action of its author in or
\* out of the effective set, and nobody else's.
THEOREM NavigationMoves == Spec => NavigationMovesOne
<1>1. IInv /\ IInv' /\ OwnLogged /\ OneCounts /\ [Next]_vars =>
        [\A u \in Undos(sent') \ sent :
           LET r   == u.id.actor
               was == Effective(log[r], undone[r])
               is  == Effective(log'[r], undone'[r])
           IN  \E a \in was \cup is :
                 /\ a.id.actor = r
                 /\ u.target = a.id => is = was \ {a}
                 /\ u.target # a.id => a \notin was /\ is = was \cup {a}]_vars
  <2>. SUFFICES ASSUME IInv, IInv', OwnLogged, OneCounts, [Next]_vars, NEW u \in Undos(sent') \ sent
                PROVE  LET r   == u.id.actor
                           was == Effective(log[r], undone[r])
                           is  == Effective(log'[r], undone'[r])
                       IN  \E a \in was \cup is :
                             /\ a.id.actor = r
                             /\ u.target = a.id => is = was \ {a}
                             /\ u.target # a.id => a \notin was /\ is = was \cup {a}
    OBVIOUS
  <2>1. u \in sent' /\ u \notin sent /\ ~Ordinary(u)
    BY DEF Undos
  <2>2a. \E r \in joined : \E target, kind : Allowed(r, target, kind)
    BY <2>1, OnlyAllowedIsAdded
  <2>2b. PICK r \in joined : \E target, kind : Allowed(r, target, kind)
    BY <2>2a
  <2>2. PICK target, kind : Allowed(r, target, kind)
    BY <2>2b
  <2>. DEFINE a == [id |-> NextId(r), target |-> target, kind |-> kind]
  <2>3. sent' = sent \cup {a} /\ a.id.actor = r /\ a.target = target
    BY <2>2, CommitLogs DEF Allowed
  <2>. HIDE DEF a
  <2>4. u.id.actor = r /\ u.target = target
    BY <2>1, <2>3
  <2>5. target # NoId
    BY <2>1, <2>4 DEF Ordinary
  <2>6. LET was == Effective(log[r], undone[r])
            is  == Effective(log'[r], undone'[r])
        IN  \E o \in was \cup is :
              /\ o.id.actor = r
              /\ target = o.id => is = was \ {o}
              /\ target # o.id => o \notin was /\ is = was \cup {o}
    BY ONLY IInv, IInv', OwnLogged, OneCounts, <2>2, <2>5, CommittedUndoMovesOne
  <2>. QED
    BY <2>4, <2>6
<1>. QED
  BY Invariance, OneUndoCounts, <1>1, PTL DEF Spec, NavigationMovesOne
=============================================================================
