--------------------------- MODULE DocFoldProofs ---------------------------
(***************************************************************************)
(* What the timelines rest on, for any footprints and any number of        *)
(* actions: actions that do not conflict may be folded, and an inverse     *)
(* applied, in either order; the surgery a history performs through them   *)
(* leaves the snapshots a replay would have left; and the undo algebra     *)
(* gives every effective action a place of its own.                        *)
(***************************************************************************)
EXTENDS DocFold, SequenceTheorems, FiniteSetTheorems, WellFoundedInduction, TLAPS

-----------------------------------------------------------------------------
(* Induction. Stated over a set of numbers rather than a predicate, so that  *)
(* it can be cited with the set of the numbers a claim holds of.             *)

LEMMA LeastNumber ==
  ASSUME NEW T \in SUBSET Nat, T # {}
  PROVE  \E n \in T : \A m \in T : n <= m
<1>. DEFINE R == {ss \in Nat \X Nat : ss[1] < ss[2]}
<1>1. IsWellFoundedOn(R, Nat)
  BY NatLessThanWellFounded DEF OpToRel
<1>. HIDE DEF R
<1>2. PICK n \in T : \A m \in T : ~ (<<m, n>> \in R)
  BY <1>1, WFMin
<1>3. ASSUME NEW m \in T
      PROVE  n <= m
  <2>1. m \in Nat /\ n \in Nat /\ <<m, n>> \notin R
    BY <1>2
  <2>2. ~ (m < n)
    BY <2>1 DEF R
  <2>. QED
    BY <2>1, <2>2
<1>. QED
  BY <1>3

LEMMA Induction ==
  ASSUME NEW S, 0 \in S, \A n \in Nat : n \in S => n + 1 \in S
  PROVE  Nat \subseteq S
<1>. SUFFICES ASSUME Nat \ S # {} PROVE FALSE
  OBVIOUS
<1>1. PICK n \in Nat \ S : \A m \in Nat \ S : n <= m
  BY LeastNumber
<1>2. n # 0 /\ n - 1 \in Nat /\ n - 1 \in S
  BY <1>1
<1>. QED
  BY <1>1, <1>2

-----------------------------------------------------------------------------
(* Sequences, of whatever they are.                                          *)

Line(s) == Len(s) \in Nat /\ s = [i \in 1..Len(s) |-> s[i]]

\* A function on 1..n is a sequence of length n.
LEMMA LineOfFunction ==
  ASSUME NEW n \in Nat, NEW f, f = [i \in 1..n |-> f[i]]
  PROVE  Line(f) /\ Len(f) = n /\ f \in Seq({f[i] : i \in 1..n})
<1>1. f \in [1..n -> {f[i] : i \in 1..n}]
  OBVIOUS
<1>2. f \in Seq({f[i] : i \in 1..n})
  BY <1>1, SeqDef
<1>3. Len(f) = n
  BY <1>1, <1>2, LenProperties
<1>. QED
  BY <1>2, <1>3 DEF Line

LEMMA LineIsSeq ==
  ASSUME NEW s, Line(s), NEW S, \A i \in 1..Len(s) : s[i] \in S
  PROVE  s \in Seq(S)
<1>1. s \in [1..Len(s) -> S]
  BY DEF Line
<1>. QED
  BY <1>1, SeqDef DEF Line

LEMMA SeqIsLine ==
  ASSUME NEW S, NEW s \in Seq(S)
  PROVE  Line(s) /\ \A i \in 1..Len(s) : s[i] \in S
BY LenProperties DEF Line

LEMMA LinesEqual ==
  ASSUME NEW s, NEW t, Line(s), Line(t), Len(s) = Len(t),
         \A i \in 1..Len(s) : s[i] = t[i]
  PROVE  s = t
BY DEF Line

LEMMA ConcatOfLines ==
  ASSUME NEW s, NEW t, Line(s), Line(t)
  PROVE  /\ Line(s \o t) /\ Len(s \o t) = Len(s) + Len(t)
         /\ \A i \in 1..Len(s) : (s \o t)[i] = s[i]
         /\ \A i \in 1..Len(t) : (s \o t)[Len(s) + i] = t[i]
<1>. DEFINE S == {s[i] : i \in 1..Len(s)} \cup {t[i] : i \in 1..Len(t)}
<1>1. s \in Seq(S) /\ t \in Seq(S)
  BY LineIsSeq
<1>. HIDE DEF S
<1>2. /\ s \o t \in Seq(S) /\ Len(s \o t) = Len(s) + Len(t)
      /\ \A i \in 1..Len(s) + Len(t) :
            (s \o t)[i] = IF i <= Len(s) THEN s[i] ELSE t[i - Len(s)]
  BY <1>1, ConcatProperties
<1>3. Len(s) \in Nat /\ Len(t) \in Nat
  BY DEF Line
<1>4. ASSUME NEW i \in 1..Len(s) PROVE (s \o t)[i] = s[i]
  BY <1>2, <1>3
<1>5. ASSUME NEW i \in 1..Len(t) PROVE (s \o t)[Len(s) + i] = t[i]
  <2>1. Len(s) + i \in 1..Len(s) + Len(t) /\ ~ (Len(s) + i <= Len(s)) /\ (Len(s) + i) - Len(s) = i
    BY <1>3
  <2>. QED
    BY <1>2, <2>1
<1>. QED
  BY <1>2, <1>4, <1>5, SeqIsLine

LEMMA SubSeqOfLine ==
  ASSUME NEW s, NEW m \in Nat, NEW n \in Nat, m <= n + 1
  PROVE  /\ Line(SubSeq(s, m, n)) /\ Len(SubSeq(s, m, n)) = n - m + 1
         /\ \A i \in 1..n - m + 1 : SubSeq(s, m, n)[i] = s[m + i - 1]
<1>. DEFINE S == {s[i] : i \in m..n}
<1>1. \A i \in m..n : s[i] \in S
  OBVIOUS
<1>. HIDE DEF S
<1>2. /\ SubSeq(s, m, n) \in Seq(S) /\ Len(SubSeq(s, m, n)) = IF m <= n THEN n - m + 1 ELSE 0
      /\ \A i \in 1..n - m + 1 : SubSeq(s, m, n)[i] = s[m + i - 1]
  BY <1>1, SubSeqProperties
<1>3. Len(SubSeq(s, m, n)) = n - m + 1
  BY <1>2
<1>. QED
  BY <1>2, <1>3, SeqIsLine

LEMMA TailOfLine ==
  ASSUME NEW s, Line(s), Len(s) >= 1
  PROVE  /\ Line(Tail(s)) /\ Len(Tail(s)) = Len(s) - 1
         /\ \A i \in 1..Len(s) - 1 : Tail(s)[i] = s[i + 1]
<1>. DEFINE S == {s[i] : i \in 1..Len(s)}
<1>1. s \in Seq(S)
  BY LineIsSeq
<1>. HIDE DEF S
<1>2. s # <<>>
  BY EmptySeq
<1>3. /\ Tail(s) \in Seq(S) /\ Len(Tail(s)) = Len(s) - 1
      /\ \A i \in 1..Len(Tail(s)) : Tail(s)[i] = s[i + 1]
  BY <1>1, <1>2, HeadTailProperties
<1>. QED
  BY <1>3, SeqIsLine

LEMMA LineOfOne ==
  ASSUME NEW a
  PROVE  Line(<<a>>) /\ Len(<<a>>) = 1 /\ <<a>>[1] = a
<1>1. <<a>> = [i \in 1..1 |-> <<a>>[i]]
  OBVIOUS
<1>. QED
  BY <1>1, LineOfFunction

LEMMA LineOfNone == Line(<<>>) /\ Len(<<>>) = 0
<1>1. <<>> \in Seq({}) /\ Len(<<>>) = 0
  BY EmptySeq
<1>. QED
  BY <1>1, SeqIsLine

-----------------------------------------------------------------------------
(* Footprints                                                                *)

LEMMA FootprintCells ==
  ASSUME NEW a, a.kind \in Kind
  PROVE  Reads[a.kind] \subseteq Cell /\ Writes[a.kind] \subseteq Cell
  BY FootprintAssumption

\* footprint.rs conflicts: a conflict is mutual, so a pair needs one test.
LEMMA ConflictsSymmetric ==
  ASSUME NEW a, NEW b
  PROVE  Conflicts(a, b) <=> Conflicts(b, a)
  BY DEF Conflicts

\* Folding an action leaves alone every cell outside its write set.
LEMMA ApplyElsewhere ==
  ASSUME NEW a, NEW doc, NEW c \in Cell, c \notin Writes[a.kind]
  PROVE  Apply(a, doc)[c] = doc[c]
  BY DEF Apply

\* What an action writes depends only on the cells its footprint names.
LEMMA ApplyLocal ==
  ASSUME NEW a, a.kind \in Kind, NEW d, NEW e,
         \A c \in Reads[a.kind] \cup Writes[a.kind] : d[c] = e[c]
  PROVE  \A c \in Writes[a.kind] : Apply(a, d)[c] = Apply(a, e)[c]
<1>1. [c \in Reads[a.kind] \cup Writes[a.kind] |-> d[c]]
        = [c \in Reads[a.kind] \cup Writes[a.kind] |-> e[c]]
  OBVIOUS
<1> QED
  BY <1>1, FootprintCells DEF Apply

\* fold.rs: two actions whose footprints do not conflict fold to the same
\* document in either order, the fact every shift past a run rests on.
THEOREM NonConflictingCommute ==
  ASSUME NEW a, NEW b, a.kind \in Kind, b.kind \in Kind, NEW doc,
         ~Conflicts(a, b)
  PROVE  Apply(a, Apply(b, doc)) = Apply(b, Apply(a, doc))
<1> DEFINE ab == Apply(a, Apply(b, doc))
           ba == Apply(b, Apply(a, doc))
<1>1. /\ \A c \in Reads[a.kind] \cup Writes[a.kind] : c \in Cell /\ c \notin Writes[b.kind]
      /\ \A c \in Reads[b.kind] \cup Writes[b.kind] : c \in Cell /\ c \notin Writes[a.kind]
  BY FootprintCells DEF Conflicts
<1>2. \A c \in Writes[a.kind] : ab[c] = Apply(a, doc)[c] /\ ba[c] = Apply(a, doc)[c]
  <2>1. \A c \in Reads[a.kind] \cup Writes[a.kind] : Apply(b, doc)[c] = doc[c]
    BY <1>1, ApplyElsewhere
  <2>2. \A c \in Writes[a.kind] : ab[c] = Apply(a, doc)[c]
    BY <2>1, ApplyLocal
  <2> QED
    BY <1>1, <2>2, ApplyElsewhere
<1>3. \A c \in Writes[b.kind] : ba[c] = Apply(b, doc)[c] /\ ab[c] = Apply(b, doc)[c]
  <2>1. \A c \in Reads[b.kind] \cup Writes[b.kind] : Apply(a, doc)[c] = doc[c]
    BY <1>1, ApplyElsewhere
  <2>2. \A c \in Writes[b.kind] : ba[c] = Apply(b, doc)[c]
    BY <2>1, ApplyLocal
  <2> QED
    BY <1>1, <2>2, ApplyElsewhere
<1>4. \A c \in Cell : c \notin Writes[a.kind] /\ c \notin Writes[b.kind] => ab[c] = ba[c]
  BY ApplyElsewhere
<1>5. \A c \in Cell : ab[c] = ba[c]
  BY <1>2, <1>3, <1>4
<1> HIDE DEF ab, ba
<1>6. ab = [c \in Cell |-> ab[c]] /\ ba = [c \in Cell |-> ba[c]]
  BY DEF ab, ba, Apply
<1> QED
  BY <1>5, <1>6 DEF ab, ba

\* patch.rs: the inverse of an action, taken over the document it was folded
\* onto, may be applied before or after an action that does not conflict with
\* it; so patching a snapshot late gives what never folding it would have.
THEOREM InversePassesNonConflicting ==
  ASSUME NEW a, NEW b, a.kind \in Kind, b.kind \in Kind, NEW previous, NEW doc,
         ~Conflicts(a, b)
  PROVE  Unapply(a, previous, Apply(b, doc)) = Apply(b, Unapply(a, previous, doc))
<1> DEFINE late == Unapply(a, previous, Apply(b, doc))
           early == Apply(b, Unapply(a, previous, doc))
<1>1. /\ \A c \in Writes[a.kind] : c \in Cell /\ c \notin Writes[b.kind]
      /\ \A c \in Reads[b.kind] \cup Writes[b.kind] : c \in Cell /\ c \notin Writes[a.kind]
  BY FootprintCells DEF Conflicts
<1>2. \A c \in Reads[b.kind] \cup Writes[b.kind] : Unapply(a, previous, doc)[c] = doc[c]
  BY <1>1 DEF Unapply
<1>3. \A c \in Writes[b.kind] : early[c] = Apply(b, doc)[c]
  BY <1>2, ApplyLocal
<1>4. \A c \in Writes[b.kind] : late[c] = Apply(b, doc)[c]
  BY <1>1 DEF Unapply
<1>5. \A c \in Cell : c \notin Writes[b.kind] => late[c] = early[c]
  BY ApplyElsewhere DEF Unapply
<1>6. \A c \in Cell : late[c] = early[c]
  BY <1>3, <1>4, <1>5
<1> HIDE DEF late, early
<1>7. late = [c \in Cell |-> late[c]] /\ early = [c \in Cell |-> early[c]]
  BY DEF late, early, Unapply, Apply
<1> QED
  BY <1>6, <1>7 DEF late, early

\* patch.rs unapply: right after the fold, the inverse restores the document.
THEOREM InverseRestores ==
  ASSUME NEW a, a.kind \in Kind, NEW doc, doc = [c \in Cell |-> doc[c]]
  PROVE  Unapply(a, doc, Apply(a, doc)) = doc
<1> DEFINE back == Unapply(a, doc, Apply(a, doc))
<1>1. \A c \in Cell : back[c] = doc[c]
  BY ApplyElsewhere DEF Unapply
<1> HIDE DEF back
<1>2. back = [c \in Cell |-> back[c]]
  BY DEF back, Unapply
<1> QED
  BY <1>1, <1>2 DEF back

-----------------------------------------------------------------------------
(* The snapshots of a fold                                                   *)

\* Replay is a sequence that begins with the base and goes on as the actions do.
LEMMA ReplayUnfolds ==
  ASSUME NEW base, NEW acts, Len(acts) \in Nat
  PROVE  /\ Line(Replay(base, acts)) /\ Len(Replay(base, acts)) = Len(acts) + 1
         /\ Replay(base, acts)[1] = base
         /\ \A i \in 1..Len(acts) : Replay(base, acts)[i + 1] = Apply(acts[i], Replay(base, acts)[i])
<1>. DEFINE Good(at, n) == at = [i \in 0..n |-> IF i = 0 THEN base ELSE Apply(acts[i], at[i-1])]
            S == {n \in Nat : \E at : Good(at, n)}
<1>1. 0 \in S
  <2>1. Good([i \in 0..0 |-> base], 0)
    OBVIOUS
  <2>. QED
    BY <2>1
<1>2. ASSUME NEW n \in Nat, n \in S PROVE n + 1 \in S
  <2>1. PICK at : Good(at, n)
    BY <1>2
  <2>. DEFINE next == [i \in 0..n+1 |-> IF i = n + 1 THEN Apply(acts[n + 1], at[n]) ELSE at[i]]
  <2>2. Good(next, n + 1)
    <3>1. ASSUME NEW i \in 0..n+1
          PROVE  next[i] = IF i = 0 THEN base ELSE Apply(acts[i], next[i-1])
      BY <2>1
    <3>. HIDE DEF next
    <3>2. next = [i \in 0..n+1 |-> next[i]]
      BY DEF next
    <3>. QED
      BY <3>1, <3>2
  <2>. HIDE DEF Good, next
  <2>. QED
    BY <2>2
<1>3. \E at : Good(at, Len(acts))
  <2>. HIDE DEF Good
  <2>. QED
    BY <1>1, <1>2, Induction
<1>. DEFINE at == CHOOSE at : Good(at, Len(acts))
<1>4. Good(at, Len(acts))
  <2>. HIDE DEF Good
  <2>. QED
    BY <1>3
<1>5. Replay(base, acts) = [i \in 1..Len(acts) + 1 |-> at[i - 1]]
  BY DEF Replay
<1>. HIDE DEF at
<1>6. at[0] = base /\ \A i \in 1..Len(acts) : at[i] = Apply(acts[i], at[i - 1])
  BY <1>4
<1>7. \A i \in 1..Len(acts) + 1 : Replay(base, acts)[i] = at[i - 1]
  BY <1>5
<1>8. \A i \in 1..Len(acts) : /\ i + 1 \in 1..Len(acts) + 1 /\ i \in 1..Len(acts) + 1
                              /\ (i + 1) - 1 = i
  OBVIOUS
<1>9. 1 \in 1..Len(acts) + 1 /\ 1 - 1 = 0
  OBVIOUS
<1>10. Replay(base, acts)[1] = base
  BY <1>6, <1>7, <1>9
<1>11. \A i \in 1..Len(acts) : Replay(base, acts)[i + 1] = Apply(acts[i], Replay(base, acts)[i])
  BY <1>6, <1>7, <1>8
<1>. DEFINE f == Replay(base, acts)
            n == Len(acts) + 1
<1>12. n \in Nat /\ f = [i \in 1..n |-> f[i]]
  BY <1>5
<1>13. Line(f) /\ Len(f) = n
  <2>. HIDE DEF f, n
  <2>. QED
    BY <1>12, LineOfFunction
<1>. QED
  BY <1>10, <1>11, <1>13

\* Nothing else does.
LEMMA OnlyReplayFolds ==
  ASSUME NEW base, NEW acts, Len(acts) \in Nat, NEW docs, Line(docs),
         Len(docs) = Len(acts) + 1, docs[1] = base,
         \A i \in 1..Len(acts) : docs[i + 1] = Apply(acts[i], docs[i])
  PROVE  docs = Replay(base, acts)
<1>. DEFINE at == Replay(base, acts)
            S == {n \in Nat : n + 1 \in 1..Len(acts) + 1 => docs[n + 1] = at[n + 1]}
<1>1. /\ Line(at) /\ Len(at) = Len(acts) + 1 /\ at[1] = base
      /\ \A i \in 1..Len(acts) : at[i + 1] = Apply(acts[i], at[i])
  BY ReplayUnfolds
<1>. HIDE DEF at
<1>2. 0 \in S
  BY <1>1
<1>3. ASSUME NEW n \in Nat, n \in S PROVE n + 1 \in S
  <2>. SUFFICES ASSUME (n + 1) + 1 \in 1..Len(acts) + 1
                PROVE  docs[(n + 1) + 1] = at[(n + 1) + 1]
    OBVIOUS
  <2>1. n + 1 \in 1..Len(acts) /\ n + 1 \in 1..Len(acts) + 1
    OBVIOUS
  <2>2. docs[n + 1] = at[n + 1]
    BY <1>3, <2>1
  <2>. QED
    BY <1>1, <2>1, <2>2
<1>4. Nat \subseteq S
  <2>. HIDE DEF S
  <2>. QED
    BY <1>2, <1>3, Induction
<1>5. ASSUME NEW i \in 1..Len(acts) + 1 PROVE docs[i] = at[i]
  <2>1. i - 1 \in Nat /\ (i - 1) + 1 = i
    OBVIOUS
  <2>2. i - 1 \in S
    BY <1>4, <2>1
  <2>. QED
    BY <2>1, <2>2
<1>6. docs = at
  BY <1>1, <1>5, LinesEqual
<1>. QED
  BY <1>6 DEF at

\* Every snapshot is a document.
LEMMA SnapshotsAreDocuments ==
  ASSUME NEW base, base = [c \in Cell |-> base[c]], NEW acts, Len(acts) \in Nat,
         NEW i \in 1..Len(acts) + 1
  PROVE  Replay(base, acts)[i] = [c \in Cell |-> Replay(base, acts)[i][c]]
<1>. DEFINE at == Replay(base, acts)
<1>1. at[1] = base /\ \A j \in 1..Len(acts) : at[j + 1] = Apply(acts[j], at[j])
  BY ReplayUnfolds
<1>. HIDE DEF at
<1>2. CASE i = 1
  BY <1>1, <1>2 DEF at
<1>3. CASE i # 1
  <2>1. i - 1 \in 1..Len(acts) /\ (i - 1) + 1 = i
    BY <1>3
  <2>2. at[i] = Apply(acts[i - 1], at[i - 1])
    BY <1>1, <2>1
  <2>3. at[i] = [c \in Cell |-> at[i][c]]
    BY <2>2 DEF Apply
  <2>. QED
    BY <2>3 DEF at
<1>. QED
  BY <1>2, <1>3

-----------------------------------------------------------------------------
(* Histories                                                                 *)

Edits(acts) == Line(acts) /\ \A i \in 1..Len(acts) : acts[i].kind \in Kind

\* A history whose snapshots are those of folding its actions onto `base`.
IsHistory(base, h) == Edits(h.acts) /\ h = [acts |-> h.acts, docs |-> Replay(base, h.acts)]

\* The empty history is one.
LEMMA NewHistoryIsHistory ==
  ASSUME NEW base
  PROVE  IsHistory(base, NewHistory(base)) /\ NewHistory(base).acts = <<>>
<1>1. Line(<<base>>) /\ Len(<<base>>) = 1 /\ <<base>>[1] = base
  BY LineOfOne
<1>. DEFINE one == <<base>>
            none == <<>>
<1>2. Len(none) \in Nat /\ Len(one) = Len(none) + 1 /\ 1..Len(none) = {}
  BY <1>1, LineOfNone
<1>3. one = Replay(base, none)
  <2>. HIDE DEF one, none
  <2>1. \A i \in 1..Len(none) : one[i + 1] = Apply(none[i], one[i])
    BY <1>2
  <2>2. Line(one) /\ one[1] = base
    BY <1>1 DEF one
  <2>. QED
    BY <1>2, <2>1, <2>2, OnlyReplayFolds
<1>. QED
  BY <1>3, LineOfNone DEF IsHistory, Edits, NewHistory

LEMMA CurrentIsLast ==
  ASSUME NEW base, NEW h, IsHistory(base, h)
  PROVE  Current(h) = Replay(base, h.acts)[Len(h.acts) + 1]
BY ReplayUnfolds DEF IsHistory, Edits, Line, Current

\* Pushing onto a history goes on with its fold.
LEMMA PushAllIsHistory ==
  ASSUME NEW base, NEW h, IsHistory(base, h), NEW more, Edits(more)
  PROVE  IsHistory(base, PushAll(h, more)) /\ PushAll(h, more).acts = h.acts \o more
<1>. DEFINE n == Len(h.acts)
            d == Replay(base, h.acts)
            e == Replay(Current(h), more)
            t == Tail(e)
            acts == h.acts \o more
            docs == d \o t
<1>1. n \in Nat /\ Len(more) \in Nat /\ Line(h.acts) /\ Line(more)
  BY DEF IsHistory, Edits, Line
<1>2. /\ Line(d) /\ Len(d) = n + 1 /\ d[1] = base
      /\ \A i \in 1..n : d[i + 1] = Apply(h.acts[i], d[i])
  BY <1>1, ReplayUnfolds
<1>3. /\ Line(e) /\ Len(e) = Len(more) + 1 /\ e[1] = d[n + 1]
      /\ \A i \in 1..Len(more) : e[i + 1] = Apply(more[i], e[i])
  BY <1>1, ReplayUnfolds, CurrentIsLast
<1>4. /\ Line(t) /\ Len(t) = Len(more)
      /\ \A i \in 1..Len(more) : t[i] = e[i + 1]
  BY <1>1, <1>3, TailOfLine
<1>5. /\ Line(acts) /\ Len(acts) = n + Len(more)
      /\ \A i \in 1..n : acts[i] = h.acts[i]
      /\ \A i \in 1..Len(more) : acts[n + i] = more[i]
  BY <1>1, ConcatOfLines
<1>6. PushAll(h, more) = [acts |-> acts, docs |-> docs]
  <2>1. h.docs = d
    BY DEF IsHistory
  <2>. QED
    BY <2>1 DEF PushAll
<1>. HIDE DEF n, d, e, t, acts
<1>7. /\ Line(docs) /\ Len(docs) = n + 1 + Len(more)
      /\ \A i \in 1..n + 1 : docs[i] = d[i]
      /\ \A i \in 1..Len(more) : docs[n + 1 + i] = e[i + 1]
  <2>1. /\ Line(docs) /\ Len(docs) = Len(d) + Len(t)
        /\ \A i \in 1..Len(d) : docs[i] = d[i]
        /\ \A i \in 1..Len(t) : docs[Len(d) + i] = t[i]
    <3>1. Line(d) /\ Line(t)
      BY <1>2, <1>4
    <3>. QED
      BY ONLY <3>1, ConcatOfLines
  <2>. QED
    BY <1>2, <1>4, <2>1
<1>. HIDE DEF docs
<1>8. \A i \in 1..Len(more) + 1 : docs[n + i] = e[i]
  <2>. SUFFICES ASSUME NEW i \in 1..Len(more) + 1 PROVE docs[n + i] = e[i]
    OBVIOUS
  <2>1. CASE i = 1
    BY <1>1, <1>3, <1>7, <2>1
  <2>2. CASE i # 1
    <3>1. i - 1 \in 1..Len(more) /\ n + 1 + (i - 1) = n + i /\ (i - 1) + 1 = i
      BY <1>1, <2>2
    <3>. QED
      BY <1>7, <3>1
  <2>. QED
    BY <2>1, <2>2
<1>9. ASSUME NEW i \in 1..Len(acts)
      PROVE  docs[i + 1] = Apply(acts[i], docs[i])
  <2>1. CASE i \in 1..n
    <3>1. i + 1 \in 1..n + 1 /\ i \in 1..n + 1
      BY <1>1, <2>1
    <3>. QED
      BY <1>2, <1>5, <1>7, <2>1, <3>1
  <2>2. CASE i \notin 1..n
    <3>1. i - n \in 1..Len(more) /\ n + (i - n) = i
      BY <1>1, <1>5, <2>2
    <3>2. (i - n) + 1 \in 1..Len(more) + 1 /\ n + ((i - n) + 1) = i + 1 /\ i - n \in 1..Len(more) + 1
      BY <1>1, <3>1
    <3>3. docs[i] = e[i - n] /\ docs[i + 1] = e[(i - n) + 1] /\ acts[i] = more[i - n]
      BY <1>5, <1>8, <3>1, <3>2
    <3>. QED
      BY <1>3, <3>1, <3>3
  <2>. QED
    BY <2>1, <2>2
<1>10. docs = Replay(base, acts)
  <2>1. docs[1] = base
    BY <1>1, <1>2, <1>7
  <2>2. Len(docs) = Len(acts) + 1 /\ Len(acts) \in Nat
    BY <1>1, <1>5, <1>7
  <2>. QED
    BY <1>7, <1>9, <2>1, <2>2, OnlyReplayFolds
<1>11. Edits(acts)
  <2>1. \A i \in 1..n : h.acts[i].kind \in Kind
    BY DEF IsHistory, Edits, n
  <2>2. \A i \in 1..Len(more) : more[i].kind \in Kind
    BY DEF Edits
  <2>. SUFFICES ASSUME NEW i \in 1..Len(acts) PROVE acts[i].kind \in Kind
    BY <1>5 DEF Edits
  <2>3. CASE i \in 1..n
    BY <1>5, <2>1, <2>3
  <2>4. CASE i \notin 1..n
    <3>1. i - n \in 1..Len(more) /\ n + (i - n) = i
      BY <1>1, <1>5, <2>4
    <3>. QED
      BY <1>5, <2>2, <3>1
  <2>. QED
    BY <2>3, <2>4
<1>. QED
  BY <1>6, <1>10, <1>11 DEF IsHistory, acts


\* A window on a history is the history of what it spans, folded onto its first
\* snapshot: what rewinding keeps, and what forgetting the oldest keeps.
LEMMA WindowIsHistory ==
  ASSUME NEW base, NEW h, IsHistory(base, h),
         NEW m \in Nat, NEW n \in Nat, m <= n, n <= Len(h.acts)
  PROVE  IsHistory(h.docs[m + 1], [acts |-> SubSeq(h.acts, m + 1, n),
                                   docs |-> SubSeq(h.docs, m + 1, n + 1)])
<1>. DEFINE acts == SubSeq(h.acts, m + 1, n)
            docs == SubSeq(h.docs, m + 1, n + 1)
<1>1. /\ Len(h.acts) \in Nat
      /\ \A i \in 1..Len(h.acts) : h.acts[i].kind \in Kind
      /\ \A i \in 1..Len(h.acts) : h.docs[i + 1] = Apply(h.acts[i], h.docs[i])
  <2>1. Len(h.acts) \in Nat /\ \A i \in 1..Len(h.acts) : h.acts[i].kind \in Kind
    BY DEF IsHistory, Edits, Line
  <2>2. h.docs = Replay(base, h.acts)
    BY DEF IsHistory
  <2>. QED
    BY <2>1, <2>2, ReplayUnfolds
<1>2. /\ Line(acts) /\ Len(acts) = n - m
      /\ \A i \in 1..n - m : acts[i] = h.acts[m + i]
  <2>1. m + 1 \in Nat /\ m + 1 <= n + 1 /\ n - (m + 1) + 1 = n - m
    OBVIOUS
  <2>2. \A i \in 1..n - m : (m + 1) + i - 1 = m + i
    OBVIOUS
  <2>3. /\ Line(acts) /\ Len(acts) = n - (m + 1) + 1
        /\ \A i \in 1..n - (m + 1) + 1 : acts[i] = h.acts[(m + 1) + i - 1]
    BY <2>1, SubSeqOfLine
  <2>. HIDE DEF acts
  <2>. QED
    BY <2>1, <2>2, <2>3
<1>3. /\ Line(docs) /\ Len(docs) = n - m + 1
      /\ \A i \in 1..n - m + 1 : docs[i] = h.docs[m + i]
  <2>1. m + 1 \in Nat /\ n + 1 \in Nat /\ m + 1 <= (n + 1) + 1 /\ (n + 1) - (m + 1) + 1 = n - m + 1
    OBVIOUS
  <2>2. \A i \in 1..n - m + 1 : (m + 1) + i - 1 = m + i
    OBVIOUS
  <2>3. /\ Line(docs) /\ Len(docs) = (n + 1) - (m + 1) + 1
        /\ \A i \in 1..(n + 1) - (m + 1) + 1 : docs[i] = h.docs[(m + 1) + i - 1]
    BY <2>1, SubSeqOfLine
  <2>. HIDE DEF docs
  <2>. QED
    BY <2>1, <2>2, <2>3
<1>. HIDE DEF acts, docs
<1>4. docs[1] = h.docs[m + 1]
  BY <1>3
<1>5. \A i \in 1..Len(acts) : docs[i + 1] = Apply(acts[i], docs[i])
  <2>. SUFFICES ASSUME NEW i \in 1..n - m PROVE docs[i + 1] = Apply(acts[i], docs[i])
    BY <1>2
  <2>1. /\ m + i \in 1..Len(h.acts) /\ m + (i + 1) = (m + i) + 1
        /\ i \in 1..n - m + 1 /\ i + 1 \in 1..n - m + 1
    BY <1>1
  <2>. QED
    BY <1>1, <1>2, <1>3, <2>1
<1>6. docs = Replay(h.docs[m + 1], acts)
  <2>1. Len(acts) \in Nat /\ Len(docs) = Len(acts) + 1
    BY <1>2, <1>3
  <2>. QED
    BY <1>3, <1>4, <1>5, <2>1, OnlyReplayFolds
<1>7. \A i \in 1..Len(acts) : acts[i].kind \in Kind
  <2>1. \A i \in 1..n - m : m + i \in 1..Len(h.acts)
    BY <1>1
  <2>. QED
    BY <1>1, <1>2, <2>1
<1>. QED
  BY <1>2, <1>6, <1>7 DEF IsHistory, Edits, acts, docs

LEMMA RewindIsHistory ==
  ASSUME NEW base, NEW h, IsHistory(base, h), NEW n \in Nat, n <= Len(h.acts)
  PROVE  IsHistory(base, Rewind(h, n)) /\ Rewind(h, n).acts = SubSeq(h.acts, 1, n)
<1>1. h.docs[1] = base
  BY ReplayUnfolds DEF IsHistory, Edits, Line
<1>2. \A m \in Nat : m <= n =>
        IsHistory(h.docs[m + 1], [acts |-> SubSeq(h.acts, m + 1, n),
                                  docs |-> SubSeq(h.docs, m + 1, n + 1)])
  BY WindowIsHistory
<1>3. 0 \in Nat /\ 0 <= n /\ 0 + 1 = 1
  OBVIOUS
<1>4. IsHistory(h.docs[0 + 1], [acts |-> SubSeq(h.acts, 0 + 1, n),
                                docs |-> SubSeq(h.docs, 0 + 1, n + 1)])
  BY <1>2, <1>3
<1>5. IsHistory(h.docs[1], [acts |-> SubSeq(h.acts, 1, n), docs |-> SubSeq(h.docs, 1, n + 1)])
  BY <1>3, <1>4
<1>. QED
  BY <1>1, <1>5 DEF Rewind

-----------------------------------------------------------------------------
(* Removal                                                                   *)

\* The run found conflicts nowhere with the action it follows.
LEMMA RunCommutes ==
  ASSUME NEW h, Len(h.acts) \in Nat, NEW i \in 1..Len(h.acts)
  PROVE  /\ CommutingRun(h, i) \in Nat /\ i + CommutingRun(h, i) <= Len(h.acts)
         /\ \A k \in 1..CommutingRun(h, i) : ~Conflicts(h.acts[i], h.acts[i + k])
<1>. DEFINE later == {j \in i + 1 .. Len(h.acts) : Conflicts(h.acts[i], h.acts[j])}
            stop == IF later = {} THEN Len(h.acts) + 1
                    ELSE CHOOSE j \in later : \A k \in later : j <= k
<1>1. CommutingRun(h, i) = stop - i - 1
  BY DEF CommutingRun
<1>2. /\ stop \in i + 1 .. Len(h.acts) + 1
      /\ \A j \in later : stop <= j
  <2>1. CASE later = {}
    BY <2>1
  <2>2. CASE later # {}
    <3>1. \E j \in later : \A k \in later : j <= k
      <4>1. later \in SUBSET Nat
        OBVIOUS
      <4>. HIDE DEF later
      <4>. QED
        BY <2>2, <4>1, LeastNumber
    <3>2. stop \in later /\ \A k \in later : stop <= k
      <4>. HIDE DEF later
      <4>. QED
        BY <2>2, <3>1
    <3>. HIDE DEF stop
    <3>. QED
      BY <3>2
  <2>. QED
    BY <2>1, <2>2
<1>3. \A j \in i + 1 .. stop - 1 : ~Conflicts(h.acts[i], h.acts[j])
  <2>. HIDE DEF stop
  <2>. QED
    BY <1>2
<1>. HIDE DEF stop, later
<1>4. \A k \in 1..stop - i - 1 : i + k \in i + 1 .. stop - 1
  BY <1>2
<1>5. stop - i - 1 \in Nat /\ i + (stop - i - 1) <= Len(h.acts)
  BY <1>2
<1>. QED
  BY <1>1, <1>3, <1>4, <1>5

\* Shifting an action out past the run it commutes with, each snapshot patched by
\* its inverse, leaves the snapshots a replay without it would have left.
LEMMA RemoveActionIsHistory ==
  ASSUME NEW base, base = [c \in Cell |-> base[c]], NEW h, IsHistory(base, h),
         NEW i \in 1..Len(h.acts)
  PROVE  /\ IsHistory(base, RemoveAction(h, i))
         /\ Len(RemoveAction(h, i).acts) = Len(h.acts) - 1
         /\ \A j \in 1..Len(h.acts) - 1 :
              RemoveAction(h, i).acts[j] = IF j < i THEN h.acts[j] ELSE h.acts[j + 1]
<1>. DEFINE n == Len(h.acts)
            run == CommutingRun(h, i)
            a == h.acts[i]
            before == SubSeq(h.acts, 1, i - 1)
            passed == SubSeq(h.acts, i + 1, i + run)
            rest == SubSeq(h.acts, i + run + 1, n)
            kept == SubSeq(h.docs, 1, i)
            patched == [k \in 1..run |-> Unapply(a, h.docs[i], h.docs[i + 1 + k])]
            acts == before \o passed
            docs == kept \o patched
            fixed == [acts |-> acts, docs |-> docs]
<1>1. /\ n \in Nat /\ i \in 1..n /\ Line(h.acts) /\ h.docs = Replay(base, h.acts)
      /\ \A j \in 1..n : h.acts[j].kind \in Kind
  BY DEF IsHistory, Edits, Line
<1>2. /\ run \in Nat /\ i + run <= n
      /\ \A k \in 1..run : ~Conflicts(a, h.acts[i + k])
  BY <1>1, RunCommutes
<1>3. /\ Len(h.docs) = n + 1 /\ h.docs[1] = base
      /\ \A j \in 1..n : h.docs[j + 1] = Apply(h.acts[j], h.docs[j])
  BY <1>1, ReplayUnfolds
<1>4. h.docs[i] = [c \in Cell |-> h.docs[i][c]]
  <2>1. i \in 1..n + 1
    BY <1>1
  <2>. QED
    BY <1>1, <2>1, SnapshotsAreDocuments
<1>5. RemoveAction(h, i) = PushAll(fixed, rest)
  BY DEF RemoveAction
<1>. HIDE DEF n, run
<1>6. Line(before) /\ Len(before) = i - 1 /\ \A j \in 1..i - 1 : before[j] = h.acts[j]
  <2>1. /\ Line(before) /\ Len(before) = (i - 1) - 1 + 1
        /\ \A j \in 1..(i - 1) - 1 + 1 : before[j] = h.acts[1 + j - 1]
    <3>1. 1 \in Nat /\ i - 1 \in Nat /\ 1 <= (i - 1) + 1
      BY <1>1 DEF n
    <3>. QED
      BY ONLY <3>1, SubSeqOfLine
  <2>2. (i - 1) - 1 + 1 = i - 1 /\ \A j \in 1..i - 1 : 1 + j - 1 = j
    BY <1>1 DEF n
  <2>. HIDE DEF before
  <2>. QED
    BY <2>1, <2>2
<1>7. Line(passed) /\ Len(passed) = run /\ \A k \in 1..run : passed[k] = h.acts[i + k]
  <2>1. /\ Line(passed) /\ Len(passed) = (i + run) - (i + 1) + 1
        /\ \A j \in 1..(i + run) - (i + 1) + 1 : passed[j] = h.acts[(i + 1) + j - 1]
    <3>1. i + 1 \in Nat /\ i + run \in Nat /\ i + 1 <= (i + run) + 1
      BY <1>1, <1>2
    <3>. QED
      BY ONLY <3>1, SubSeqOfLine
  <2>2. (i + run) - (i + 1) + 1 = run /\ \A j \in 1..run : (i + 1) + j - 1 = i + j
    BY <1>1, <1>2
  <2>. HIDE DEF passed
  <2>. QED
    BY <2>1, <2>2
<1>8. Line(rest) /\ Len(rest) = n - i - run /\ \A k \in 1..n - i - run : rest[k] = h.acts[i + run + k]
  <2>1. /\ Line(rest) /\ Len(rest) = n - (i + run + 1) + 1
        /\ \A j \in 1..n - (i + run + 1) + 1 : rest[j] = h.acts[(i + run + 1) + j - 1]
    <3>1. i + run + 1 \in Nat /\ n \in Nat /\ i + run + 1 <= n + 1
      BY <1>1, <1>2
    <3>. QED
      BY ONLY <3>1, SubSeqOfLine
  <2>2. n - (i + run + 1) + 1 = n - i - run
        /\ \A j \in 1..n - i - run : (i + run + 1) + j - 1 = i + run + j
    BY <1>1, <1>2
  <2>. HIDE DEF rest
  <2>. QED
    BY <2>1, <2>2
<1>9. Line(kept) /\ Len(kept) = i /\ \A j \in 1..i : kept[j] = h.docs[j]
  <2>1. /\ Line(kept) /\ Len(kept) = i - 1 + 1
        /\ \A j \in 1..i - 1 + 1 : kept[j] = h.docs[1 + j - 1]
    <3>1. 1 \in Nat /\ i \in Nat /\ 1 <= i + 1
      BY <1>1
    <3>. QED
      BY ONLY <3>1, SubSeqOfLine
  <2>2. i - 1 + 1 = i /\ \A j \in 1..i : 1 + j - 1 = j
    BY <1>1
  <2>. HIDE DEF kept
  <2>. QED
    BY <2>1, <2>2
<1>10. /\ Line(patched) /\ Len(patched) = run
       /\ \A k \in 1..run : patched[k] = Unapply(a, h.docs[i], h.docs[i + 1 + k])
  <2>1. \A k \in 1..run : patched[k] = Unapply(a, h.docs[i], h.docs[i + 1 + k])
    OBVIOUS
  <2>2. patched = [k \in 1..run |-> patched[k]]
    OBVIOUS
  <2>. HIDE DEF patched
  <2>. QED
    BY <1>2, <2>1, <2>2, LineOfFunction
<1>. HIDE DEF before, passed, rest, kept, patched
<1>11. /\ Line(acts) /\ Len(acts) = i - 1 + run
       /\ \A j \in 1..i - 1 : acts[j] = h.acts[j]
       /\ \A k \in 1..run : acts[i - 1 + k] = h.acts[i + k]
  <2>1. /\ Line(acts) /\ Len(acts) = Len(before) + Len(passed)
        /\ \A j \in 1..Len(before) : acts[j] = before[j]
        /\ \A k \in 1..Len(passed) : acts[Len(before) + k] = passed[k]
    <3>1. Line(before) /\ Line(passed)
      BY <1>6, <1>7
    <3>. QED
      BY ONLY <3>1, ConcatOfLines
  <2>. HIDE DEF acts
  <2>. QED
    BY <1>6, <1>7, <2>1
<1>12. /\ Line(docs) /\ Len(docs) = i + run
       /\ \A j \in 1..i : docs[j] = h.docs[j]
       /\ \A k \in 1..run : docs[i + k] = Unapply(a, h.docs[i], h.docs[i + 1 + k])
  <2>1. /\ Line(docs) /\ Len(docs) = Len(kept) + Len(patched)
        /\ \A j \in 1..Len(kept) : docs[j] = kept[j]
        /\ \A k \in 1..Len(patched) : docs[Len(kept) + k] = patched[k]
    <3>1. Line(kept) /\ Line(patched)
      BY <1>9, <1>10
    <3>. QED
      BY ONLY <3>1, ConcatOfLines
  <2>. HIDE DEF docs
  <2>. QED
    BY <1>9, <1>10, <2>1
<1>. HIDE DEF acts, docs
<1>13. \A k \in 0..run : docs[i + k] = Unapply(a, h.docs[i], h.docs[i + 1 + k])
  <2>. SUFFICES ASSUME NEW k \in 0..run
                PROVE  docs[i + k] = Unapply(a, h.docs[i], h.docs[i + 1 + k])
    OBVIOUS
  <2>1. CASE k = 0
    <3>1. i + k = i /\ i + 1 + k = i + 1 /\ i \in 1..i /\ i \in 1..n
      BY <1>1, <2>1 DEF n
    <3>2. h.docs[i + 1] = Apply(a, h.docs[i]) /\ a.kind \in Kind
      BY <1>1, <1>3, <3>1
    <3>3. Unapply(a, h.docs[i], h.docs[i + 1]) = h.docs[i]
      BY <1>4, <3>2, InverseRestores
    <3>. QED
      BY <1>12, <3>1, <3>3
  <2>2. CASE k # 0
    BY <1>2, <1>12, <2>2
  <2>. QED
    BY <2>1, <2>2
<1>14. ASSUME NEW j \in 1..Len(acts)
       PROVE  docs[j + 1] = Apply(acts[j], docs[j])
  <2>1. CASE j < i
    <3>1. /\ j \in 1..i - 1 /\ j \in 1..i /\ j + 1 \in 1..i /\ j \in 1..n
      BY <1>1, <1>2, <1>11, <2>1
    <3>. QED
      BY <1>3, <1>11, <1>12, <3>1
  <2>2. CASE ~(j < i)
    <3>. DEFINE k == j - i + 1
    <3>1. /\ k \in 1..run /\ k \in 0..run /\ k - 1 \in 0..run
          /\ i - 1 + k = j /\ i + k = j + 1 /\ i + (k - 1) = j
          /\ i + 1 + (k - 1) = i + k /\ i + 1 + k = (i + k) + 1 /\ i + k \in 1..n
      <4>1. j \in 1..i - 1 + run
        BY <1>11
      <4>2. n \in Nat /\ i \in 1..n /\ run \in Nat /\ i + run <= n
        BY <1>1, <1>2
      <4>. QED
        BY ONLY <2>2, <4>1, <4>2
    <3>. HIDE DEF k
    <3>2. /\ acts[j] = h.acts[i + k]
          /\ docs[j + 1] = Unapply(a, h.docs[i], h.docs[(i + k) + 1])
          /\ docs[j] = Unapply(a, h.docs[i], h.docs[i + k])
      <4>1. acts[j] = h.acts[i + k]
        BY <1>11, <3>1
      <4>2. docs[j + 1] = Unapply(a, h.docs[i], h.docs[i + 1 + k])
        BY <1>13, <3>1
      <4>3. docs[j] = Unapply(a, h.docs[i], h.docs[i + 1 + (k - 1)])
        BY <1>13, <3>1
      <4>. QED
        BY <3>1, <4>1, <4>2, <4>3
    <3>3. h.docs[(i + k) + 1] = Apply(h.acts[i + k], h.docs[i + k])
      BY <1>3, <3>1
    <3>4. a.kind \in Kind /\ h.acts[i + k].kind \in Kind /\ ~Conflicts(a, h.acts[i + k])
      BY <1>1, <1>2, <3>1 DEF n
    <3>5. Unapply(a, h.docs[i], Apply(h.acts[i + k], h.docs[i + k]))
            = Apply(h.acts[i + k], Unapply(a, h.docs[i], h.docs[i + k]))
      BY <3>4, InversePassesNonConflicting
    <3>. QED
      BY <3>2, <3>3, <3>5
  <2>. QED
    BY <2>1, <2>2
<1>15. docs = Replay(base, acts)
  <2>1. docs[1] = base
    <3>1. 1 \in 1..i
      BY <1>1 DEF n
    <3>. QED
      BY <1>3, <1>12, <3>1
  <2>2. Len(acts) \in Nat /\ Len(docs) = Len(acts) + 1
    BY <1>1, <1>2, <1>11, <1>12
  <2>. QED
    BY <1>12, <1>14, <2>1, <2>2, OnlyReplayFolds
<1>16. Edits(acts) /\ Edits(rest)
  <2>1. ASSUME NEW j \in 1..Len(acts) PROVE acts[j].kind \in Kind
    <3>1. CASE j < i
      <4>1. j \in 1..i - 1 /\ j \in 1..n
        BY <1>1, <1>2, <1>11, <3>1
      <4>. QED
        BY <1>1, <1>11, <4>1
    <3>2. CASE ~(j < i)
      <4>1. j - i + 1 \in 1..run /\ i - 1 + (j - i + 1) = j /\ i + (j - i + 1) \in 1..n
        BY <1>1, <1>2, <1>11, <3>2, SMTT(30)
      <4>. QED
        BY <1>1, <1>11, <4>1
    <3>. QED
      BY <3>1, <3>2
  <2>2. ASSUME NEW j \in 1..Len(rest) PROVE rest[j].kind \in Kind
    <3>1. j \in 1..n - i - run /\ i + run + j \in 1..n
      BY <1>1, <1>2, <1>8
    <3>. QED
      BY <1>1, <1>8, <3>1
  <2>. QED
    BY <1>8, <1>11, <2>1, <2>2 DEF Edits
<1>17. IsHistory(base, fixed)
  BY <1>15, <1>16 DEF IsHistory
<1>18. IsHistory(base, PushAll(fixed, rest)) /\ PushAll(fixed, rest).acts = acts \o rest
  <2>1. fixed.acts = acts
    OBVIOUS
  <2>. HIDE DEF fixed
  <2>2. IsHistory(base, PushAll(fixed, rest)) /\ PushAll(fixed, rest).acts = fixed.acts \o rest
    BY <1>16, <1>17, PushAllIsHistory
  <2>. QED
    BY <2>1, <2>2
<1>19. /\ Len(acts \o rest) = n - 1
       /\ \A j \in 1..n - 1 : (acts \o rest)[j] = IF j < i THEN h.acts[j] ELSE h.acts[j + 1]
  <2>. DEFINE all == acts \o rest
  <2>1. /\ Len(all) = Len(acts) + Len(rest)
        /\ \A j \in 1..Len(acts) : all[j] = acts[j]
        /\ \A k \in 1..Len(rest) : all[Len(acts) + k] = rest[k]
    <3>1. Line(acts) /\ Line(rest)
      BY <1>8, <1>11
    <3>. QED
      BY ONLY <3>1, ConcatOfLines
  <2>. HIDE DEF all
  <2>2. Len(all) = n - 1
    BY <1>1, <1>2, <1>8, <1>11, <2>1
  <2>3. ASSUME NEW j \in 1..n - 1 PROVE all[j] = IF j < i THEN h.acts[j] ELSE h.acts[j + 1]
    <3>1. CASE j < i
      <4>1. j \in 1..i - 1 /\ j \in 1..Len(acts)
        BY <1>1, <1>2, <1>11, <3>1
      <4>. QED
        BY <1>11, <2>1, <3>1, <4>1
    <3>2. CASE ~(j < i) /\ j <= Len(acts)
      <4>1. j - i + 1 \in 1..run /\ i - 1 + (j - i + 1) = j /\ i + (j - i + 1) = j + 1 /\ j \in 1..Len(acts)
        BY <1>1, <1>2, <1>11, <3>2, SMTT(30)
      <4>. QED
        BY <1>11, <2>1, <3>2, <4>1, SMTT(30)
    <3>3. CASE ~(j <= Len(acts))
      <4>1. /\ j - Len(acts) \in 1..Len(rest) /\ Len(acts) + (j - Len(acts)) = j
            /\ i + run + (j - Len(acts)) = j + 1 /\ ~(j < i) /\ j - Len(acts) \in 1..n - i - run
        <5>1. Len(acts) = i - 1 + run /\ Len(rest) = n - i - run
          BY <1>8, <1>11
        <5>2. n \in Nat /\ i \in 1..n /\ run \in Nat /\ i + run <= n
          BY <1>1, <1>2
        <5>. QED
          BY ONLY <3>3, <5>1, <5>2, j \in 1..n - 1
      <4>. QED
        BY <1>8, <2>1, <4>1
    <3>. QED
      BY <3>1, <3>2, <3>3
  <2>. QED
    BY <2>2, <2>3 DEF all
<1>. QED
  BY <1>5, <1>18, <1>19 DEF n
-----------------------------------------------------------------------------
(* Orders on finite sets. *)

\* The members of S that R puts before a.
Below(S, R, a) == {b \in S : <<b, a>> \in R}

\* In a finite totally ordered set every rank below its size is held, and held
\* once: what sorting by the number of smaller elements relies on.
LEMMA RanksCover ==
  ASSUME NEW S, IsFiniteSet(S), NEW R,
         \A a \in S : <<a, a>> \notin R,
         \A a, b, c \in S : <<a, b>> \in R /\ <<b, c>> \in R => <<a, c>> \in R,
         \A a, b \in S : a = b \/ <<a, b>> \in R \/ <<b, a>> \in R
  PROVE  /\ Cardinality(S) \in Nat
         /\ \A a \in S : /\ IsFiniteSet(Below(S, R, a))
                         /\ Cardinality(Below(S, R, a)) \in 0..Cardinality(S) - 1
         /\ \A a, c \in S : <<a, c>> \in R =>
              Cardinality(Below(S, R, a)) < Cardinality(Below(S, R, c))
         /\ \A i \in 1..Cardinality(S) :
              \E a \in S : Cardinality(Below(S, R, a)) = i - 1
<1>. DEFINE n == Cardinality(S)
            rank == [a \in S |-> Cardinality(Below(S, R, a))]
<1>1. n \in Nat
  BY FS_CardinalityType
<1>2. ASSUME NEW a \in S
      PROVE  IsFiniteSet(Below(S, R, a)) /\ Cardinality(Below(S, R, a)) \in 0..n - 1
  <2>1. IsFiniteSet(S \ {a}) /\ Cardinality(S \ {a}) = n - 1
    BY FS_RemoveElement
  <2>2. Below(S, R, a) \in SUBSET (S \ {a})
    BY DEF Below
  <2>. HIDE DEF n
  <2>3. IsFiniteSet(Below(S, R, a)) /\ Cardinality(Below(S, R, a)) <= n - 1
    BY <2>1, <2>2, FS_Subset
  <2>4. Cardinality(Below(S, R, a)) \in Nat
    BY <2>3, FS_CardinalityType
  <2>. QED
    BY <1>1, <2>3, <2>4
<1>3. ASSUME NEW a \in S, NEW c \in S, <<a, c>> \in R
      PROVE  Cardinality(Below(S, R, a)) < Cardinality(Below(S, R, c))
  <2>1. Below(S, R, a) \cup {a} \in SUBSET Below(S, R, c) /\ a \notin Below(S, R, a)
    BY <1>3 DEF Below
  <2>2. Cardinality(Below(S, R, a) \cup {a}) = Cardinality(Below(S, R, a)) + 1
    BY <1>2, <2>1, FS_AddElement
  <2>3. Cardinality(Below(S, R, a) \cup {a}) <= Cardinality(Below(S, R, c))
    BY <1>2, <2>1, FS_Subset
  <2>. QED
    BY <1>1, <1>2, <2>2, <2>3
<1>4. rank \in Injection(S, 0..n - 1)
  <2>1. rank \in [S -> 0..n - 1]
    <3>. HIDE DEF n
    <3>. QED
      BY <1>2
  <2>2. \A a, c \in S : rank[a] = rank[c] => a = c
    <3>. SUFFICES ASSUME NEW a \in S, NEW c \in S, a # c PROVE rank[a] # rank[c]
      OBVIOUS
    <3>1. <<a, c>> \in R \/ <<c, a>> \in R
      OBVIOUS
    <3>. HIDE DEF n
    <3>2. rank[a] < rank[c] \/ rank[c] < rank[a]
      BY <1>3, <3>1
    <3>3. rank[a] \in Nat /\ rank[c] \in Nat
      BY <1>2
    <3>. QED
      BY <3>2, <3>3
  <2>. QED
    BY <2>1, <2>2 DEF Injection, IsInjective
<1>5. IsFiniteSet(0..n - 1) /\ Cardinality(0..n - 1) = n
  <2>1. 0 \in Int /\ n - 1 \in Int
    BY <1>1
  <2>. HIDE DEF n
  <2>2. IsFiniteSet(0..n - 1) /\ Cardinality(0..n - 1) = IF 0 > n - 1 THEN 0 ELSE (n - 1) - 0 + 1
    BY <2>1, FS_Interval
  <2>. QED
    BY <1>1, <2>2
<1>6. rank \in Surjection(S, 0..n - 1)
  <2>. HIDE DEF rank
  <2>. QED
    BY <1>4, <1>5, FS_Injection DEF n
<1>7. ASSUME NEW i \in 1..n
      PROVE  \E a \in S : Cardinality(Below(S, R, a)) = i - 1
  <2>1. i - 1 \in 0..n - 1
    BY <1>1
  <2>. HIDE DEF n
  <2>. QED
    BY <1>6, <2>1 DEF Surjection
<1>. QED
  BY <1>1, <1>2, <1>3, <1>7

\* The ids of finitely many actions are finitely many.
LEMMA IdsFinite ==
  ASSUME NEW X, IsFiniteSet(X)
  PROVE  IsFiniteSet({x.id : x \in X})
<1>. DEFINE f == [x \in X |-> x.id]
            ids == {x.id : x \in X}
<1>1. f \in Surjection(X, ids)
  BY DEF Surjection
<1>. HIDE DEF f, ids
<1>2. IsFiniteSet(ids)
  BY <1>1, FS_Surjection
<1>. QED
  BY <1>2 DEF ids

-----------------------------------------------------------------------------
(* The undo algebra. *)

\* effect.rs: a search from the newest end answers a member or nothing.
LEMMA LatestIsMember ==
  ASSUME NEW ids, Latest(ids) # NoId
  PROVE  Latest(ids) \in ids
  BY DEF Latest

\* effect.rs: there is nothing to find among no actions.
LEMMA LatestOfNone == Latest({}) = NoId
  BY DEF Latest

\* action.rs: the order of ids is strict.
LEMMA IdLessAsymmetric ==
  ASSUME NEW a \in ActionId, NEW b \in ActionId, IdLess(a, b)
  PROVE  a # b /\ ~IdLess(b, a)
<1>1. /\ a.lamport \in Nat /\ b.lamport \in Nat
      /\ a.actor \in Nat /\ b.actor \in Nat
  BY ActorAssumption DEF ActionId
<1> QED
  BY <1>1 DEF IdLess

\* effect.rs: an id that follows all the others is the latest.
LEMMA LatestOfTop ==
  ASSUME NEW ids \in SUBSET ActionId, NEW top \in ids,
         \A i \in ids : i = top \/ IdLess(i, top)
  PROVE  Latest(ids) = top
<1> DEFINE newest == {i \in ids : \A j \in ids : j = i \/ IdLess(j, i)}
<1>1. top \in newest
  OBVIOUS
<1>2. \A i \in newest : i = top
  BY IdLessAsymmetric
<1>3. newest = {top}
  BY <1>1, <1>2
<1> QED
  BY <1>3 DEF Latest

LEMMA ActionFields ==
  ASSUME NEW a \in Action
  PROVE  /\ a.id \in ActionId
         /\ a.id.lamport \in Nat
         /\ a.id.actor \in Actor
         /\ a.id.actor \in Nat
         /\ a.target \in ActionId \cup {NoId}
         /\ ~Ordinary(a) => a.target \in ActionId
  BY ActorAssumption DEF Action, ActionId, Ordinary

LEMMA NoIdIsNoActionId == NoId \notin ActionId
  BY NoIdAssumption, ActorAssumption DEF ActionId

\* effect.rs undone_ids answers ids of actions.
LEMMA UndoneIdsType ==
  ASSUME NEW l \in SUBSET Action
  PROVE  UndoneIds(l) \in SUBSET ActionId
<1>1. \A u \in Undos(l) : u.target \in ActionId
  BY ActionFields DEF Undos
<1> QED
  BY <1>1 DEF UndoneIds, Suppressed

\* action.rs: the order of ids is total.
LEMMA IdLessOrders ==
  /\ \A a \in ActionId : ~IdLess(a, a)
  /\ \A a, b, c \in ActionId : IdLess(a, b) /\ IdLess(b, c) => IdLess(a, c)
  /\ \A a, b \in ActionId : a = b \/ IdLess(a, b) \/ IdLess(b, a)
<1>1. \A a \in ActionId : a.lamport \in Nat /\ a.actor \in Nat
  BY ActorAssumption DEF ActionId
<1>2. \A a, b \in ActionId : a.lamport = b.lamport /\ a.actor = b.actor => a = b
  BY DEF ActionId
<1>. QED
  BY <1>1, <1>2 DEF IdLess

\* effect.rs: among finitely many ids there is a newest, and the search finds it.
LEMMA LatestIsNewest ==
  ASSUME NEW ids \in SUBSET ActionId, IsFiniteSet(ids), ids # {}
  PROVE  /\ Latest(ids) \in ids
         /\ \A j \in ids : j = Latest(ids) \/ IdLess(j, Latest(ids))
<1>. DEFINE R == {p \in ids \X ids : IdLess(p[1], p[2])}
<1>1. /\ \A a \in ids : <<a, a>> \notin R
      /\ \A a, b, c \in ids : <<a, b>> \in R /\ <<b, c>> \in R => <<a, c>> \in R
      /\ \A a, b \in ids : a = b \/ <<a, b>> \in R \/ <<b, a>> \in R
  BY IdLessOrders
<1>2. Cardinality(ids) \in Nat /\ Cardinality(ids) # 0
  BY FS_CardinalityType, FS_EmptySet
<1>3. PICK top \in ids : Cardinality(Below(ids, R, top)) = Cardinality(ids) - 1
  <2>. HIDE DEF R
  <2>1. Cardinality(ids) \in 1..Cardinality(ids)
    BY <1>2
  <2>2. \A i \in 1..Cardinality(ids) :
          \E top \in ids : Cardinality(Below(ids, R, top)) = i - 1
    BY <1>1, RanksCover
  <2>. QED
    BY <2>1, <2>2
<1>4. Below(ids, R, top) = ids \ {top}
  <2>. DEFINE below == Below(ids, R, top)
  <2>1. IsFiniteSet(ids \ {top}) /\ Cardinality(ids \ {top}) = Cardinality(ids) - 1
    BY FS_RemoveElement
  <2>2. below \in SUBSET (ids \ {top})
    BY <1>1 DEF Below
  <2>3. Cardinality(below) = Cardinality(ids) - 1
    BY <1>3
  <2>. HIDE DEF below
  <2>4. below = ids \ {top}
    BY <2>1, <2>2, <2>3, FS_Subset
  <2>. QED
    BY <2>4 DEF below
<1>5. \A j \in ids : j = top \/ IdLess(j, top)
  BY <1>4 DEF Below
<1>6. Latest(ids) = top
  BY <1>5, LatestOfTop
<1>. QED
  BY <1>5, <1>6

\* A log as the timeline keeps it: finitely many actions, each id once.
IsLog(l) == l \in SUBSET Action /\ IsFiniteSet(l) /\ \A a, b \in l : a.id = b.id => a = b

\* effect.rs effective_actions: no two effective actions claim the same slot, for
\* a slot is an action's own id or that of a redo of it alone.
LEMMA MaterialKeysDistinct ==
  ASSUME NEW l, IsLog(l), NEW gone
  PROVE  /\ \A a \in Effective(l, gone) :
              /\ MaterialKey(l, gone, a) \in ActionId
              /\ \/ MaterialKey(l, gone, a) = a.id
                 \/ \E x, u \in Undos(l) : /\ x.id = MaterialKey(l, gone, a)
                                          /\ u.id = x.target /\ u.target = a.id
         /\ \A a, b \in Effective(l, gone) :
              MaterialKey(l, gone, a) = MaterialKey(l, gone, b) => a = b
<1>1. \A a \in l : a.id \in ActionId
  BY ActionFields DEF IsLog
<1>2. ASSUME NEW a \in Effective(l, gone)
      PROVE  \/ MaterialKey(l, gone, a) = a.id
             \/ \E x, u \in Undos(l) : /\ x.id = MaterialKey(l, gone, a)
                                      /\ u.id = x.target /\ u.target = a.id
  <2>. DEFINE revivals == Revivals(l, gone, a)
              X == {x \in Undos(l) : /\ x.id \notin gone
                                     /\ \E u \in Undos(l) : u.id = x.target /\ u.target = a.id}
  <2>1. CASE revivals = {}
    BY <2>1 DEF MaterialKey
  <2>2. CASE revivals # {}
    <3>1. MaterialKey(l, gone, a) = Latest(revivals)
      BY <2>2 DEF MaterialKey
    <3>2. revivals = {x.id : x \in X}
      BY DEF Revivals
    <3>3. IsFiniteSet(X)
      <4>1. X \in SUBSET l
        BY DEF Undos
      <4>. HIDE DEF X
      <4>. QED
        BY <4>1, FS_Subset DEF IsLog
    <3>4. revivals \in SUBSET ActionId
      BY <1>1, <3>2 DEF Undos
    <3>5. IsFiniteSet(revivals)
      <4>. HIDE DEF X, revivals
      <4>. QED
        BY <3>2, <3>3, IdsFinite
    <3>. HIDE DEF revivals
    <3>6. Latest(revivals) \in revivals
      BY <2>2, <3>4, <3>5, LatestIsNewest
    <3>. QED
      BY <3>1, <3>2, <3>6
  <2>. QED
    BY <2>1, <2>2
<1>3. \A a \in Effective(l, gone) : a \in l /\ Ordinary(a)
  BY DEF Effective
<1>4. \A u \in Undos(l) : u \in l /\ ~Ordinary(u)
  BY DEF Undos
<1>5. \A a, b \in l : a.id = b.id => a = b
  BY DEF IsLog
<1>6. \A a \in Effective(l, gone) : MaterialKey(l, gone, a) \in ActionId
  BY <1>1, <1>2, <1>3, <1>4
<1>7. ASSUME NEW a \in Effective(l, gone), NEW b \in Effective(l, gone),
             MaterialKey(l, gone, a) = MaterialKey(l, gone, b)
      PROVE  a = b
  <2>1. CASE MaterialKey(l, gone, a) = a.id
    <3>1. \A x \in Undos(l) : x.id # a.id
      BY <1>3, <1>4, <1>5
    <3>2. MaterialKey(l, gone, b) = b.id
      BY <1>2, <1>7, <2>1, <3>1
    <3>. QED
      BY <1>3, <1>5, <1>7, <2>1, <3>2
  <2>2. CASE MaterialKey(l, gone, b) = b.id
    <3>1. \A x \in Undos(l) : x.id # b.id
      BY <1>3, <1>4, <1>5
    <3>2. MaterialKey(l, gone, a) = a.id
      BY <1>2, <1>7, <2>2, <3>1
    <3>. QED
      BY <1>3, <1>5, <1>7, <2>2, <3>2
  <2>3. CASE MaterialKey(l, gone, a) # a.id /\ MaterialKey(l, gone, b) # b.id
    <3>1. PICK x, u \in Undos(l) : x.id = MaterialKey(l, gone, a) /\ u.id = x.target /\ u.target = a.id
      BY <1>2, <2>3
    <3>2. PICK y, v \in Undos(l) : y.id = MaterialKey(l, gone, b) /\ v.id = y.target /\ v.target = b.id
      BY <1>2, <2>3
    <3>3. x = y
      BY <1>4, <1>5, <1>7, <3>1, <3>2
    <3>4. u = v
      BY <1>4, <1>5, <3>1, <3>2, <3>3
    <3>. QED
      BY <1>3, <1>5, <3>1, <3>2, <3>4
  <2>. QED
    BY <2>1, <2>2, <2>3
<1>. QED
  BY <1>2, <1>6, <1>7

\* How many effective actions come before `a` in materialization order.
Rank(l, gone, a) ==
  Cardinality({b \in Effective(l, gone) :
                 IdLess(MaterialKey(l, gone, b), MaterialKey(l, gone, a))})

\* effect.rs effective_actions: the sequence holds each effective action once, at
\* the position its slot gives it.
LEMMA EffectiveInOrder ==
  ASSUME NEW l, IsLog(l), NEW gone
  PROVE  LET S   == Effective(l, gone)
             seq == EffectiveActions(l, gone)
         IN  /\ IsFiniteSet(S)
             /\ Cardinality(S) \in Nat
             /\ Line(seq) /\ Len(seq) = Cardinality(S)
             /\ \A i \in 1..Len(seq) : seq[i] \in S /\ Rank(l, gone, seq[i]) = i - 1
             /\ \A a \in S : Rank(l, gone, a) \in 0..Cardinality(S) - 1
             /\ \A a, b \in S : Rank(l, gone, a) = Rank(l, gone, b) => a = b
<1>. DEFINE S == Effective(l, gone)
            key(a) == MaterialKey(l, gone, a)
            seq == EffectiveActions(l, gone)
            R == {p \in S \X S : IdLess(key(p[1]), key(p[2]))}
<1>1. IsFiniteSet(S)
  <2>1. S \in SUBSET l
    BY DEF Effective
  <2>. HIDE DEF S
  <2>. QED
    BY <2>1, FS_Subset DEF IsLog
<1>2. \A a \in S : key(a) \in ActionId
  BY MaterialKeysDistinct
<1>3. \A a, b \in S : key(a) = key(b) => a = b
  BY MaterialKeysDistinct
<1>4. \A a \in S : Rank(l, gone, a) = Cardinality(Below(S, R, a))
  <2>1. \A a \in S : {b \in S : IdLess(key(b), key(a))} = Below(S, R, a)
    BY DEF Below
  <2>. QED
    BY <2>1 DEF Rank
<1>5. seq = [i \in 1..Cardinality(S) |-> CHOOSE a \in S : Rank(l, gone, a) = i - 1]
  BY DEF EffectiveActions, Rank
<1>. HIDE DEF S, key
<1>6. /\ \A a \in S : <<a, a>> \notin R
      /\ \A a, b, c \in S : <<a, b>> \in R /\ <<b, c>> \in R => <<a, c>> \in R
      /\ \A a, b \in S : a = b \/ <<a, b>> \in R \/ <<b, a>> \in R
  BY <1>2, <1>3, IdLessOrders
<1>. HIDE DEF R
<1>7. /\ Cardinality(S) \in Nat
      /\ \A a \in S : Cardinality(Below(S, R, a)) \in 0..Cardinality(S) - 1
      /\ \A a, c \in S : <<a, c>> \in R =>
           Cardinality(Below(S, R, a)) < Cardinality(Below(S, R, c))
      /\ \A i \in 1..Cardinality(S) :
           \E a \in S : Cardinality(Below(S, R, a)) = i - 1
  BY <1>1, <1>6, RanksCover
<1>8. /\ \A a \in S : Rank(l, gone, a) \in 0..Cardinality(S) - 1
      /\ \A a, c \in S : <<a, c>> \in R => Rank(l, gone, a) < Rank(l, gone, c)
      /\ \A i \in 1..Cardinality(S) : \E a \in S : Rank(l, gone, a) = i - 1
  BY <1>4, <1>7
<1>9. \A a, b \in S : Rank(l, gone, a) = Rank(l, gone, b) => a = b
  <2>. SUFFICES ASSUME NEW a \in S, NEW b \in S, a # b
                PROVE  Rank(l, gone, a) # Rank(l, gone, b)
    OBVIOUS
  <2>1. <<a, b>> \in R \/ <<b, a>> \in R
    BY <1>6
  <2>2. Rank(l, gone, a) < Rank(l, gone, b) \/ Rank(l, gone, b) < Rank(l, gone, a)
    BY <1>8, <2>1
  <2>3. Rank(l, gone, a) \in Int /\ Rank(l, gone, b) \in Int
    BY <1>7, <1>8
  <2>. QED
    BY <2>2, <2>3
<1>10. seq = [i \in 1..Cardinality(S) |-> seq[i]]
  BY <1>5
<1>11. \A i \in 1..Cardinality(S) : seq[i] \in S /\ Rank(l, gone, seq[i]) = i - 1
  BY <1>5, <1>8
<1>. HIDE DEF seq
<1>12. Line(seq) /\ Len(seq) = Cardinality(S)
  BY <1>7, <1>10, LineOfFunction
<1>. QED
  BY <1>1, <1>7, <1>8, <1>9, <1>11, <1>12 DEF S, seq

\* They are edits, never Undos.
LEMMA EffectiveAreEdits ==
  ASSUME NEW l, IsLog(l), NEW gone
  PROVE  Edits(EffectiveActions(l, gone))
<1>1. \A a \in Effective(l, gone) : a.kind \in Kind
  BY NoIdIsNoActionId DEF Effective, IsLog, Action, Ordinary
<1>. QED
  BY <1>1, EffectiveInOrder DEF Edits

\* timeline.rs insert's fast path: an ordinary action newer than the whole log,
\* which nothing undoes, takes the last slot and moves no other.
LEMMA EffectiveOfAppended ==
  ASSUME NEW l, IsLog(l), NEW a \in Action, Ordinary(a), NEW gone, a.id \notin gone,
         \A b \in l : IdLess(b.id, a.id),
         \A u \in Undos(l) : u.target # a.id
  PROVE  EffectiveActions(l \cup {a}, gone) = EffectiveActions(l, gone) \o <<a>>
<1>. DEFINE m == l \cup {a}
            S == Effective(l, gone)
            T == Effective(m, gone)
            was == EffectiveActions(l, gone)
            is == EffectiveActions(m, gone)
            all == was \o <<a>>
<1>1. a \notin l
  BY IdLessOrders, ActionFields
<1>2. IsLog(m)
  <2>1. \A b \in l : b.id # a.id
    BY IdLessOrders, ActionFields
  <2>. QED
    BY <2>1, FS_AddElement DEF IsLog
<1>3. T = S \cup {a} /\ a \notin S /\ S \subseteq l
  BY <1>1 DEF Effective
<1>4. Undos(m) = Undos(l)
  BY DEF Undos
<1>5. MaterialKey(m, gone, a) = a.id
  BY <1>4 DEF MaterialKey, Revivals
<1>6. \A b : MaterialKey(m, gone, b) = MaterialKey(l, gone, b)
  BY <1>4 DEF MaterialKey, Revivals
<1>7. \A b \in S : IdLess(MaterialKey(l, gone, b), a.id) /\ MaterialKey(l, gone, b) \in ActionId
  <2>1. \A u \in Undos(l) : u \in l
    BY DEF Undos
  <2>. QED
    BY <1>3, <2>1, MaterialKeysDistinct
<1>8. a.id \in ActionId
  BY ActionFields
<1>9. \A b \in S : Rank(m, gone, b) = Rank(l, gone, b)
  <2>. SUFFICES ASSUME NEW b \in S PROVE Rank(m, gone, b) = Rank(l, gone, b)
    OBVIOUS
  <2>1. ~IdLess(a.id, MaterialKey(l, gone, b))
    BY <1>7, <1>8, IdLessAsymmetric
  <2>2. {c \in T : IdLess(MaterialKey(m, gone, c), MaterialKey(m, gone, b))}
          = {c \in S : IdLess(MaterialKey(l, gone, c), MaterialKey(l, gone, b))}
    BY <1>3, <1>5, <1>6, <2>1
  <2>. QED
    BY <2>2 DEF Rank
<1>10. Rank(m, gone, a) = Cardinality(S)
  <2>. DEFINE before == {c \in T : IdLess(MaterialKey(m, gone, c), MaterialKey(m, gone, a))}
  <2>1. ~IdLess(a.id, a.id)
    BY <1>8, IdLessOrders
  <2>2. a \notin before
    BY <1>5, <2>1
  <2>3. \A c \in S : c \in before
    BY <1>3, <1>5, <1>6, <1>7
  <2>4. before = S
    BY <1>3, <2>2, <2>3
  <2>. QED
    BY <2>4 DEF Rank
<1>11. /\ IsFiniteSet(S) /\ Cardinality(S) \in Nat
       /\ Line(was) /\ Len(was) = Cardinality(S)
       /\ \A i \in 1..Len(was) : was[i] \in S /\ Rank(l, gone, was[i]) = i - 1
  BY EffectiveInOrder
<1>12. /\ Line(is) /\ Len(is) = Cardinality(T)
       /\ \A i \in 1..Len(is) : is[i] \in T /\ Rank(m, gone, is[i]) = i - 1
       /\ \A b, c \in T : Rank(m, gone, b) = Rank(m, gone, c) => b = c
  BY <1>2, EffectiveInOrder
<1>. HIDE DEF S, T, was, is, m
<1>13. Cardinality(T) = Cardinality(S) + 1
  BY <1>3, <1>11, FS_AddElement
<1>14. /\ Line(all) /\ Len(all) = Cardinality(S) + 1
       /\ \A i \in 1..Cardinality(S) : all[i] = was[i]
       /\ all[Cardinality(S) + 1] = a
  <2>. DEFINE one == <<a>>
  <2>1. Line(one) /\ Len(one) = 1 /\ one[1] = a
    BY LineOfOne
  <2>2. /\ Line(was \o one) /\ Len(was \o one) = Len(was) + Len(one)
        /\ \A i \in 1..Len(was) : (was \o one)[i] = was[i]
        /\ \A i \in 1..Len(one) : (was \o one)[Len(was) + i] = one[i]
    <3>1. Line(was) /\ Line(one)
      BY <1>11, <2>1
    <3>. HIDE DEF one
    <3>. QED
      BY ONLY <3>1, ConcatOfLines
  <2>3. all = was \o one
    OBVIOUS
  <2>. HIDE DEF one, all
  <2>. QED
    BY <1>11, <2>1, <2>2, <2>3
<1>15. ASSUME NEW i \in 1..Len(is) PROVE is[i] = all[i]
  <2>1. CASE i = Cardinality(S) + 1
    <3>1. is[i] \in T /\ Rank(m, gone, is[i]) = i - 1
      BY <1>12
    <3>2. a \in T /\ Rank(m, gone, a) = i - 1
      BY <1>3, <1>10, <1>11, <2>1
    <3>. QED
      BY <1>12, <1>14, <2>1, <3>1, <3>2
  <2>2. CASE i # Cardinality(S) + 1
    <3>1. i \in 1..Cardinality(S)
      BY <1>11, <1>12, <1>13, <2>2
    <3>2. was[i] \in T /\ Rank(m, gone, was[i]) = i - 1
      BY <1>3, <1>9, <1>11, <3>1
    <3>3. is[i] = was[i]
      BY <1>12, <3>2
    <3>. QED
      BY <1>14, <3>1, <3>3
  <2>. QED
    BY <2>1, <2>2
<1>16. is = all
  <2>1. Line(is) /\ Line(all) /\ Len(is) = Len(all)
    BY <1>12, <1>13, <1>14
  <2>. HIDE DEF all
  <2>. QED
    BY <1>15, <2>1, LinesEqual
<1>. QED
  BY <1>16 DEF is, was, m

-----------------------------------------------------------------------------
(* Which Undos count                                                         *)

\* v is newer than u and takes it back.
TakesBack(v, u) == IdLess(u.id, v.id) /\ v.target = u.id

\* effect.rs undone_ids: the pass from the newest Undo to the oldest decides each
\* of finitely many, and counts one exactly when none that counts takes it back.
LEMMA CountedUnfolds ==
  ASSUME NEW U, IsLog(U)
  PROVE  \A u \in U : Counted(U)[u] <=> \A v \in U : TakesBack(v, u) => ~Counted(U)[v]
<1>. DEFINE R == {p \in U \X U : IdLess(p[2].id, p[1].id)}
            rank(u) == Cardinality(Below(U, R, u))
            A(n) == {u \in U : rank(u) < n}
            Good(f, n) == f = [u \in A(n) |-> \A v \in U : IdLess(u.id, v.id) /\ v.target = u.id => ~f[v]]
            S == {n \in Nat : \E f : Good(f, n)}
<1>1. /\ IsFiniteSet(U)
      /\ \A u \in U : u.id \in ActionId
      /\ \A u, v \in U : u.id = v.id => u = v
  BY ActionFields DEF IsLog
<1>2. /\ \A a \in U : <<a, a>> \notin R
      /\ \A a, b, c \in U : <<a, b>> \in R /\ <<b, c>> \in R => <<a, c>> \in R
      /\ \A a, b \in U : a = b \/ <<a, b>> \in R \/ <<b, a>> \in R
  BY <1>1, IdLessOrders
<1>3. \A u, v \in U : IdLess(u.id, v.id) => <<v, u>> \in R
  OBVIOUS
<1>. HIDE DEF R
<1>4. /\ Cardinality(U) \in Nat
      /\ \A u \in U : rank(u) \in 0..Cardinality(U) - 1
      /\ \A u, v \in U : <<v, u>> \in R => rank(v) < rank(u)
  BY <1>1, <1>2, RanksCover
<1>. HIDE DEF rank
<1>5. \A n \in Nat : \A u \in A(n + 1), v \in U : IdLess(u.id, v.id) => v \in A(n)
  <2>. SUFFICES ASSUME NEW n \in Nat, NEW u \in A(n + 1), NEW v \in U, IdLess(u.id, v.id)
                PROVE  v \in A(n)
    OBVIOUS
  <2>1. u \in U /\ rank(u) < n + 1 /\ rank(v) < rank(u)
    BY <1>3, <1>4
  <2>2. rank(u) \in Int /\ rank(v) \in Int
    BY <1>4, <2>1
  <2>. QED
    BY <2>1, <2>2
<1>6. \A n \in Nat : A(n) \subseteq A(n + 1) /\ A(n + 1) \subseteq U
  BY <1>4
<1>7. A(0) = {} /\ A(Cardinality(U)) = U
  BY <1>4
<1>. HIDE DEF A
<1>8. 0 \in S
  <2>1. Good([u \in A(0) |-> TRUE], 0)
    BY <1>7
  <2>. QED
    BY <2>1
<1>9. ASSUME NEW n \in Nat, n \in S PROVE n + 1 \in S
  <2>1. PICK f : Good(f, n)
    BY <1>9
  <2>. DEFINE Free(g, u) == \A v \in U : IdLess(u.id, v.id) /\ v.target = u.id => ~g[v]
              next == [u \in A(n + 1) |-> Free(f, u)]
  <2>2. \A u \in A(n) : f[u] = Free(f, u)
    BY <2>1
  <2>3. \A u \in A(n) : next[u] = f[u]
    <3>. HIDE DEF Free
    <3>. QED
      BY <1>6, <2>2
  <2>4. \A u \in A(n + 1) : Free(next, u) = Free(f, u)
    <3>. SUFFICES ASSUME NEW u \in A(n + 1) PROVE Free(next, u) <=> Free(f, u)
      OBVIOUS
    <3>. HIDE DEF next
    <3>1. \A v \in U : IdLess(u.id, v.id) => v \in A(n)
      BY <1>5
    <3>. QED
      BY <2>3, <3>1, Zenon
  <2>5. next = [u \in A(n + 1) |-> Free(next, u)]
    <3>. HIDE DEF Free
    <3>1. \A u \in A(n + 1) : next[u] = Free(next, u)
      BY <2>4
    <3>. HIDE DEF next
    <3>2. next = [u \in A(n + 1) |-> next[u]]
      BY DEF next
    <3>. QED
      BY <3>1, <3>2
  <2>6. Good(next, n + 1)
    <3>. HIDE DEF next
    <3>. QED
      BY <2>5
  <2>. HIDE DEF Good, next
  <2>. QED
    BY <2>6
<1>10. \E f : Good(f, Cardinality(U))
  <2>. HIDE DEF Good
  <2>. QED
    BY <1>4, <1>8, <1>9, Induction
<1>. DEFINE Is(f) == f = [u \in U |-> \A v \in U : IdLess(u.id, v.id) /\ v.target = u.id => ~f[v]]
<1>11. \E f : Is(f)
  BY <1>7, <1>10
<1>12. Counted(U) = CHOOSE f : Is(f)
  BY DEF Counted
<1>13. Is(Counted(U))
  <2>. HIDE DEF Is
  <2>. QED
    BY <1>11, <1>12
<1>14. \A u \in U : Counted(U)[u] = \A v \in U : IdLess(u.id, v.id) /\ v.target = u.id => ~Counted(U)[v]
  <2>. DEFINE c == Counted(U)
  <2>1. c = [u \in U |-> \A v \in U : IdLess(u.id, v.id) /\ v.target = u.id => ~c[v]]
    BY <1>13
  <2>. HIDE DEF c
  <2>2. \A u \in U : c[u] = \A v \in U : IdLess(u.id, v.id) /\ v.target = u.id => ~c[v]
    BY <2>1
  <2>. QED
    BY <2>2 DEF c
<1>. QED
  BY <1>14, Zenon DEF TakesBack

\* Whether an Undo counts is decided by what takes it back, and what takes that
\* back, so two logs that agree on those agree on it.
LEMMA CountedLocal ==
  ASSUME NEW U, IsLog(U), NEW V, IsLog(V), NEW D, D \subseteq U, D \subseteq V,
         \A u \in D : \A v \in U \cup V : TakesBack(v, u) => v \in D
  PROVE  \A u \in D : Counted(U)[u] <=> Counted(V)[u]
<1>. DEFINE Agree(u) == Counted(U)[u] <=> Counted(V)[u]
            bad == {u \in D : ~Agree(u)}
            ids == {u.id : u \in bad}
<1>. SUFFICES ASSUME bad # {} PROVE FALSE
  OBVIOUS
<1>1. IsFiniteSet(bad)
  <2>1. bad \in SUBSET U
    OBVIOUS
  <2>. HIDE DEF bad
  <2>. QED
    BY <2>1, FS_Subset DEF IsLog
<1>2. \A u \in D : u.id \in ActionId
  BY ActionFields DEF IsLog
<1>3. Latest(ids) \in ids /\ \A j \in ids : j = Latest(ids) \/ IdLess(j, Latest(ids))
  <2>1. ids # {} /\ ids \in SUBSET ActionId
    BY <1>2
  <2>2. IsFiniteSet(ids)
    <3>. HIDE DEF bad
    <3>. QED
      BY <1>1, IdsFinite
  <2>. HIDE DEF ids
  <2>. QED
    BY <2>1, <2>2, LatestIsNewest
<1>4. PICK u \in bad : u.id = Latest(ids)
  BY <1>3
<1>5. u \in D /\ ~Agree(u)
  BY Zenon
<1>6. ASSUME NEW v \in D, TakesBack(v, u) PROVE Agree(v)
  <2>1. v.id # u.id /\ ~IdLess(v.id, u.id)
    BY <1>2, <1>5, <1>6, IdLessAsymmetric DEF TakesBack
  <2>2. v.id \notin ids
    BY <1>3, <1>4, <2>1
  <2>. HIDE DEF Agree
  <2>. QED
    BY <2>2
<1>7. \A v \in U : TakesBack(v, u) => v \in D
  BY <1>5
<1>8. \A v \in V : TakesBack(v, u) => v \in D
  BY <1>5
<1>9. Counted(U)[u] <=> \A v \in U : TakesBack(v, u) => ~Counted(U)[v]
  BY <1>5, CountedUnfolds
<1>10. Counted(V)[u] <=> \A v \in V : TakesBack(v, u) => ~Counted(V)[v]
  BY <1>5, CountedUnfolds
<1>11. Agree(u)
  BY <1>6, <1>7, <1>8, <1>9, <1>10, Zenon
<1>. QED
  BY <1>5, <1>11

\* The Undos of a log are a log.
LEMMA UndosAreLog ==
  ASSUME NEW l, IsLog(l)
  PROVE  IsLog(Undos(l))
<1>1. Undos(l) \in SUBSET l
  BY DEF Undos
<1>. QED
  BY <1>1, FS_Subset DEF IsLog

\* An id is undone exactly when an Undo that counts targets it.
LEMMA UndoneMeans ==
  ASSUME NEW l
  PROVE  \A i : i \in UndoneIds(l) <=> \E u \in Undos(l) : u.target = i /\ Counted(Undos(l))[u]
BY Zenon DEF UndoneIds, Suppressed

\* Every Undo takes back something older.
Backwards(l) == \A u \in Undos(l) : IdLess(u.target, u.id)

\* effect.rs: what the pass counts is what is not undone.
LEMMA CountedIsNotUndone ==
  ASSUME NEW l, IsLog(l), Backwards(l)
  PROVE  \A u \in Undos(l) : Counted(Undos(l))[u] <=> u.id \notin UndoneIds(l)
<1>. DEFINE U == Undos(l)
<1>1. \A i : i \in UndoneIds(l) <=> \E u \in U : u.target = i /\ Counted(U)[u]
  BY UndoneMeans, Zenon
<1>2. \A u \in U : Counted(U)[u] <=> \A v \in U : TakesBack(v, u) => ~Counted(U)[v]
  BY UndosAreLog, CountedUnfolds
<1>3. \A u, v \in U : v.target = u.id => TakesBack(v, u)
  BY DEF Backwards, TakesBack
<1>4. \A u, v \in U : TakesBack(v, u) => v.target = u.id
  BY DEF TakesBack
<1>. HIDE DEF U
<1>5. \A u \in U : Counted(U)[u] <=> u.id \notin UndoneIds(l)
  BY <1>1, <1>2, <1>3, <1>4, Zenon
<1>. QED
  BY <1>5, Zenon DEF U

\* Every Undo takes back something of its own author's.
OwnTargets(l) == \A u \in Undos(l) : u.target.actor = u.id.actor

\* effect.rs: which of an actor's actions are undone is decided by that actor's
\* actions alone.
LEMMA UndoneIsOwnDoing ==
  ASSUME NEW l, IsLog(l), Backwards(l), OwnTargets(l),
         NEW m, IsLog(m), Backwards(m), OwnTargets(m),
         NEW r, {a \in l : a.id.actor = r} = {a \in m : a.id.actor = r}
  PROVE  /\ \A u \in Undos(l) : u.id.actor = r =>
               u \in Undos(m) /\ (Counted(Undos(l))[u] <=> Counted(Undos(m))[u])
         /\ \A i : i.actor = r => (i \in UndoneIds(l) <=> i \in UndoneIds(m))
<1>. DEFINE U == Undos(l)
            V == Undos(m)
            D == {u \in U : u.id.actor = r}
<1>1. D = {u \in V : u.id.actor = r}
  <2>1. \A a : (a \in l /\ a.id.actor = r) <=> (a \in m /\ a.id.actor = r)
    OBVIOUS
  <2>. QED
    BY <2>1 DEF Undos
<1>2. \A u \in D : \A v \in U \cup V : TakesBack(v, u) => v \in D
  <2>1. \A u \in D : u.id.actor = r
    OBVIOUS
  <2>2. \A v \in U \cup V : v.target.actor = v.id.actor
    BY DEF OwnTargets
  <2>. QED
    BY <1>1, <2>1, <2>2 DEF TakesBack
<1>3. \A u \in D : Counted(U)[u] <=> Counted(V)[u]
  <2>1. IsLog(U) /\ IsLog(V) /\ D \subseteq U /\ D \subseteq V
    BY <1>1, UndosAreLog
  <2>. HIDE DEF U, V, D
  <2>. QED
    BY <1>2, <2>1, CountedLocal
<1>4. \A u \in U : u.id.actor = r => u \in V /\ (Counted(U)[u] <=> Counted(V)[u])
  <2>1. \A u \in U : u.id.actor = r => u \in D /\ u \in V
    BY <1>1
  <2>. HIDE DEF U, V, D
  <2>. QED
    BY <1>3, <2>1, Zenon
<1>5. \A u \in V : u.id.actor = r => u \in U
  BY <1>1
<1>6. /\ \A i : i \in UndoneIds(l) <=> \E u \in U : u.target = i /\ Counted(U)[u]
      /\ \A i : i \in UndoneIds(m) <=> \E u \in V : u.target = i /\ Counted(V)[u]
  BY UndoneMeans
<1>7. /\ \A u \in U : u.target.actor = u.id.actor
      /\ \A u \in V : u.target.actor = u.id.actor
  BY DEF OwnTargets
<1>. HIDE DEF U, V, D
<1>8. ASSUME NEW i, i.actor = r PROVE i \in UndoneIds(l) <=> i \in UndoneIds(m)
  <2>1. ASSUME NEW u \in U, u.target = i, Counted(U)[u]
        PROVE  u \in V /\ Counted(V)[u]
    <3>1. u.id.actor = r
      BY <1>7, <1>8, <2>1
    <3>. QED
      BY <1>4, <2>1, <3>1, Zenon
  <2>2. ASSUME NEW u \in V, u.target = i, Counted(V)[u]
        PROVE  u \in U /\ Counted(U)[u]
    <3>1. u.id.actor = r
      BY <1>7, <1>8, <2>2
    <3>. QED
      BY <1>4, <1>5, <2>2, <3>1, Zenon
  <2>. QED
    BY <1>6, <2>1, <2>2, Zenon
<1>. QED
  BY <1>4, <1>8, Zenon DEF U, V
=============================================================================
