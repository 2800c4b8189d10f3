----------------------- MODULE DocumentLifecycleProofs -----------------------
(***************************************************************************)
(* What holds of one client's document from opening to saving, for any     *)
(* footprints, undo depth and number of actions, files and peers' edits.   *)
(***************************************************************************)
EXTENDS DocumentLifecycle, DocFoldProofs

-----------------------------------------------------------------------------
(* Sequences: cutting, joining and turning them around                      *)

LEMMA ConcatAssociates ==
  ASSUME NEW s, NEW t, NEW u, Line(s), Line(t), Line(u)
  PROVE  (s \o t) \o u = s \o (t \o u)
<1>. DEFINE S == {s[i] : i \in 1..Len(s)} \cup {t[i] : i \in 1..Len(t)} \cup {u[i] : i \in 1..Len(u)}
<1>1. s \in Seq(S) /\ t \in Seq(S) /\ u \in Seq(S)
  BY LineIsSeq
<1>. HIDE DEF S
<1>. QED
  BY <1>1, ConcatAssociative

LEMMA ConcatWithNone ==
  ASSUME NEW s, Line(s)
  PROVE  s \o <<>> = s /\ <<>> \o s = s
<1>. DEFINE S == {s[i] : i \in 1..Len(s)}
<1>1. s \in Seq(S)
  BY LineIsSeq
<1>. HIDE DEF S
<1>. QED
  BY <1>1, ConcatEmptySeq

\* A sequence is what any cut leaves on its two sides.
LEMMA CutInTwo ==
  ASSUME NEW s, Line(s), NEW n \in 0..Len(s)
  PROVE  SubSeq(s, 1, n) \o SubSeq(s, n + 1, Len(s)) = s
<1>. DEFINE p == SubSeq(s, 1, n)
            q == SubSeq(s, n + 1, Len(s))
<1>1. Len(s) \in Nat /\ n \in Nat /\ n <= Len(s)
  BY DEF Line
<1>2. Line(p) /\ Len(p) = n /\ \A i \in 1..n : p[i] = s[i]
  <2>1. 1 <= n + 1 /\ n - 1 + 1 = n /\ \A i \in 1..n : 1 + i - 1 = i
    BY <1>1
  <2>. QED
    BY <1>1, <2>1, SubSeqOfLine
<1>3. Line(q) /\ Len(q) = Len(s) - n /\ \A i \in 1..Len(s) - n : q[i] = s[n + i]
  <2>1. n + 1 \in Nat /\ n + 1 <= Len(s) + 1 /\ Len(s) - (n + 1) + 1 = Len(s) - n
    BY <1>1
  <2>2. \A i \in 1..Len(s) - n : (n + 1) + i - 1 = n + i
    BY <1>1
  <2>3. /\ Line(q) /\ Len(q) = Len(s) - (n + 1) + 1
        /\ \A i \in 1..Len(s) - (n + 1) + 1 : q[i] = s[(n + 1) + i - 1]
    BY <1>1, <2>1, SubSeqOfLine
  <2>. QED
    BY <2>1, <2>2, <2>3
<1>. HIDE DEF p, q
<1>4. /\ Line(p \o q) /\ Len(p \o q) = Len(s)
      /\ \A i \in 1..n : (p \o q)[i] = p[i]
      /\ \A i \in 1..Len(s) - n : (p \o q)[n + i] = q[i]
  <2>1. n + (Len(s) - n) = Len(s)
    BY <1>1
  <2>. QED
    BY <1>2, <1>3, <2>1, ConcatOfLines
<1>5. ASSUME NEW i \in 1..Len(s) PROVE (p \o q)[i] = s[i]
  <2>1. CASE i <= n
    <3>1. i \in 1..n
      BY <1>1, <2>1
    <3>. QED
      BY <3>1, <1>2, <1>4
  <2>2. CASE ~ (i <= n)
    <3>1. i - n \in 1..Len(s) - n /\ n + (i - n) = i
      BY <1>1, <2>2
    <3>2. (p \o q)[n + (i - n)] = q[i - n] /\ q[i - n] = s[n + (i - n)]
      BY <3>1, <1>3, <1>4
    <3>. QED
      BY <3>1, <3>2
  <2>. QED
    BY <2>1, <2>2
<1>6. p \o q = s
  BY <1>4, <1>5, LinesEqual
<1>. QED
  BY <1>6 DEF p, q

LEMMA ReverseOfLine ==
  ASSUME NEW s, Line(s)
  PROVE  /\ Line(Reverse(s)) /\ Len(Reverse(s)) = Len(s)
         /\ \A i \in 1..Len(s) : Reverse(s)[i] = s[(Len(s) - i) + 1]
         /\ \A i \in 1..Len(s) : (Len(s) - i) + 1 \in 1..Len(s)
<1>. DEFINE r == Reverse(s)
<1>1. Len(s) \in Nat
  BY DEF Line
<1>2. r = [i \in 1..Len(s) |-> s[(Len(s) - i) + 1]]
  BY DEF Reverse
<1>3. \A i \in 1..Len(s) : r[i] = s[(Len(s) - i) + 1]
  BY <1>2
<1>4. r = [i \in 1..Len(s) |-> r[i]]
  BY <1>2
<1>. HIDE DEF r
<1>5. Line(r) /\ Len(r) = Len(s)
  BY <1>1, <1>4, LineOfFunction
<1>6. \A i \in 1..Len(s) : (Len(s) - i) + 1 \in 1..Len(s)
  BY <1>1
<1>. QED
  BY <1>3, <1>5, <1>6 DEF r

LEMMA ReverseTwice ==
  ASSUME NEW s, Line(s)
  PROVE  Reverse(Reverse(s)) = s
<1>. DEFINE r == Reverse(s)
            q == Reverse(r)
<1>1. /\ Line(r) /\ Len(r) = Len(s)
      /\ \A i \in 1..Len(s) : r[i] = s[(Len(s) - i) + 1]
  BY ReverseOfLine
<1>. HIDE DEF r
<1>2. /\ Line(q) /\ Len(q) = Len(s)
      /\ \A i \in 1..Len(s) : q[i] = r[(Len(s) - i) + 1]
      /\ \A i \in 1..Len(s) : (Len(s) - i) + 1 \in 1..Len(s)
  BY <1>1, ReverseOfLine
<1>. HIDE DEF q
<1>3. ASSUME NEW i \in 1..Len(s) PROVE q[i] = s[i]
  <2>1. Len(s) \in Nat
    BY DEF Line
  <2>2. (Len(s) - ((Len(s) - i) + 1)) + 1 = i
    BY <2>1
  <2>3. r[(Len(s) - i) + 1] = s[(Len(s) - ((Len(s) - i) + 1)) + 1]
    BY <1>1, <1>2
  <2>. QED
    BY <1>2, <2>2, <2>3
<1>4. q = s
  BY <1>2, <1>3, LinesEqual
<1>. QED
  BY <1>4 DEF q, r

LEMMA ReverseOfConcat ==
  ASSUME NEW s, NEW t, Line(s), Line(t)
  PROVE  Reverse(s \o t) = Reverse(t) \o Reverse(s)
<1>. DEFINE m == Len(s)
            n == Len(t)
            st == s \o t
            p == Reverse(st)
            q == Reverse(t) \o Reverse(s)
<1>1. m \in Nat /\ n \in Nat
  BY DEF Line
<1>2. /\ Line(st) /\ Len(st) = m + n
      /\ \A i \in 1..m : st[i] = s[i]
      /\ \A i \in 1..n : st[m + i] = t[i]
  BY ConcatOfLines
<1>. HIDE DEF st
<1>3. /\ Line(p) /\ Len(p) = m + n
      /\ \A i \in 1..m + n : p[i] = st[((m + n) - i) + 1]
  BY <1>2, ReverseOfLine
<1>4. /\ Line(q) /\ Len(q) = n + m
      /\ \A i \in 1..n : q[i] = t[(n - i) + 1]
      /\ \A i \in 1..m : q[n + i] = s[(m - i) + 1]
  <2>. DEFINE rt == Reverse(t)
              rs == Reverse(s)
  <2>1. /\ Line(rt) /\ Len(rt) = n /\ \A i \in 1..n : rt[i] = t[(n - i) + 1]
        /\ Line(rs) /\ Len(rs) = m /\ \A i \in 1..m : rs[i] = s[(m - i) + 1]
    BY ReverseOfLine
  <2>. HIDE DEF rt, rs
  <2>2. /\ Line(rt \o rs) /\ Len(rt \o rs) = n + m
        /\ \A i \in 1..n : (rt \o rs)[i] = rt[i]
        /\ \A i \in 1..m : (rt \o rs)[n + i] = rs[i]
    <3>1. /\ Line(rt \o rs) /\ Len(rt \o rs) = Len(rt) + Len(rs)
          /\ \A i \in 1..Len(rt) : (rt \o rs)[i] = rt[i]
          /\ \A i \in 1..Len(rs) : (rt \o rs)[Len(rt) + i] = rs[i]
      <4>1. Line(rt) /\ Line(rs)
        BY <2>1
      <4>. QED
        BY ONLY <4>1, ConcatOfLines
    <3>. QED
      BY <2>1, <3>1
  <2>. QED
    BY <2>1, <2>2 DEF rt, rs
<1>. HIDE DEF p, q
<1>5. ASSUME NEW i \in 1..m + n PROVE p[i] = q[i]
  <2>1. CASE i <= n
    <3>1. i \in 1..n /\ (n - i) + 1 \in 1..n /\ ((m + n) - i) + 1 = m + ((n - i) + 1)
      BY <1>1, <2>1
    <3>2. p[i] = st[m + ((n - i) + 1)] /\ st[m + ((n - i) + 1)] = t[(n - i) + 1]
      BY <3>1, <1>2, <1>3
    <3>. QED
      BY <3>1, <3>2, <1>4
  <2>2. CASE ~ (i <= n)
    <3>1. /\ i - n \in 1..m /\ n + (i - n) = i
          /\ ((m + n) - i) + 1 \in 1..m /\ (m - (i - n)) + 1 = ((m + n) - i) + 1
      BY <1>1, <2>2
    <3>2. p[i] = s[((m + n) - i) + 1]
      BY <3>1, <1>2, <1>3
    <3>3. q[n + (i - n)] = s[(m - (i - n)) + 1]
      BY <3>1, <1>4
    <3>. QED
      BY <3>1, <3>2, <3>3
  <2>. QED
    BY <2>1, <2>2
<1>6. n + m = m + n
  BY <1>1
<1>7. p = q
  BY <1>3, <1>4, <1>5, <1>6, LinesEqual
<1>. QED
  BY <1>7 DEF p, q, st

LEMMA ReverseOfNone == Reverse(<<>>) = <<>>
<1>1. Line(<<>>) /\ Len(<<>>) = 0
  BY LineOfNone
<1>. DEFINE none == <<>>
<1>. HIDE DEF none
<1>2. Line(Reverse(none)) /\ Len(Reverse(none)) = Len(none) /\ 1..Len(none) = {} /\ Line(none)
  BY <1>1, ReverseOfLine DEF none
<1>3. Reverse(none) = none
  BY <1>2, LinesEqual
<1>. QED
  BY <1>3 DEF none

\* Cutting a sequence in two keeps its elements where they were.
LEMMA CutIsLine ==
  ASSUME NEW s, Line(s), NEW n \in 0..Len(s)
  PROVE  Line(SubSeq(s, 1, n)) /\ Line(SubSeq(s, n + 1, Len(s)))
<1>1. /\ Len(s) \in Nat /\ n \in Nat /\ n + 1 \in Nat /\ 1 \in Nat
      /\ 1 <= n + 1 /\ n + 1 <= Len(s) + 1
  BY DEF Line
<1>. QED
  BY <1>1, SubSeqOfLine

\* LinearTimeline::seek backwards: what is withheld from the live history goes
\* onto the redo stack in an order that leaves the walk as it was.
LEMMA BackwardsKeepsWalk ==
  ASSUME NEW f, NEW p, NEW q, NEW rest, Line(f), Line(p), Line(q), Line(rest)
  PROVE  (f \o p) \o Reverse(rest \o Reverse(q)) = (f \o (p \o q)) \o Reverse(rest)
<1>1. Line(p) /\ Line(q)
  OBVIOUS
<1>2. Line(Reverse(q)) /\ Line(Reverse(rest)) /\ Reverse(Reverse(q)) = q
  BY <1>1, ReverseOfLine, ReverseTwice
<1>3. Reverse(rest \o Reverse(q)) = q \o Reverse(rest)
  BY <1>2, ReverseOfConcat
<1>4. Line(f \o p)
  BY ONLY Line(f), <1>1, ConcatOfLines
<1>5. (f \o p) \o (q \o Reverse(rest)) = ((f \o p) \o q) \o Reverse(rest)
  <2>1. Line(f \o p) /\ Line(q) /\ Line(Reverse(rest))
    BY <1>1, <1>2, <1>4
  <2>. QED
    BY ONLY <2>1, ConcatAssociates
<1>6. (f \o p) \o q = f \o (p \o q)
  <2>1. Line(f) /\ Line(p) /\ Line(q)
    BY <1>1
  <2>. QED
    BY ONLY <2>1, ConcatAssociates, SMTT(30)
<1>. QED
  BY <1>3, <1>5, <1>6

\* LinearTimeline::seek forwards: what is re-applied is the end of the redo stack,
\* in the order in which it was withheld.
LEMMA ForwardsKeepsWalk ==
  ASSUME NEW f, NEW acts, NEW p, NEW q, Line(f), Line(acts), Line(p), Line(q)
  PROVE  (f \o (acts \o Reverse(q))) \o Reverse(p) = (f \o acts) \o Reverse(p \o q)
<1>1. Line(p) /\ Line(q)
  OBVIOUS
<1>2. Line(Reverse(q)) /\ Line(Reverse(p)) /\ Reverse(p \o q) = Reverse(q) \o Reverse(p)
  BY <1>1, ReverseOfLine, ReverseOfConcat
<1>3. Line(f \o acts)
  BY ONLY Line(f), Line(acts), ConcatOfLines
<1>4. f \o (acts \o Reverse(q)) = (f \o acts) \o Reverse(q)
  <2>1. Line(f) /\ Line(acts) /\ Line(Reverse(q))
    BY <1>2
  <2>. QED
    BY ONLY <2>1, ConcatAssociates, SMTT(30)
<1>5. ((f \o acts) \o Reverse(q)) \o Reverse(p) = (f \o acts) \o (Reverse(q) \o Reverse(p))
  BY ONLY <1>2, <1>3, ConcatAssociates
<1>. QED
  BY <1>2, <1>4, <1>5

-----------------------------------------------------------------------------
(* Folds                                                                     *)

LEMMA EditsOfConcat ==
  ASSUME NEW s, NEW t, Edits(s), Edits(t)
  PROVE  Edits(s \o t)
<1>. DEFINE st == s \o t
            m == Len(s)
<1>1. Line(s) /\ Line(t) /\ m \in Nat /\ Len(t) \in Nat
  BY DEF Edits, Line
<1>2. /\ Line(st) /\ Len(st) = m + Len(t)
      /\ \A i \in 1..m : st[i] = s[i]
      /\ \A i \in 1..Len(t) : st[m + i] = t[i]
  BY <1>1, ConcatOfLines
<1>. HIDE DEF st
<1>3. ASSUME NEW i \in 1..m + Len(t) PROVE st[i].kind \in Kind
  <2>1. CASE i <= m
    <3>1. i \in 1..m
      BY <1>1, <2>1
    <3>. QED
      BY <1>2, <3>1 DEF Edits
  <2>2. CASE ~ (i <= m)
    <3>1. i - m \in 1..Len(t) /\ m + (i - m) = i
      BY <1>1, <2>2
    <3>2. st[m + (i - m)] = t[i - m]
      BY <1>2, <3>1
    <3>. QED
      BY <3>1, <3>2 DEF Edits
  <2>. QED
    BY <2>1, <2>2
<1>. QED
  BY <1>2, <1>3 DEF Edits, st

LEMMA EditsOfCut ==
  ASSUME NEW s, Edits(s), NEW n \in 0..Len(s)
  PROVE  Edits(SubSeq(s, 1, n)) /\ Edits(SubSeq(s, n + 1, Len(s)))
<1>1. /\ Len(s) \in Nat /\ n \in Nat /\ n + 1 \in Nat /\ 1 \in Nat
      /\ 1 <= n + 1 /\ n + 1 <= Len(s) + 1
  BY DEF Edits, Line
<1>2. /\ Line(SubSeq(s, 1, n)) /\ Len(SubSeq(s, 1, n)) = n - 1 + 1
      /\ \A i \in 1..n - 1 + 1 : SubSeq(s, 1, n)[i] = s[1 + i - 1]
  BY ONLY <1>1, SubSeqOfLine
<1>3. /\ Line(SubSeq(s, n + 1, Len(s))) /\ Len(SubSeq(s, n + 1, Len(s))) = Len(s) - (n + 1) + 1
      /\ \A i \in 1..Len(s) - (n + 1) + 1 : SubSeq(s, n + 1, Len(s))[i] = s[(n + 1) + i - 1]
  BY ONLY <1>1, SubSeqOfLine, ZenonT(30)
<1>4. /\ \A i \in 1..n - 1 + 1 : 1 + i - 1 \in 1..Len(s)
      /\ \A i \in 1..Len(s) - (n + 1) + 1 : (n + 1) + i - 1 \in 1..Len(s)
  BY <1>1
<1>. QED
  BY <1>2, <1>3, <1>4 DEF Edits

LEMMA EditsOfReverse ==
  ASSUME NEW s, Edits(s)
  PROVE  Edits(Reverse(s))
<1>1. Line(s) /\ \A i \in 1..Len(s) : s[i].kind \in Kind
  BY DEF Edits
<1>. QED
  BY <1>1, ReverseOfLine DEF Edits

\* Folding one run of actions after another is folding the two together.
LEMMA ReplayGoesOn ==
  ASSUME NEW base, NEW s, NEW t, Edits(s), Edits(t)
  PROVE  Last(Replay(base, s \o t)) = Last(Replay(Last(Replay(base, s)), t))
<1>. DEFINE st == s \o t
            h == [acts |-> st, docs |-> Replay(base, st)]
            m == Len(s)
            n == Len(s) + Len(t)
<1>1. Line(s) /\ Line(t) /\ m \in Nat /\ Len(t) \in Nat /\ n \in Nat
      /\ 0 + 1 = 1 /\ 1 <= m + 1 /\ m <= n /\ 0 <= m /\ m \in 0..n
  BY DEF Edits, Line
<1>2. Line(st) /\ Len(st) = n /\ SubSeq(st, 1, m) = s /\ SubSeq(st, m + 1, n) = t
  <2>1. /\ Line(st) /\ Len(st) = n
        /\ \A i \in 1..m : st[i] = s[i]
        /\ \A i \in 1..Len(t) : st[m + i] = t[i]
    BY <1>1, ConcatOfLines
  <2>. HIDE DEF st
  <2>2. SubSeq(st, 1, m) = s
    <3>0. 1 \in Nat /\ m \in Nat /\ 1 <= m + 1
      BY <1>1
    <3>1. /\ Line(SubSeq(st, 1, m)) /\ Len(SubSeq(st, 1, m)) = m - 1 + 1
          /\ \A i \in 1..m - 1 + 1 : SubSeq(st, 1, m)[i] = st[1 + i - 1]
      BY ONLY <3>0, SubSeqOfLine
    <3>2. m - 1 + 1 = m /\ \A i \in 1..m : 1 + i - 1 = i
      BY <1>1
    <3>3. \A i \in 1..m : SubSeq(st, 1, m)[i] = s[i]
      BY <2>1, <3>1, <3>2
    <3>. QED
      BY <1>1, <3>1, <3>2, <3>3, LinesEqual
  <2>3. SubSeq(st, m + 1, n) = t
    <3>1. m + 1 \in Nat /\ m + 1 <= n + 1
      BY <1>1
    <3>2. /\ Line(SubSeq(st, m + 1, n)) /\ Len(SubSeq(st, m + 1, n)) = n - (m + 1) + 1
          /\ \A i \in 1..n - (m + 1) + 1 : SubSeq(st, m + 1, n)[i] = st[(m + 1) + i - 1]
      BY <1>1, <3>1, SubSeqOfLine
    <3>3. n - (m + 1) + 1 = Len(t) /\ \A i \in 1..Len(t) : (m + 1) + i - 1 = m + i
      BY <1>1
    <3>4. \A i \in 1..Len(t) : SubSeq(st, m + 1, n)[i] = t[i]
      BY <2>1, <3>2, <3>3
    <3>. QED
      BY <1>1, <3>2, <3>3, <3>4, LinesEqual
  <2>. QED
    BY <2>1, <2>2, <2>3
<1>3. Edits(st)
  BY EditsOfConcat
<1>. HIDE DEF st
<1>4. IsHistory(base, h) /\ h.acts = st /\ h.docs = Replay(base, st)
  BY <1>3 DEF IsHistory
<1>. HIDE DEF h
<1>5. /\ Line(h.docs) /\ Len(h.docs) = n + 1
  BY <1>1, <1>2, <1>4, ReplayUnfolds
<1>6. Last(Replay(base, s)) = h.docs[m + 1]
  <2>1. IsHistory(base, Rewind(h, m)) /\ Rewind(h, m).acts = s
    BY <1>1, <1>2, <1>4, RewindIsHistory
  <2>2. SubSeq(h.docs, 1, m + 1) = Replay(base, s)
    BY <2>1 DEF IsHistory, Rewind
  <2>3. SubSeq(h.docs, 1, m + 1)[m + 1] = h.docs[m + 1] /\ Len(SubSeq(h.docs, 1, m + 1)) = m + 1
    <3>1. m + 1 \in Nat /\ 1 <= (m + 1) + 1 /\ (m + 1) - 1 + 1 = m + 1 /\ m + 1 \in 1..m + 1
          /\ 1 + (m + 1) - 1 = m + 1
      BY <1>1
    <3>. QED
      BY <3>1, SubSeqOfLine
  <2>. QED
    BY <2>2, <2>3 DEF Last
<1>7. Last(Replay(h.docs[m + 1], t)) = h.docs[n + 1]
  <2>1. IsHistory(h.docs[m + 1], [acts |-> SubSeq(h.acts, m + 1, n),
                                  docs |-> SubSeq(h.docs, m + 1, n + 1)])
    <3>1. m \in Nat /\ n \in Nat /\ m <= n /\ n <= Len(h.acts)
      BY <1>1, <1>2, <1>4
    <3>. QED
      BY ONLY <3>1, <1>4, WindowIsHistory
  <2>2. SubSeq(h.docs, m + 1, n + 1) = Replay(h.docs[m + 1], t)
    BY <1>2, <1>4, <2>1 DEF IsHistory
  <2>3. /\ Len(SubSeq(h.docs, m + 1, n + 1)) = Len(t) + 1
        /\ SubSeq(h.docs, m + 1, n + 1)[Len(t) + 1] = h.docs[n + 1]
    <3>1. /\ m + 1 \in Nat /\ n + 1 \in Nat /\ m + 1 <= (n + 1) + 1
          /\ (n + 1) - (m + 1) + 1 = Len(t) + 1 /\ Len(t) + 1 \in 1..Len(t) + 1
          /\ (m + 1) + (Len(t) + 1) - 1 = n + 1
      BY <1>1
    <3>. QED
      BY <3>1, SubSeqOfLine
  <2>. QED
    BY <2>2, <2>3 DEF Last
<1>. QED
  BY <1>4, <1>5, <1>6, <1>7 DEF Last, st

\* An empty run folds to what it is folded onto.
LEMMA ReplayOfNone ==
  ASSUME NEW base
  PROVE  Edits(<<>>) /\ Last(Replay(base, <<>>)) = base
<1>1. Len(<<>>) = 0 /\ Line(<<>>)
  BY LineOfNone
<1>. DEFINE none == <<>>
<1>2. Len(none) \in Nat /\ Len(none) + 1 = 1 /\ 1..Len(none) = {}
  BY <1>1
<1>. HIDE DEF none
<1>3. Len(Replay(base, none)) = 1 /\ Replay(base, none)[1] = base
  BY <1>2, ReplayUnfolds
<1>4. Edits(none)
  BY <1>1, <1>2 DEF Edits, none
<1>. QED
  BY <1>3, <1>4 DEF Last, none

\* A history begins with what it was folded onto, and shows what folding all of
\* its actions leaves.
LEMMA HistoryEnds ==
  ASSUME NEW base, NEW h, IsHistory(base, h)
  PROVE  /\ h.docs[1] = base
         /\ Current(h) = Last(Replay(base, h.acts))
BY ReplayUnfolds DEF IsHistory, Edits, Line, Current, Last

\* forget_oldest: what is left is folded onto what the forgotten actions made.
LEMMA ForgettingFolds ==
  ASSUME NEW gone, NEW h, Edits(gone), IsHistory(Last(Replay(Origin, gone)), h),
         NEW n \in 0..Len(h.acts)
  PROVE  IsHistory(Last(Replay(Origin, gone \o SubSeq(h.acts, 1, n))),
                   [acts |-> SubSeq(h.acts, n + 1, Len(h.acts)),
                    docs |-> SubSeq(h.docs, n + 1, Len(h.docs))])
<1>. DEFINE base == Last(Replay(Origin, gone))
            first == SubSeq(h.acts, 1, n)
<1>. HIDE DEF base
<1>1. /\ IsHistory(base, h) /\ Edits(h.acts) /\ Len(h.acts) \in Nat
      /\ n \in Nat /\ n <= Len(h.acts) /\ Len(h.acts) <= Len(h.acts)
      /\ Len(h.docs) = Len(h.acts) + 1
  BY ReplayUnfolds DEF IsHistory, Edits, Line, base
<1>2. IsHistory(h.docs[n + 1], [acts |-> SubSeq(h.acts, n + 1, Len(h.acts)),
                                docs |-> SubSeq(h.docs, n + 1, Len(h.acts) + 1)])
  BY ONLY <1>1, WindowIsHistory
<1>3. Edits(first)
  BY <1>1, EditsOfCut
<1>4. IsHistory(base, Rewind(h, n)) /\ Rewind(h, n).acts = first
  BY ONLY <1>1, RewindIsHistory
<1>5. Last(Replay(base, first)) = Current(Rewind(h, n))
  BY <1>4, HistoryEnds
<1>6. Current(Rewind(h, n)) = h.docs[n + 1]
  <2>1. 1 \in Nat /\ n + 1 \in Nat /\ 1 <= (n + 1) + 1 /\ (n + 1) - 1 + 1 = n + 1
        /\ n + 1 \in 1..n + 1 /\ 1 + (n + 1) - 1 = n + 1
    BY <1>1
  <2>2. Len(SubSeq(h.docs, 1, n + 1)) = n + 1 /\ SubSeq(h.docs, 1, n + 1)[n + 1] = h.docs[n + 1]
    BY ONLY <2>1, SubSeqOfLine
  <2>. QED
    BY <2>2 DEF Rewind, Current
<1>7. Last(Replay(Origin, gone \o first)) = Last(Replay(base, first))
  BY <1>3, ReplayGoesOn DEF base
<1>. QED
  BY <1>1, <1>2, <1>5, <1>6, <1>7 DEF first

-----------------------------------------------------------------------------
(* The inductive invariant                                                   *)

\* Actions of this client's own, SOLO's or its actor's, never share a Lamport
\* time, so renaming SOLO's on the way into a session cannot make two ids one.
OneEach(actions) ==
  /\ actions \in SUBSET Action /\ IsFiniteSet(actions)
  /\ \A a \in actions : a.id.actor \in {Solo, Me, Peer}
  /\ \A a, b \in actions :
       a.id.lamport = b.id.lamport /\ (a.id.actor = Peer <=> b.id.actor = Peer) => a = b

\* A walk takes each step once.
Once(s) == \A i, j \in 1..Len(s) : s[i] = s[j] => i = j

\* What the inductive invariant has of the types; the walk's follow from the rest
\* of it (TypeOK).
IsDocument(d) == d = [c \in Cell |-> d[c]]
IsFile(f) == /\ f = [actions |-> f.actions, shown |-> f.shown, settled |-> f.settled]
             /\ OneEach(f.actions) /\ IsDocument(f.shown) /\ f.settled \in BOOLEAN

Typed ==
  /\ shared \in BOOLEAN
  /\ author \in {Solo, Me}
  /\ clock \in Nat /\ resets \in Nat
  /\ OneEach(issued)
  /\ IsFile(file)

\* The state's types: sets of actions no two of which are one, walks of edits, a
\* snapshot before every live action and one after the last, and a file.
TypeOK ==
  /\ Typed /\ OneEach(log)
  /\ \A s \in {forgotten, redo, history.acts} : s \in Seq(Action) /\ Edits(s)
  /\ history = [acts |-> history.acts, docs |-> history.docs]
  /\ Line(history.docs) /\ Len(history.docs) = Len(history.acts) + 1
  /\ \A i \in 1..Len(history.docs) : IsDocument(history.docs[i])

\* The clock is past everything this document was ever given.
ClockIsPast == \A a \in issued : a.id.lamport < clock

SharedIsMaterialized ==
  shared => history = Materialized(log) /\ forgotten = <<>> /\ redo = <<>>

\* The live history is folded onto what the forgotten prefix made.
HistoryFolds ==
  /\ Edits(forgotten) /\ Edits(redo)
  /\ IsHistory(Last(Replay(Origin, forgotten)), history)

WalkWasIssued == Once(Walk) /\ ToSet(Walk) \subseteq issued

\* The order a walk came by is the order of its ids, unless an action in it was
\* revived.
InOrder(s) == \A i, j \in 1..Len(s) : i < j => IdLess(s[i].id, s[j].id)
WalkInOrder == Revived \/ InOrder(Walk)

IInv ==
  /\ Typed
  /\ ClockIsPast
  /\ log \subseteq issued
  /\ SharedIsMaterialized
  /\ HistoryFolds
  /\ WalkWasIssued
  /\ WalkInOrder
  /\ FilesOpenAsSaved

LEMMA OneEachIsLog ==
  ASSUME NEW actions, OneEach(actions)
  PROVE  IsLog(actions)
<1>1. ASSUME NEW a \in actions, NEW b \in actions, a.id = b.id
      PROVE  a = b
  BY <1>1 DEF OneEach
<1>. QED
  BY <1>1 DEF OneEach, IsLog

LEMMA SomeOfOneEach ==
  ASSUME NEW actions, OneEach(actions), NEW some \in SUBSET actions
  PROVE  OneEach(some)
<1>1. IsFiniteSet(some)
  BY FS_Subset DEF OneEach
<1>. QED
  BY <1>1 DEF OneEach

\* resync, from_log: the materialization of a log is its effective actions folded
\* onto the origin, each of them once.
LEMMA MaterializedIsHistory ==
  ASSUME NEW actions, OneEach(actions)
  PROVE  LET h == Materialized(actions)
         IN  /\ IsHistory(Origin, h) /\ Edits(h.acts)
             /\ Once(h.acts) /\ ToSet(h.acts) \subseteq actions
<1>. DEFINE gone == UndoneIds(actions)
            acts == EffectiveActions(actions, gone)
            h == Materialized(actions)
<1>1. IsLog(actions)
  BY OneEachIsLog
<1>2. h.acts = acts /\ h = [acts |-> acts, docs |-> Replay(Origin, acts)]
  BY DEF Materialized
<1>. HIDE DEF h
<1>3. Edits(acts)
  BY <1>1, EffectiveAreEdits
<1>4. /\ Line(acts)
      /\ \A i \in 1..Len(acts) : /\ acts[i] \in Effective(actions, gone)
                                 /\ Rank(actions, gone, acts[i]) = i - 1
  BY <1>1, EffectiveInOrder
<1>. HIDE DEF acts
<1>5. Once(acts)
  <2>. SUFFICES ASSUME NEW i \in 1..Len(acts), NEW j \in 1..Len(acts), acts[i] = acts[j]
                PROVE  i = j
    BY DEF Once
  <2>1. i - 1 = j - 1 /\ Len(acts) \in Nat
    BY <1>4 DEF Line
  <2>. QED
    BY <2>1
<1>6. ToSet(acts) \subseteq actions
  <2>1. DOMAIN acts = 1..Len(acts)
    BY <1>4 DEF Line
  <2>. QED
    BY <1>4, <2>1 DEF ToSet, Effective
<1>. QED
  BY <1>2, <1>3, <1>5, <1>6 DEF IsHistory, h

\* MaterialKey: where nothing was revived every effective action has its own slot,
\* so the order of materialization is the order of the ids.
Unrevived(actions) ==
  ~ \E u, v \in actions : u.kind = UndoKind /\ v.kind = UndoKind /\ u.target = v.id

LEMMA OwnSlots ==
  ASSUME NEW actions, OneEach(actions), Unrevived(actions), NEW gone,
         NEW a \in Effective(actions, gone)
  PROVE  MaterialKey(actions, gone, a) = a.id
<1>1. \A u \in Undos(actions) : u \in actions /\ u.kind = UndoKind
  BY DEF Undos, Ordinary, OneEach, Action
<1>2. Revivals(actions, gone, a) = {}
  BY <1>1 DEF Revivals, Unrevived
<1>. QED
  BY <1>2 DEF MaterialKey

LEMMA EffectiveAreInOrder ==
  ASSUME NEW actions, OneEach(actions), Unrevived(actions)
  PROVE  InOrder(EffectiveActions(actions, UndoneIds(actions)))
<1>. DEFINE gone == UndoneIds(actions)
            acts == EffectiveActions(actions, gone)
            S == Effective(actions, gone)
            R == {p \in S \X S : IdLess(p[1].id, p[2].id)}
<1>1. IsLog(actions)
  BY OneEachIsLog
<1>2. /\ IsFiniteSet(S) /\ Line(acts)
      /\ \A i \in 1..Len(acts) : acts[i] \in S /\ Rank(actions, gone, acts[i]) = i - 1
  BY <1>1, EffectiveInOrder
<1>3. \A a \in S : a \in actions /\ a.id \in ActionId
  BY <1>1, ActionFields DEF Effective, IsLog
<1>4. \A a, b \in S : a.id = b.id => a = b
  BY <1>1, <1>3 DEF IsLog
<1>5. \A a \in S : Rank(actions, gone, a) = Cardinality(Below(S, R, a))
  <2>. SUFFICES ASSUME NEW a \in S
                PROVE  Rank(actions, gone, a) = Cardinality(Below(S, R, a))
    OBVIOUS
  <2>1. \A b \in S : MaterialKey(actions, gone, b) = b.id
    BY OwnSlots
  <2>2. Below(S, R, a) = {b \in S : IdLess(MaterialKey(actions, gone, b),
                                        MaterialKey(actions, gone, a))}
    BY <2>1 DEF Below
  <2>. QED
    BY <2>2 DEF Rank
<1>. HIDE DEF gone, acts, S
<1>6. /\ \A a \in S : <<a, a>> \notin R
      /\ \A a, b, c \in S : <<a, b>> \in R /\ <<b, c>> \in R => <<a, c>> \in R
      /\ \A a, b \in S : a = b \/ <<a, b>> \in R \/ <<b, a>> \in R
  BY <1>3, <1>4, IdLessOrders
<1>. HIDE DEF R
<1>7. \A a, c \in S : <<a, c>> \in R =>
        Cardinality(Below(S, R, a)) < Cardinality(Below(S, R, c))
  BY <1>2, <1>6, RanksCover
<1>8. ASSUME NEW i \in 1..Len(acts), NEW j \in 1..Len(acts), i < j
      PROVE  IdLess(acts[i].id, acts[j].id)
  <2>1. /\ acts[i] \in S /\ acts[j] \in S
        /\ Cardinality(Below(S, R, acts[i])) = i - 1
        /\ Cardinality(Below(S, R, acts[j])) = j - 1
    BY <1>2, <1>5, <1>8
  <2>2. Len(acts) \in Nat
    BY <1>2 DEF Line
  <2>3. i \in Int /\ j \in Int /\ ~ (j - 1 < i - 1) /\ i - 1 # j - 1
    BY <1>8, <2>2
  <2>4. acts[i] # acts[j]
    BY <2>1, <2>3
  <2>5. <<acts[j], acts[i]>> \notin R
    BY <1>7, <2>1, <2>3
  <2>6. <<acts[i], acts[j]>> \in R
    BY <1>6, <2>1, <2>4, <2>5
  <2>. QED
    BY <2>6 DEF R
<1>. QED
  BY <1>8 DEF InOrder, acts, gone

LEMMA CountOnce ==
  ASSUME NEW s, Line(s), Once(s)
  PROVE  /\ Cardinality(ToSet(s)) = Len(s)
         /\ \A n \in 0..Len(s) : Cardinality({s[k] : k \in 1..n}) = n
<1>1. ASSUME NEW n \in 0..Len(s)
      PROVE  Cardinality({s[k] : k \in 1..n}) = n
  <2>. DEFINE f == [k \in 1..n |-> s[k]]
              T == {s[k] : k \in 1..n}
  <2>1. n \in Nat /\ \A k \in 1..n : k \in 1..Len(s)
    BY DEF Line
  <2>2. f \in Bijection(1..n, T)
    BY <2>1 DEF Once, Bijection, Injection, IsInjective, Surjection
  <2>. HIDE DEF f, T
  <2>3. IsFiniteSet(1..n) /\ Cardinality(1..n) = n
    BY <2>1, FS_Interval
  <2>4. Cardinality(T) = Cardinality(1..n)
    BY <2>2, <2>3, FS_Bijection DEF ExistsBijection
  <2>. QED
    BY <2>3, <2>4 DEF T
<1>2. ToSet(s) = {s[k] : k \in 1..Len(s)} /\ Len(s) \in 0..Len(s)
  BY DEF Line, ToSet
<1>. QED
  BY <1>1, <1>2

\* The other way about: a sequence of edits in the order of their ids is what
\* opening the set of them makes.
LEMMA OrderedIsMaterialized ==
  ASSUME NEW s, Edits(s), Once(s), InOrder(s), OneEach(ToSet(s))
  PROVE  Materialized(ToSet(s)) = [acts |-> s, docs |-> Replay(Origin, s)]
<1>. DEFINE S == ToSet(s)
            gone == UndoneIds(S)
            acts == EffectiveActions(S, gone)
            n == Len(s)
<1>1. Line(s) /\ n \in Nat /\ S = {s[i] : i \in 1..n} /\ \A i \in 1..n : s[i] \in S
  BY DEF Edits, Line, ToSet
<1>2. \A a \in S : a \in Action /\ a.kind # UndoKind /\ Ordinary(a) /\ a.id \in ActionId
  <2>1. \A a \in S : a \in Action /\ a.kind \in Kind
    BY <1>1 DEF Edits, OneEach
  <2>. QED
    BY <2>1, KindAssumption, ActionFields DEF Action, Ordinary
<1>3. Undos(S) = {} /\ Unrevived(S)
  BY <1>2 DEF Undos, Unrevived
<1>4. gone = {} /\ Effective(S, gone) = S
  <2>1. gone = {}
    BY <1>3 DEF UndoneIds, Suppressed
  <2>. QED
    BY <1>2, <2>1 DEF Effective
<1>5. IsLog(S)
  BY OneEachIsLog
<1>6. /\ Line(acts) /\ Len(acts) = Cardinality(S)
      /\ \A i \in 1..Len(acts) : acts[i] \in S /\ Rank(S, gone, acts[i]) = i - 1
      /\ \A a, b \in S : Rank(S, gone, a) = Rank(S, gone, b) => a = b
  BY <1>4, <1>5, EffectiveInOrder
<1>7. Cardinality(S) = n
  BY <1>1, CountOnce
<1>8. ASSUME NEW i \in 1..n
      PROVE  Rank(S, gone, s[i]) = i - 1
  <2>1. \A b \in S : MaterialKey(S, gone, b) = b.id
    BY <1>3, <1>4, OwnSlots
  <2>2. Rank(S, gone, s[i]) = Cardinality({b \in S : IdLess(b.id, s[i].id)})
    <3>1. {b \in S : IdLess(MaterialKey(S, gone, b), MaterialKey(S, gone, s[i]))}
            = {b \in S : IdLess(b.id, s[i].id)}
      BY <1>1, <2>1
    <3>. QED
      BY <1>4, <3>1 DEF Rank
  <2>. HIDE DEF S, n
  <2>3. \A k \in 1..n : IdLess(s[k].id, s[i].id) <=> k < i
    <3>. SUFFICES ASSUME NEW k \in 1..n PROVE IdLess(s[k].id, s[i].id) <=> k < i
      OBVIOUS
    <3>1. s[k].id \in ActionId /\ s[i].id \in ActionId
      BY <1>1, <1>2
    <3>2. k < i => IdLess(s[k].id, s[i].id)
      BY DEF InOrder, n
    <3>3. i < k => ~IdLess(s[k].id, s[i].id)
      BY <3>1, IdLessAsymmetric DEF InOrder, n
    <3>4. i = k => ~IdLess(s[k].id, s[i].id)
      BY <3>1, IdLessOrders
    <3>5. k < i \/ i < k \/ i = k
      BY <1>1
    <3>. QED
      BY <1>1, <3>2, <3>3, <3>4, <3>5
  <2>4. i - 1 \in 0..n /\ \A k \in 1..n : k \in 1..i - 1 <=> k < i
    BY <1>1
  <2>5. {b \in S : IdLess(b.id, s[i].id)} = {s[k] : k \in 1..i - 1}
    <3>1. \A k \in 1..i - 1 : k \in 1..n
      BY <1>1
    <3>. QED
      BY <1>1, <2>3, <2>4, <3>1
  <2>6. Cardinality({s[k] : k \in 1..i - 1}) = i - 1
    BY <1>1, <2>4, CountOnce DEF n
  <2>. QED
    BY <2>2, <2>5, <2>6
<1>. HIDE DEF acts, gone, S, n
<1>9. \A i \in 1..n : acts[i] = s[i]
  BY <1>1, <1>6, <1>7, <1>8
<1>10. acts = s
  BY <1>1, <1>6, <1>7, <1>9, LinesEqual DEF n
<1>. QED
  BY <1>10 DEF Materialized, acts, gone, S

\* A document opened, shared or grown anew: the walk is the materialization.
LEMMA MaterializedWalk ==
  ASSUME NEW actions, OneEach(actions), history' = Materialized(actions),
         forgotten' = <<>>, redo' = <<>>, actions \subseteq issued'
  PROVE  HistoryFolds' /\ WalkWasIssued' /\ WalkInOrder'
<1>1. /\ IsHistory(Origin, history') /\ Edits(history'.acts)
      /\ Once(history'.acts) /\ ToSet(history'.acts) \subseteq actions
  BY MaterializedIsHistory
<1>2. HistoryFolds'
  BY <1>1, ReplayOfNone DEF HistoryFolds
<1>3. Walk' = history'.acts
  <2>1. Reverse(redo') = <<>>
    BY ReverseOfNone
  <2>2. Line(history'.acts)
    BY <1>1 DEF Edits
  <2>3. /\ <<>> \o history'.acts = history'.acts
        /\ history'.acts \o <<>> = history'.acts
    BY <2>2, ConcatWithNone
  <2>. QED
    BY <2>1, <2>3 DEF Walk, Whole
<1>4. WalkInOrder'
  <2>. SUFFICES ASSUME ~Revived' PROVE InOrder(Walk)'
    BY DEF WalkInOrder
  <2>1. Unrevived(actions)
    BY DEF Revived, Unrevived
  <2>2. history'.acts = EffectiveActions(actions, UndoneIds(actions))
    BY DEF Materialized
  <2>3. InOrder(EffectiveActions(actions, UndoneIds(actions)))
    BY <2>1, EffectiveAreInOrder
  <2>. QED
    BY ONLY <1>3, <2>2, <2>3 DEF InOrder
<1>. QED
  BY <1>1, <1>2, <1>3, <1>4 DEF WalkWasIssued

LEMMA OncePrefix ==
  ASSUME NEW s, NEW t, Line(s), Line(t), Once(s \o t)
  PROVE  Once(s) /\ ToSet(s) \subseteq ToSet(s \o t)
<1>. DEFINE st == s \o t
<1>1. /\ Line(st) /\ Len(st) = Len(s) + Len(t)
      /\ \A i \in 1..Len(s) : st[i] = s[i]
  BY ConcatOfLines
<1>. HIDE DEF st
<1>2. /\ \A i \in 1..Len(s) : i \in 1..Len(st)
      /\ DOMAIN s = 1..Len(s) /\ DOMAIN st = 1..Len(st)
  BY <1>1 DEF Line
<1>3. Once(st)
  BY DEF st
<1>4. Once(s)
  BY <1>1, <1>2, <1>3 DEF Once
<1>5. ToSet(s) \subseteq ToSet(st)
  BY <1>1, <1>2 DEF ToSet
<1>. QED
  BY <1>4, <1>5 DEF st

LEMMA OnceAppended ==
  ASSUME NEW s, Line(s), Once(s), NEW a, a \notin ToSet(s)
  PROVE  Once(s \o <<a>>) /\ ToSet(s \o <<a>>) \subseteq ToSet(s) \cup {a}
<1>. DEFINE one == <<a>>
            st == s \o one
<1>1. Line(one) /\ Len(one) = 1 /\ one[1] = a
  BY LineOfOne
<1>. HIDE DEF one
<1>2. /\ Line(st) /\ Len(st) = Len(s) + Len(one)
      /\ \A i \in 1..Len(s) : st[i] = s[i]
      /\ \A i \in 1..Len(one) : st[Len(s) + i] = one[i]
  <2>1. Line(s) /\ Line(one)
    BY <1>1
  <2>. QED
    BY ONLY <2>1, ConcatOfLines
<1>. HIDE DEF st
<1>3. /\ Len(s) \in Nat /\ Len(st) = Len(s) + 1
      /\ \A i \in 1..Len(s) : st[i] = s[i] /\ s[i] \in ToSet(s)
      /\ st[Len(s) + 1] = a
      /\ DOMAIN st = 1..Len(st)
  BY <1>1, <1>2 DEF Line, ToSet
<1>4. \A i \in 1..Len(st) : i \in 1..Len(s) \/ i = Len(s) + 1
  BY <1>3
<1>5. Once(st)
  BY <1>3, <1>4 DEF Once
<1>6. \A i \in DOMAIN st : st[i] \in ToSet(s) \cup {a}
  BY <1>3, <1>4
<1>. QED
  BY <1>5, <1>6 DEF ToSet, st, one

LEMMA OneMore ==
  ASSUME NEW actions, OneEach(actions), NEW a \in Action, a.id.actor \in {Solo, Me, Peer},
         \A b \in actions : (a.id.actor = Peer <=> b.id.actor = Peer) => b.id.lamport # a.id.lamport
  PROVE  OneEach(actions \cup {a}) /\ a \notin actions
<1>1. IsFiniteSet(actions \cup {a})
  BY FS_AddElement DEF OneEach
<1>2. a \notin actions
  OBVIOUS
<1>. QED
  BY <1>1, <1>2 DEF OneEach

-----------------------------------------------------------------------------
(* Moving the playhead                                                       *)

\* What undo, redo and seek have in common.
Navigated ==
  /\ Walk' = Walk
  /\ HistoryFolds'
  /\ UNCHANGED <<shared, log, forgotten, author, clock, issued, file, resets>>

WalkParts ==
  /\ Edits(forgotten) /\ Edits(redo) /\ Edits(history.acts)
  /\ Line(forgotten) /\ Line(redo) /\ Line(history.acts)
  /\ IsHistory(Last(Replay(Origin, forgotten)), history)

LEMMA PartsOfTheWalk == HistoryFolds => WalkParts
  BY DEF HistoryFolds, WalkParts, IsHistory, Edits

LEMMA GoBack ==
  ASSUME HistoryFolds, NEW n \in 0..Len(history.acts),
         Moved(Rewind(history, n),
               redo \o Reverse(SubSeq(history.acts, n + 1, Len(history.acts))))
  PROVE  Navigated
<1>. DEFINE acts == history.acts
            q == SubSeq(acts, n + 1, Len(acts))
            base == Last(Replay(Origin, forgotten))
<1>1. WalkParts
  BY PartsOfTheWalk
<1>2. /\ Edits(forgotten) /\ Edits(redo) /\ Edits(acts)
      /\ Line(forgotten) /\ Line(redo) /\ Line(acts) /\ IsHistory(base, history)
  BY <1>1 DEF WalkParts
<1>3. n \in Nat /\ n <= Len(history.acts)
  BY <1>2 DEF Line
<1>4. IsHistory(base, Rewind(history, n)) /\ Rewind(history, n).acts = SubSeq(acts, 1, n)
  BY ONLY <1>2, <1>3, RewindIsHistory
<1>5. history' = Rewind(history, n) /\ redo' = redo \o Reverse(q) /\ forgotten' = forgotten
  BY DEF Moved
<1>6. Edits(redo \o Reverse(q))
  <2>1. Edits(q)
    BY <1>2, EditsOfCut
  <2>2. Edits(Reverse(q))
    BY <2>1, EditsOfReverse
  <2>. HIDE DEF q
  <2>. QED
    BY <1>2, <2>2, EditsOfConcat
<1>7. HistoryFolds'
  BY <1>2, <1>4, <1>5, <1>6 DEF HistoryFolds
<1>8. (forgotten \o SubSeq(acts, 1, n)) \o Reverse(redo \o Reverse(q)) = (forgotten \o acts) \o Reverse(redo)
  <2>. DEFINE p == SubSeq(acts, 1, n)
  <2>1. Line(p) /\ Line(q) /\ p \o q = acts
    BY <1>2, CutInTwo, CutIsLine
  <2>2. Line(forgotten) /\ Line(redo)
    BY <1>2
  <2>. HIDE DEF acts, p, q
  <2>3. Line(p) /\ Line(q)
    BY <2>1
  <2>4. (forgotten \o p) \o Reverse(redo \o Reverse(q)) = (forgotten \o (p \o q)) \o Reverse(redo)
    BY ONLY <2>2, <2>3, BackwardsKeepsWalk, SMTT(30)
  <2>. QED
    BY <2>1, <2>4 DEF p
<1>9. Walk' = Walk
  <2>1. Walk' = (forgotten' \o history'.acts) \o Reverse(redo')
    BY DEF Walk, Whole
  <2>2. Walk = (forgotten \o acts) \o Reverse(redo)
    BY DEF Walk, Whole
  <2>. HIDE DEF q, acts
  <2>. QED
    BY <1>4, <1>5, <1>8, <2>1, <2>2
<1>. QED
  BY <1>7, <1>9 DEF Navigated, Moved

LEMMA GoForth ==
  ASSUME HistoryFolds, NEW n \in 0..Len(redo),
         Moved(PushAll(history, Reverse(SubSeq(redo, n + 1, Len(redo)))), SubSeq(redo, 1, n))
  PROVE  Navigated
<1>. DEFINE acts == history.acts
            more == Reverse(SubSeq(redo, n + 1, Len(redo)))
            left == SubSeq(redo, 1, n)
            base == Last(Replay(Origin, forgotten))
<1>1. WalkParts
  BY PartsOfTheWalk
<1>2. /\ Edits(forgotten) /\ Edits(redo) /\ Edits(acts)
      /\ Line(forgotten) /\ Line(redo) /\ Line(acts) /\ IsHistory(base, history)
  BY <1>1 DEF WalkParts
<1>3. Edits(left) /\ Edits(more)
  BY <1>2, EditsOfCut, EditsOfReverse
<1>4. IsHistory(base, PushAll(history, more)) /\ PushAll(history, more).acts = acts \o more
  BY ONLY <1>2, <1>3, PushAllIsHistory
<1>5. history' = PushAll(history, more) /\ redo' = left /\ forgotten' = forgotten
  BY DEF Moved
<1>6. HistoryFolds'
  BY <1>2, <1>3, <1>4, <1>5 DEF HistoryFolds
<1>7. (forgotten \o (acts \o more)) \o Reverse(left) = (forgotten \o acts) \o Reverse(redo)
  <2>. DEFINE q == SubSeq(redo, n + 1, Len(redo))
  <2>1. Line(left) /\ Line(q) /\ left \o q = redo
    BY <1>2, CutInTwo, CutIsLine
  <2>2. Line(forgotten) /\ Line(acts)
    BY <1>2
  <2>. HIDE DEF acts, left, q
  <2>3. Line(left) /\ Line(q)
    BY <2>1
  <2>4. (forgotten \o (acts \o Reverse(q))) \o Reverse(left) = (forgotten \o acts) \o Reverse(left \o q)
    BY ONLY <2>2, <2>3, ForwardsKeepsWalk, SMTT(30)
  <2>. QED
    BY <2>1, <2>4 DEF q
<1>8. Walk' = Walk
  <2>1. Walk' = (forgotten' \o history'.acts) \o Reverse(redo')
    BY DEF Walk, Whole
  <2>2. Walk = (forgotten \o acts) \o Reverse(redo)
    BY DEF Walk, Whole
  <2>. HIDE DEF more, left, acts
  <2>. QED
    BY <1>4, <1>5, <1>7, <2>1, <2>2
<1>. QED
  BY <1>6, <1>8 DEF Navigated, Moved

\* The last of a sequence is what turning the end of it around leaves.
LEMMA LastAlone ==
  ASSUME NEW s, Line(s), s # <<>>
  PROVE  /\ Len(s) - 1 \in 0..Len(s) /\ (Len(s) - 1) + 1 = Len(s)
         /\ Reverse(SubSeq(s, (Len(s) - 1) + 1, Len(s))) = <<Last(s)>>
<1>1. Len(s) \in Nat /\ Len(s) # 0
  <2>1. s \in Seq({s[i] : i \in 1..Len(s)})
    BY LineIsSeq
  <2>. QED
    BY <2>1, EmptySeq DEF Line
<1>. DEFINE e == SubSeq(s, Len(s), Len(s))
            r == Reverse(e)
            one == <<Last(s)>>
<1>2. Len(s) <= Len(s) + 1 /\ Len(s) - Len(s) + 1 = 1 /\ Len(s) + 1 - 1 = Len(s)
  BY <1>1
<1>3. Line(e) /\ Len(e) = 1 /\ e[1] = s[Len(s)]
  <2>1. /\ Line(e) /\ Len(e) = Len(s) - Len(s) + 1
        /\ \A i \in 1..Len(s) - Len(s) + 1 : e[i] = s[Len(s) + i - 1]
    BY ONLY <1>1, <1>2, SubSeqOfLine
  <2>. HIDE DEF e
  <2>2. e[1] = s[Len(s) + 1 - 1]
    BY <1>2, <2>1
  <2>. QED
    BY <1>2, <2>1, <2>2
<1>. HIDE DEF e
<1>4. Line(r) /\ Len(r) = 1 /\ r[1] = e[1]
  <2>1. /\ Line(r) /\ Len(r) = Len(e)
        /\ \A i \in 1..Len(e) : r[i] = e[(Len(e) - i) + 1]
    BY <1>3, ReverseOfLine
  <2>. HIDE DEF r
  <2>. QED
    BY <1>3, <2>1
<1>. HIDE DEF r
<1>5. Line(one) /\ Len(one) = 1 /\ one[1] = Last(s)
  BY LineOfOne
<1>. HIDE DEF one
<1>6. \A i \in 1..1 : i = 1
  OBVIOUS
<1>7. r = one
  BY <1>3, <1>4, <1>5, <1>6, LinesEqual DEF Last
<1>8. Len(s) - 1 \in 0..Len(s) /\ (Len(s) - 1) + 1 = Len(s)
  BY <1>1
<1>. QED
  BY <1>7, <1>8 DEF r, e, one

LEMMA UndoSoloNavigates ==
  ASSUME HistoryFolds, UndoSolo
  PROVE  Navigated
<1>. DEFINE acts == history.acts
            e == SubSeq(acts, (Len(acts) - 1) + 1, Len(acts))
<1>1. Line(acts) /\ acts # <<>> /\ Line(redo)
  BY PartsOfTheWalk DEF WalkParts, UndoSolo
<1>2. Len(acts) - 1 \in 0..Len(acts) /\ Reverse(e) = <<Last(acts)>>
  BY <1>1, LastAlone
<1>3. Append(redo, Last(acts)) = redo \o <<Last(acts)>>
  <2>. DEFINE S == {redo[i] : i \in 1..Len(redo)} \cup {Last(acts)}
  <2>1. redo \in Seq(S) /\ Last(acts) \in S
    BY <1>1, LineIsSeq
  <2>. HIDE DEF S
  <2>. QED
    BY <2>1, AppendIsConcat
<1>4. Moved(Rewind(history, Len(acts) - 1), redo \o Reverse(e))
  BY <1>2, <1>3 DEF UndoSolo
<1>. QED
  BY <1>2, <1>4, GoBack

LEMMA RedoSoloNavigates ==
  ASSUME HistoryFolds, RedoSolo
  PROVE  Navigated
<1>1. Line(redo) /\ redo # <<>>
  BY PartsOfTheWalk DEF WalkParts, RedoSolo
<1>2. /\ Len(redo) - 1 \in 0..Len(redo)
      /\ Reverse(SubSeq(redo, (Len(redo) - 1) + 1, Len(redo))) = <<Last(redo)>>
  BY <1>1, LastAlone
<1>3. Moved(PushAll(history, Reverse(SubSeq(redo, (Len(redo) - 1) + 1, Len(redo)))),
            SubSeq(redo, 1, Len(redo) - 1))
  BY <1>2 DEF RedoSolo, Front
<1>. QED
  BY <1>2, <1>3, GoForth

LEMMA SeekNavigates ==
  ASSUME HistoryFolds, NEW to \in 0..Len(history.acts) + Len(redo), Seek(to)
  PROVE  Navigated
<1>1. Len(history.acts) \in Nat /\ Len(redo) \in Nat
  BY PartsOfTheWalk DEF WalkParts, Line
<1>2. CASE to < Len(history.acts)
  <2>1. to \in 0..Len(history.acts)
    BY <1>1, <1>2
  <2>2. Moved(Rewind(history, to),
              redo \o Reverse(SubSeq(history.acts, to + 1, Len(history.acts))))
    BY <1>2 DEF Seek
  <2>. QED
    BY <2>1, <2>2, GoBack
<1>3. CASE ~ (to < Len(history.acts))
  <2>. DEFINE n == Len(redo) - (to - Len(history.acts))
  <2>1. n \in 0..Len(redo) /\ Len(redo) - (to - Len(history.acts)) + 1 = n + 1
    BY <1>1, <1>3
  <2>2. Moved(PushAll(history, Batch(to - Len(history.acts))), SubSeq(redo, 1, n))
    BY <1>3 DEF Seek
  <2>. HIDE DEF n
  <2>3. Batch(to - Len(history.acts)) = Reverse(SubSeq(redo, n + 1, Len(redo)))
    BY <2>1 DEF Batch
  <2>. QED
    BY <2>1, <2>2, <2>3, GoForth
<1>. QED
  BY <1>2, <1>3

LEMMA NavigationPreserves ==
  ASSUME IInv, Navigated, ~shared
  PROVE  IInv'
<1>1. Typed' /\ ClockIsPast' /\ (log \subseteq issued)'
  BY DEF IInv, Typed, ClockIsPast, Navigated
<1>2. SharedIsMaterialized' /\ HistoryFolds'
  BY DEF SharedIsMaterialized, Navigated
<1>3. WalkWasIssued' /\ WalkInOrder'
  BY DEF IInv, WalkWasIssued, WalkInOrder, InOrder, Revived, Navigated
<1>4. FilesOpenAsSaved'
  BY DEF IInv, FilesOpenAsSaved, Navigated
<1>. QED
  BY <1>1, <1>2, <1>3, <1>4 DEF IInv

-----------------------------------------------------------------------------
(* Committing                                                                *)

LEMMA HalfOrLess ==
  ASSUME NEW n \in Nat
  PROVE  /\ n \div 2 \in 0..n
         /\ \A m \in Nat : n > m => n - m \in 0..n
  OBVIOUS

LEMMA ExcessIsKept ==
  ASSUME NEW h, Len(h.acts) \in Nat
  PROVE  Excess(h) \in 0..Len(h.acts)
<1>. DEFINE n == Len(h.acts)
            x == n \div 2
            y == n - MinUndoDepth
<1>1. CASE n > MinUndoDepth
  <2>1. x \in 0..n /\ y \in 0..n
    BY <1>1, HalfOrLess, LifecycleAssumption
  <2>. HIDE DEF x, y
  <2>2. Min({x, y}) \in {x, y}
    <3>1. \E z \in {x, y} : \A w \in {x, y} : z =< w
      BY <2>1
    <3>. QED
      BY <3>1 DEF Min
  <2>3. Excess(h) = Min({x, y})
    BY <1>1 DEF Excess, x, y
  <2>. QED
    BY <2>1, <2>2, <2>3
<1>2. CASE ~ (n > MinUndoDepth)
  BY <1>2 DEF Excess
<1>. QED
  BY <1>1, <1>2

\* clone_actions: the walk up to the playhead.
LEMMA WholeWasIssued ==
  ASSUME IInv
  PROVE  Line(Whole) /\ Once(Whole) /\ ToSet(Whole) \subseteq issued
<1>1. Line(forgotten) /\ Line(history.acts) /\ Line(redo)
  BY PartsOfTheWalk DEF WalkParts, IInv
<1>2. Line(forgotten \o history.acts)
  <2>1. Line(forgotten) /\ Line(history.acts)
    BY <1>1
  <2>. QED
    BY ONLY <2>1, ConcatOfLines
<1>3. Line(Whole) /\ Line(Reverse(redo)) /\ Once(Whole \o Reverse(redo))
  BY <1>1, <1>2, ReverseOfLine DEF Whole, IInv, WalkWasIssued, Walk
<1>4. Once(Whole) /\ ToSet(Whole) \subseteq ToSet(Walk)
  BY <1>3, OncePrefix DEF Walk
<1>. QED
  BY <1>3, <1>4 DEF IInv, WalkWasIssued

LEMMA WholeIsInOrder ==
  ASSUME IInv, ~Revived
  PROVE  InOrder(Whole)
<1>. DEFINE r == Reverse(redo)
            w == Whole \o r
<1>1. Line(Whole) /\ Line(r)
  <2>1. Line(redo)
    BY PartsOfTheWalk DEF WalkParts, IInv
  <2>. QED
    BY <2>1, WholeWasIssued, ReverseOfLine
<1>2. InOrder(w)
  BY DEF IInv, WalkInOrder, Walk
<1>. HIDE DEF r
<1>3. /\ Len(w) = Len(Whole) + Len(r) /\ Len(Whole) \in Nat /\ Len(r) \in Nat
      /\ \A i \in 1..Len(Whole) : w[i] = Whole[i]
  BY <1>1, ConcatOfLines DEF Line
<1>. HIDE DEF w
<1>4. \A i \in 1..Len(Whole) : i \in 1..Len(w)
  BY <1>3
<1>. QED
  BY <1>2, <1>3, <1>4 DEF InOrder

LEMMA OrderAppended ==
  ASSUME NEW s, Line(s), InOrder(s), NEW a, \A b \in ToSet(s) : IdLess(b.id, a.id)
  PROVE  InOrder(s \o <<a>>)
<1>. DEFINE one == <<a>>
            st == s \o one
<1>1. Line(one) /\ Len(one) = 1 /\ one[1] = a
  BY LineOfOne
<1>. HIDE DEF one
<1>2. /\ Len(st) = Len(s) + Len(one)
      /\ \A i \in 1..Len(s) : st[i] = s[i]
      /\ \A i \in 1..Len(one) : st[Len(s) + i] = one[i]
  <2>1. Line(s) /\ Line(one)
    BY <1>1
  <2>. QED
    BY ONLY <2>1, ConcatOfLines
<1>. HIDE DEF st
<1>3. /\ Len(s) \in Nat /\ Len(st) = Len(s) + 1 /\ st[Len(s) + 1] = a
      /\ \A i \in 1..Len(s) : IdLess(s[i].id, a.id)
  BY <1>1, <1>2 DEF Line, ToSet
<1>4. ASSUME NEW i \in 1..Len(st), NEW j \in 1..Len(st), i < j
      PROVE  IdLess(st[i].id, st[j].id)
  <2>1. i \in 1..Len(s) /\ (j \in 1..Len(s) \/ j = Len(s) + 1)
    BY <1>3, <1>4
  <2>. QED
    BY <1>2, <1>3, <1>4, <2>1 DEF InOrder
<1>. QED
  BY <1>4 DEF InOrder, st, one

LEMMA WalkIsOfActions ==
  ASSUME IInv
  PROVE  \A s \in {forgotten, redo, history.acts} : s \in Seq(Action)
<1>. DEFINE acts == history.acts
            r == Reverse(redo)
<1>1. Line(forgotten) /\ Line(acts) /\ Line(redo)
  BY PartsOfTheWalk DEF WalkParts, IInv
<1>2. Line(r) /\ Len(r) = Len(redo) /\ \A i \in 1..Len(redo) : r[i] = redo[(Len(redo) - i) + 1]
  BY <1>1, ReverseOfLine
<1>3. /\ Line(Whole) /\ Len(Whole) = Len(forgotten) + Len(acts)
      /\ \A i \in 1..Len(forgotten) : Whole[i] = forgotten[i]
      /\ \A i \in 1..Len(acts) : Whole[Len(forgotten) + i] = acts[i]
  <2>. HIDE DEF acts
  <2>1. Line(forgotten) /\ Line(acts)
    BY <1>1
  <2>2. Whole = forgotten \o acts
    BY DEF Whole, acts
  <2>. QED
    BY ONLY <2>1, <2>2, ConcatOfLines
<1>. HIDE DEF r, acts
<1>4. /\ Line(Walk) /\ Len(Walk) = Len(Whole) + Len(r)
      /\ \A i \in 1..Len(Whole) : Walk[i] = Whole[i]
      /\ \A i \in 1..Len(r) : Walk[Len(Whole) + i] = r[i]
  <2>1. Line(Whole) /\ Line(r)
    BY <1>2, <1>3
  <2>2. Walk = Whole \o r
    BY DEF Walk, r
  <2>. QED
    BY ONLY <2>1, <2>2, ConcatOfLines
<1>5. Len(forgotten) \in Nat /\ Len(acts) \in Nat /\ Len(redo) \in Nat
  BY <1>1 DEF Line
<1>6. \A i \in 1..Len(Walk) : Walk[i] \in Action
  BY <1>4 DEF IInv, WalkWasIssued, Typed, OneEach, ToSet, Line
<1>7. \A i \in 1..Len(forgotten) : forgotten[i] \in Action
  <2>1. \A i \in 1..Len(forgotten) : i \in 1..Len(Whole) /\ i \in 1..Len(Walk)
    BY <1>2, <1>3, <1>4, <1>5
  <2>. QED
    BY <1>3, <1>4, <1>6, <2>1
<1>8. \A i \in 1..Len(acts) : acts[i] \in Action
  <2>1. \A i \in 1..Len(acts) : /\ Len(forgotten) + i \in 1..Len(Whole)
                                /\ Len(forgotten) + i \in 1..Len(Walk)
    BY <1>2, <1>3, <1>4, <1>5
  <2>. QED
    BY <1>3, <1>4, <1>6, <2>1
<1>9. \A i \in 1..Len(redo) : redo[i] \in Action
  <2>1. \A i \in 1..Len(redo) :
          LET j == (Len(redo) - i) + 1
          IN  /\ j \in 1..Len(r) /\ Len(Whole) + j \in 1..Len(Walk)
              /\ (Len(redo) - j) + 1 = i
    BY <1>2, <1>3, <1>4, <1>5
  <2>. QED
    BY <1>2, <1>4, <1>6, <2>1
<1>. QED
  BY <1>1, <1>7, <1>8, <1>9, LineIsSeq DEF acts

\* LinearTimeline::push: a committed action ends the walk, whatever was withheld
\* from it is dropped, and folding the oldest away moves nothing.
LEMMA CommitExtendsWalk ==
  ASSUME IInv, NEW a, a.kind \in Kind, a \notin issued, CommitSolo(a), issued' = issued \cup {a},
         a.id.lamport = clock
  PROVE  HistoryFolds' /\ WalkWasIssued' /\ WalkInOrder'
<1>. DEFINE base == Last(Replay(Origin, forgotten))
            one == <<a>>
            h == PushAll(history, one)
<1>1. /\ Edits(forgotten) /\ Line(forgotten) /\ Line(history.acts) /\ Line(redo)
      /\ IsHistory(base, history)
  BY PartsOfTheWalk DEF WalkParts, IInv
<1>2. Edits(one) /\ Line(one)
  <2>1. Line(one) /\ Len(one) = 1 /\ one[1] = a
    BY LineOfOne
  <2>. HIDE DEF one
  <2>. QED
    BY <2>1 DEF Edits
<1>3. IsHistory(base, h) /\ h.acts = history.acts \o one
  <2>. HIDE DEF one
  <2>1. IsHistory(base, history) /\ Edits(one)
    BY <1>1, <1>2
  <2>. QED
    BY ONLY <2>1, PushAllIsHistory
<1>4. PICK n \in {0, Excess(h)} : ForgetOldest(h, n)
  BY DEF CommitSolo
<1>. HIDE DEF h
<1>5. Edits(h.acts) /\ Line(h.acts) /\ Len(h.acts) \in Nat
  BY <1>3 DEF IsHistory, Edits, Line
<1>6. n \in 0..Len(h.acts)
  BY <1>5, ExcessIsKept
<1>. DEFINE p == SubSeq(h.acts, 1, n)
            q == SubSeq(h.acts, n + 1, Len(h.acts))
<1>7. /\ history' = [acts |-> q, docs |-> SubSeq(h.docs, n + 1, Len(h.docs))]
      /\ forgotten' = forgotten \o p /\ redo' = <<>>
  BY <1>4 DEF ForgetOldest, Forgotten, CommitSolo
<1>8. HistoryFolds'
  <2>1. IsHistory(Last(Replay(Origin, forgotten \o p)), history')
    BY <1>1, <1>3, <1>6, <1>7, ForgettingFolds DEF base
  <2>2. Edits(p)
    BY <1>5, <1>6, EditsOfCut
  <2>. HIDE DEF p, q
  <2>3. Edits(forgotten \o p)
    BY <1>1, <2>2, EditsOfConcat
  <2>. QED
    BY <1>7, <2>1, <2>3, ReplayOfNone DEF HistoryFolds
<1>9. Walk' = Whole \o one
  <2>1. Line(p) /\ Line(q) /\ p \o q = h.acts
    BY <1>5, <1>6, CutInTwo, CutIsLine
  <2>. HIDE DEF p, q
  <2>2. Reverse(<<>>) = <<>>
    BY ReverseOfNone
  <2>3. Walk' = ((forgotten \o p) \o q) \o <<>>
    BY <1>7, <2>2 DEF Walk, Whole
  <2>4. (forgotten \o p) \o q = forgotten \o (p \o q)
    <3>1. Line(forgotten) /\ Line(p) /\ Line(q)
      BY <1>1, <2>1
    <3>. QED
      BY ONLY <3>1, ConcatAssociates
  <2>. HIDE DEF one
  <2>5. forgotten \o (history.acts \o one) = (forgotten \o history.acts) \o one
    <3>. DEFINE acts == history.acts
    <3>1. Line(forgotten) /\ Line(acts) /\ Line(one)
      BY <1>1, <1>2
    <3>. HIDE DEF acts
    <3>2. (forgotten \o acts) \o one = forgotten \o (acts \o one)
      BY ONLY <3>1, ConcatAssociates
    <3>. QED
      BY <3>2 DEF acts
  <2>6. Line(Whole)
    BY WholeWasIssued
  <2>7. Line(Whole \o one)
    <3>1. Line(Whole) /\ Line(one)
      BY <1>2, <2>6
    <3>. QED
      BY ONLY <3>1, ConcatOfLines
  <2>8. Walk' = (Whole \o one) \o <<>>
    BY <1>3, <2>1, <2>3, <2>4, <2>5 DEF Whole
  <2>. QED
    BY <2>7, <2>8, ConcatWithNone
<1>10. Line(Whole) /\ Once(Whole) /\ ToSet(Whole) \subseteq issued
  BY WholeWasIssued
<1>11. Once(Whole \o one) /\ ToSet(Whole \o one) \subseteq ToSet(Whole) \cup {a}
  BY <1>10, OnceAppended
<1>12. WalkInOrder'
  <2>. SUFFICES ASSUME ~Revived' PROVE InOrder(Walk)'
    BY DEF WalkInOrder
  <2>1. ~Revived
    BY DEF Revived
  <2>2. InOrder(Whole)
    BY <2>1, WholeIsInOrder
  <2>3. \A b \in ToSet(Whole) : IdLess(b.id, a.id)
    <3>1. \A b \in issued : b.id.lamport < clock
      BY DEF IInv, ClockIsPast
    <3>. QED
      BY <1>10, <3>1 DEF IdLess
  <2>4. InOrder(Whole \o one)
    BY <1>10, <2>2, <2>3, OrderAppended
  <2>. HIDE DEF one
  <2>. QED
    BY ONLY <1>9, <2>4 DEF InOrder
<1>. HIDE DEF one
<1>13. WalkWasIssued'
  BY <1>9, <1>10, <1>11 DEF WalkWasIssued
<1>. QED
  BY <1>8, <1>12, <1>13

\* Either timeline takes an action this document has never seen.
LEMMA TakingKeepsWalk ==
  ASSUME IInv, NEW a, OneEach(issued \cup {a}), a.kind \in Kind \/ shared, a \notin issued,
         (CommitSolo(a) /\ a.id.lamport = clock) \/ CommitShared(a),
         issued' = issued \cup {a}, shared' = shared
  PROVE  /\ HistoryFolds' /\ WalkWasIssued' /\ WalkInOrder'
         /\ SharedIsMaterialized' /\ log' \subseteq issued'
<1>1. CASE CommitSolo(a) /\ a.id.lamport = clock
  <2>1. ~shared /\ log' = log
    BY <1>1 DEF CommitSolo
  <2>2. HistoryFolds' /\ WalkWasIssued' /\ WalkInOrder'
    BY <1>1, <2>1, CommitExtendsWalk
  <2>. QED
    BY <2>1, <2>2 DEF SharedIsMaterialized, IInv
<1>2. CASE CommitShared(a)
  <2>1. /\ shared /\ log' = log \cup {a} /\ history' = Materialized(log')
        /\ forgotten' = <<>> /\ redo' = <<>>
    BY <1>2 DEF CommitShared, Grow, IInv, SharedIsMaterialized
  <2>2. log' \subseteq issued'
    BY <2>1 DEF IInv
  <2>3. OneEach(log')
    BY <2>2, SomeOfOneEach
  <2>4. HistoryFolds' /\ WalkWasIssued' /\ WalkInOrder'
    BY <2>1, <2>2, <2>3, MaterializedWalk
  <2>. QED
    BY <2>1, <2>2, <2>4 DEF SharedIsMaterialized
<1>. QED
  BY <1>1, <1>2

LEMMA CommitPreserves ==
  ASSUME IInv, NEW target, NEW kind, CommitAs(target, kind),
         kind \in Kind \/ shared,
         [id |-> NextId, target |-> target, kind |-> kind] \in Action
  PROVE  IInv'
<1>. DEFINE a == [id |-> NextId, target |-> target, kind |-> kind]
<1>1. /\ a \in Action /\ a.id.lamport = clock /\ a.id.actor = author /\ a.kind = kind
      /\ author \in {Solo, Me, Peer} /\ clock \in Nat
  BY DEF NextId, IInv, Typed
<1>2. /\ CommitSolo(a) \/ CommitShared(a)
      /\ clock' = clock + 1 /\ issued' = issued \cup {a}
      /\ UNCHANGED <<shared, author, file, resets>>
  BY DEF CommitAs
<1>. HIDE DEF a
<1>3. \A b \in issued : b.id.lamport # a.id.lamport
  BY <1>1 DEF IInv, ClockIsPast, Typed, OneEach, Action, ActionId
<1>4. OneEach(issued \cup {a}) /\ a \notin issued
  BY <1>1, <1>3, OneMore DEF IInv, Typed
<1>5. ClockIsPast'
  <2>1. \A b \in issued : b.id.lamport \in Nat
    BY ActionFields DEF IInv, Typed, OneEach
  <2>. QED
    BY <1>1, <1>2, <2>1 DEF IInv, ClockIsPast
<1>6. Typed' /\ FilesOpenAsSaved'
  BY <1>1, <1>2, <1>4 DEF IInv, Typed, FilesOpenAsSaved
<1>7. /\ HistoryFolds' /\ WalkWasIssued' /\ WalkInOrder'
      /\ SharedIsMaterialized' /\ log' \subseteq issued'
  BY <1>1, <1>2, <1>4, TakingKeepsWalk
<1>. QED
  BY <1>5, <1>6, <1>7 DEF IInv

LEMMA TargetsAreIds ==
  ASSUME IInv
  PROVE  {TargetsNow.undo, TargetsNow.redo} \subseteq ActionId \cup {NoId}
<1>1. \A a \in log : a.id \in ActionId
  BY ActionFields DEF IInv, Typed, OneEach
<1>. DEFINE gone == UndoneIds(log)
<1>2. UndoTarget(log, author, gone) \in ActionId \cup {NoId}
  <2>. DEFINE ids == {a.id : a \in {x \in Effective(log, gone) : x.id.actor = author}}
  <2>1. ids \subseteq ActionId
    BY <1>1 DEF Effective
  <2>2. UndoTarget(log, author, gone) = Latest(ids)
    BY DEF UndoTarget
  <2>. HIDE DEF ids
  <2>. QED
    BY <2>1, <2>2, LatestIsMember
<1>3. RedoTarget(log, author, gone) \in ActionId \cup {NoId}
  <2>. DEFINE latest == UndoTarget(log, author, gone)
              ids == {a.id : a \in {x \in Undos(log) :
                        /\ x.id.actor = author
                        /\ x.id \notin gone
                        /\ latest = NoId \/ IdLess(latest, x.id)
                        /\ x.target \in gone
                        /\ \E t \in log : t.id = x.target /\ Ordinary(t)}}
  <2>1. ids \subseteq ActionId
    BY <1>1 DEF Undos
  <2>2. RedoTarget(log, author, gone) = Latest(ids)
    BY DEF RedoTarget
  <2>. HIDE DEF ids
  <2>. QED
    BY <2>1, <2>2, LatestIsMember
<1>. QED
  BY <1>2, <1>3 DEF TargetsNow, Targets

LEMMA CommitsPreserve ==
  ASSUME IInv, (\E k \in Kind : Commit(k)) \/ LogStep(TargetsNow.undo) \/ LogStep(TargetsNow.redo)
  PROVE  IInv'
<1>0. NextId \in ActionId
  BY LifecycleAssumption DEF IInv, Typed, NextId, ActionId
<1>1. ASSUME NEW k \in Kind, Commit(k) PROVE IInv'
  <2>1. [id |-> NextId, target |-> NoId, kind |-> k] \in Action
    BY <1>0 DEF Action
  <2>. QED
    BY <1>1, <2>1, CommitPreserves DEF Commit
<1>2. ASSUME NEW t \in {TargetsNow.undo, TargetsNow.redo}, LogStep(t) PROVE IInv'
  <2>1. t \in ActionId /\ shared /\ CommitAs(t, UndoKind)
    BY <1>2, TargetsAreIds DEF LogStep
  <2>2. [id |-> NextId, target |-> t, kind |-> UndoKind] \in Action
    BY <1>0, <2>1 DEF Action
  <2>. QED
    BY <2>1, <2>2, CommitPreserves
<1>. QED
  BY <1>1, <1>2

\* merge_remote.
LEMMA RemotePreserves ==
  ASSUME IInv, NEW lamport \in Nat, NEW target, NEW kind, Remote(lamport, target, kind),
         [id |-> [lamport |-> lamport, actor |-> Peer], target |-> target, kind |-> kind] \in Action
  PROVE  IInv'
<1>. DEFINE a == [id |-> [lamport |-> lamport, actor |-> Peer], target |-> target, kind |-> kind]
<1>1. a \in Action /\ a.id.lamport = lamport /\ a.id.actor = Peer
  OBVIOUS
<1>2. /\ shared /\ CommitShared(a)
      /\ \A b \in issued : b.id.actor = Peer => b.id.lamport < lamport
      /\ clock' = Max({clock, lamport + 1})
      /\ issued' = issued \cup {a}
      /\ UNCHANGED <<shared, author, file, resets>>
  BY DEF Remote, CommitShared, ClockMerged
<1>. HIDE DEF a
<1>3. \A b \in issued : b.id.lamport \in Nat
  BY ActionFields DEF IInv, Typed, OneEach
<1>4. OneEach(issued \cup {a}) /\ a \notin issued
  <2>1. \A b \in issued : (a.id.actor = Peer <=> b.id.actor = Peer) => b.id.lamport # a.id.lamport
    BY <1>1, <1>2, <1>3
  <2>. QED
    BY <1>1, <2>1, OneMore DEF IInv, Typed
<1>5. clock' \in Nat /\ clock' >= clock /\ clock' > lamport
  <2>1. clock \in Nat /\ lamport + 1 \in Nat
    BY DEF IInv, Typed
  <2>2. \E x \in {clock, lamport + 1} : \A y \in {clock, lamport + 1} : x >= y
    BY <2>1
  <2>3. /\ clock' \in {clock, lamport + 1}
        /\ \A y \in {clock, lamport + 1} : clock' >= y
    BY <1>2, <2>2 DEF Max
  <2>. QED
    BY <2>1, <2>3
<1>6. ClockIsPast'
  <2>1. clock \in Nat
    BY DEF IInv, Typed
  <2>. QED
    BY <1>1, <1>2, <1>3, <1>5, <2>1 DEF IInv, ClockIsPast
<1>7. Typed' /\ FilesOpenAsSaved'
  BY <1>2, <1>4, <1>5 DEF IInv, Typed, FilesOpenAsSaved
<1>8. /\ HistoryFolds' /\ WalkWasIssued' /\ WalkInOrder'
      /\ SharedIsMaterialized' /\ log' \subseteq issued'
  BY <1>2, <1>4, TakingKeepsWalk
<1>. QED
  BY <1>6, <1>7, <1>8 DEF IInv

-----------------------------------------------------------------------------
(* Sharing, leaving, saving and opening                                      *)

\* SOLO's actions keep their Lamport time and everything else on the way in.
LEMMA AuthoredIsAction ==
  ASSUME NEW a \in Action, a.id.actor \in {Solo, Me, Peer}
  PROVE  /\ Authored(a) \in Action
         /\ Authored(a).id.lamport = a.id.lamport
         /\ Authored(a).id.actor \in {Me, Peer}
         /\ Authored(a).id.actor = Peer <=> a.id.actor = Peer
<1>. DEFINE i == IF a.id.actor = Solo THEN [a.id EXCEPT !.actor = Me] ELSE a.id
<1>1. a.id \in ActionId /\ Me \in Actor /\ Solo # Me /\ Solo # Peer /\ Me # Peer
  BY ActionFields, LifecycleAssumption
<1>2. i \in ActionId /\ i.lamport = a.id.lamport /\ i.actor \in {Me, Peer}
      /\ (i.actor = Peer <=> a.id.actor = Peer)
  BY <1>1 DEF ActionId
<1>3. Authored(a) = [a EXCEPT !.id = i]
  BY DEF Authored
<1>. HIDE DEF i
<1>4. Authored(a) \in Action /\ Authored(a).id = i
  BY <1>2, <1>3 DEF Action
<1>. QED
  BY <1>2, <1>4

LEMMA AuthoredEach ==
  ASSUME NEW actions, OneEach(actions)
  PROVE  /\ OneEach({Authored(a) : a \in actions})
         /\ \A a, b \in actions : Authored(a) = Authored(b) => a = b
<1>. DEFINE all == {Authored(a) : a \in actions}
            f == [a \in actions |-> Authored(a)]
<1>1. \A a \in actions :
        /\ a \in Action /\ Authored(a) \in Action
        /\ Authored(a).id.lamport = a.id.lamport
        /\ Authored(a).id.actor \in {Solo, Me, Peer}
        /\ Authored(a).id.actor = Peer <=> a.id.actor = Peer
  BY AuthoredIsAction DEF OneEach
<1>2. IsFiniteSet(all)
  <2>1. f \in Surjection(actions, all)
    BY DEF Surjection
  <2>. HIDE DEF f, all
  <2>. QED
    BY <2>1, FS_Surjection DEF OneEach
<1>3. ASSUME NEW a \in actions, NEW b \in actions,
             Authored(a).id.lamport = Authored(b).id.lamport,
             Authored(a).id.actor = Peer <=> Authored(b).id.actor = Peer
      PROVE  a = b
  <2>1. a.id.lamport = b.id.lamport /\ (a.id.actor = Peer <=> b.id.actor = Peer)
    BY <1>1, <1>3
  <2>. QED
    BY <2>1 DEF OneEach
<1>4. OneEach(all)
  <2>1. all \in SUBSET Action /\ \A x \in all : x.id.actor \in {Solo, Me, Peer}
    BY <1>1
  <2>2. \A x, y \in all :
          x.id.lamport = y.id.lamport /\ (x.id.actor = Peer <=> y.id.actor = Peer) => x = y
    BY <1>3
  <2>. HIDE DEF all
  <2>. QED
    BY <1>2, <2>1, <2>2 DEF OneEach
<1>5. \A a, b \in actions : Authored(a) = Authored(b) => a = b
  BY <1>3
<1>. QED
  BY <1>4, <1>5

\* from_log rejects nothing when no two ids are one.
LEMMA NothingRejected ==
  ASSUME NEW all, OneEach(all)
  PROVE  {CHOOSE a \in all : a.id = i : i \in Ids(all)} = all
<1>1. \A a, b \in all : a.id = b.id => a = b
  BY OneEachIsLog DEF IsLog
<1>2. \A a \in all : (CHOOSE b \in all : b.id = a.id) = a
  BY <1>1
<1>. QED
  BY <1>2 DEF Ids

\* start_collaboration: what a share makes of the walk.
LEMMA ShareTakesAll ==
  ASSUME IInv, Share
  PROVE  /\ ~shared /\ shared' = TRUE
         /\ log' = {Authored(a) : a \in ToSet(Whole)} /\ OneEach(log')
         /\ history' = Materialized(log') /\ forgotten' = <<>> /\ redo' = <<>>
         /\ author' = Me /\ clock' = clock
         /\ issued' = {Authored(a) : a \in issued} /\ OneEach(issued')
         /\ Line(Whole) /\ Once(Whole) /\ ToSet(Whole) \subseteq issued
         /\ UNCHANGED <<file, resets>>
<1>. DEFINE all == {Authored(a) : a \in CloneActions}
            kept == {CHOOSE a \in all : a.id = i : i \in Ids(all)}
<1>1. /\ ~shared /\ shared' = TRUE
      /\ log' = kept /\ history' = Materialized(kept)
      /\ forgotten' = <<>> /\ redo' = <<>> /\ author' = Me
      /\ clock' = ClockShared(kept)
      /\ issued' = {Authored(a) : a \in issued} /\ UNCHANGED <<file, resets>>
  BY DEF Share
<1>2. CloneActions = ToSet(Whole)
  BY <1>1 DEF CloneActions
<1>3. Line(Whole) /\ Once(Whole) /\ ToSet(Whole) \subseteq issued
  BY WholeWasIssued
<1>4. OneEach(all) /\ OneEach(issued')
  <2>1. OneEach(issued) /\ OneEach(CloneActions)
    BY <1>2, <1>3, SomeOfOneEach DEF IInv, Typed
  <2>. QED
    BY <1>1, <2>1, AuthoredEach
<1>. HIDE DEF all
<1>5. kept = all
  BY <1>4, NothingRejected
<1>. HIDE DEF kept
<1>6. clock' = clock
  BY <1>1 DEF ClockShared
<1>. QED
  BY <1>1, <1>2, <1>3, <1>4, <1>5, <1>6 DEF all

LEMMA SharePreserves ==
  ASSUME IInv, Share
  PROVE  IInv'
<1>1. /\ shared' = TRUE
      /\ log' = {Authored(a) : a \in ToSet(Whole)} /\ OneEach(log')
      /\ history' = Materialized(log') /\ forgotten' = <<>> /\ redo' = <<>>
      /\ author' = Me /\ clock' = clock
      /\ issued' = {Authored(a) : a \in issued} /\ OneEach(issued')
      /\ ToSet(Whole) \subseteq issued
      /\ UNCHANGED <<file, resets>>
  BY ShareTakesAll
<1>2. Typed' /\ FilesOpenAsSaved'
  BY <1>1 DEF IInv, Typed, FilesOpenAsSaved
<1>3. ClockIsPast'
  <2>1. \A a \in issued : Authored(a).id.lamport = a.id.lamport
    BY AuthoredIsAction DEF IInv, Typed, OneEach
  <2>. QED
    BY <1>1, <2>1 DEF IInv, ClockIsPast
<1>4. log' \subseteq issued'
  BY <1>1
<1>5. SharedIsMaterialized'
  BY <1>1 DEF SharedIsMaterialized
<1>6. HistoryFolds' /\ WalkWasIssued' /\ WalkInOrder'
  BY <1>1, <1>4, MaterializedWalk
<1>. QED
  BY <1>2, <1>3, <1>4, <1>5, <1>6 DEF IInv

LEMMA LeavePreserves ==
  ASSUME IInv, Leave
  PROVE  IInv'
<1>1. /\ shared /\ shared' = FALSE /\ log' = {} /\ forgotten' = <<>> /\ redo' = <<>>
      /\ UNCHANGED <<history, author, clock, issued, file, resets>>
      /\ forgotten = <<>> /\ redo = <<>>
  BY DEF Leave, IInv, SharedIsMaterialized
<1>2. Typed' /\ ClockIsPast' /\ log' \subseteq issued' /\ SharedIsMaterialized'
  BY <1>1 DEF IInv, Typed, ClockIsPast, SharedIsMaterialized
<1>3. HistoryFolds' /\ WalkWasIssued' /\ WalkInOrder'
  BY <1>1 DEF IInv, HistoryFolds, WalkWasIssued, WalkInOrder, InOrder, Revived, Walk, Whole
<1>4. FilesOpenAsSaved'
  BY <1>1 DEF IInv, FilesOpenAsSaved
<1>. QED
  BY <1>2, <1>3, <1>4 DEF IInv

\* timeline.rs forget_oldest: the picture is the fold of the whole walk.
LEMMA PaintedWhole ==
  ASSUME IInv
  PROVE  /\ Current(history) = Last(Replay(Origin, Whole))
         /\ IsDocument(Current(history)) /\ Edits(Whole)
<1>. DEFINE base == Last(Replay(Origin, forgotten))
<1>1. Edits(forgotten) /\ Edits(history.acts) /\ IsHistory(base, history)
  BY PartsOfTheWalk DEF WalkParts, IInv
<1>. HIDE DEF base
<1>2. Current(history) = Last(Replay(base, history.acts))
  BY <1>1, HistoryEnds
<1>3. Last(Replay(Origin, forgotten \o history.acts)) = Last(Replay(base, history.acts))
  BY <1>1, ReplayGoesOn DEF base
<1>4. Edits(Whole)
  BY <1>1, EditsOfConcat DEF Whole
<1>5. IsDocument(Last(Replay(Origin, Whole)))
  <2>1. Len(Whole) \in Nat /\ Len(Whole) + 1 \in 1..Len(Whole) + 1
    BY <1>4 DEF Edits, Line
  <2>2. Origin = [c \in Cell |-> Origin[c]]
    BY DEF Origin
  <2>3. Last(Replay(Origin, Whole)) = Replay(Origin, Whole)[Len(Whole) + 1]
    BY <2>1, ReplayUnfolds DEF Last
  <2>. QED
    BY <2>1, <2>2, <2>3, SnapshotsAreDocuments DEF IsDocument
<1>. QED
  BY <1>2, <1>3, <1>4, <1>5 DEF Whole

\* save_bytes, load_document: sorting a settled walk by id leaves it as it is.
LEMMA SettledWalkOpens ==
  ASSUME IInv, ~Revived
  PROVE  Current(Materialized(ToSet(Whole))) = Current(history)
<1>1. Edits(Whole) /\ Current(history) = Last(Replay(Origin, Whole))
  BY PaintedWhole
<1>2. Once(Whole) /\ ToSet(Whole) \subseteq issued
  BY WholeWasIssued
<1>3. OneEach(ToSet(Whole))
  BY <1>2, SomeOfOneEach DEF IInv, Typed
<1>4. Materialized(ToSet(Whole)) = [acts |-> Whole, docs |-> Replay(Origin, Whole)]
  BY <1>1, <1>2, <1>3, WholeIsInOrder, OrderedIsMaterialized
<1>. QED
  BY <1>1, <1>4 DEF Current, Last

\* save_bytes: the log that makes the document on screen.
LEMMA SavePreserves ==
  ASSUME IInv, Save
  PROVE  IInv'
<1>1. /\ file' = [actions |-> CloneActions, shown |-> Current(history),
                  settled |-> shared \/ ~Revived]
      /\ UNCHANGED <<shared, log, history, forgotten, redo, author, clock, issued, resets>>
  BY DEF Save, Saved
<1>2. OneEach(CloneActions)
  <2>1. CloneActions \subseteq issued
    BY WholeWasIssued DEF CloneActions, IInv
  <2>. QED
    BY <2>1, SomeOfOneEach DEF IInv, Typed
<1>3. Typed' /\ ClockIsPast' /\ log' \subseteq issued' /\ SharedIsMaterialized'
  <2>1. IsDocument(Current(history)) /\ (shared \/ ~Revived) \in BOOLEAN
    BY PaintedWhole
  <2>2. IsFile(file')
    BY <1>1, <1>2, <2>1 DEF IsFile
  <2>. QED
    BY <1>1, <2>2 DEF IInv, Typed, ClockIsPast, SharedIsMaterialized
<1>4. HistoryFolds' /\ WalkWasIssued' /\ WalkInOrder'
  BY <1>1 DEF IInv, HistoryFolds, WalkWasIssued, WalkInOrder, InOrder, Revived, Walk, Whole
<1>5. FilesOpenAsSaved'
  <2>. SUFFICES ASSUME shared \/ ~Revived
                PROVE  Current(Materialized(CloneActions)) = Current(history)
    BY <1>1 DEF FilesOpenAsSaved
  <2>1. CASE shared
    BY <2>1 DEF IInv, SharedIsMaterialized, CloneActions
  <2>2. CASE ~shared
    BY <2>2, SettledWalkOpens DEF CloneActions
  <2>. QED
    BY <2>1, <2>2
<1>. QED
  BY <1>3, <1>4, <1>5 DEF IInv

\* resync_counters: past every action of the file.
LEMMA ClockPastAll ==
  ASSUME NEW actions, OneEach(actions)
  PROVE  ClockPast(actions) \in Nat /\ \A a \in actions : a.id.lamport < ClockPast(actions)
<1>1. CASE actions = {}
  BY <1>1 DEF ClockPast
<1>2. CASE actions # {}
  <2>. DEFINE ids == {a.id : a \in actions}
              times == {a.id.lamport : a \in actions}
  <2>1. ids \in SUBSET ActionId /\ ids # {}
    BY <1>2, ActionFields DEF OneEach
  <2>2. IsFiniteSet(ids)
    BY IdsFinite DEF OneEach
  <2>3. Latest(ids) \in ids /\ \A j \in ids : j = Latest(ids) \/ IdLess(j, Latest(ids))
    <3>. HIDE DEF ids
    <3>. QED
      BY <2>1, <2>2, LatestIsNewest
  <2>4. \A j \in ids : j.lamport \in Nat /\ j.lamport <= Latest(ids).lamport
    <3>1. \A j \in ids : j.lamport \in Nat
      BY <2>1 DEF ActionId
    <3>. HIDE DEF ids
    <3>. QED
      BY <2>3, <3>1 DEF IdLess
  <2>5. times = {j.lamport : j \in ids}
    OBVIOUS
  <2>. HIDE DEF ids, times
  <2>6. \E x \in times : \A y \in times : x >= y
    BY <2>3, <2>4, <2>5
  <2>7. Max(times) \in times /\ \A y \in times : Max(times) >= y
    BY <2>6 DEF Max
  <2>8. ClockPast(actions) = Max(times) + 1
    BY <1>2 DEF ClockPast, Newest, times
  <2>9. times \subseteq Nat /\ \A a \in actions : a.id.lamport \in times
    <3>1. times \subseteq Nat
      BY <2>4, <2>5
    <3>. QED
      BY <3>1 DEF times
  <2>10. Max(times) \in Nat /\ \A a \in actions : a.id.lamport \in Nat /\ a.id.lamport <= Max(times)
    BY ONLY <2>7, <2>9
  <2>. QED
    BY ONLY <2>8, <2>10
<1>. QED
  BY <1>1, <1>2

LEMMA LoadPreserves ==
  ASSUME IInv, Load
  PROVE  IInv'
<1>1. /\ shared' = FALSE /\ log' = {} /\ history' = Materialized(file.actions)
      /\ forgotten' = <<>> /\ redo' = <<>> /\ author' = Solo
      /\ clock' = ClockPast(file.actions) /\ issued' = file.actions /\ file' = file
      /\ resets' = resets + 1
  BY DEF Load, ClockLoaded
<1>2. OneEach(file.actions)
  BY DEF IInv, Typed, IsFile
<1>3. clock' \in Nat /\ ClockIsPast'
  BY <1>1, <1>2, ClockPastAll DEF ClockIsPast
<1>4. Typed' /\ log' \subseteq issued' /\ SharedIsMaterialized'
  <2>1. IsFile(file') /\ OneEach(issued') /\ resets' \in Nat
    BY <1>1, <1>2 DEF IInv, Typed
  <2>2. shared' \in BOOLEAN /\ author' \in {Solo, Me}
    BY <1>1
  <2>. QED
    BY <1>1, <1>3, <2>1, <2>2 DEF Typed, SharedIsMaterialized
<1>5. HistoryFolds' /\ WalkWasIssued' /\ WalkInOrder'
  BY <1>1, <1>2, MaterializedWalk
<1>6. FilesOpenAsSaved'
  BY <1>1 DEF IInv, FilesOpenAsSaved
<1>. QED
  BY <1>3, <1>4, <1>5, <1>6 DEF IInv

-----------------------------------------------------------------------------
(* The theorems                                                              *)

LEMMA InitEstablishes == Init => IInv
<1>. SUFFICES ASSUME Init PROVE IInv
  OBVIOUS
<1>1. /\ shared = FALSE /\ log = {} /\ history = NewHistory(Origin) /\ forgotten = <<>> /\ redo = <<>>
      /\ author = Solo /\ clock = 0 /\ resets = 0 /\ issued = {} /\ file = NoFile
  BY DEF Init
<1>2. OneEach({})
  BY FS_EmptySet DEF OneEach
<1>3. Typed /\ ClockIsPast /\ log \subseteq issued /\ SharedIsMaterialized
  <2>1. Origin = [c \in Cell |-> Origin[c]]
    BY DEF Origin
  <2>2. IsFile(NoFile)
    BY <1>2, <2>1 DEF IsFile, IsDocument, NoFile
  <2>. QED
    BY <1>1, <1>2, <2>2 DEF Typed, ClockIsPast, SharedIsMaterialized
<1>4. HistoryFolds
  BY <1>1, NewHistoryIsHistory, ReplayOfNone DEF HistoryFolds
<1>5. WalkWasIssued /\ WalkInOrder
  <2>. DEFINE none == <<>>
  <2>1. Line(none) /\ Len(none) = 0 /\ Reverse(none) = none /\ none \o none = none
    BY LineOfNone, ReverseOfNone, ConcatWithNone
  <2>2. Walk = none
    BY <1>1, <2>1, NewHistoryIsHistory DEF Walk, Whole
  <2>. HIDE DEF none
  <2>3. DOMAIN none = 1..0 /\ 1..0 = {}
    BY <2>1 DEF Line
  <2>. QED
    BY <2>1, <2>2, <2>3 DEF WalkWasIssued, WalkInOrder, InOrder, Once, ToSet
<1>6. FilesOpenAsSaved
  <2>1. Current(Materialized({})) = Origin
    <3>. DEFINE h == Materialized({})
    <3>1. IsHistory(Origin, h) /\ ToSet(h.acts) = {} /\ Line(h.acts)
      BY <1>2, MaterializedIsHistory DEF Edits
    <3>. HIDE DEF h
    <3>2. Len(h.acts) = 0
      <4>1. DOMAIN h.acts = 1..Len(h.acts) /\ Len(h.acts) \in Nat
        BY <3>1 DEF Line
      <4>2. Len(h.acts) # 0 => h.acts[1] \in ToSet(h.acts)
        BY <4>1 DEF ToSet
      <4>. QED
        BY <3>1, <4>2
    <3>3. Current(h) = Replay(Origin, h.acts)[Len(h.acts) + 1]
      BY <3>1, CurrentIsLast
    <3>4. Len(h.acts) \in Nat /\ Len(h.acts) + 1 = 1
      BY <3>2
    <3>5. Replay(Origin, h.acts)[1] = Origin
      BY <3>4, ReplayUnfolds
    <3>. QED
      BY <3>3, <3>4, <3>5 DEF h
  <2>. QED
    BY <1>1, <2>1 DEF FilesOpenAsSaved, NoFile
<1>. QED
  BY <1>1, <1>3, <1>4, <1>5, <1>6 DEF IInv

LEMMA StepPreserves ==
  ASSUME IInv, [Next]_vars
  PROVE  IInv'
<1>0. HistoryFolds
  BY DEF IInv
<1>1. CASE (\E k \in Kind : Commit(k)) \/ LogStep(TargetsNow.undo) \/ LogStep(TargetsNow.redo)
  BY <1>1, CommitsPreserve
<1>2. CASE UndoSolo
  BY <1>0, <1>2, UndoSoloNavigates, NavigationPreserves DEF UndoSolo, Moved
<1>3. CASE RedoSolo
  BY <1>0, <1>3, RedoSoloNavigates, NavigationPreserves DEF RedoSolo, Moved
<1>4. ASSUME NEW to \in 0..Len(history.acts) + Len(redo), Seek(to)
      PROVE  IInv'
  <2>1. ~shared
    BY <1>4 DEF Seek, Moved
  <2>. QED
    BY <1>0, <1>4, <2>1, SeekNavigates, NavigationPreserves
<1>5. CASE Share
  BY <1>5, SharePreserves
<1>6. CASE Leave
  BY <1>6, LeavePreserves
<1>7. ASSUME NEW l \in 0..MaxClock - 1, NEW k \in Kind, Remote(l, NoId, k)
      PROVE  IInv'
  <2>1. l \in Nat /\ [lamport |-> l, actor |-> Peer] \in ActionId
    BY LifecycleAssumption DEF ActionId
  <2>2. [id |-> [lamport |-> l, actor |-> Peer], target |-> NoId, kind |-> k] \in Action
    BY <2>1 DEF Action
  <2>. QED
    BY <1>7, <2>1, <2>2, RemotePreserves
<1>8. ASSUME NEW l \in 0..MaxClock - 1, NEW a \in log, Remote(l, a.id, UndoKind)
      PROVE  IInv'
  <2>1. l \in Nat /\ [lamport |-> l, actor |-> Peer] \in ActionId
    BY LifecycleAssumption DEF ActionId
  <2>2. a.id \in ActionId
    BY ActionFields DEF IInv, Typed, OneEach
  <2>3. [id |-> [lamport |-> l, actor |-> Peer], target |-> a.id, kind |-> UndoKind] \in Action
    BY <2>1, <2>2 DEF Action
  <2>. QED
    BY <1>8, <2>1, <2>3, RemotePreserves
<1>9. CASE Save
  BY <1>9, SavePreserves
<1>10. CASE Load
  BY <1>10, LoadPreserves
<1>11. CASE UNCHANGED vars
  BY <1>11 DEF vars, IInv, Typed, ClockIsPast, SharedIsMaterialized, HistoryFolds,
     WalkWasIssued, WalkInOrder, InOrder, Revived, Walk, Whole, FilesOpenAsSaved
<1>. QED
  BY <1>1, <1>2, <1>3, <1>4, <1>5, <1>6, <1>7, <1>8, <1>9, <1>10, <1>11 DEF Next

\* The inductive invariant: the clock is past everything this document was ever
\* given, own actions take a Lamport time each, the live history is folded onto
\* what the forgotten prefix made, and the walk is in the order of its ids as long
\* as nothing was revived.
THEOREM Invariance == Spec => []IInv
<1>1. IInv /\ [Next]_vars => IInv'
  BY StepPreserves
<1>. QED
  BY InitEstablishes, <1>1, PTL DEF Spec

\* engine.rs: every variable keeps its type: the logs and the file no two actions
\* under one id, the walk and what is withheld of it edits, the live history a
\* snapshot more than it has actions.
THEOREM TypeCorrect == Spec => []TypeOK
<1>1. IInv => TypeOK
  <2>. SUFFICES ASSUME IInv PROVE TypeOK
    OBVIOUS
  <2>1. Typed /\ OneEach(issued) /\ log \subseteq issued /\ WalkWasIssued
    BY DEF IInv, Typed
  <2>2. OneEach(log)
    BY <2>1, SomeOfOneEach
  <2>. DEFINE base == Last(Replay(Origin, forgotten))
              acts == history.acts
              docs == history.docs
  <2>3. /\ Edits(forgotten) /\ Edits(redo) /\ Edits(acts) /\ Line(forgotten)
        /\ Line(redo) /\ Line(acts) /\ IsHistory(base, history)
    BY PartsOfTheWalk DEF WalkParts, IInv
  <2>4. IsDocument(base)
    <3>1. Len(forgotten) \in Nat /\ Len(forgotten) + 1 \in 1..Len(forgotten) + 1
      BY <2>3 DEF Line
    <3>2. Origin = [c \in Cell |-> Origin[c]]
      BY DEF Origin
    <3>3. base = Replay(Origin, forgotten)[Len(forgotten) + 1]
      BY <3>1, ReplayUnfolds DEF Last
    <3>. QED
      BY <3>1, <3>2, <3>3, SnapshotsAreDocuments DEF IsDocument
  <2>. HIDE DEF base
  <2>5. /\ history = [acts |-> acts, docs |-> docs]
        /\ docs = Replay(base, acts) /\ Len(acts) \in Nat
    BY <2>3 DEF IsHistory, Line
  <2>6. Line(docs) /\ Len(docs) = Len(acts) + 1
    BY <2>5, ReplayUnfolds
  <2>7. \A i \in 1..Len(docs) : IsDocument(docs[i])
    BY <2>4, <2>5, <2>6, SnapshotsAreDocuments DEF IsDocument
  <2>8. \A s \in {forgotten, redo, acts} : s \in Seq(Action)
    BY <2>1, <2>3, WalkIsOfActions
  <2>. QED
    BY <2>1, <2>2, <2>3, <2>5, <2>6, <2>7, <2>8 DEF TypeOK
<1>. QED
  BY Invariance, <1>1, PTL

\* timeline.rs forget_oldest: giving up undo depth shortens the reach of undo and
\* never the painting.
THEOREM PaintingStaysWhole == Spec => []PaintingIsWhole
<1>1. IInv => PaintingIsWhole
  BY PaintedWhole DEF PaintingIsWhole
<1>. QED
  BY Invariance, <1>1, PTL

\* collab.rs enter_shared: an id names one action for as long as the document is
\* open, the actions a share or a leave has dropped included.
THEOREM OneActionPerId == Spec => []IdsNameOneAction
<1>1. IInv => IdsNameOneAction
  BY OneEachIsLog DEF IInv, Typed, IsLog, IdsNameOneAction
<1>. QED
  BY Invariance, <1>1, PTL

\* file.rs: a file opens as the document that was on screen, for the walk it was
\* saved from is in the order of its ids, unless an action was revived in a session
\* that has been left.
THEOREM FilesOpen == Spec => []FilesOpenAsSaved
<1>1. IInv => FilesOpenAsSaved
  BY DEF IInv
<1>. QED
  BY Invariance, <1>1, PTL

\* timeline.rs seek: undo, redo and scrubbing move the playhead over one walk and
\* never rearrange it.
THEOREM NavigationIsSafe == Spec => NavigationKeepsWalk
<1>1. IInv /\ [Next]_vars =>
        [~shared /\ ~shared' /\ clock' = clock /\ resets' = resets => Walk' = Walk]_vars
  <2>. SUFFICES ASSUME IInv, Next, ~shared, ~shared', clock' = clock, resets' = resets
                PROVE  Walk' = Walk
    OBVIOUS
  <2>0. HistoryFolds /\ clock \in Nat /\ resets \in Nat
    BY DEF IInv, Typed
  <2>1. ASSUME NEW target, NEW kind, CommitAs(target, kind) PROVE FALSE
    BY <2>0, <2>1 DEF CommitAs
  <2>2. ASSUME NEW l, NEW target, NEW kind, Remote(l, target, kind) PROVE FALSE
    BY <2>2 DEF Remote
  <2>3. CASE UndoSolo
    BY <2>0, <2>3, UndoSoloNavigates DEF Navigated
  <2>4. CASE RedoSolo
    BY <2>0, <2>4, RedoSoloNavigates DEF Navigated
  <2>5. ASSUME NEW to \in 0..Len(history.acts) + Len(redo), Seek(to) PROVE Walk' = Walk
    BY <2>0, <2>5, SeekNavigates DEF Navigated
  <2>6. CASE Save
    BY <2>6 DEF Save, Walk, Whole
  <2>7. ~Share /\ ~Leave
    BY DEF Share, Leave
  <2>8. ~Load
    BY <2>0 DEF Load
  <2>. QED
    BY <2>1, <2>2, <2>3, <2>4, <2>5, <2>6, <2>7, <2>8 DEF Next, Commit, LogStep
<1>. QED
  BY Invariance, <1>1, PTL DEF Spec, NavigationKeepsWalk

\* collab.rs start_collaboration: a share takes every action up to the playhead
\* into the log, the folded prefix included, and no two of them become one.
THEOREM SharingIsLossless == Spec => SharingLosesNothing
<1>1. IInv /\ [Next]_vars =>
        [shared' /\ ~shared => /\ log' = {Authored(a) : a \in ToSet(Whole)}
                               /\ Cardinality(log') = Len(Whole)]_vars
  <2>. SUFFICES ASSUME IInv, Next, shared', ~shared
                PROVE  /\ log' = {Authored(a) : a \in ToSet(Whole)}
                       /\ Cardinality(log') = Len(Whole)
    OBVIOUS
  <2>1. Share
    BY DEF Next, Commit, LogStep, CommitAs, UndoSolo, RedoSolo, Seek, Moved, Leave, Remote, Save, Load
  <2>2. /\ log' = {Authored(a) : a \in ToSet(Whole)}
        /\ Line(Whole) /\ Once(Whole) /\ ToSet(Whole) \subseteq issued
    BY <2>1, ShareTakesAll
  <2>. DEFINE n == Len(Whole)
              f == [i \in 1..n |-> Authored(Whole[i])]
  <2>3. n \in Nat /\ ToSet(Whole) = {Whole[i] : i \in 1..n}
    BY <2>2 DEF Line, ToSet
  <2>4. \A a, b \in issued : Authored(a) = Authored(b) => a = b
    BY AuthoredEach DEF IInv, Typed
  <2>5. \A i, j \in 1..n : Authored(Whole[i]) = Authored(Whole[j]) => i = j
    BY <2>2, <2>3, <2>4 DEF Once
  <2>6. f \in Bijection(1..n, log')
    BY <2>2, <2>3, <2>5 DEF Bijection, Injection, IsInjective, Surjection
  <2>. HIDE DEF f, n
  <2>7. IsFiniteSet(1..n) /\ Cardinality(1..n) = n
    BY <2>3, FS_Interval
  <2>8. Cardinality(log') = Cardinality(1..n)
    BY <2>6, <2>7, FS_Bijection DEF ExistsBijection
  <2>. QED
    BY <2>2, <2>7, <2>8 DEF n
<1>. QED
  BY Invariance, <1>1, PTL DEF Spec, SharingLosesNothing
=============================================================================
