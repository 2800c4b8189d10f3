-------------------------- MODULE LivePreviewProofs --------------------------
(* For any actors, tiles, brushes and curves, and any number of gestures and  *)
(* changes of the document: what is shown is the fold from scratch, the       *)
(* stroke a commit takes from the preview is the one a replay renders, and    *)
(* the draw list's key names the picture.                                     *)
EXTENDS LivePreview, WellFoundedInduction, FiniteSetTheorems, SequenceTheorems, TLAPS

-----------------------------------------------------------------------------
(* Numbers                                                                    *)

(* Any set of natural numbers has a least one.                                *)
LEMMA LeastNumber ==
  ASSUME NEW T \in SUBSET Nat, T # {}
  PROVE  \E n \in T : \A m \in T : n <= m
<1>. DEFINE R == {ss \in Nat \X Nat : ss[1] < ss[2]}
<1>1. IsWellFoundedOn(R, Nat)
  BY NatLessThanWellFounded DEF OpToRel
<1>. HIDE DEF R
<1>2. PICK n \in T : \A m \in T : ~ (<<m, n>> \in R)
  BY <1>1, WFMin
<1>3. ASSUME NEW m \in T
      PROVE  n <= m
  <2>1. m \in Nat /\ n \in Nat /\ <<m, n>> \notin R
    BY <1>2
  <2>2. ~ (m < n)
    BY <2>1 DEF R
  <2>. QED
    BY <2>1, <2>2
<1>. QED
  BY <1>3

(* A set that holds 0, and with each number the next, holds them all.         *)
LEMMA Induction ==
  ASSUME NEW S, 0 \in S, \A n \in Nat : n \in S => n + 1 \in S
  PROVE  Nat \subseteq S
<1>. SUFFICES ASSUME Nat \ S # {} PROVE FALSE
  OBVIOUS
<1>1. PICK n \in Nat \ S : \A m \in Nat \ S : n <= m
  BY LeastNumber
<1>2. n # 0 /\ n - 1 \in Nat /\ n - 1 \in S
  BY <1>1
<1>. QED
  BY <1>1, <1>2

(* A bounded set of natural numbers has a greatest.                           *)
LEMMA GreatestOfBounded ==
  ASSUME NEW S \in SUBSET Nat, S # {}, NEW bound \in Nat, \A x \in S : x <= bound
  PROVE  Max(S) \in S /\ \A x \in S : x <= Max(S)
<1>. DEFINE U == {n \in Nat : \A x \in S : x <= n}
<1>1. PICK n \in U : \A m \in U : n <= m
  <2>1. U \in SUBSET Nat /\ bound \in U
    OBVIOUS
  <2>. HIDE DEF U
  <2>. QED
    BY <2>1, LeastNumber
<1>2. n \in S
  <2>. SUFFICES ASSUME n \notin S PROVE FALSE
    OBVIOUS
  <2>1. n \in Nat /\ \A x \in S : x <= n /\ x # n /\ x \in Nat
    BY <1>1
  <2>2. \A x \in S : x < n
    BY <2>1
  <2>3. n - 1 \in Nat
    <3>1. PICK x \in S : TRUE
      OBVIOUS
    <3>2. x \in Nat /\ x < n
      BY <2>2
    <3>. QED
      BY <2>1, <3>2
  <2>4. n - 1 \in U
    BY <2>2, <2>3, <2>1
  <2>. QED
    BY <1>1, <2>4, <2>1
<1>3. n \in Nat /\ \A x \in S : x <= n
  BY <1>1
<1>4. \E x \in S : \A y \in S : x >= y
  BY <1>2, <1>3
<1>5. Max(S) \in S /\ \A y \in S : Max(S) >= y
  BY <1>4 DEF Max
<1>. QED
  BY <1>5

(* So does a finite one.                                                      *)
LEMMA GreatestOfFinite ==
  ASSUME NEW S \in SUBSET Nat, IsFiniteSet(S), S # {}
  PROVE  Max(S) \in S /\ \A x \in S : x <= Max(S)
<1>. DEFINE T == {n \in Nat : \A f \in [1..n -> Nat] : \E b \in Nat : \A i \in 1..n : f[i] <= b}
<1>1. 0 \in T
  OBVIOUS
<1>2. ASSUME NEW n \in Nat, n \in T
      PROVE  n + 1 \in T
  <2>1. ASSUME NEW f \in [1..(n + 1) -> Nat]
        PROVE  \E b \in Nat : \A i \in 1..(n + 1) : f[i] <= b
    <3>1. [i \in 1..n |-> f[i]] \in [1..n -> Nat]
      OBVIOUS
    <3>2. PICK b \in Nat : \A i \in 1..n : [j \in 1..n |-> f[j]][i] <= b
      BY <1>2, <3>1
    <3>3. f[n + 1] \in Nat
      OBVIOUS
    <3>. DEFINE c == b + f[n + 1]
    <3>4. c \in Nat
      BY <3>3
    <3>5. ASSUME NEW i \in 1..(n + 1)
          PROVE  f[i] <= c
      <4>1. CASE i = n + 1
        BY <4>1, <3>3
      <4>2. CASE i # n + 1
        <5>1. i \in 1..n
          BY <4>2
        <5>2. f[i] \in Nat /\ f[i] <= b
          BY <5>1, <3>2
        <5>. QED
          BY <5>2, <3>3
      <4>. QED
        BY <4>1, <4>2
    <3>. QED
      BY <3>4, <3>5
  <2>2. n + 1 \in Nat
    OBVIOUS
  <2>. QED
    BY <2>1, <2>2, Zenon
<1>3. Nat \subseteq T
  <2>. HIDE DEF T
  <2>. QED
    BY <1>1, <1>2, Induction
<1>4. PICK n \in Nat : ExistsSurjection(1..n, S)
  BY FS_NatSurjection
<1>5. PICK f \in Surjection(1..n, S) : TRUE
  BY <1>4 DEF ExistsSurjection
<1>6. f \in [1..n -> S] /\ \A x \in S : \E i \in 1..n : f[i] = x
  BY <1>5 DEF Surjection
<1>7. f \in [1..n -> Nat]
  BY <1>6
<1>8. n \in T
  BY <1>3
<1>9. PICK b \in Nat : \A i \in 1..n : f[i] <= b
  BY <1>7, <1>8
<1>10. \A x \in S : x <= b
  BY <1>6, <1>9
<1>. QED
  BY <1>10, GreatestOfBounded

-----------------------------------------------------------------------------
(* Recursion on a number. A table of steps, each a function on D, has one     *)
(* run: a recursive definition whose steps stay in D is what it says it is.   *)
Run(at, n, start, step, D) ==
  /\ at \in [0..n -> D] /\ at[0] = start
  /\ \A i \in 0..(n - 1) : at[i + 1] = step[i][at[i]]

Steps(step, D) == \A i \in Nat : \A x \in D : step[i][x] \in D

Recurs(f, start, step, D) ==
  f \in [Nat -> D] /\ f[0] = start /\ \A i \in Nat : f[i + 1] = step[i][f[i]]

LEMMA RunsExist ==
  ASSUME NEW D, NEW start \in D, NEW step, \A i \in Nat : \A x \in D : step[i][x] \in D,
         NEW n \in Nat
  PROVE  \E at : Run(at, n, start, step, D)
<1>. DEFINE S == {m \in Nat : \E at : Run(at, m, start, step, D)}
<1>1. 0 \in S
  <2>1. Run([i \in 0..0 |-> start], 0, start, step, D)
    BY DEF Run
  <2>. QED
    BY <2>1
<1>2. ASSUME NEW m \in Nat, m \in S
      PROVE  m + 1 \in S
  <2>1. PICK at : Run(at, m, start, step, D)
    BY <1>2
  <2>. DEFINE next == [i \in 0..(m + 1) |-> IF i = m + 1 THEN step[m][at[m]] ELSE at[i]]
  <2>2. at \in [0..m -> D] /\ at[0] = start /\ \A i \in 0..(m - 1) : at[i + 1] = step[i][at[i]]
    BY <2>1 DEF Run
  <2>3. step[m][at[m]] \in D
    BY <2>2
  <2>4. next \in [0..(m + 1) -> D]
    <3>1. \A i \in 0..(m + 1) : i = m + 1 \/ i \in 0..m
      OBVIOUS
    <3>2. \A i \in 0..(m + 1) : (IF i = m + 1 THEN step[m][at[m]] ELSE at[i]) \in D
      BY <2>2, <2>3, <3>1
    <3>. QED
      BY <3>2
  <2>5. next[0] = start
    BY <2>2
  <2>6. ASSUME NEW i \in 0..(m + 1 - 1)
        PROVE  next[i + 1] = step[i][next[i]]
    <3>1. i \in 0..(m + 1) /\ i + 1 \in 0..(m + 1) /\ i # m + 1 /\ next[i] = at[i]
      OBVIOUS
    <3>2. CASE i = m
      BY <3>1, <3>2
    <3>3. CASE i # m
      <4>1. i \in 0..(m - 1) /\ i + 1 # m + 1
        BY <3>3
      <4>2. next[i + 1] = at[i + 1]
        BY <4>1, <3>1
      <4>. QED
        BY <4>1, <4>2, <3>1, <2>2
    <3>. QED
      BY <3>2, <3>3
  <2>. HIDE DEF next
  <2>7. Run(next, m + 1, start, step, D)
    BY <2>4, <2>5, <2>6 DEF Run
  <2>. QED
    BY <2>7
<1>. QED
  <2>. HIDE DEF S
  <2>1. Nat \subseteq S
    BY <1>1, <1>2, Induction
  <2>. QED
    BY <2>1 DEF S

LEMMA RunsAgree ==
  ASSUME NEW D, NEW start, NEW step, NEW n \in Nat, NEW m \in Nat, NEW at, NEW bt,
         Run(at, n, start, step, D), Run(bt, m, start, step, D),
         NEW k \in Nat, k <= n, k <= m
  PROVE  at[k] = bt[k]
<1>. DEFINE S == {j \in Nat : j <= n /\ j <= m => at[j] = bt[j]}
<1>1. 0 \in S
  BY DEF Run
<1>2. ASSUME NEW j \in Nat, j \in S
      PROVE  j + 1 \in S
  <2>. SUFFICES ASSUME j + 1 <= n, j + 1 <= m
                PROVE  at[j + 1] = bt[j + 1]
    OBVIOUS
  <2>1. j <= n /\ j <= m /\ j \in 0..(n - 1) /\ j \in 0..(m - 1)
    OBVIOUS
  <2>2. at[j] = bt[j]
    BY <1>2, <2>1
  <2>. QED
    BY <2>1, <2>2 DEF Run
<1>. QED
  <2>. HIDE DEF S
  <2>1. Nat \subseteq S
    BY <1>1, <1>2, Induction
  <2>. QED
    BY <2>1 DEF S

LEMMA Recursion ==
  ASSUME NEW D, NEW start \in D, NEW step, Steps(step, D)
  PROVE  \E f : Recurs(f, start, step, D)
<1>. DEFINE at(n) == CHOOSE a : Run(a, n, start, step, D)
            f == [n \in Nat |-> at(n)[n]]
<1>1. \A n \in Nat : Run(at(n), n, start, step, D)
  BY RunsExist DEF Steps
<1>. HIDE DEF at
<1>2. ASSUME NEW n \in Nat
      PROVE  at(n)[n] \in D
  BY <1>1 DEF Run
<1>3. f \in [Nat -> D]
  BY <1>2
<1>4. f[0] = start
  <2>1. at(0)[0] = start
    BY <1>1 DEF Run
  <2>. QED
    BY <2>1
<1>5. ASSUME NEW i \in Nat
      PROVE  f[i + 1] = step[i][f[i]]
  <2>1. Run(at(i), i, start, step, D) /\ Run(at(i + 1), i + 1, start, step, D)
    BY <1>1
  <2>2. at(i + 1)[i] = at(i)[i]
    BY <2>1, RunsAgree
  <2>3. at(i + 1)[i + 1] = step[i][at(i + 1)[i]]
    BY <2>1 DEF Run
  <2>. QED
    BY <2>2, <2>3
<1>. QED
  BY <1>3, <1>4, <1>5 DEF Recurs

-----------------------------------------------------------------------------
(* Laying spans                                                               *)

Context == [tooth : {0, 1}, arrived : BOOLEAN]

Record == [path : Seq(Tile), brush : Brush]

LEMMA LaySpanKeeps ==
  ASSUME NEW ctx \in Context, NEW d \in Document, NEW actor \in Actor, NEW rec \in Record,
         NEW n \in Nat
  PROVE  LET e == LaySpan(ctx, d, actor, rec, n)
         IN  /\ e \in Document /\ e.mask = d.mask
             /\ \A t \in Tile : e.paint[t] = IF t = rec.path[n]
                                             THEN Append(d.paint[t], Mark(ctx, d, actor, rec, n))
                                             ELSE d.paint[t]
<1>. DEFINE mark == Mark(ctx, d, actor, rec, n)
            e == LaySpan(ctx, d, actor, rec, n)
<1>1. d = [paint |-> d.paint, mask |-> d.mask] /\ d.paint \in [Tile -> Seq(Marks)]
      /\ d.mask \in [Actor -> {0, 1}]
  BY DEF Document, Painting
<1>2. mark \in Marks
  BY <1>1 DEF Mark, Marks, Context, Record
<1>. HIDE DEF mark
<1>3. e = [paint |-> [d.paint EXCEPT ![rec.path[n]] = Append(@, mark)], mask |-> d.mask]
  <2>1. e = [d EXCEPT !.paint = [d.paint EXCEPT ![rec.path[n]] = Append(@, mark)]]
    BY Zenon DEF LaySpan, mark
  <2>. HIDE DEF e
  <2>. DEFINE painted == [d.paint EXCEPT ![rec.path[n]] = Append(@, mark)]
  <2>. HIDE DEF painted
  <2>2. e = [d EXCEPT !.paint = painted]
    BY <2>1 DEF painted
  <2>3. e = [paint |-> painted, mask |-> d.mask]
    BY <2>2, <1>1
  <2>. QED
    BY <2>3 DEF painted
<1>4. [d.paint EXCEPT ![rec.path[n]] = Append(@, mark)]
        = [t \in Tile |-> IF t = rec.path[n] THEN Append(d.paint[t], mark) ELSE d.paint[t]]
  BY <1>1
<1>5. \A t \in Tile : d.paint[t] \in Seq(Marks) /\ Append(d.paint[t], mark) \in Seq(Marks)
  BY <1>1, <1>2
<1>6. [t \in Tile |-> IF t = rec.path[n] THEN Append(d.paint[t], mark) ELSE d.paint[t]]
        \in [Tile -> Seq(Marks)]
  BY <1>5
<1>. HIDE DEF e
<1>7. e \in Document /\ e.mask = d.mask
  BY <1>1, <1>3, <1>4, <1>6 DEF Document, Painting
<1>8. e.paint = [t \in Tile |-> IF t = rec.path[n] THEN Append(d.paint[t], mark) ELSE d.paint[t]]
  BY <1>3, <1>4
<1>. QED
  BY <1>7, <1>8 DEF e, mark

(* render_range over the spans from one to another, one span at a time.       *)
LEMMA LaySpansUnfold ==
  ASSUME NEW ctx \in Context, NEW d \in Document, NEW actor \in Actor, NEW rec \in Record,
         NEW from \in Nat
  PROVE  \A to \in Nat :
           /\ LaySpans(ctx, d, actor, rec, from, to) \in Document
           /\ to <= from => LaySpans(ctx, d, actor, rec, from, to) = d
           /\ to >= from => LaySpans(ctx, d, actor, rec, from, to + 1)
                             = LaySpan(ctx, LaySpans(ctx, d, actor, rec, from, to), actor, rec, to + 1)
<1>. DEFINE Then(i, x) == IF i + 1 <= from THEN d ELSE LaySpan(ctx, x, actor, rec, i + 1)
            step == [i \in Nat |-> [x \in Document |-> Then(i, x)]]
<1>1. \A i \in Nat : \A x \in Document : LaySpan(ctx, x, actor, rec, i + 1) \in Document
  BY LaySpanKeeps
<1>2. \A i \in Nat : \A x \in Document : Then(i, x) \in Document
  BY <1>1
<1>. HIDE DEF Then
<1>3. \A i \in Nat : \A x \in Document : step[i][x] = Then(i, x)
  OBVIOUS
<1>. HIDE DEF step
<1>3a. Steps(step, Document)
  BY <1>2, <1>3 DEF Steps
<1>3b. PICK f : Recurs(f, d, step, Document)
  BY <1>3a, Recursion
<1>3c. f \in [Nat -> Document] /\ f[0] = d /\ \A i \in Nat : f[i + 1] = step[i][f[i]]
  BY <1>3b DEF Recurs
<1>3d. \A i \in Nat : f[i + 1] = Then(i, f[i])
  BY <1>3, <1>3c
<1>4. \A i \in Nat : f[i + 1] = IF i + 1 <= from THEN d ELSE LaySpan(ctx, f[i], actor, rec, i + 1)
  BY <1>3d DEF Then
<1>. DEFINE laid == CHOOSE g : g = [n \in Nat |-> IF n <= from THEN d
                                                  ELSE LaySpan(ctx, g[n - 1], actor, rec, n)]
<1>5. f = [n \in Nat |-> IF n <= from THEN d ELSE LaySpan(ctx, f[n - 1], actor, rec, n)]
  <2>1. ASSUME NEW n \in Nat
        PROVE  f[n] = IF n <= from THEN d ELSE LaySpan(ctx, f[n - 1], actor, rec, n)
    <3>1. CASE n = 0
      BY <3>1, <1>3c
    <3>2. CASE n # 0
      <4>1. n - 1 \in Nat /\ (n - 1) + 1 = n
        BY <3>2
      <4>. QED
        BY <4>1, <1>4
    <3>. QED
      BY <3>1, <3>2
  <2>. QED
    BY <2>1, <1>3c
<1>6. laid = [n \in Nat |-> IF n <= from THEN d ELSE LaySpan(ctx, laid[n - 1], actor, rec, n)]
  BY <1>5
<1>7. \A to \in Nat : LaySpans(ctx, d, actor, rec, from, to) = laid[to]
  BY DEF LaySpans
<1>. HIDE DEF laid
<1>8. \A n \in Nat : laid[n] = IF n <= from THEN d ELSE LaySpan(ctx, laid[n - 1], actor, rec, n)
  BY <1>6
<1>. DEFINE T == {n \in Nat : laid[n] \in Document}
<1>9. Nat \subseteq T
  <2>1. 0 \in T
    BY <1>8
  <2>2. ASSUME NEW n \in Nat, n \in T
        PROVE  n + 1 \in T
    <3>1. laid[n + 1] = IF n + 1 <= from THEN d ELSE LaySpan(ctx, laid[n], actor, rec, n + 1)
      BY <1>8
    <3>. QED
      BY <3>1, <2>2, <1>1
  <2>. HIDE DEF T
  <2>. QED
    BY <2>1, <2>2, Induction
<1>10. ASSUME NEW to \in Nat, to >= from
       PROVE  laid[to + 1] = LaySpan(ctx, laid[to], actor, rec, to + 1)
  <2>1. to + 1 \in Nat /\ ~(to + 1 <= from) /\ (to + 1) - 1 = to
    BY <1>10
  <2>. QED
    BY <2>1, <1>8
<1>. QED
  BY <1>7, <1>8, <1>9, <1>10

(* No mask moves, and no tile the spans do not lie on.                        *)
LEMMA LayingKeeps ==
  ASSUME NEW ctx \in Context, NEW d \in Document, NEW actor \in Actor, NEW rec \in Record,
         NEW from \in Nat
  PROVE  \A to \in Nat :
           /\ LaySpans(ctx, d, actor, rec, from, to).mask = d.mask
           /\ \A t \in Tile \ Covered(rec, from, to) :
                LaySpans(ctx, d, actor, rec, from, to).paint[t] = d.paint[t]
<1>. DEFINE At(to) == LaySpans(ctx, d, actor, rec, from, to)
            S == {to \in Nat : /\ At(to).mask = d.mask
                               /\ \A t \in Tile \ Covered(rec, from, to) : At(to).paint[t] = d.paint[t]}
<1>. HIDE DEF At
<1>1. /\ \A to \in Nat : At(to) \in Document
      /\ \A to \in Nat : to <= from => At(to) = d
      /\ \A to \in Nat : to >= from => At(to + 1) = LaySpan(ctx, At(to), actor, rec, to + 1)
  BY LaySpansUnfold DEF At
<1>2. 0 \in S
  BY <1>1
<1>3. ASSUME NEW to \in Nat, to \in S
      PROVE  to + 1 \in S
  <2>1. CASE to + 1 <= from
    BY <2>1, <1>1
  <2>2. CASE to >= from
    <3>1. At(to + 1) = LaySpan(ctx, At(to), actor, rec, to + 1)
      BY <1>1, <2>2
    <3>2. /\ At(to + 1).mask = At(to).mask
          /\ \A t \in Tile : t # rec.path[to + 1] => At(to + 1).paint[t] = At(to).paint[t]
      BY <1>1, <3>1, LaySpanKeeps
    <3>3. rec.path[to + 1] \in Covered(rec, from, to + 1)
          /\ Covered(rec, from, to) \subseteq Covered(rec, from, to + 1)
      BY <2>2 DEF Covered
    <3>4. \A t \in Tile \ Covered(rec, from, to + 1) :
            t # rec.path[to + 1] /\ t \notin Covered(rec, from, to)
      BY <3>3
    <3>. QED
      BY <1>3, <3>2, <3>4
  <2>. QED
    BY <2>1, <2>2
<1>4. Nat \subseteq S
  <2>. HIDE DEF S
  <2>. QED
    BY <1>2, <1>3, Induction
<1>. QED
  BY <1>4 DEF At

(* What is laid on a tile is decided by what is on it and the author's mask.  *)
LEMMA LayingIsLocal ==
  ASSUME NEW ctx \in Context, NEW d \in Document, NEW e \in Document, NEW actor \in Actor,
         NEW rec \in Record, NEW from \in Nat, d.mask[actor] = e.mask[actor],
         NEW t \in Tile, d.paint[t] = e.paint[t]
  PROVE  \A to \in Nat : LaySpans(ctx, d, actor, rec, from, to).paint[t]
                           = LaySpans(ctx, e, actor, rec, from, to).paint[t]
<1>. DEFINE OnD(to) == LaySpans(ctx, d, actor, rec, from, to)
            OnE(to) == LaySpans(ctx, e, actor, rec, from, to)
            S == {to \in Nat : OnD(to).paint[t] = OnE(to).paint[t]}
<1>1. /\ \A to \in Nat : OnD(to) \in Document /\ OnD(to).mask = d.mask
      /\ \A to \in Nat : OnE(to) \in Document /\ OnE(to).mask = e.mask
  BY LaySpansUnfold, LayingKeeps
<1>2. /\ \A to \in Nat : to <= from => OnD(to) = d
      /\ \A to \in Nat : to <= from => OnE(to) = e
      /\ \A to \in Nat : to >= from => OnD(to + 1) = LaySpan(ctx, OnD(to), actor, rec, to + 1)
      /\ \A to \in Nat : to >= from => OnE(to + 1) = LaySpan(ctx, OnE(to), actor, rec, to + 1)
  BY LaySpansUnfold
<1>. HIDE DEF OnD, OnE
<1>3. 0 \in S
  BY <1>2
<1>4. ASSUME NEW to \in Nat, to \in S
      PROVE  to + 1 \in S
  <2>1. CASE to + 1 <= from
    BY <2>1, <1>2
  <2>2. CASE to >= from
    <3>1. Mark(ctx, OnD(to), actor, rec, to + 1) = Mark(ctx, OnE(to), actor, rec, to + 1)
      BY <1>1 DEF Mark
    <3>1d. OnD(to + 1) = LaySpan(ctx, OnD(to), actor, rec, to + 1) /\ OnD(to) \in Document
      BY <1>1, <1>2, <2>2
    <3>2. OnD(to + 1).paint[t] = IF t = rec.path[to + 1]
                                 THEN Append(OnD(to).paint[t], Mark(ctx, OnD(to), actor, rec, to + 1))
                                 ELSE OnD(to).paint[t]
      BY <3>1d, LaySpanKeeps
    <3>1e. OnE(to + 1) = LaySpan(ctx, OnE(to), actor, rec, to + 1) /\ OnE(to) \in Document
      BY <1>1, <1>2, <2>2
    <3>3. OnE(to + 1).paint[t] = IF t = rec.path[to + 1]
                                 THEN Append(OnE(to).paint[t], Mark(ctx, OnE(to), actor, rec, to + 1))
                                 ELSE OnE(to).paint[t]
      BY <3>1e, LaySpanKeeps
    <3>. QED
      BY <1>4, <3>1, <3>2, <3>3
  <2>. QED
    BY <2>1, <2>2
<1>5. Nat \subseteq S
  <2>. HIDE DEF S
  <2>. QED
    BY <1>3, <1>4, Induction
<1>. QED
  BY <1>5 DEF OnD, OnE

(* A stroke laid in two goes is the stroke laid in one.                       *)
LEMMA LayingGoesOn ==
  ASSUME NEW ctx \in Context, NEW d \in Document, NEW actor \in Actor, NEW rec \in Record,
         NEW from \in Nat, NEW mid \in Nat, from <= mid
  PROVE  \A to \in Nat : to >= mid =>
           LaySpans(ctx, LaySpans(ctx, d, actor, rec, from, mid), actor, rec, mid, to)
             = LaySpans(ctx, d, actor, rec, from, to)
<1>. DEFINE Once(to) == LaySpans(ctx, d, actor, rec, from, to)
            half == Once(mid)
            Twice(to) == LaySpans(ctx, half, actor, rec, mid, to)
            S == {to \in Nat : to >= mid => Twice(to) = Once(to)}
<1>1. \A to \in Nat : to >= from => Once(to + 1) = LaySpan(ctx, Once(to), actor, rec, to + 1)
  BY LaySpansUnfold
<1>2. half \in Document
  BY LaySpansUnfold
<1>. HIDE DEF half
<1>3. /\ Twice(mid) = half
      /\ \A to \in Nat : to >= mid => Twice(to + 1) = LaySpan(ctx, Twice(to), actor, rec, to + 1)
  BY <1>2, LaySpansUnfold
<1>4. half = Once(mid)
  BY DEF half
<1>. HIDE DEF Once, Twice
<1>5. 0 \in S
  BY <1>3, <1>4
<1>6. ASSUME NEW to \in Nat, to \in S
      PROVE  to + 1 \in S
  <2>1. CASE to + 1 < mid
    BY <2>1
  <2>2. CASE to + 1 = mid
    BY <2>2, <1>3, <1>4
  <2>3. CASE to >= mid
    <3>1. Twice(to) = Once(to) /\ to >= from
      BY <2>3, <1>6
    <3>. QED
      BY <3>1, <2>3, <1>1, <1>3
  <2>. QED
    BY <2>1, <2>2, <2>3
<1>7. Nat \subseteq S
  <2>. HIDE DEF S
  <2>. QED
    BY <1>5, <1>6, Induction
<1>. QED
  BY <1>7 DEF half, Once, Twice

(* Spans of two records that lie alike, both with the taper off or on, are    *)
(* laid alike on the same texture.                                            *)
LEMMA LayingAgrees ==
  ASSUME NEW ctx \in Context, NEW other \in Context, ctx.tooth = other.tooth,
         NEW d \in Document, NEW actor \in Actor, NEW rec \in Record, NEW copy \in Record,
         NEW from \in Nat, NEW bound \in Nat,
         \A n \in (from + 1)..bound :
            /\ rec.path[n] = copy.path[n]
            /\ n + Taper[rec.brush] > Spans(rec) <=> n + Taper[copy.brush] > Spans(copy)
  PROVE  \A to \in 0..bound : LaySpans(ctx, d, actor, rec, from, to)
                                = LaySpans(other, d, actor, copy, from, to)
<1>. DEFINE One(to) == LaySpans(ctx, d, actor, rec, from, to)
            Two(to) == LaySpans(other, d, actor, copy, from, to)
            S == {to \in Nat : to <= bound => One(to) = Two(to)}
<1>1. /\ \A to \in Nat : One(to) \in Document
      /\ \A to \in Nat : to <= from => One(to) = d
      /\ \A to \in Nat : to <= from => Two(to) = d
      /\ \A to \in Nat : to >= from => One(to + 1) = LaySpan(ctx, One(to), actor, rec, to + 1)
      /\ \A to \in Nat : to >= from => Two(to + 1) = LaySpan(other, Two(to), actor, copy, to + 1)
  BY LaySpansUnfold
<1>. HIDE DEF One, Two
<1>2. 0 \in S
  BY <1>1
<1>3. ASSUME NEW to \in Nat, to \in S
      PROVE  to + 1 \in S
  <2>1. CASE to + 1 <= from
    BY <2>1, <1>1
  <2>2. CASE to + 1 > bound
    BY <2>2
  <2>3. CASE to >= from /\ to + 1 <= bound
    <3>1. One(to) = Two(to)
      BY <2>3, <1>3
    <3>2. to + 1 \in (from + 1)..bound
      BY <2>3
    <3>3. rec.path[to + 1] = copy.path[to + 1]
      BY <3>2
    <3>4. (to + 1 + Taper[rec.brush] > Spans(rec)) = (to + 1 + Taper[copy.brush] > Spans(copy))
      BY <3>2
    <3>5. \A e : Mark(ctx, e, actor, rec, to + 1) = Mark(other, e, actor, copy, to + 1)
      BY <3>4 DEF Mark
    <3>6. LaySpan(ctx, One(to), actor, rec, to + 1) = LaySpan(other, One(to), actor, copy, to + 1)
      BY <3>3, <3>5 DEF LaySpan
    <3>. QED
      BY <3>1, <3>6, <2>3, <1>1
  <2>. QED
    BY <2>1, <2>2, <2>3
<1>4. Nat \subseteq S
  <2>. HIDE DEF S
  <2>. QED
    BY <1>2, <1>3, Induction
<1>. QED
  BY <1>4 DEF One, Two

-----------------------------------------------------------------------------
(* One stroke of the fold                                                     *)

LEMMA GestureFields ==
  ASSUME NEW actor \in Actor, NEW newest \in Nat, NEW g \in GestureOf(actor, newest), g # Idle
  PROVE  /\ Rec(g) \in Record /\ Rec(g).path = g.path /\ Rec(g).brush = g.brush
         /\ g.path \in Seq(Tile) /\ Len(g.path) \in Nat /\ Len(g.path) > 0 /\ Spans(Rec(g)) = Len(g.path)
         /\ g.frozen \in Nat /\ g.frozen < Len(g.path)
         /\ g.kind # "stroke" => g.frozen = 0
         /\ g.ordinal \in 1..newest /\ g.brush \in Brush
         /\ Taper[g.brush] \in Nat
         /\ g.path \in Curves[actor] /\ g.kind \in Kind \cup {"snapped", "hover"}
<1>1. /\ g \in [kind : Kind \cup {"snapped", "hover"}, path : Curves[actor], brush : Brush,
                ordinal : 1..newest, frozen : Nat]
      /\ g.frozen < Len(g.path) /\ (g.kind # "stroke" => g.frozen = 0)
  BY DEF GestureOf
<1>2. /\ g.kind \in Kind \cup {"snapped", "hover"} /\ g.path \in Curves[actor] /\ g.brush \in Brush
      /\ g.ordinal \in 1..newest /\ g.frozen \in Nat
  BY <1>1
<1>3. g.path \in Seq(Tile) /\ g.path # <<>>
  BY <1>2, CurvesAssumption
<1>4. Len(g.path) \in Nat /\ Len(g.path) > 0
  BY <1>3
<1>5. Taper[g.brush] \in Nat
  BY <1>2, BrushAssumption
<1>. QED
  BY <1>1, <1>2, <1>3, <1>4, <1>5 DEF Rec, Record, Spans

(* What a stroke claims holds the tiles it lies on.                           *)
LEMMA ReachCovers ==
  ASSUME NEW path \in Seq(Tile), Len(path) > 0
  PROVE  /\ Range(path) \subseteq Reach(path) /\ Range(path) \subseteq Tile
         /\ Reach(path) \subseteq Nat
<1>. DEFINE S == Range(path)
<1>1. path \in [1..Len(path) -> Tile] /\ DOMAIN path = 1..Len(path) /\ Len(path) \in Nat
  OBVIOUS
<1>2. S \subseteq Tile /\ S # {}
  BY <1>1 DEF Range
<1>3. Tile \subseteq Nat /\ Tiles \in Nat /\ \A t \in Tile : t <= Tiles
  BY TilesAssumption DEF Tile
<1>. HIDE DEF S
<1>4. S \in SUBSET Nat /\ \A t \in S : t <= Tiles
  BY <1>2, <1>3
<1>5. Max(S) \in S /\ \A x \in S : x <= Max(S)
  BY <1>2, <1>3, <1>4, GreatestOfBounded
<1>6. \E x \in S : \A y \in S : x <= y
  BY <1>2, <1>4, LeastNumber
<1>7. Min(S) \in S /\ \A y \in S : Min(S) <= y
  BY <1>6 DEF Min
<1>. DEFINE low == Min(S)
            high == Max(S)
<1>8. S \subseteq low..high /\ low..high \subseteq Nat
  <2>1. low \in Nat /\ high \in Nat /\ \A x \in S : x \in Nat /\ low <= x /\ x <= high
    BY <1>4, <1>5, <1>7
  <2>. HIDE DEF low, high
  <2>2. \A x \in S : x \in low..high
    BY <2>1
  <2>3. low..high \subseteq Nat
    BY <2>1
  <2>. QED
    BY <2>2, <2>3
<1>. QED
  BY <1>2, <1>8 DEF S, Reach

(* The spans of a record cover its curve.                                     *)
LEMMA CoveredWhole ==
  ASSUME NEW rec \in Record
  PROVE  /\ Covered(rec, 0, Spans(rec)) = Range(rec.path)
         /\ \A mid \in 0..Spans(rec) :
              /\ Covered(rec, 0, mid) \cup Covered(rec, mid, Spans(rec)) = Range(rec.path)
              /\ Covered(rec, mid, Spans(rec)) \subseteq Range(rec.path)
              /\ \A to \in mid..Spans(rec) :
                   Covered(rec, 0, mid) \cup Covered(rec, mid, to) = Covered(rec, 0, to)
<1>1. rec.path \in Seq(Tile) /\ Len(rec.path) \in Nat /\ DOMAIN rec.path = 1..Len(rec.path)
  BY DEF Record
<1>2. Covered(rec, 0, Spans(rec)) = Range(rec.path)
  BY <1>1 DEF Covered, Range, Spans
<1>3. ASSUME NEW mid \in 0..Spans(rec), NEW to \in mid..Spans(rec)
      PROVE  Covered(rec, 0, mid) \cup Covered(rec, mid, to) = Covered(rec, 0, to)
  <2>1. (0 + 1)..to = (0 + 1)..mid \cup (mid + 1)..to
    BY <1>1 DEF Spans
  <2>. QED
    BY <2>1 DEF Covered
<1>4. ASSUME NEW mid \in 0..Spans(rec)
      PROVE  Spans(rec) \in mid..Spans(rec)
  BY <1>1 DEF Spans
<1>. QED
  BY <1>2, <1>3, <1>4

(* A head that is the leading spans of the gesture, drawn over base, none of  *)
(* which the taper at the end can reach.                                      *)
HeadOn(ctx, head, base, actor, gesture) ==
  /\ head.spans <= gesture.frozen
  /\ head.spans > 0 => /\ head.spans + Taper[gesture.brush] <= Len(gesture.path)
                       /\ Resolves(ctx, Rec(gesture))
  /\ head.state = LaySpans(ctx, base, actor, Rec(gesture), 0, head.spans)
  /\ Covered(Rec(gesture), 0, head.spans) \subseteq head.dirty

LEMMA FreshHeadIsOn ==
  ASSUME NEW ctx \in Context, NEW base \in Document, NEW actor \in Actor, NEW newest \in Nat,
         NEW g \in GestureOf(actor, newest), g # Idle, NEW contested \in BOOLEAN
  PROVE  LET head == FreshHead(base, g, contested)
         IN  /\ head \in FrozenHead /\ HeadOn(ctx, head, base, actor, g)
             /\ head.gesture = g.ordinal /\ head.current /\ head.contested = contested
             /\ head.dirty = {} /\ head.state = base /\ head.spans = 0
<1>. DEFINE head == FreshHead(base, g, contested)
<1>1. /\ head \in FrozenHead /\ head.spans = 0 /\ head.state = base /\ head.dirty = {}
      /\ head.gesture = g.ordinal /\ head.current /\ head.contested = contested
  BY GestureFields DEF FreshHead, FrozenHead
<1>2. LaySpans(ctx, base, actor, Rec(g), 0, 0) = base
  BY GestureFields, LaySpansUnfold
<1>3. Covered(Rec(g), 0, 0) = {}
  BY DEF Covered
<1>4. 0 <= g.frozen
  BY GestureFields
<1>. HIDE DEF head
<1>5. HeadOn(ctx, head, base, actor, g)
  BY <1>1, <1>2, <1>3, <1>4 DEF HeadOn
<1>. QED
  BY <1>1, <1>5 DEF head

(* advance_head adds the spans settled since, and only those.                 *)
LEMMA AdvanceKeepsHead ==
  ASSUME NEW ctx \in Context, NEW base \in Document, NEW actor \in Actor, NEW newest \in Nat,
         NEW g \in GestureOf(actor, newest), g # Idle, ~Refuses(Rec(g)),
         NEW head \in FrozenHead, HeadOn(ctx, head, base, actor, g)
  PROVE  LET next == AdvanceHead(ctx, head, actor, Rec(g), SafeFrozen(Rec(g), g.frozen))
         IN  /\ next \in FrozenHead /\ HeadOn(ctx, next, base, actor, g)
             /\ next.gesture = head.gesture /\ next.current = head.current
             /\ next.contested = head.contested
             /\ head.dirty \subseteq next.dirty /\ next.dirty \subseteq head.dirty \cup Range(g.path)
             /\ ~Resolves(ctx, Rec(g)) => next = head
<1>. DEFINE rec == Rec(g)
            settled == SafeFrozen(rec, g.frozen)
            next == AdvanceHead(ctx, head, actor, rec, settled)
<1>1. /\ rec \in Record /\ rec.path = g.path /\ rec.brush = g.brush
      /\ g.path \in Seq(Tile) /\ Len(g.path) \in Nat /\ Spans(rec) = Len(g.path)
      /\ g.frozen \in Nat /\ Taper[g.brush] \in Nat /\ g.frozen < Len(g.path)
  BY GestureFields
<1>2. head.spans \in Nat /\ head.state \in Document /\ head.dirty \subseteq Tile
  BY DEF FrozenHead
<1>3. /\ settled \in Nat /\ settled <= g.frozen
      /\ settled > 0 => settled + Taper[g.brush] <= Len(g.path)
  <2>. DEFINE room == IF Spans(rec) > Taper[rec.brush] THEN Spans(rec) - Taper[rec.brush] ELSE 0
  <2>1. room \in Nat /\ (room > 0 => room + Taper[g.brush] <= Len(g.path))
    BY <1>1
  <2>. HIDE DEF room
  <2>2. \E x \in {g.frozen, room} : \A y \in {g.frozen, room} : x <= y
    BY <1>1, <2>1
  <2>3. Min({g.frozen, room}) \in {g.frozen, room}
        /\ \A y \in {g.frozen, room} : Min({g.frozen, room}) <= y
    BY <2>2 DEF Min
  <2>4. settled = Min({g.frozen, room})
    BY DEF SafeFrozen, room
  <2>. QED
    BY <1>1, <2>1, <2>3, <2>4
<1>. HIDE DEF settled
<1>4. CASE ~(settled > head.spans /\ Resolves(ctx, rec))
  <2>1. next = head
    BY <1>4 DEF AdvanceHead
  <2>. QED
    BY <2>1 DEF settled
<1>5. CASE settled > head.spans /\ Resolves(ctx, rec)
  <2>. DEFINE laid == RenderRange(ctx, head.state, actor, rec, head.spans, settled)
              more == head.dirty \cup Covered(rec, head.spans, settled)
  <2>1. laid = LaySpans(ctx, base, actor, rec, 0, settled)
    <3>1. laid = LaySpans(ctx, head.state, actor, rec, head.spans, settled)
      BY <1>5 DEF RenderRange
    <3>2. head.state = LaySpans(ctx, base, actor, rec, 0, head.spans)
      BY DEF HeadOn
    <3>. HIDE DEF rec, laid
    <3>. QED
      BY <3>1, <3>2, <1>1, <1>2, <1>3, <1>5, LayingGoesOn
  <2>2. laid \in Document
    <3>. HIDE DEF rec, laid
    <3>. QED
      BY <2>1, <1>1, <1>3, LaySpansUnfold
  <2>3. /\ Covered(rec, 0, settled) = Covered(rec, 0, head.spans) \cup Covered(rec, head.spans, settled)
        /\ Covered(rec, head.spans, settled) \subseteq Range(g.path)
        /\ Range(g.path) \subseteq Tile
    <3>1. head.spans \in 0..Spans(rec) /\ settled \in head.spans..Spans(rec)
      BY <1>1, <1>2, <1>3, <1>5
    <3>2. Covered(rec, 0, settled) = Covered(rec, 0, head.spans) \cup Covered(rec, head.spans, settled)
      BY <1>1, <3>1, CoveredWhole
    <3>3. Covered(rec, head.spans, settled) \subseteq Range(g.path)
      BY <1>1, <1>2, <1>3, <1>5, <3>1 DEF Covered, Range, Spans
    <3>4. Range(g.path) \subseteq Tile
      BY <1>1 DEF Range
    <3>. QED
      BY <3>2, <3>3, <3>4
  <2>. HIDE DEF laid, rec
  <2>4. next = [head EXCEPT !.spans = settled, !.state = laid, !.dirty = more]
    BY <1>5 DEF AdvanceHead, laid
  <2>5. more \subseteq Tile
    BY <1>2, <2>3
  <2>. HIDE DEF more, next
  <2>6. /\ next \in FrozenHead /\ next.spans = settled /\ next.state = laid /\ next.dirty = more
        /\ next.gesture = head.gesture /\ next.current = head.current
        /\ next.contested = head.contested
    BY <2>4, <2>2, <2>5, <1>3 DEF FrozenHead
  <2>7. Covered(rec, 0, head.spans) \subseteq head.dirty
    BY DEF HeadOn, rec
  <2>8. HeadOn(ctx, next, base, actor, g)
    <3>1. Covered(rec, 0, settled) \subseteq next.dirty
      BY <2>3, <2>6, <2>7 DEF more
    <3>. QED
      BY <2>1, <2>6, <3>1, <1>3, <1>5 DEF HeadOn, rec
  <2>. QED
    BY <2>3, <2>6, <2>8, <1>5 DEF rec, settled, next, more
<1>. QED
  BY <1>4, <1>5

(* A render leaves the masks and the tiles off the curve.                     *)
LEMMA RenderKeeps ==
  ASSUME NEW ctx \in Context, NEW d \in Document, NEW actor \in Actor, NEW rec \in Record
  PROVE  /\ Render(ctx, d, actor, rec) \in Document
         /\ Render(ctx, d, actor, rec).mask = d.mask
         /\ \A t \in Tile \ Range(rec.path) : Render(ctx, d, actor, rec).paint[t] = d.paint[t]
         /\ Refuses(rec) \/ ~Resolves(ctx, rec) => Render(ctx, d, actor, rec) = d
<1>1. CASE Refuses(rec) \/ ~Resolves(ctx, rec)
  BY <1>1 DEF Render, RenderRange
<1>2. CASE ~(Refuses(rec) \/ ~Resolves(ctx, rec))
  <2>1. Render(ctx, d, actor, rec) = LaySpans(ctx, d, actor, rec, 0, Spans(rec))
    BY <1>2 DEF Render, RenderRange
  <2>2. Spans(rec) \in Nat
    BY DEF Spans, Record
  <2>3. Covered(rec, 0, Spans(rec)) = Range(rec.path)
    BY CoveredWhole
  <2>. QED
    BY <1>2, <2>1, <2>2, <2>3, LayingKeeps, LaySpansUnfold
<1>. QED
  BY <1>1, <1>2

LEMMA RenderIsLocal ==
  ASSUME NEW ctx \in Context, NEW d \in Document, NEW e \in Document, NEW actor \in Actor,
         NEW rec \in Record, d.mask[actor] = e.mask[actor],
         NEW t \in Tile, d.paint[t] = e.paint[t]
  PROVE  Render(ctx, d, actor, rec).paint[t] = Render(ctx, e, actor, rec).paint[t]
<1>1. Spans(rec) \in Nat
  BY DEF Spans, Record
<1>2. LaySpans(ctx, d, actor, rec, 0, Spans(rec)).paint[t]
        = LaySpans(ctx, e, actor, rec, 0, Spans(rec)).paint[t]
  BY <1>1, LayingIsLocal
<1>. QED
  BY <1>2 DEF Render, RenderRange

(* render_live_stroke: from whichever head it starts, the state its tail      *)
(* leaves is the stroke rendered whole over the root.                         *)
LEMMA RenderLiveDraws ==
  ASSUME NEW ctx \in Context, NEW root \in Document, NEW actor \in Actor, NEW newest \in Nat,
         NEW g \in GestureOf(actor, newest), g # Idle, NEW contested \in BOOLEAN, NEW cached,
         cached # None => /\ cached \in FrozenHead /\ HeadOn(ctx, cached, root, actor, g)
                          /\ cached.gesture = g.ordinal /\ cached.current
                          /\ cached.contested = contested
  PROVE  LET live == RenderLive(ctx, root, actor, g, contested, cached)
             drawn == ~Refuses(Rec(g)) /\ Resolves(ctx, Rec(g))
         IN  /\ live.head \in FrozenHead /\ HeadOn(ctx, live.head, root, actor, g)
             /\ live.head.gesture = g.ordinal /\ live.head.contested = contested
             /\ live.state = Render(ctx, root, actor, Rec(g))
             /\ live.drawn <=> drawn
             /\ drawn => Range(g.path) \subseteq live.head.dirty
             /\ cached = None => live.head.dirty \subseteq Range(g.path)
<1>. DEFINE rec == Rec(g)
            fresh == FreshHead(root, g, contested)
            start == IF cached = None THEN fresh ELSE cached
            head == AdvanceHead(ctx, start, actor, rec, SafeFrozen(rec, g.frozen))
            more == head.dirty \cup Covered(rec, head.spans, Spans(rec))
            live == RenderLive(ctx, root, actor, g, contested, cached)
<1>1. /\ rec \in Record /\ rec.path = g.path /\ rec.brush = g.brush
      /\ g.path \in Seq(Tile) /\ Len(g.path) \in Nat /\ Spans(rec) = Len(g.path)
      /\ g.frozen \in Nat /\ g.frozen < Len(g.path) /\ Range(g.path) \subseteq Tile
  BY GestureFields, ReachCovers
<1>2. /\ fresh \in FrozenHead /\ HeadOn(ctx, fresh, root, actor, g)
      /\ fresh.gesture = g.ordinal /\ fresh.current /\ fresh.contested = contested
      /\ fresh.dirty = {} /\ fresh.state = root
  BY FreshHeadIsOn
<1>3. CASE Refuses(rec)
  <2>1. live = [head |-> fresh, state |-> root, drawn |-> FALSE]
    BY <1>3 DEF RenderLive
  <2>2. Render(ctx, root, actor, rec) = root
    BY <1>3 DEF Render, RenderRange
  <2>. HIDE DEF fresh, live
  <2>3. live.head = fresh /\ live.state = root /\ live.drawn = FALSE
    BY <2>1
  <2>. QED
    BY <1>2, <1>3, <2>2, <2>3 DEF rec, live
<1>4. CASE ~Refuses(rec)
  <2>. HIDE DEF fresh
  <2>1. /\ start \in FrozenHead /\ HeadOn(ctx, start, root, actor, g)
        /\ start.gesture = g.ordinal /\ start.contested = contested
        /\ cached = None => start.dirty = {}
    BY <1>2
  <2>. HIDE DEF start
  <2>2. /\ head \in FrozenHead /\ HeadOn(ctx, head, root, actor, g)
        /\ head.gesture = g.ordinal /\ head.contested = contested
        /\ cached = None => head.dirty \subseteq Range(g.path)
    BY <1>4, <2>1, AdvanceKeepsHead
  <2>3. live = [head |-> IF Resolves(ctx, rec) THEN [head EXCEPT !.dirty = more] ELSE head,
                state |-> RenderRange(ctx, head.state, actor, rec, head.spans, Spans(rec)),
                drawn |-> Resolves(ctx, rec)]
    BY <1>4 DEF RenderLive, start, fresh
  <2>. HIDE DEF head, live
  <2>4. /\ live.head = IF Resolves(ctx, rec) THEN [head EXCEPT !.dirty = more] ELSE head
        /\ live.state = RenderRange(ctx, head.state, actor, rec, head.spans, Spans(rec))
        /\ live.drawn = Resolves(ctx, rec)
    BY <2>3
  <2>5. head.spans \in 0..Spans(rec) /\ head.spans \in Nat /\ head.state \in Document
    BY <1>1, <2>2 DEF FrozenHead, HeadOn
  <2>6. head.state = LaySpans(ctx, root, actor, rec, 0, head.spans)
        /\ Covered(rec, 0, head.spans) \subseteq head.dirty
    BY <2>2 DEF HeadOn
  <2>7. Covered(rec, 0, head.spans) \cup Covered(rec, head.spans, Spans(rec)) = Range(g.path)
    BY <1>1, <2>5, CoveredWhole
  <2>8. CASE ~Resolves(ctx, rec)
    <3>1. head.spans = 0
      BY <2>2, <2>5, <2>8 DEF HeadOn
    <3>2. head.state = root
      BY <2>6, <3>1, <1>1, LaySpansUnfold
    <3>3. live.head = head /\ live.state = root /\ live.drawn = FALSE
      BY <2>4, <2>8, <3>2 DEF RenderRange
    <3>4. Render(ctx, root, actor, rec) = root
      BY <2>8 DEF Render, RenderRange
    <3>. QED
      BY <2>2, <2>8, <3>3, <3>4 DEF live, rec
  <2>9. CASE Resolves(ctx, rec)
    <3>. HIDE DEF rec
    <3>1. live.state = LaySpans(ctx, root, actor, rec, 0, Spans(rec))
      <4>1. live.state = LaySpans(ctx, head.state, actor, rec, head.spans, Spans(rec))
        BY <1>4, <2>4, <2>9 DEF RenderRange
      <4>. QED
        BY <4>1, <2>5, <2>6, <1>1, LayingGoesOn
    <3>2. Render(ctx, root, actor, rec) = LaySpans(ctx, root, actor, rec, 0, Spans(rec))
      BY <1>4, <2>9 DEF Render, RenderRange
    <3>3. live.head = [head EXCEPT !.dirty = more]
      BY <2>4, <2>9
    <3>4. more \subseteq Tile /\ Range(g.path) \subseteq more
          /\ (cached = None => more \subseteq Range(g.path))
          /\ Covered(rec, 0, head.spans) \subseteq more
      BY <1>1, <2>2, <2>6, <2>7 DEF FrozenHead
    <3>. HIDE DEF more
    <3>5. /\ live.head \in FrozenHead /\ live.head.dirty = more /\ live.head.spans = head.spans
          /\ live.head.state = head.state /\ live.head.gesture = head.gesture
          /\ live.head.contested = head.contested
      BY <2>2, <3>3, <3>4 DEF FrozenHead
    <3>6. HeadOn(ctx, live.head, root, actor, g)
      BY <2>2, <3>4, <3>5 DEF HeadOn, rec
    <3>7. live.drawn = TRUE
      BY <2>4, <2>9
    <3>. QED
      BY <1>4, <2>2, <2>9, <3>1, <3>2, <3>4, <3>5, <3>6, <3>7 DEF live, rec
  <2>. QED
    BY <2>8, <2>9
<1>. QED
  BY <1>3, <1>4

(* What the fold carries from one actor to the next.                          *)
Heads == UNION {[S -> FrozenHead] : S \in SUBSET Actor}

Accs == [out : Document, heads : Heads, claimed : SUBSET Nat, touched : BOOLEAN,
         prepared : PreparedStroke \cup {None}]

(* A head kept from an earlier fold, as the gesture now stands.               *)
HeadKept(ctx, head, base, actor, gesture, newest) ==
  /\ head.gesture <= newest
  /\ /\ head.current /\ ~head.contested
     /\ gesture # Idle /\ head.gesture = gesture.ordinal
     => HeadOn(ctx, head, base, actor, gesture)

(* What a fold is given.                                                      *)
Scene(ctx, p, base, gestures, newest) ==
  /\ ctx \in Context /\ base \in Document /\ newest \in [Actor -> Nat]
  /\ \A a \in Actor : gestures[a] \in GestureOf(a, newest[a])
  /\ p.heads \in Heads
  /\ \A a \in DOMAIN p.heads : HeadKept(ctx, p.heads[a], base, a, gestures[a], newest[a])

LEMMA HeadsAre ==
  ASSUME NEW heads
  PROVE  heads \in Heads <=> DOMAIN heads \subseteq Actor /\ heads \in [DOMAIN heads -> FrozenHead]
<1>1. ASSUME heads \in Heads
      PROVE  DOMAIN heads \subseteq Actor /\ heads \in [DOMAIN heads -> FrozenHead]
  <2>1. PICK S \in SUBSET Actor : heads \in [S -> FrozenHead]
    BY <1>1 DEF Heads
  <2>. QED
    BY <2>1
<1>2. ASSUME DOMAIN heads \subseteq Actor, heads \in [DOMAIN heads -> FrozenHead]
      PROVE  heads \in Heads
  BY <1>2, Zenon DEF Heads
<1>. QED
  BY <1>1, <1>2

LEMMA CachedIsOn ==
  ASSUME NEW ctx, NEW p, NEW base, NEW gestures, NEW newest, Scene(ctx, p, base, gestures, newest),
         NEW actor \in InFlight(gestures), NEW contested \in BOOLEAN,
         Cached(p.heads, actor, gestures[actor], contested) # None
  PROVE  LET cached == Cached(p.heads, actor, gestures[actor], contested)
         IN  /\ cached \in FrozenHead /\ HeadOn(ctx, cached, base, actor, gestures[actor])
             /\ cached.gesture = gestures[actor].ordinal /\ cached.current
             /\ cached.contested = contested /\ ~contested
<1>1. actor \in DOMAIN p.heads /\ Reusable(p.heads[actor], gestures[actor], contested)
      /\ Cached(p.heads, actor, gestures[actor], contested) = p.heads[actor]
  BY DEF Cached
<1>2. p.heads[actor] \in FrozenHead
  BY <1>1, HeadsAre DEF Scene
<1>3. gestures[actor] # Idle
  BY DEF InFlight
<1>4. HeadOn(ctx, p.heads[actor], base, actor, gestures[actor])
  BY <1>1, <1>3 DEF Scene, HeadKept, Reusable
<1>. QED
  BY <1>1, <1>2, <1>4 DEF Reusable, FrozenHead

(* A stroke of the fold: over the base where it touches no earlier one, over  *)
(* the picture so far where it does.                                          *)
StrokeLaid(ctx, p, base, actor, gesture, acc, next) ==
  LET contested == acc.claimed \cap Reach(gesture.path) # {}
      root == IF contested THEN acc.out ELSE base
      painted == Render(ctx, root, actor, Rec(gesture))
      head == next.heads[actor]
  IN  /\ next \in Accs
      /\ next.out.mask = acc.out.mask
      /\ next.claimed = acc.claimed \cup Reach(gesture.path) /\ next.touched
      /\ DOMAIN next.heads = DOMAIN acc.heads \cup {actor}
      /\ \A a \in DOMAIN acc.heads \ {actor} : next.heads[a] = acc.heads[a]
      /\ head \in FrozenHead /\ head.gesture = gesture.ordinal /\ head.contested = contested
      /\ HeadOn(ctx, head, root, actor, gesture)
      /\ ~Refuses(Rec(gesture)) /\ Resolves(ctx, Rec(gesture)) => Range(gesture.path) \subseteq head.dirty
      /\ contested => head.dirty \subseteq Range(gesture.path)
      /\ \A t \in Tile : next.out.paint[t] = IF ~acc.touched \/ t \in head.dirty THEN painted.paint[t]
                                             ELSE acc.out.paint[t]
      /\ \/ next.prepared = acc.prepared
         \/ /\ actor = Me /\ HeldDoc(p) = None /\ Resolves(ctx, Rec(gesture)) /\ root = base
            /\ next.prepared = [rec |-> Rec(gesture), base |-> base.paint, painted |-> painted.paint]

LEMMA OverlayDraws ==
  ASSUME NEW out \in Document, NEW touched \in BOOLEAN, NEW live, live.state \in Document
  PROVE  LET next == Overlay(out, touched, live)
         IN  /\ next \in Document /\ next.mask = out.mask
             /\ \A t \in Tile : next.paint[t] = IF ~touched \/ t \in live.head.dirty
                                                THEN live.state.paint[t] ELSE out.paint[t]
<1>. DEFINE drawn == IF touched
                     THEN [t \in Tile |-> IF t \in live.head.dirty THEN live.state.paint[t] ELSE out.paint[t]]
                     ELSE live.state.paint
            next == Overlay(out, touched, live)
<1>1. /\ out = [paint |-> out.paint, mask |-> out.mask] /\ out.paint \in [Tile -> Seq(Marks)]
      /\ out.mask \in [Actor -> {0, 1}] /\ live.state.paint \in [Tile -> Seq(Marks)]
  BY DEF Document, Painting
<1>2. drawn \in [Tile -> Seq(Marks)]
      /\ \A t \in Tile : drawn[t] = IF ~touched \/ t \in live.head.dirty
                                    THEN live.state.paint[t] ELSE out.paint[t]
  BY <1>1
<1>3. next = [out EXCEPT !.paint = drawn]
  <2>1. CASE touched
    BY <2>1, Zenon DEF Overlay
  <2>2. CASE ~touched
    BY <2>2, Zenon DEF Overlay
  <2>. QED
    BY <2>1, <2>2
<1>. HIDE DEF next, drawn
<1>4. next = [paint |-> drawn, mask |-> out.mask]
  BY <1>1, <1>3
<1>5. next \in Document /\ next.mask = out.mask /\ next.paint = drawn
  BY <1>1, <1>2, <1>4 DEF Document, Painting
<1>. QED
  BY <1>2, <1>5 DEF next

LEMMA StrokeFolds ==
  ASSUME NEW ctx, NEW p, NEW base, NEW gestures, NEW newest, Scene(ctx, p, base, gestures, newest),
         NEW actor \in InFlight(gestures), NEW acc \in Accs
  PROVE  StrokeLaid(ctx, p, base, actor, gestures[actor], acc,
                    FoldStroke(ctx, p, base, acc, actor, gestures[actor]))
<1>. DEFINE g == gestures[actor]
            reach == Reach(g.path)
            contested == acc.claimed \cap reach # {}
            root == IF contested THEN acc.out ELSE base
            cached == Cached(p.heads, actor, g, contested)
            live == RenderLive(ctx, root, actor, g, contested, cached)
            painted == Render(ctx, root, actor, Rec(g))
            stroke == [rec |-> Rec(g), base |-> base.paint, painted |-> live.state.paint]
            lands == live.drawn /\ actor = Me /\ ~contested /\ HeldDoc(p) = None
            next == FoldStroke(ctx, p, base, acc, actor, g)
<1>1. /\ actor \in Actor /\ g # Idle /\ newest[actor] \in Nat /\ g \in GestureOf(actor, newest[actor])
      /\ ctx \in Context /\ base \in Document
  BY DEF Scene, InFlight
<1>2. /\ acc.out \in Document /\ acc.heads \in Heads /\ acc.claimed \subseteq Nat
      /\ acc.touched \in BOOLEAN /\ acc.prepared \in PreparedStroke \cup {None}
  BY DEF Accs
<1>3. Rec(g) \in Record /\ g.path \in Seq(Tile) /\ Len(g.path) > 0
  BY <1>1, GestureFields
<1>4. reach \subseteq Nat /\ contested \in BOOLEAN
  BY <1>3, ReachCovers
<1>. HIDE DEF g, reach
<1>5. root \in Document /\ (~contested => root = base)
  BY <1>1, <1>2
<1>6. cached # None => /\ cached \in FrozenHead /\ HeadOn(ctx, cached, base, actor, g)
                       /\ cached.gesture = g.ordinal /\ cached.current
                       /\ cached.contested = contested /\ ~contested
  <2>. SUFFICES ASSUME cached # None 
                PROVE  /\ cached \in FrozenHead /\ HeadOn(ctx, cached, base, actor, g)
                       /\ cached.gesture = g.ordinal /\ cached.current
                       /\ cached.contested = contested /\ ~contested
    OBVIOUS
  <2>. HIDE DEF contested
  <2>1. Cached(p.heads, actor, gestures[actor], contested) # None
    BY DEF cached, g
  <2>. HIDE DEF cached
  <2>. QED
    BY <1>4, <2>1, CachedIsOn DEF g, cached
<1>. HIDE DEF contested, root, cached
<1>. DEFINE latest == newest[actor]
<1>6a. latest \in Nat /\ g \in GestureOf(actor, latest)
  BY <1>1
<1>. HIDE DEF latest
<1>7. /\ live.head \in FrozenHead /\ HeadOn(ctx, live.head, root, actor, g)
      /\ live.head.gesture = g.ordinal /\ live.head.contested = contested
      /\ live.state = painted
      /\ live.drawn <=> ~Refuses(Rec(g)) /\ Resolves(ctx, Rec(g))
      /\ ~Refuses(Rec(g)) /\ Resolves(ctx, Rec(g)) => Range(g.path) \subseteq live.head.dirty
      /\ cached = None => live.head.dirty \subseteq Range(g.path)
  BY <1>1, <1>4, <1>5, <1>6, <1>6a, RenderLiveDraws
<1>8. next = [out |-> Overlay(acc.out, acc.touched, live),
              heads |-> [a \in DOMAIN acc.heads \cup {actor} |->
                            IF a = actor THEN live.head ELSE acc.heads[a]],
              claimed |-> acc.claimed \cup reach, touched |-> TRUE,
              prepared |-> IF lands THEN stroke ELSE acc.prepared]
  BY DEF FoldStroke, g, reach, contested, root, cached
<1>9. painted \in Document
  BY <1>1, <1>3, <1>5, RenderKeeps
<1>. HIDE DEF live, painted, next
<1>. DEFINE out == Overlay(acc.out, acc.touched, live)
            heads == [a \in DOMAIN acc.heads \cup {actor} |-> IF a = actor THEN live.head ELSE acc.heads[a]]
            offer == IF lands THEN stroke ELSE acc.prepared
<1>10. /\ out \in Document /\ out.mask = acc.out.mask
       /\ \A t \in Tile : out.paint[t] = IF ~acc.touched \/ t \in live.head.dirty
                                         THEN painted.paint[t] ELSE acc.out.paint[t]
  BY <1>2, <1>7, <1>9, OverlayDraws
<1>11. heads \in Heads
  <2>1. DOMAIN acc.heads \subseteq Actor /\ \A a \in DOMAIN acc.heads : acc.heads[a] \in FrozenHead
    BY <1>2, HeadsAre
  <2>2. DOMAIN heads \subseteq Actor /\ heads \in [DOMAIN heads -> FrozenHead]
    BY <1>1, <1>7, <2>1
  <2>. HIDE DEF heads
  <2>. QED
    BY <2>2, HeadsAre
<1>12. stroke \in PreparedStroke
  BY <1>1, <1>3, <1>7, <1>9 DEF PreparedStroke, Document, Record
<1>13. offer \in PreparedStroke \cup {None}
       /\ \/ offer = acc.prepared
          \/ /\ actor = Me /\ HeldDoc(p) = None /\ Resolves(ctx, Rec(g)) /\ root = base
             /\ offer = [rec |-> Rec(g), base |-> base.paint, painted |-> painted.paint]
  BY <1>2, <1>5, <1>7, <1>12
<1>14. DOMAIN heads = DOMAIN acc.heads \cup {actor} /\ heads[actor] = live.head
       /\ \A a \in DOMAIN acc.heads \ {actor} : heads[a] = acc.heads[a]
  OBVIOUS
<1>15. contested => cached = None
  BY <1>6
<1>. HIDE DEF out, heads, offer
<1>16. /\ next.out = out /\ next.heads = heads /\ next.claimed = acc.claimed \cup reach /\ next.touched = TRUE
       /\ next.prepared = offer
       /\ next = [out |-> out, heads |-> heads, claimed |-> acc.claimed \cup reach, touched |-> TRUE,
                  prepared |-> offer]
  BY <1>8 DEF out, heads, offer
<1>17. next \in Accs
  BY <1>2, <1>4, <1>10, <1>11, <1>13, <1>16 DEF Accs
<1>. QED
  BY <1>7, <1>10, <1>13, <1>14, <1>15, <1>16, <1>17
  DEF StrokeLaid, g, reach, contested, root, painted, next

(* A fill lies on the tiles it claims, and a marquee moves its author's mask. *)
LEMMA FillLays ==
  ASSUME NEW d \in Document, NEW actor \in Actor, NEW path
  PROVE  LET next == FillOnto(d, actor, path)
             mark == [by |-> actor, span |-> 0, thin |-> FALSE, mask |-> d.mask[actor], tooth |-> 0]
         IN  /\ next \in Document /\ next.mask = d.mask
             /\ \A t \in Tile : next.paint[t] = IF t \in Reach(path) THEN Append(d.paint[t], mark)
                                                ELSE d.paint[t]
<1>. DEFINE mark == [by |-> actor, span |-> 0, thin |-> FALSE, mask |-> d.mask[actor], tooth |-> 0]
            filled == [t \in Tile |-> IF t \in Reach(path) THEN Append(d.paint[t], mark) ELSE d.paint[t]]
            next == FillOnto(d, actor, path)
<1>1. /\ d = [paint |-> d.paint, mask |-> d.mask] /\ d.paint \in [Tile -> Seq(Marks)]
      /\ d.mask \in [Actor -> {0, 1}]
  BY DEF Document, Painting
<1>2. mark \in Marks
  BY <1>1 DEF Marks
<1>3. next = [d EXCEPT !.paint = filled]
  BY Zenon DEF FillOnto
<1>. HIDE DEF mark
<1>4. filled \in [Tile -> Seq(Marks)]
      /\ \A t \in Tile : filled[t] = IF t \in Reach(path) THEN Append(d.paint[t], mark) ELSE d.paint[t]
  BY <1>1, <1>2
<1>. HIDE DEF filled, next
<1>5. next = [paint |-> filled, mask |-> d.mask]
  BY <1>1, <1>3
<1>6. next \in Document /\ next.mask = d.mask /\ next.paint = filled
  BY <1>1, <1>4, <1>5 DEF Document, Painting
<1>. QED
  BY <1>4, <1>6 DEF next, mark

LEMMA SelectMoves ==
  ASSUME NEW d \in Document, NEW actor \in Actor
  PROVE  LET next == SelectOnto(d, actor)
         IN  /\ next \in Document /\ next.paint = d.paint
             /\ \A a \in Actor : next.mask[a] = IF a = actor THEN 1 - d.mask[a] ELSE d.mask[a]
<1>. DEFINE moved == [d.mask EXCEPT ![actor] = 1 - @]
            next == SelectOnto(d, actor)
<1>1. /\ d = [paint |-> d.paint, mask |-> d.mask] /\ d.paint \in Painting
      /\ d.mask \in [Actor -> {0, 1}]
  BY DEF Document
<1>2. next = [d EXCEPT !.mask = moved]
  BY Zenon DEF SelectOnto
<1>3. moved \in [Actor -> {0, 1}]
      /\ \A a \in Actor : moved[a] = IF a = actor THEN 1 - d.mask[a] ELSE d.mask[a]
  BY <1>1
<1>. HIDE DEF moved, next
<1>4. next = [paint |-> d.paint, mask |-> moved]
  BY <1>1, <1>2
<1>5. next \in Document /\ next.paint = d.paint /\ next.mask = moved
  BY <1>1, <1>3, <1>4 DEF Document
<1>. QED
  BY <1>3, <1>5 DEF next

LEMMA LaidIsADocument ==
  ASSUME NEW ctx \in Context, NEW d \in Document, NEW actor \in Actor, NEW newest \in Nat,
         NEW g \in GestureOf(actor, newest), g # Idle
  PROVE  Laid(ctx, d, actor, g) \in Document
<1>1. Rec(g) \in Record
  BY GestureFields
<1>2. /\ SelectOnto(d, actor) \in Document /\ FillOnto(d, actor, g.path) \in Document
      /\ Render(ctx, d, actor, Rec(g)) \in Document
  BY <1>1, SelectMoves, FillLays, RenderKeeps
<1>. QED
  BY <1>2 DEF Laid

LEMMA GestureFolds ==
  ASSUME NEW ctx, NEW p, NEW base, NEW gestures, NEW newest, Scene(ctx, p, base, gestures, newest),
         NEW actor \in InFlight(gestures), NEW acc \in Accs
  PROVE  FoldGesture(ctx, p, base, acc, actor, gestures[actor]) \in Accs
<1>. DEFINE g == gestures[actor]
<1>1. /\ actor \in Actor /\ g # Idle /\ newest[actor] \in Nat /\ g \in GestureOf(actor, newest[actor])
  BY DEF Scene, InFlight
<1>2. g.path \in Seq(Tile) /\ Len(g.path) > 0
  BY <1>1, GestureFields
<1>3. Reach(g.path) \subseteq Nat
  BY <1>2, ReachCovers
<1>4. /\ acc = [out |-> acc.out, heads |-> acc.heads, claimed |-> acc.claimed,
                touched |-> acc.touched, prepared |-> acc.prepared]
      /\ acc.out \in Document /\ acc.heads \in Heads /\ acc.claimed \subseteq Nat
      /\ acc.touched \in BOOLEAN /\ acc.prepared \in PreparedStroke \cup {None}
  BY DEF Accs
<1>5. CASE g.kind = "marquee"
  <2>. DEFINE out == SelectOnto(acc.out, actor)
  <2>1. out \in Document
    BY <1>1, <1>4, SelectMoves
  <2>2. FoldGesture(ctx, p, base, acc, actor, g) = [acc EXCEPT !.out = out]
    BY <1>5, Zenon DEF FoldGesture
  <2>. HIDE DEF out
  <2>3. [acc EXCEPT !.out = out] \in Accs
    BY <1>4, <2>1 DEF Accs
  <2>. QED
    BY <2>2, <2>3
<1>6. CASE g.kind = "fill"
  <2>. DEFINE out == FillOnto(acc.out, actor, g.path)
              all == acc.claimed \cup Reach(g.path)
  <2>1. out \in Document /\ all \subseteq Nat
    BY <1>1, <1>3, <1>4, FillLays
  <2>2. FoldGesture(ctx, p, base, acc, actor, g) = [acc EXCEPT !.out = out, !.touched = TRUE, !.claimed = all]
    BY <1>6, Zenon DEF FoldGesture
  <2>. HIDE DEF out, all
  <2>3. [acc EXCEPT !.out = out, !.touched = TRUE, !.claimed = all] \in Accs
    BY <1>4, <2>1 DEF Accs
  <2>. QED
    BY <2>2, <2>3
<1>7. CASE g.kind \notin {"marquee", "fill"}
  <2>1. FoldGesture(ctx, p, base, acc, actor, g) = FoldStroke(ctx, p, base, acc, actor, g)
    BY <1>7 DEF FoldGesture
  <2>2. FoldStroke(ctx, p, base, acc, actor, g) \in Accs
    BY StrokeFolds DEF StrokeLaid
  <2>. QED
    BY <2>1, <2>2
<1>. QED
  BY <1>5, <1>6, <1>7

-----------------------------------------------------------------------------
(* The fold, one actor at a time                                              *)

NoFold(base) ==
  [out |-> base, heads |-> NoHeads, claimed |-> {}, touched |-> FALSE, prepared |-> None]

LEMMA FoldedUnfolds ==
  ASSUME NEW ctx, NEW p, NEW base, NEW gestures, NEW newest, Scene(ctx, p, base, gestures, newest)
  PROVE  /\ Folded(ctx, p, base, gestures, 0) = NoFold(base)
         /\ \A n \in Nat :
              /\ Folded(ctx, p, base, gestures, n) \in Accs
              /\ Folded(ctx, p, base, gestures, n + 1)
                   = IF n \in InFlight(gestures)
                     THEN FoldGesture(ctx, p, base, Folded(ctx, p, base, gestures, n), n, gestures[n])
                     ELSE Folded(ctx, p, base, gestures, n)
<1>. DEFINE start == NoFold(base)
            Then(i, x) == IF i \in InFlight(gestures) THEN FoldGesture(ctx, p, base, x, i, gestures[i]) ELSE x
            step == [i \in Nat |-> [x \in Accs |-> Then(i, x)]]
<1>1. start \in Accs
  <2>1. NoHeads \in Heads
    <3>1. DOMAIN NoHeads = {} /\ NoHeads \in [{} -> FrozenHead]
      BY DEF NoHeads
    <3>. QED
      BY <3>1, HeadsAre
  <2>2. base \in Document
    BY DEF Scene
  <2>. QED
    BY <2>1, <2>2 DEF NoFold, Accs
<1>2. \A i \in Nat : \A x \in Accs : Then(i, x) \in Accs
  BY GestureFolds
<1>. HIDE DEF Then
<1>3. \A i \in Nat : \A x \in Accs : step[i][x] = Then(i, x)
  OBVIOUS
<1>. HIDE DEF step, start
<1>4. Steps(step, Accs)
  BY <1>2, <1>3 DEF Steps
<1>5. PICK f : Recurs(f, start, step, Accs)
  BY <1>1, <1>4, Recursion
<1>6. f \in [Nat -> Accs] /\ f[0] = start /\ \A i \in Nat : f[i + 1] = Then(i, f[i])
  BY <1>3, <1>5 DEF Recurs
<1>. DEFINE Step(g, n) == IF n = 0 THEN NoFold(base)
                          ELSE IF n - 1 \in InFlight(gestures)
                          THEN FoldGesture(ctx, p, base, g[n - 1], n - 1, gestures[n - 1])
                          ELSE g[n - 1]
            folded == CHOOSE g : g = [n \in Nat |-> Step(g, n)]
<1>7. f = [n \in Nat |-> Step(f, n)]
  <2>1. ASSUME NEW n \in Nat
        PROVE  f[n] = Step(f, n)
    <3>1. CASE n = 0
      BY <3>1, <1>6 DEF start
    <3>2. CASE n # 0
      <4>1. n - 1 \in Nat /\ (n - 1) + 1 = n
        BY <3>2
      <4>2. f[n] = Then(n - 1, f[n - 1])
        BY <4>1, <1>6
      <4>. QED
        BY <3>2, <4>2 DEF Then
    <3>. QED
      BY <3>1, <3>2
  <2>. HIDE DEF Step
  <2>. QED
    BY <2>1, <1>6
<1>8. \A n \in Nat : Folded(ctx, p, base, gestures, n) = folded[n]
  BY DEF Folded, NoFold
<1>. HIDE DEF Step
<1>9. folded = [n \in Nat |-> Step(folded, n)]
  BY <1>7
<1>. HIDE DEF folded
<1>10. \A n \in Nat : folded[n] = Step(folded, n)
  BY <1>9
<1>11. folded[0] = start /\ \A n \in Nat : folded[n + 1] = Then(n, folded[n])
  <2>1. folded[0] = start
    BY <1>10 DEF Step, start
  <2>2. ASSUME NEW n \in Nat
        PROVE  folded[n + 1] = Then(n, folded[n])
    <3>1. n + 1 \in Nat /\ n + 1 # 0 /\ (n + 1) - 1 = n
      OBVIOUS
    <3>2. folded[n + 1] = Step(folded, n + 1)
      BY <1>10, <3>1
    <3>. QED
      BY <3>1, <3>2 DEF Step, Then
  <2>. QED
    BY <2>1, <2>2
<1>. DEFINE S == {n \in Nat : folded[n] \in Accs}
<1>12. 0 \in S /\ \A n \in Nat : n \in S => n + 1 \in S
  BY <1>1, <1>2, <1>11
<1>. HIDE DEF S
<1>13. Nat \subseteq S
  BY <1>12, Induction
<1>. QED
  BY <1>8, <1>11, <1>13 DEF S, start, Then

LEMMA FromScratchUnfolds ==
  ASSUME NEW ctx \in Context, NEW base \in Document, NEW gestures, NEW newest \in [Actor -> Nat],
         \A a \in Actor : gestures[a] \in GestureOf(a, newest[a])
  PROVE  /\ FromScratch(ctx, base, gestures, 0) = base
         /\ \A n \in Nat :
              /\ FromScratch(ctx, base, gestures, n) \in Document
              /\ FromScratch(ctx, base, gestures, n + 1)
                   = IF n \in InFlight(gestures)
                     THEN Laid(ctx, FromScratch(ctx, base, gestures, n), n, gestures[n])
                     ELSE FromScratch(ctx, base, gestures, n)
<1>. DEFINE Then(i, x) == IF i \in InFlight(gestures) THEN Laid(ctx, x, i, gestures[i]) ELSE x
            step == [i \in Nat |-> [x \in Document |-> Then(i, x)]]
<1>2. \A i \in Nat : \A x \in Document : Then(i, x) \in Document
  <2>1. \A i \in InFlight(gestures) : i \in Actor /\ gestures[i] # Idle /\ newest[i] \in Nat
                                      /\ gestures[i] \in GestureOf(i, newest[i])
    BY DEF InFlight
  <2>. QED
    BY <2>1, LaidIsADocument
<1>. HIDE DEF Then
<1>3. \A i \in Nat : \A x \in Document : step[i][x] = Then(i, x)
  OBVIOUS
<1>. HIDE DEF step
<1>4. Steps(step, Document)
  BY <1>2, <1>3 DEF Steps
<1>5. PICK f : Recurs(f, base, step, Document)
  BY <1>4, Recursion
<1>6. f \in [Nat -> Document] /\ f[0] = base /\ \A i \in Nat : f[i + 1] = Then(i, f[i])
  BY <1>3, <1>5 DEF Recurs
<1>. DEFINE Step(g, n) == IF n = 0 THEN base
                          ELSE IF n - 1 \in InFlight(gestures) THEN Laid(ctx, g[n - 1], n - 1, gestures[n - 1])
                          ELSE g[n - 1]
            laid == CHOOSE g : g = [n \in Nat |-> Step(g, n)]
<1>7. f = [n \in Nat |-> Step(f, n)]
  <2>1. ASSUME NEW n \in Nat
        PROVE  f[n] = Step(f, n)
    <3>1. CASE n = 0
      BY <3>1, <1>6
    <3>2. CASE n # 0
      <4>1. n - 1 \in Nat /\ (n - 1) + 1 = n
        BY <3>2
      <4>2. f[n] = Then(n - 1, f[n - 1])
        BY <4>1, <1>6
      <4>. QED
        BY <3>2, <4>2 DEF Then
    <3>. QED
      BY <3>1, <3>2
  <2>. HIDE DEF Step
  <2>. QED
    BY <2>1, <1>6
<1>8. \A n \in Nat : FromScratch(ctx, base, gestures, n) = laid[n]
  BY DEF FromScratch
<1>. HIDE DEF Step
<1>9. laid = [n \in Nat |-> Step(laid, n)]
  BY <1>7
<1>. HIDE DEF laid
<1>10. \A n \in Nat : laid[n] = Step(laid, n)
  BY <1>9
<1>11. laid[0] = base /\ \A n \in Nat : laid[n + 1] = Then(n, laid[n])
  <2>1. laid[0] = base
    BY <1>10 DEF Step
  <2>2. ASSUME NEW n \in Nat
        PROVE  laid[n + 1] = Then(n, laid[n])
    <3>1. n + 1 \in Nat /\ n + 1 # 0 /\ (n + 1) - 1 = n
      OBVIOUS
    <3>2. laid[n + 1] = Step(laid, n + 1)
      BY <1>10, <3>1
    <3>. QED
      BY <3>1, <3>2 DEF Step, Then
  <2>. QED
    BY <2>1, <2>2
<1>. DEFINE S == {n \in Nat : laid[n] \in Document}
<1>12. 0 \in S /\ \A n \in Nat : n \in S => n + 1 \in S
  BY <1>2, <1>11
<1>. HIDE DEF S
<1>13. Nat \subseteq S
  BY <1>12, Induction
<1>. QED
  BY <1>8, <1>11, <1>13 DEF S, Then

(* Tiles the kept heads still list though their curves have left them.        *)
LeftBy(heads, gestures) ==
  UNION {heads[a].dirty \ Range(gestures[a].path) : a \in DOMAIN heads \cap InFlight(gestures)}

(* A stroke prepared for its commit is the render of its record over base.    *)
PreparedOn(ctx, base, prepared) ==
  /\ Resolves(ctx, prepared.rec) /\ prepared.base = base.paint
  /\ prepared.painted = Render(ctx, base, Me, prepared.rec).paint

HeadsOn(ctx, base, gestures, heads) ==
  /\ DOMAIN heads \subseteq InFlight(gestures)
  /\ \A a \in DOMAIN heads :
       /\ heads[a].gesture = gestures[a].ordinal
       /\ ~heads[a].contested => HeadOn(ctx, heads[a], base, a, gestures[a])

(* The fold over the actors below n, beside the fold from scratch over them.  *)
Picture(base, gestures, n, acc, scratch) ==
  /\ acc.out.mask = scratch.mask
  /\ \A t \in Tile \ LeftBy(acc.heads, gestures) : acc.out.paint[t] = scratch.paint[t]
  /\ \A t \in Tile \ acc.claimed : scratch.paint[t] = base.paint[t]
  /\ \A a \in Actor : a >= n => scratch.mask[a] = base.mask[a]
  /\ ~acc.touched => acc.claimed = {}
  /\ \A a \in DOMAIN acc.heads : a < n

FoldOn(ctx, p, base, gestures, acc) ==
  /\ HeadsOn(ctx, base, gestures, acc.heads)
  /\ acc.prepared # None => HeldDoc(p) = None /\ PreparedOn(ctx, base, acc.prepared)

LEMMA StrokeAgrees ==
  ASSUME NEW ctx, NEW p, NEW base, NEW gestures, NEW newest, Scene(ctx, p, base, gestures, newest),
         NEW n \in InFlight(gestures), NEW acc \in Accs, NEW scratch \in Document, NEW next,
         Picture(base, gestures, n, acc, scratch),
         StrokeLaid(ctx, p, base, n, gestures[n], acc, next)
  PROVE  Picture(base, gestures, n + 1, next, Render(ctx, scratch, n, Rec(gestures[n])))
<1>. DEFINE g == gestures[n]
            rec == Rec(g)
            contested == acc.claimed \cap Reach(g.path) # {}
            root == IF contested THEN acc.out ELSE base
            painted == Render(ctx, root, n, rec)
            after == Render(ctx, scratch, n, rec)
            head == next.heads[n]
<1>1. /\ n \in Actor /\ n \in Nat /\ g # Idle /\ newest[n] \in Nat /\ g \in GestureOf(n, newest[n])
      /\ ctx \in Context /\ base \in Document
  BY ActorAssumption DEF Scene, InFlight
<1>2. /\ acc.out \in Document /\ acc.heads \in Heads /\ acc.touched \in BOOLEAN
      /\ DOMAIN acc.heads \subseteq Actor
  BY HeadsAre DEF Accs
<1>3. rec \in Record /\ rec.path = g.path /\ g.path \in Seq(Tile) /\ Len(g.path) > 0
  BY <1>1, GestureFields
<1>4. Range(g.path) \subseteq Reach(g.path)
  BY <1>3, ReachCovers
<1>5. /\ next.out.mask = acc.out.mask
      /\ next.claimed = acc.claimed \cup Reach(g.path) /\ next.touched
      /\ DOMAIN next.heads = DOMAIN acc.heads \cup {n}
      /\ \A a \in DOMAIN acc.heads \ {n} : next.heads[a] = acc.heads[a]
      /\ ~Refuses(rec) /\ Resolves(ctx, rec) => Range(g.path) \subseteq head.dirty
      /\ \A t \in Tile : next.out.paint[t] = IF ~acc.touched \/ t \in head.dirty THEN painted.paint[t]
                                             ELSE acc.out.paint[t]
  BY DEF StrokeLaid
<1>6. /\ acc.out.mask = scratch.mask
      /\ \A t \in Tile \ LeftBy(acc.heads, gestures) : acc.out.paint[t] = scratch.paint[t]
      /\ \A t \in Tile \ acc.claimed : scratch.paint[t] = base.paint[t]
      /\ \A a \in Actor : a >= n => scratch.mask[a] = base.mask[a]
      /\ ~acc.touched => acc.claimed = {}
      /\ \A a \in DOMAIN acc.heads : a < n
  BY DEF Picture
<1>. HIDE DEF g, rec
<1>7. /\ after \in Document /\ after.mask = scratch.mask
      /\ \A t \in Tile \ Range(g.path) : after.paint[t] = scratch.paint[t]
      /\ Refuses(rec) \/ ~Resolves(ctx, rec) => after = scratch
  BY <1>1, <1>3, RenderKeeps
<1>. HIDE DEF after
<1>8. n \notin DOMAIN acc.heads
  BY <1>1, <1>6
<1>9. LeftBy(acc.heads, gestures) \subseteq LeftBy(next.heads, gestures)
      /\ head.dirty \ Range(g.path) \subseteq LeftBy(next.heads, gestures)
  BY <1>5, <1>8 DEF LeftBy, g
<1>10. root \in Document
  BY <1>1, <1>2
<1>11. scratch.mask[n] = base.mask[n]
  BY <1>1, <1>6
<1>12. ASSUME NEW t \in Tile \ LeftBy(next.heads, gestures)
       PROVE  next.out.paint[t] = after.paint[t]
  <2>1. acc.out.paint[t] = scratch.paint[t] /\ (t \in head.dirty => t \in Range(g.path))
    BY <1>6, <1>9
  <2>2. CASE ~acc.touched \/ t \in head.dirty
    <3>1. root.mask[n] = scratch.mask[n] /\ root.paint[t] = scratch.paint[t]
      <4>1. CASE contested
        BY <4>1, <2>1, <1>6
      <4>2. CASE ~contested
        <5>1. t \notin acc.claimed
          BY <2>1, <2>2, <4>2, <1>4, <1>6
        <5>. QED
          BY <4>2, <5>1, <1>6, <1>11
      <4>. QED
        BY <4>1, <4>2
    <3>. HIDE DEF root
    <3>2. painted.paint[t] = after.paint[t]
      BY <1>1, <1>3, <1>10, <3>1, RenderIsLocal DEF after
    <3>. HIDE DEF painted
    <3>. QED
      BY <2>2, <3>2, <1>5
  <2>3. CASE acc.touched /\ t \notin head.dirty
    <3>1. next.out.paint[t] = scratch.paint[t]
      BY <2>1, <2>3, <1>5
    <3>2. after.paint[t] = scratch.paint[t]
      BY <2>3, <1>5, <1>7
    <3>. QED
      BY <3>1, <3>2
  <2>. QED
    BY <2>2, <2>3, <1>2
<1>13. ASSUME NEW t \in Tile \ next.claimed
       PROVE  after.paint[t] = base.paint[t]
  BY <1>4, <1>5, <1>6, <1>7
<1>14. ASSUME NEW a \in Actor, a >= n + 1
       PROVE  after.mask[a] = base.mask[a]
  <2>1. a >= n
    BY <1>1, <1>14, ActorAssumption
  <2>. QED
    BY <2>1, <1>6, <1>7
<1>15. ASSUME NEW a \in DOMAIN next.heads
       PROVE  a < n + 1
  <2>1. CASE a = n
    BY <1>1, <2>1
  <2>2. CASE a # n
    <3>1. a \in DOMAIN acc.heads
      BY <1>5, <2>2
    <3>2. a \in Nat /\ a < n
      BY <3>1, <1>2, <1>6, ActorAssumption
    <3>. QED
      BY <1>1, <3>2
  <2>. QED
    BY <2>1, <2>2
<1>16. next.out.mask = after.mask /\ next.touched
  BY <1>5, <1>6, <1>7
<1>. HIDE DEF painted, head, root, contested
<1>. QED
  BY <1>12, <1>13, <1>14, <1>15, <1>16 DEF Picture, after, rec, g

LEMMA StrokeOn ==
  ASSUME NEW ctx, NEW p, NEW base, NEW gestures, NEW newest, Scene(ctx, p, base, gestures, newest),
         NEW n \in InFlight(gestures), NEW acc \in Accs, NEW next,
         FoldOn(ctx, p, base, gestures, acc), \A a \in DOMAIN acc.heads : a < n,
         StrokeLaid(ctx, p, base, n, gestures[n], acc, next)
  PROVE  FoldOn(ctx, p, base, gestures, next)
<1>. DEFINE g == gestures[n]
            rec == Rec(g)
            contested == acc.claimed \cap Reach(g.path) # {}
            root == IF contested THEN acc.out ELSE base
            painted == Render(ctx, root, n, rec)
            head == next.heads[n]
<1>1. /\ DOMAIN next.heads = DOMAIN acc.heads \cup {n}
      /\ \A a \in DOMAIN acc.heads \ {n} : next.heads[a] = acc.heads[a]
      /\ head.gesture = g.ordinal /\ head.contested = contested
      /\ HeadOn(ctx, head, root, n, g)
      /\ \/ next.prepared = acc.prepared
         \/ /\ n = Me /\ HeldDoc(p) = None /\ Resolves(ctx, rec) /\ root = base
            /\ next.prepared = [rec |-> rec, base |-> base.paint, painted |-> painted.paint]
  BY DEF StrokeLaid
<1>2. /\ HeadsOn(ctx, base, gestures, acc.heads)
      /\ acc.prepared # None => HeldDoc(p) = None /\ PreparedOn(ctx, base, acc.prepared)
  BY DEF FoldOn
<1>3. n \notin DOMAIN acc.heads
  <2>1. n \in Nat
    BY ActorAssumption DEF InFlight
  <2>. QED
    BY <2>1
<1>4. HeadsOn(ctx, base, gestures, next.heads)
  <2>1. ~head.contested => HeadOn(ctx, head, base, n, g)
    BY <1>1
  <2>. HIDE DEF root, painted, contested
  <2>2. DOMAIN next.heads \subseteq InFlight(gestures)
    BY <1>1, <1>2 DEF HeadsOn
  <2>3. ASSUME NEW a \in DOMAIN next.heads
        PROVE  /\ next.heads[a].gesture = gestures[a].ordinal
               /\ ~next.heads[a].contested => HeadOn(ctx, next.heads[a], base, a, gestures[a])
    <3>1. CASE a = n
      BY <3>1, <1>1, <2>1
    <3>2. CASE a # n
      BY <3>2, <1>1, <1>2 DEF HeadsOn
    <3>. QED
      BY <3>1, <3>2
  <2>. QED
    BY <2>2, <2>3 DEF HeadsOn
<1>5. ASSUME next.prepared # None
      PROVE  HeldDoc(p) = None /\ PreparedOn(ctx, base, next.prepared)
  <2>1. CASE next.prepared = acc.prepared
    BY <1>2, <1>5, <2>1
  <2>2. CASE next.prepared # acc.prepared
    <3>1. /\ n = Me /\ HeldDoc(p) = None /\ Resolves(ctx, rec) /\ root = base
          /\ next.prepared = [rec |-> rec, base |-> base.paint, painted |-> painted.paint]
      BY <1>1, <2>2
    <3>. HIDE DEF rec, root
    <3>2. /\ next.prepared.rec = rec /\ next.prepared.base = base.paint
          /\ next.prepared.painted = Render(ctx, base, Me, rec).paint
      BY <3>1
    <3>. QED
      BY <3>1, <3>2 DEF PreparedOn
  <2>. QED
    BY <2>1, <2>2
<1>. QED
  BY <1>4, <1>5 DEF FoldOn

LEMMA FillAgrees ==
  ASSUME NEW ctx, NEW p, NEW base, NEW gestures, NEW newest, Scene(ctx, p, base, gestures, newest),
         NEW n \in InFlight(gestures), NEW acc \in Accs, NEW scratch \in Document,
         Picture(base, gestures, n, acc, scratch), FoldOn(ctx, p, base, gestures, acc),
         gestures[n].kind = "fill"
  PROVE  LET next == FoldGesture(ctx, p, base, acc, n, gestures[n])
         IN  /\ Picture(base, gestures, n + 1, next, FillOnto(scratch, n, gestures[n].path))
             /\ FoldOn(ctx, p, base, gestures, next)
<1>. DEFINE g == gestures[n]
            next == FoldGesture(ctx, p, base, acc, n, g)
            out == FillOnto(acc.out, n, g.path)
            after == FillOnto(scratch, n, g.path)
            mark(d) == [by |-> n, span |-> 0, thin |-> FALSE, mask |-> d.mask[n], tooth |-> 0]
            all == acc.claimed \cup Reach(g.path)
<1>1. n \in Actor /\ n \in Nat
  BY ActorAssumption DEF InFlight
<1>2. /\ acc = [out |-> acc.out, heads |-> acc.heads, claimed |-> acc.claimed,
                touched |-> acc.touched, prepared |-> acc.prepared]
      /\ acc.out \in Document /\ DOMAIN acc.heads \subseteq Nat
  BY HeadsAre, ActorAssumption DEF Accs
<1>3. next = [acc EXCEPT !.out = out, !.touched = TRUE, !.claimed = all]
  BY Zenon DEF FoldGesture
<1>4. /\ out.mask = acc.out.mask
      /\ \A t \in Tile : out.paint[t] = IF t \in Reach(g.path) THEN Append(acc.out.paint[t], mark(acc.out))
                                        ELSE acc.out.paint[t]
  BY <1>1, <1>2, FillLays
<1>5. /\ after.mask = scratch.mask
      /\ \A t \in Tile : after.paint[t] = IF t \in Reach(g.path) THEN Append(scratch.paint[t], mark(scratch))
                                          ELSE scratch.paint[t]
  BY <1>1, FillLays
<1>. HIDE DEF out, after, next, all, g
<1>6. next.out = out /\ next.heads = acc.heads /\ next.claimed = all /\ next.touched = TRUE
      /\ next.prepared = acc.prepared
  BY <1>2, <1>3
<1>7. /\ acc.out.mask = scratch.mask
      /\ \A t \in Tile \ LeftBy(acc.heads, gestures) : acc.out.paint[t] = scratch.paint[t]
      /\ \A t \in Tile \ acc.claimed : scratch.paint[t] = base.paint[t]
      /\ \A a \in Actor : a >= n => scratch.mask[a] = base.mask[a]
      /\ \A a \in DOMAIN acc.heads : a < n
  BY DEF Picture
<1>8. mark(acc.out) = mark(scratch)
  BY <1>7
<1>. HIDE DEF mark
<1>9. \A t \in Tile \ LeftBy(next.heads, gestures) : next.out.paint[t] = after.paint[t]
  BY <1>4, <1>5, <1>6, <1>7, <1>8
<1>10. \A t \in Tile \ next.claimed : after.paint[t] = base.paint[t]
  BY <1>5, <1>6, <1>7 DEF all
<1>11. \A a \in Actor : a >= n + 1 => after.mask[a] = base.mask[a]
  BY <1>1, <1>5, <1>7, ActorAssumption
<1>12. \A a \in DOMAIN next.heads : a < n + 1
  BY <1>1, <1>2, <1>6, <1>7
<1>13. Picture(base, gestures, n + 1, next, after)
  BY <1>4, <1>5, <1>6, <1>7, <1>9, <1>10, <1>11, <1>12 DEF Picture
<1>14. FoldOn(ctx, p, base, gestures, next)
  BY <1>6 DEF FoldOn
<1>. QED
  BY <1>13, <1>14 DEF next, after, g

LEMMA SelectAgrees ==
  ASSUME NEW ctx, NEW p, NEW base, NEW gestures, NEW newest, Scene(ctx, p, base, gestures, newest),
         NEW n \in InFlight(gestures), NEW acc \in Accs, NEW scratch \in Document,
         Picture(base, gestures, n, acc, scratch), FoldOn(ctx, p, base, gestures, acc),
         gestures[n].kind = "marquee"
  PROVE  LET next == FoldGesture(ctx, p, base, acc, n, gestures[n])
         IN  /\ Picture(base, gestures, n + 1, next, SelectOnto(scratch, n))
             /\ FoldOn(ctx, p, base, gestures, next)
<1>. DEFINE g == gestures[n]
            next == FoldGesture(ctx, p, base, acc, n, g)
            out == SelectOnto(acc.out, n)
            after == SelectOnto(scratch, n)
<1>1. n \in Actor /\ n \in Nat
  BY ActorAssumption DEF InFlight
<1>2. /\ acc = [out |-> acc.out, heads |-> acc.heads, claimed |-> acc.claimed,
                touched |-> acc.touched, prepared |-> acc.prepared]
      /\ acc.out \in Document /\ DOMAIN acc.heads \subseteq Nat
  BY HeadsAre, ActorAssumption DEF Accs
<1>3. next = [acc EXCEPT !.out = out]
  BY Zenon DEF FoldGesture
<1>4. /\ out \in Document /\ out.paint = acc.out.paint
      /\ \A a \in Actor : out.mask[a] = IF a = n THEN 1 - acc.out.mask[a] ELSE acc.out.mask[a]
  BY <1>1, <1>2, SelectMoves
<1>5. /\ after \in Document /\ after.paint = scratch.paint
      /\ \A a \in Actor : after.mask[a] = IF a = n THEN 1 - scratch.mask[a] ELSE scratch.mask[a]
  BY <1>1, SelectMoves
<1>. HIDE DEF out, after, next, g
<1>6. next.out = out /\ next.heads = acc.heads /\ next.claimed = acc.claimed
      /\ next.touched = acc.touched /\ next.prepared = acc.prepared
  BY <1>2, <1>3
<1>7. /\ acc.out.mask = scratch.mask
      /\ \A t \in Tile \ LeftBy(acc.heads, gestures) : acc.out.paint[t] = scratch.paint[t]
      /\ \A t \in Tile \ acc.claimed : scratch.paint[t] = base.paint[t]
      /\ \A a \in Actor : a >= n => scratch.mask[a] = base.mask[a]
      /\ ~acc.touched => acc.claimed = {}
      /\ \A a \in DOMAIN acc.heads : a < n
  BY DEF Picture
<1>8. out.mask = after.mask
  <2>1. out.mask \in [Actor -> {0, 1}] /\ after.mask \in [Actor -> {0, 1}]
    BY <1>4, <1>5 DEF Document
  <2>2. \A a \in Actor : out.mask[a] = after.mask[a]
    BY <1>4, <1>5, <1>7
  <2>. QED
    BY <2>1, <2>2
<1>9. \A a \in Actor : a >= n + 1 => after.mask[a] = base.mask[a]
  <2>1. \A a \in Actor : a >= n + 1 => a >= n /\ a # n
    BY <1>1, ActorAssumption
  <2>. QED
    BY <2>1, <1>5, <1>7
<1>10. \A a \in DOMAIN next.heads : a < n + 1
  BY <1>1, <1>2, <1>6, <1>7
<1>11. Picture(base, gestures, n + 1, next, after)
  BY <1>4, <1>5, <1>6, <1>7, <1>8, <1>9, <1>10 DEF Picture
<1>12. FoldOn(ctx, p, base, gestures, next)
  BY <1>6 DEF FoldOn
<1>. QED
  BY <1>11, <1>12 DEF next, after, g

(* Whatever heads it draws on, the fold is the fold from scratch, but for the *)
(* tiles a kept head has left behind.                                         *)
LEMMA FoldAgrees ==
  ASSUME NEW ctx, NEW p, NEW base, NEW gestures, NEW newest, Scene(ctx, p, base, gestures, newest)
  PROVE  \A n \in Nat :
           LET acc == Folded(ctx, p, base, gestures, n)
           IN  /\ acc \in Accs /\ FoldOn(ctx, p, base, gestures, acc)
               /\ Picture(base, gestures, n, acc, FromScratch(ctx, base, gestures, n))
<1>. DEFINE Acc(n) == Folded(ctx, p, base, gestures, n)
            Scr(n) == FromScratch(ctx, base, gestures, n)
<1>1. /\ Acc(0) = NoFold(base)
      /\ \A n \in Nat : Acc(n) \in Accs
      /\ \A n \in Nat : Acc(n + 1) = IF n \in InFlight(gestures)
                                     THEN FoldGesture(ctx, p, base, Acc(n), n, gestures[n]) ELSE Acc(n)
  BY FoldedUnfolds
<1>2. /\ Scr(0) = base
      /\ \A n \in Nat : Scr(n) \in Document
      /\ \A n \in Nat : Scr(n + 1) = IF n \in InFlight(gestures)
                                     THEN Laid(ctx, Scr(n), n, gestures[n]) ELSE Scr(n)
  BY FromScratchUnfolds DEF Scene
<1>. HIDE DEF Acc, Scr
<1>. DEFINE S == {n \in Nat : FoldOn(ctx, p, base, gestures, Acc(n)) /\ Picture(base, gestures, n, Acc(n), Scr(n))}
<1>3. 0 \in S
  <2>1. /\ Acc(0).out = base /\ Acc(0).heads = NoHeads /\ Acc(0).claimed = {}
        /\ Acc(0).touched = FALSE /\ Acc(0).prepared = None
    BY <1>1 DEF NoFold
  <2>2. DOMAIN NoHeads = {}
    BY DEF NoHeads
  <2>3. FoldOn(ctx, p, base, gestures, Acc(0))
    BY <2>1, <2>2 DEF FoldOn, HeadsOn
  <2>4. Picture(base, gestures, 0, Acc(0), Scr(0))
    BY <2>1, <2>2, <1>2 DEF Picture
  <2>. QED
    BY <2>3, <2>4
<1>4. ASSUME NEW n \in Nat, n \in S
      PROVE  n + 1 \in S
  <2>. DEFINE acc == Acc(n)
              scratch == Scr(n)
              g == gestures[n]
  <2>1. /\ acc \in Accs /\ scratch \in Document
        /\ FoldOn(ctx, p, base, gestures, acc) /\ Picture(base, gestures, n, acc, scratch)
    BY <1>1, <1>2, <1>4
  <2>2. CASE n \notin InFlight(gestures)
    <3>1. Acc(n + 1) = acc /\ Scr(n + 1) = scratch
      BY <1>1, <1>2, <2>2
    <3>. HIDE DEF acc, scratch
    <3>2. \A a \in Actor : a >= n + 1 => a >= n
      BY ActorAssumption
    <3>3. DOMAIN acc.heads \subseteq Nat
      BY <2>1, HeadsAre, ActorAssumption DEF Accs
    <3>4. \A a \in DOMAIN acc.heads : a < n => a < n + 1
      BY <3>3
    <3>5. Picture(base, gestures, n + 1, acc, scratch)
      BY <2>1, <3>2, <3>4 DEF Picture
    <3>. QED
      BY <2>1, <3>1, <3>5
  <2>3. CASE n \in InFlight(gestures)
    <3>1. /\ Acc(n + 1) = FoldGesture(ctx, p, base, acc, n, g)
          /\ Scr(n + 1) = Laid(ctx, scratch, n, g)
      BY <1>1, <1>2, <2>3
    <3>. HIDE DEF acc, scratch
    <3>2. CASE g.kind = "marquee"
      <4>1. Scr(n + 1) = SelectOnto(scratch, n)
        BY <3>1, <3>2 DEF Laid
      <4>. QED
        BY <2>1, <2>3, <3>1, <3>2, <4>1, SelectAgrees
    <3>3. CASE g.kind = "fill"
      <4>1. Scr(n + 1) = FillOnto(scratch, n, g.path)
        BY <3>1, <3>3 DEF Laid
      <4>. QED
        BY <2>1, <2>3, <3>1, <3>3, <4>1, FillAgrees
    <3>4. CASE g.kind \notin {"marquee", "fill"}
      <4>1. Scr(n + 1) = Render(ctx, scratch, n, Rec(g))
            /\ Acc(n + 1) = FoldStroke(ctx, p, base, acc, n, g)
        BY <3>1, <3>4 DEF Laid, FoldGesture
      <4>2. StrokeLaid(ctx, p, base, n, gestures[n], acc, Acc(n + 1))
        BY <2>1, <2>3, <4>1, StrokeFolds
      <4>3. Picture(base, gestures, n + 1, Acc(n + 1), Scr(n + 1))
        BY <2>1, <2>3, <4>1, <4>2, StrokeAgrees
      <4>4. FoldOn(ctx, p, base, gestures, Acc(n + 1))
        <5>1. \A a \in DOMAIN acc.heads : a < n
          BY <2>1 DEF Picture
        <5>. QED
          BY <2>1, <2>3, <4>2, <5>1, StrokeOn
      <4>. QED
        BY <4>3, <4>4
    <3>. QED
      BY <3>2, <3>3, <3>4
  <2>. QED
    BY <2>2, <2>3
<1>5. Nat \subseteq S
  <2>. HIDE DEF S
  <2>. QED
    BY <1>3, <1>4, Induction
<1>. QED
  BY <1>1, <1>5 DEF Acc, Scr

(* With nobody mid-gesture the fold from scratch is its base.                 *)
LEMMA NobodyLays ==
  ASSUME NEW ctx \in Context, NEW base \in Document, NEW gestures, NEW newest \in [Actor -> Nat],
         \A a \in Actor : gestures[a] \in GestureOf(a, newest[a]), InFlight(gestures) = {}
  PROVE  \A n \in Nat : FromScratch(ctx, base, gestures, n) = base
<1>. DEFINE Scr(n) == FromScratch(ctx, base, gestures, n)
            S == {n \in Nat : Scr(n) = base}
<1>1. Scr(0) = base /\ \A n \in Nat : Scr(n + 1) = Scr(n)
  BY FromScratchUnfolds
<1>. HIDE DEF Scr
<1>2. 0 \in S /\ \A n \in Nat : n \in S => n + 1 \in S
  BY <1>1
<1>3. Nat \subseteq S
  <2>. HIDE DEF S
  <2>. QED
    BY <1>2, Induction
<1>. QED
  BY <1>3 DEF Scr

(* Once a shape can be had, it makes no difference that it was on its way.    *)
LEMMA RenderOnceResolved ==
  ASSUME NEW ctx \in Context, NEW other \in Context, ctx.tooth = other.tooth,
         NEW d \in Document, NEW actor \in Actor, NEW rec \in Record,
         Resolves(ctx, rec), Resolves(other, rec)
  PROVE  /\ Render(ctx, d, actor, rec) = Render(other, d, actor, rec)
         /\ \A to \in 0..Spans(rec) : LaySpans(ctx, d, actor, rec, 0, to) = LaySpans(other, d, actor, rec, 0, to)
<1>1. Spans(rec) \in Nat
  BY DEF Spans, Record
<1>2. \A to \in 0..Spans(rec) : LaySpans(ctx, d, actor, rec, 0, to) = LaySpans(other, d, actor, rec, 0, to)
  BY <1>1, LayingAgrees
<1>3. Spans(rec) \in 0..Spans(rec)
  BY <1>1
<1>4. LaySpans(ctx, d, actor, rec, 0, Spans(rec)) = LaySpans(other, d, actor, rec, 0, Spans(rec))
  BY <1>2, <1>3
<1>. QED
  BY <1>2, <1>4 DEF Render, RenderRange

-----------------------------------------------------------------------------
(* What a preview keeps                                                       *)

HeldKept(p, d) == p.held # None => p.held = Held(p.held.edit, d)

HeadsKept(ctx, p, d, gestures, newest) ==
  \A a \in DOMAIN p.heads : HeadKept(ctx, p.heads[a], Base(p, d), a, gestures[a], newest[a])

PreparedKept(ctx, p, d) == p.prepared # None => PreparedOn(ctx, d, p.prepared)

Shows(ctx, p, d, gestures, resident) ==
  LET scratch == FromScratch([ctx EXCEPT !.arrived = resident], Base(p, d), gestures, Everyone)
  IN  /\ Presented(p, d).mask = scratch.mask
      /\ \A t \in Tile \ LeftBy(p.heads, gestures) : Presented(p, d).paint[t] = scratch.paint[t]

PictureKept(ctx, p, d, gestures) ==
  ~p.stale => \E resident \in {FALSE, ctx.arrived} : Shows(ctx, p, d, gestures, resident)

(* The inductive part of the properties: the held edit is of this document,   *)
(* a head that would be drawn on is the settled part of its stroke over the   *)
(* base as it is, the prepared stroke is a render over the document as it is, *)
(* and a picture that is not stale is the fold from scratch.                  *)
Kept(ctx, p, d, gestures, newest) ==
  /\ HeldKept(p, d) /\ HeadsKept(ctx, p, d, gestures, newest)
  /\ PreparedKept(ctx, p, d) /\ PictureKept(ctx, p, d, gestures)

IInv == TypeOK /\ Kept(Ctx, preview, doc, Gestures, ordinals)

LEMMA PreviewFields ==
  ASSUME NEW p, PreviewOK(p)
  PROVE  /\ p = [held |-> p.held, live |-> p.live, heads |-> p.heads, epoch |-> p.epoch,
                 fold |-> p.fold, stale |-> p.stale, prepared |-> p.prepared]
         /\ p.held \in HeldEdit \cup {None} /\ p.live \in Document \cup {None} /\ p.heads \in Heads
         /\ p.epoch \in {0, 1} /\ p.fold \in {0, 1} /\ p.stale \in BOOLEAN
         /\ p.prepared \in PreparedStroke \cup {None}
<1>. DEFINE H == [DOMAIN p.heads -> FrozenHead]
<1>1. p \in [held : HeldEdit \cup {None}, live : Document \cup {None},
             heads : H, epoch : {0, 1}, fold : {0, 1},
             stale : BOOLEAN, prepared : PreparedStroke \cup {None}]
      /\ DOMAIN p.heads \subseteq Actor
  BY DEF PreviewOK
<1>. HIDE DEF H
<1>2. p.heads \in H
  BY <1>1
<1>3. p.heads \in Heads
  BY <1>1, <1>2, HeadsAre DEF H
<1>. QED
  BY <1>1, <1>3

LEMMA PreviewIs ==
  ASSUME NEW p,
         p = [held |-> p.held, live |-> p.live, heads |-> p.heads, epoch |-> p.epoch,
              fold |-> p.fold, stale |-> p.stale, prepared |-> p.prepared],
         p.held \in HeldEdit \cup {None}, p.live \in Document \cup {None}, p.heads \in Heads,
         p.epoch \in {0, 1}, p.fold \in {0, 1}, p.stale \in BOOLEAN,
         p.prepared \in PreparedStroke \cup {None}
  PROVE  PreviewOK(p)
<1>. DEFINE H == [DOMAIN p.heads -> FrozenHead]
<1>1. DOMAIN p.heads \subseteq Actor /\ p.heads \in H
  BY HeadsAre
<1>. HIDE DEF H
<1>2. p \in [held : HeldEdit \cup {None}, live : Document \cup {None},
             heads : H, epoch : {0, 1}, fold : {0, 1},
             stale : BOOLEAN, prepared : PreparedStroke \cup {None}]
  BY <1>1
<1>. QED
  BY <1>1, <1>2 DEF PreviewOK, H

(* A held edit and the document it makes.                                     *)
LEMMA HeldIs ==
  ASSUME NEW d \in Document, NEW edit \in Edits \cup {None}
  PROVE  /\ EditOnto(edit, d) \in Document \cup {None}
         /\ Held(edit, d) \in HeldEdit \cup {None}
         /\ Held(edit, d) # None => Held(edit, d) = Held(Held(edit, d).edit, d)
<1>1. EditOnto(edit, d) \in Document \cup {None}
  <2>. DEFINE mark == [by |-> Me, span |-> 0, thin |-> TRUE, mask |-> 0, tooth |-> 0]
              glazed == [d.paint EXCEPT ![1] = Append(@, mark)]
  <2>1. /\ d = [paint |-> d.paint, mask |-> d.mask] /\ d.paint \in [Tile -> Seq(Marks)]
        /\ d.mask \in [Actor -> {0, 1}]
    BY DEF Document, Painting
  <2>2. mark \in Marks
    BY DEF Marks, Actor
  <2>3. 1 \in Tile
    BY TilesAssumption DEF Tile
  <2>4. edit = "glaze" => EditOnto(edit, d) = [d EXCEPT !.paint = glazed]
    BY Zenon DEF EditOnto
  <2>. HIDE DEF mark
  <2>5. glazed \in [Tile -> Seq(Marks)]
    BY <2>1, <2>2, <2>3
  <2>. HIDE DEF glazed
  <2>6. [d EXCEPT !.paint = glazed] = [paint |-> glazed, mask |-> d.mask]
    BY <2>1
  <2>7. [d EXCEPT !.paint = glazed] \in Document
    BY <2>1, <2>5, <2>6 DEF Document, Painting
  <2>. QED
    BY <2>4, <2>7 DEF EditOnto
<1>2. CASE edit = None
  BY <1>1, <1>2 DEF Held
<1>3. CASE edit # None
  <2>. DEFINE made == EditOnto(edit, d)
  <2>1. Held(edit, d) = [edit |-> edit, doc |-> made]
    BY <1>3 DEF Held
  <2>. HIDE DEF made
  <2>2. [edit |-> edit, doc |-> made] \in HeldEdit
    BY <1>1, <1>3 DEF HeldEdit, made
  <2>3. Held(edit, d).edit = edit
    BY <2>1
  <2>. QED
    BY <1>1, <2>1, <2>2, <2>3
<1>. QED
  BY <1>2, <1>3

LEMMA BaseIs ==
  ASSUME NEW p, p.held \in HeldEdit \cup {None}, NEW d \in Document
  PROVE  Base(p, d) \in Document /\ HeldDoc(p) \in Document \cup {None}
         /\ (HeldDoc(p) = None => Base(p, d) = d)
<1>1. HeldDoc(p) \in Document \cup {None}
  BY DEF HeldDoc, HeldEdit
<1>. QED
  BY <1>1 DEF Base

(* After Invalidate no head is drawn on and no render is offered.             *)
LEMMA InvalidateDrops ==
  ASSUME NEW p, PreviewOK(p)
  PROVE  LET q == Invalidate(p)
         IN  /\ PreviewOK(q) /\ q.held = p.held /\ q.live = p.live /\ q.fold = p.fold
             /\ q.epoch = 1 - p.epoch /\ q.stale /\ q.prepared = None
             /\ DOMAIN q.heads = DOMAIN p.heads
             /\ \A a \in DOMAIN p.heads : /\ q.heads[a].gesture = p.heads[a].gesture
                                          /\ q.heads[a].current = FALSE
<1>. DEFINE q == Invalidate(p)
            old == [a \in DOMAIN p.heads |-> [p.heads[a] EXCEPT !.current = FALSE]]
<1>1. /\ p = [held |-> p.held, live |-> p.live, heads |-> p.heads, epoch |-> p.epoch,
              fold |-> p.fold, stale |-> p.stale, prepared |-> p.prepared]
      /\ p.held \in HeldEdit \cup {None} /\ p.live \in Document \cup {None} /\ p.heads \in Heads
      /\ p.epoch \in {0, 1} /\ p.fold \in {0, 1} /\ p.stale \in BOOLEAN
      /\ p.prepared \in PreparedStroke \cup {None}
  BY PreviewFields
<1>2. \A head \in FrozenHead : /\ [head EXCEPT !.current = FALSE] \in FrozenHead
                               /\ [head EXCEPT !.current = FALSE].gesture = head.gesture
                               /\ [head EXCEPT !.current = FALSE].current = FALSE
  BY DEF FrozenHead
<1>3. DOMAIN p.heads \subseteq Actor /\ \A a \in DOMAIN p.heads : p.heads[a] \in FrozenHead
  BY <1>1, HeadsAre
<1>4. /\ DOMAIN old = DOMAIN p.heads /\ old \in [DOMAIN old -> FrozenHead]
      /\ \A a \in DOMAIN p.heads : old[a].gesture = p.heads[a].gesture /\ old[a].current = FALSE
  BY <1>2, <1>3
<1>5. q = [p EXCEPT !.epoch = 1 - p.epoch, !.prepared = None, !.stale = TRUE, !.heads = old]
  BY Zenon DEF Invalidate
<1>. HIDE DEF old, q
<1>6. old \in Heads
  BY <1>3, <1>4, HeadsAre
<1>7. q = [held |-> p.held, live |-> p.live, heads |-> old, epoch |-> 1 - p.epoch,
           fold |-> p.fold, stale |-> TRUE, prepared |-> None]
  BY <1>1, <1>5
<1>8. 1 - p.epoch \in {0, 1}
  BY <1>1
<1>9. PreviewOK(q)
  BY <1>1, <1>6, <1>7, <1>8, PreviewIs
<1>10. q.held = p.held /\ q.live = p.live /\ q.heads = old /\ q.epoch = 1 - p.epoch
       /\ q.fold = p.fold /\ q.stale = TRUE /\ q.prepared = None
  BY <1>7
<1>. QED
  BY <1>4, <1>9, <1>10 DEF q

(* So whatever became of the document, the hands and the texture, an          *)
(* invalidated preview keeps its word.                                        *)
LEMMA InvalidatedIsKept ==
  ASSUME NEW ctx, NEW p, PreviewOK(p), NEW d, NEW gestures, NEW newest, HeldKept(p, d),
         \A a \in DOMAIN p.heads : p.heads[a].gesture <= newest[a]
  PROVE  PreviewOK(Invalidate(p)) /\ Kept(ctx, Invalidate(p), d, gestures, newest)
<1>. DEFINE q == Invalidate(p)
<1>1. /\ PreviewOK(q) /\ q.held = p.held /\ q.stale /\ q.prepared = None
      /\ DOMAIN q.heads = DOMAIN p.heads
      /\ \A a \in DOMAIN p.heads : /\ q.heads[a].gesture = p.heads[a].gesture
                                   /\ q.heads[a].current = FALSE
  BY InvalidateDrops
<1>. HIDE DEF q
<1>2. HeldKept(q, d)
  BY <1>1 DEF HeldKept
<1>3. HeadsKept(ctx, q, d, gestures, newest)
  BY <1>1 DEF HeadsKept, HeadKept
<1>. QED
  BY <1>1, <1>2, <1>3 DEF Kept, PreparedKept, PictureKept, q

(* An actor is a number below Everyone.                                       *)
LEMMA EveryoneIs == Everyone \in Nat /\ \A a \in Actor : a < Everyone
<1>1. Actor # {} /\ IsFiniteSet(Actor) /\ Actor \in SUBSET Nat
  BY ActorAssumption DEF Actor
<1>2. Max(Actor) \in Actor /\ \A a \in Actor : a <= Max(Actor)
  BY <1>1, GreatestOfFinite
<1>3. Max(Actor) \in Nat
  BY <1>1, <1>2
<1>. DEFINE top == Max(Actor)
<1>4. top \in Nat /\ \A a \in Actor : a \in Nat /\ a <= top
  BY <1>1, <1>2, <1>3
<1>5. Everyone = top + 1
  BY DEF Everyone
<1>. HIDE DEF top
<1>. QED
  BY <1>4, <1>5

LEMMA TypesGive ==
  ASSUME TypeOK
  PROVE  /\ Ctx \in Context /\ Complete \in Context /\ Complete.tooth = Ctx.tooth
         /\ Ctx.arrived = arrived /\ Ctx.tooth = tooth /\ Complete.arrived
         /\ doc \in Document /\ ordinals \in [Actor -> Nat] /\ PreviewOK(preview)
         /\ \A a \in Actor : Gestures[a] \in GestureOf(a, ordinals[a])
<1>1. Ctx \in Context /\ Ctx.arrived = arrived /\ Ctx.tooth = tooth
  BY DEF TypeOK, Ctx, Context
<1>2. Complete \in Context /\ Complete.tooth = Ctx.tooth /\ Complete.arrived
  BY <1>1 DEF Complete, Context
<1>. QED
  BY <1>1, <1>2 DEF TypeOK

(* A preview's heads, whole, are what a fold over it may draw on.             *)
LEMMA KeptGivesScene ==
  ASSUME NEW ctx \in Context, NEW p, p.heads \in Heads, p.held \in HeldEdit \cup {None},
         NEW d \in Document, NEW gestures, NEW newest \in [Actor -> Nat],
         \A a \in Actor : gestures[a] \in GestureOf(a, newest[a]),
         HeadsKept(ctx, p, d, gestures, newest)
  PROVE  Scene(ctx, p, Base(p, d), gestures, newest)
<1>1. Base(p, d) \in Document
  BY BaseIs
<1>. QED
  BY <1>1 DEF Scene, HeadsKept

(* A frame folded anew keeps the preview's word, and what is shown moves only *)
(* with the fold counter.                                                     *)
LEMMA RebuildKeeps ==
  ASSUME TypeOK, NEW p, PreviewOK(p), HeldKept(p, doc),
         HeadsKept(Ctx, p, doc, Gestures, ordinals)
  PROVE  LET q == Rebuild(p, doc)
         IN  /\ PreviewOK(q) /\ Kept(Ctx, q, doc, Gestures, ordinals)
             /\ q.held = p.held /\ q.epoch = p.epoch
             /\ Presented(q, doc) # Presented(p, doc) => q.fold # p.fold
<1>. DEFINE q == Rebuild(p, doc)
            base == Base(p, doc)
            folded == Folded(Ctx, p, base, Gestures, Everyone)
            scratch == FromScratch(Ctx, base, Gestures, Everyone)
<1>1. /\ Ctx \in Context /\ doc \in Document /\ ordinals \in [Actor -> Nat]
      /\ \A a \in Actor : Gestures[a] \in GestureOf(a, ordinals[a])
  BY TypesGive
<1>2. /\ p = [held |-> p.held, live |-> p.live, heads |-> p.heads, epoch |-> p.epoch,
              fold |-> p.fold, stale |-> p.stale, prepared |-> p.prepared]
      /\ p.held \in HeldEdit \cup {None} /\ p.live \in Document \cup {None} /\ p.heads \in Heads
      /\ p.epoch \in {0, 1} /\ p.fold \in {0, 1} /\ p.stale \in BOOLEAN
      /\ p.prepared \in PreparedStroke \cup {None}
  BY PreviewFields
<1>3. base \in Document /\ (HeldDoc(p) = None => base = doc)
  BY <1>1, <1>2, BaseIs
<1>4. Scene(Ctx, p, base, Gestures, ordinals)
  BY <1>1, <1>2, KeptGivesScene
<1>5. Everyone \in Nat
  BY EveryoneIs
<1>6. [Ctx EXCEPT !.arrived = Ctx.arrived] = Ctx /\ Ctx.arrived \in {FALSE, Ctx.arrived}
  BY <1>1 DEF Context
<1>7. CASE InFlight(Gestures) = {}
  <2>1. scratch = base
    BY <1>1, <1>3, <1>5, <1>7, NobodyLays
  <2>. DEFINE count == IF p.live # None THEN 1 - p.fold ELSE p.fold
  <2>2. q = [p EXCEPT !.prepared = None, !.live = None, !.heads = NoHeads, !.fold = count]
    BY <1>7, Zenon DEF Rebuild, Dropped
  <2>3. count \in {0, 1} /\ (p.live # None => count # p.fold)
    BY <1>2
  <2>4. NoHeads \in Heads /\ DOMAIN NoHeads = {}
    <3>1. DOMAIN NoHeads = {} /\ NoHeads \in [{} -> FrozenHead]
      BY DEF NoHeads
    <3>. QED
      BY <3>1, HeadsAre
  <2>. HIDE DEF count, q, base, scratch
  <2>5. q = [held |-> p.held, live |-> None, heads |-> NoHeads, epoch |-> p.epoch,
             fold |-> count, stale |-> p.stale, prepared |-> None]
    BY <2>2, <1>2
  <2>6. PreviewOK(q)
    BY <1>2, <2>3, <2>4, <2>5, PreviewIs
  <2>7. /\ q.held = p.held /\ q.live = None /\ q.heads = NoHeads /\ q.epoch = p.epoch
        /\ q.fold = count /\ q.stale = p.stale /\ q.prepared = None
    BY <2>5
  <2>8. Base(q, doc) = base /\ Presented(q, doc) = base
    BY <2>7 DEF Base, HeldDoc, Presented, base
  <2>9. Shows(Ctx, q, doc, Gestures, Ctx.arrived)
    BY <2>1, <2>8, <1>6 DEF Shows, scratch
  <2>10. Kept(Ctx, q, doc, Gestures, ordinals)
    BY <1>6, <2>4, <2>7, <2>9 DEF Kept, HeldKept, HeadsKept, PreparedKept, PictureKept
  <2>11. Presented(q, doc) # Presented(p, doc) => q.fold # p.fold
    BY <2>3, <2>7, <2>8 DEF Presented, base
  <2>. QED
    BY <2>6, <2>7, <2>10, <2>11 DEF q
<1>8. CASE InFlight(Gestures) # {}
  <2>1. q = [p EXCEPT !.prepared = folded.prepared, !.live = folded.out,
                      !.heads = folded.heads, !.fold = 1 - p.fold]
    BY <1>8, Zenon DEF Rebuild
  <2>. HIDE DEF base
  <2>2. /\ folded \in Accs /\ FoldOn(Ctx, p, base, Gestures, folded)
        /\ Picture(base, Gestures, Everyone, folded, scratch)
    BY <1>4, <1>5, FoldAgrees
  <2>. HIDE DEF folded, scratch, q
  <2>3. folded.out \in Document /\ folded.heads \in Heads /\ folded.prepared \in PreparedStroke \cup {None}
    BY <2>2 DEF Accs
  <2>4. q = [held |-> p.held, live |-> folded.out, heads |-> folded.heads, epoch |-> p.epoch,
             fold |-> 1 - p.fold, stale |-> p.stale, prepared |-> folded.prepared]
    BY <2>1, <1>2
  <2>5. 1 - p.fold \in {0, 1} /\ 1 - p.fold # p.fold
    BY <1>2
  <2>6. PreviewOK(q)
    BY <1>2, <2>3, <2>4, <2>5, PreviewIs
  <2>7. /\ q.held = p.held /\ q.live = folded.out /\ q.heads = folded.heads /\ q.epoch = p.epoch
        /\ q.fold = 1 - p.fold /\ q.stale = p.stale /\ q.prepared = folded.prepared
    BY <2>4
  <2>8. Base(q, doc) = base /\ Presented(q, doc) = folded.out
    <3>1. folded.out # None
      BY <2>3, NoneAssumption
    <3>. QED
      BY <2>7, <3>1 DEF Base, HeldDoc, Presented, base
  <2>9. HeadsKept(Ctx, q, doc, Gestures, ordinals)
    <3>1. ASSUME NEW a \in DOMAIN q.heads
          PROVE  HeadKept(Ctx, q.heads[a], Base(q, doc), a, Gestures[a], ordinals[a])
      <4>1. /\ a \in InFlight(Gestures)
            /\ q.heads[a].gesture = Gestures[a].ordinal
            /\ ~q.heads[a].contested => HeadOn(Ctx, q.heads[a], base, a, Gestures[a])
        BY <2>2, <2>7 DEF FoldOn, HeadsOn
      <4>2. a \in Actor /\ Gestures[a] # Idle /\ ordinals[a] \in Nat
        BY <1>1, <4>1 DEF InFlight
      <4>3. Gestures[a].ordinal \in 1..ordinals[a]
        BY <1>1, <4>2, GestureFields
      <4>4. q.heads[a].gesture <= ordinals[a]
        BY <4>1, <4>2, <4>3
      <4>. QED
        BY <4>1, <4>4, <2>8 DEF HeadKept
    <3>. QED
      BY <3>1 DEF HeadsKept
  <2>10. PreparedKept(Ctx, q, doc)
    BY <1>3, <2>2, <2>7 DEF PreparedKept, FoldOn
  <2>11. Shows(Ctx, q, doc, Gestures, Ctx.arrived)
    BY <2>2, <2>7, <2>8, <1>6 DEF Shows, Picture, scratch
  <2>12. Kept(Ctx, q, doc, Gestures, ordinals)
    BY <1>6, <2>7, <2>9, <2>10, <2>11 DEF Kept, HeldKept, PictureKept
  <2>. QED
    BY <2>5, <2>6, <2>7, <2>12 DEF q
<1>. QED
  BY <1>7, <1>8

LEMMA FlushKeeps ==
  ASSUME IInv
  PROVE  LET q == FlushLive(preview, doc)
         IN  /\ PreviewOK(q) /\ Kept(Ctx, q, doc, Gestures, ordinals)
             /\ q.held = preview.held /\ q.epoch = preview.epoch
             /\ Presented(q, doc) # Presented(preview, doc) => q.fold # preview.fold
<1>1. TypeOK /\ PreviewOK(preview) /\ Kept(Ctx, preview, doc, Gestures, ordinals)
  BY DEF IInv, TypeOK
<1>2. CASE ~preview.stale
  BY <1>1, <1>2 DEF FlushLive
<1>3. CASE preview.stale
  <2>. DEFINE p == [preview EXCEPT !.stale = FALSE]
  <2>1. /\ preview = [held |-> preview.held, live |-> preview.live, heads |-> preview.heads,
                      epoch |-> preview.epoch, fold |-> preview.fold, stale |-> preview.stale,
                      prepared |-> preview.prepared]
        /\ preview.held \in HeldEdit \cup {None} /\ preview.live \in Document \cup {None}
        /\ preview.heads \in Heads /\ preview.epoch \in {0, 1} /\ preview.fold \in {0, 1}
        /\ preview.prepared \in PreparedStroke \cup {None}
    BY <1>1, PreviewFields
  <2>2a. p = [preview EXCEPT !.stale = FALSE]
    OBVIOUS
  <2>3. FlushLive(preview, doc) = Rebuild(p, doc)
    BY <1>3 DEF FlushLive
  <2>. HIDE DEF p
  <2>2. p = [held |-> preview.held, live |-> preview.live, heads |-> preview.heads,
             epoch |-> preview.epoch, fold |-> preview.fold, stale |-> FALSE,
             prepared |-> preview.prepared]
    BY <2>1, <2>2a
  <2>4. PreviewOK(p)
    BY <2>1, <2>2, PreviewIs
  <2>5. /\ p.held = preview.held /\ p.live = preview.live /\ p.heads = preview.heads
        /\ p.epoch = preview.epoch /\ p.fold = preview.fold
    BY <2>2
  <2>6. Base(p, doc) = Base(preview, doc) /\ Presented(p, doc) = Presented(preview, doc)
    BY <2>5 DEF Base, HeldDoc, Presented
  <2>7. HeldKept(p, doc)
    BY <1>1, <2>5 DEF Kept, HeldKept
  <2>8. HeadsKept(Ctx, p, doc, Gestures, ordinals)
    BY <1>1, <2>5, <2>6 DEF Kept, HeadsKept
  <2>. DEFINE q == Rebuild(p, doc)
  <2>9. /\ PreviewOK(q) /\ Kept(Ctx, q, doc, Gestures, ordinals)
        /\ q.held = p.held /\ q.epoch = p.epoch
        /\ Presented(q, doc) # Presented(p, doc) => q.fold # p.fold
    BY <1>1, <2>4, <2>7, <2>8, RebuildKeeps
  <2>. HIDE DEF q
  <2>. QED
    BY <2>3, <2>5, <2>6, <2>9 DEF q
<1>. QED
  BY <1>1, <1>2, <1>3 DEF TypeOK, PreviewOK

-----------------------------------------------------------------------------
(* What a hand's step leaves of the heads                                     *)

(* What a gesture may become: nothing, another one, or itself with the        *)
(* settled spans where they were.                                             *)
Follows(old, new, newest) ==
  \/ new = old
  \/ new = Idle
  \/ new.ordinal > newest
  \/ /\ old # Idle /\ new # Idle /\ new.ordinal = old.ordinal
     /\ old.frozen <= new.frozen
     /\ old.frozen > 0 => /\ new.brush = old.brush /\ Len(old.path) <= Len(new.path)
                          /\ \A n \in 1..old.frozen : new.path[n] = old.path[n]

LEMMA HeadFollows ==
  ASSUME NEW ctx \in Context, NEW base \in Document, NEW actor \in Actor,
         NEW newest \in Nat, NEW g \in GestureOf(actor, newest), g # Idle,
         NEW latest \in Nat, NEW h \in GestureOf(actor, latest), h # Idle,
         NEW head \in FrozenHead, HeadOn(ctx, head, base, actor, g),
         g.frozen <= h.frozen,
         g.frozen > 0 => /\ h.brush = g.brush /\ Len(g.path) <= Len(h.path)
                         /\ \A n \in 1..g.frozen : h.path[n] = g.path[n]
  PROVE  HeadOn(ctx, head, base, actor, h)
<1>1. /\ Rec(g) \in Record /\ Rec(g).path = g.path /\ Rec(g).brush = g.brush
      /\ Len(g.path) \in Nat /\ g.frozen \in Nat /\ Spans(Rec(g)) = Len(g.path)
      /\ g.frozen < Len(g.path) /\ Taper[g.brush] \in Nat
  BY GestureFields
<1>2. /\ Rec(h) \in Record /\ Rec(h).path = h.path /\ Rec(h).brush = h.brush
      /\ Len(h.path) \in Nat /\ h.frozen \in Nat /\ Spans(Rec(h)) = Len(h.path)
      /\ h.frozen < Len(h.path)
  BY GestureFields
<1>3. head.spans \in Nat
  BY DEF FrozenHead
<1>4. /\ head.spans <= g.frozen
      /\ head.spans > 0 => head.spans + Taper[g.brush] <= Len(g.path) /\ Resolves(ctx, Rec(g))
      /\ head.state = LaySpans(ctx, base, actor, Rec(g), 0, head.spans)
      /\ Covered(Rec(g), 0, head.spans) \subseteq head.dirty
  BY DEF HeadOn
<1>5. CASE head.spans = 0
  <2>1. /\ LaySpans(ctx, base, actor, Rec(g), 0, 0) = base
        /\ LaySpans(ctx, base, actor, Rec(h), 0, 0) = base
    BY <1>1, <1>2, LaySpansUnfold
  <2>2. Covered(Rec(h), 0, 0) = {}
    BY DEF Covered
  <2>. QED
    BY <2>1, <2>2, <1>2, <1>4, <1>5 DEF HeadOn
<1>6. CASE head.spans > 0
  <2>1. /\ h.brush = g.brush /\ Len(g.path) <= Len(h.path)
        /\ \A n \in 1..head.spans : h.path[n] = g.path[n]
    BY <1>1, <1>3, <1>4, <1>6
  <2>2. \A n \in (0 + 1)..head.spans :
           /\ Rec(g).path[n] = Rec(h).path[n]
           /\ n + Taper[Rec(g).brush] > Spans(Rec(g)) <=> n + Taper[Rec(h).brush] > Spans(Rec(h))
    BY <2>1, <1>1, <1>2, <1>3, <1>4, <1>6, SMTT(30)
  <2>3. head.spans \in 0..head.spans
    BY <1>3
  <2>. DEFINE one == Rec(g)
              two == Rec(h)
  <2>4. /\ one \in Record /\ two \in Record
        /\ \A n \in (0 + 1)..head.spans :
             /\ one.path[n] = two.path[n]
             /\ n + Taper[one.brush] > Spans(one) <=> n + Taper[two.brush] > Spans(two)
    BY <2>2, <1>1, <1>2
  <2>. HIDE DEF one, two
  <2>5. LaySpans(ctx, base, actor, one, 0, head.spans) = LaySpans(ctx, base, actor, two, 0, head.spans)
    <3>. DEFINE bound == head.spans
    <3>1. /\ bound \in Nat /\ bound \in 0..bound /\ 0 \in Nat /\ ctx.tooth = ctx.tooth
          /\ \A n \in (0 + 1)..bound :
               /\ one.path[n] = two.path[n]
               /\ n + Taper[one.brush] > Spans(one) <=> n + Taper[two.brush] > Spans(two)
      BY <2>3, <2>4, <1>3
    <3>. HIDE DEF bound
    <3>2. \A to \in 0..bound : LaySpans(ctx, base, actor, one, 0, to) = LaySpans(ctx, base, actor, two, 0, to)
      BY <2>4, <3>1, LayingAgrees, SMTT(30)
    <3>. QED
      BY <3>1, <3>2 DEF bound
  <2>6. Covered(one, 0, head.spans) = Covered(two, 0, head.spans)
    BY <2>4 DEF Covered
  <2>7. Resolves(ctx, two)
    BY <2>1, <1>1, <1>2, <1>4, <1>6 DEF Resolves, one, two
  <2>8. head.spans <= h.frozen /\ head.spans + Taper[h.brush] <= Len(h.path)
    BY <2>1, <1>1, <1>2, <1>3, <1>4, <1>6, SMTT(30)
  <2>. QED
    BY <2>5, <2>6, <2>7, <2>8, <1>4 DEF HeadOn, one, two
<1>. QED
  BY <1>3, <1>5, <1>6

LEMMA StaleIs ==
  ASSUME NEW p, PreviewOK(p)
  PROVE  LET q == Stale(p)
         IN  /\ PreviewOK(q) /\ q.held = p.held /\ q.live = p.live /\ q.heads = p.heads
             /\ q.epoch = p.epoch /\ q.fold = p.fold /\ q.stale /\ q.prepared = p.prepared
<1>. DEFINE q == Stale(p)
<1>1. /\ p = [held |-> p.held, live |-> p.live, heads |-> p.heads, epoch |-> p.epoch,
              fold |-> p.fold, stale |-> p.stale, prepared |-> p.prepared]
      /\ p.held \in HeldEdit \cup {None} /\ p.live \in Document \cup {None} /\ p.heads \in Heads
      /\ p.epoch \in {0, 1} /\ p.fold \in {0, 1} /\ p.stale \in BOOLEAN
      /\ p.prepared \in PreparedStroke \cup {None}
  BY PreviewFields
<1>2. q = [p EXCEPT !.stale = TRUE]
  BY DEF Stale
<1>. HIDE DEF q
<1>3. q = [held |-> p.held, live |-> p.live, heads |-> p.heads, epoch |-> p.epoch,
           fold |-> p.fold, stale |-> TRUE, prepared |-> p.prepared]
  BY <1>1, <1>2
<1>4. PreviewOK(q)
  BY <1>1, <1>3, PreviewIs
<1>. QED
  BY <1>3, <1>4 DEF q

LEMMA GesturesMove ==
  ASSUME NEW ctx \in Context, NEW d \in Document, NEW p, PreviewOK(p),
         NEW gestures, NEW newest \in [Actor -> Nat],
         \A a \in Actor : gestures[a] \in GestureOf(a, newest[a]),
         NEW next, NEW latest \in [Actor -> Nat],
         \A a \in Actor : next[a] \in GestureOf(a, latest[a]),
         \A a \in Actor : newest[a] <= latest[a] /\ Follows(gestures[a], next[a], newest[a]),
         Kept(ctx, p, d, gestures, newest)
  PROVE  PreviewOK(Stale(p)) /\ Kept(ctx, Stale(p), d, next, latest)
<1>. DEFINE q == Stale(p)
<1>1. /\ PreviewOK(q) /\ q.held = p.held /\ q.heads = p.heads /\ q.stale /\ q.prepared = p.prepared
  BY StaleIs
<1>. HIDE DEF q
<1>2. p.heads \in Heads /\ p.held \in HeldEdit \cup {None}
  BY PreviewFields
<1>3. Base(q, d) = Base(p, d) /\ Base(p, d) \in Document
  BY <1>1, <1>2, BaseIs DEF Base, HeldDoc
<1>4. ASSUME NEW a \in DOMAIN q.heads
      PROVE  HeadKept(ctx, q.heads[a], Base(q, d), a, next[a], latest[a])
  <2>. DEFINE head == p.heads[a]
              base == Base(p, d)
              g == gestures[a]
              h == next[a]
  <2>1. a \in Actor /\ head \in FrozenHead /\ HeadKept(ctx, head, base, a, g, newest[a])
    BY <1>1, <1>2, HeadsAre DEF Kept, HeadsKept
  <2>2. /\ newest[a] \in Nat /\ latest[a] \in Nat /\ newest[a] <= latest[a]
        /\ g \in GestureOf(a, newest[a]) /\ h \in GestureOf(a, latest[a])
        /\ Follows(g, h, newest[a]) /\ base \in Document
    BY <2>1, <1>3
  <2>. HIDE DEF head, base, g, h
  <2>3. head.gesture \in Nat /\ head.gesture <= newest[a] /\ head.gesture <= latest[a]
    BY <2>1, <2>2 DEF FrozenHead, HeadKept
  <2>4. ASSUME head.current, ~head.contested, h # Idle, head.gesture = h.ordinal
        PROVE  HeadOn(ctx, head, base, a, h)
    <3>1. ~(h.ordinal > newest[a])
      BY <2>2, <2>3, <2>4
    <3>2. CASE h = g
      BY <3>2, <2>1, <2>4 DEF HeadKept
    <3>3. CASE h # g
      <4>1. /\ g # Idle /\ h.ordinal = g.ordinal /\ g.frozen <= h.frozen
            /\ g.frozen > 0 => /\ h.brush = g.brush /\ Len(g.path) <= Len(h.path)
                               /\ \A n \in 1..g.frozen : h.path[n] = g.path[n]
        BY <3>1, <3>3, <2>2, <2>4 DEF Follows
      <4>2. HeadOn(ctx, head, base, a, g)
        BY <4>1, <2>1, <2>4 DEF HeadKept
      <4>. QED
        BY <4>1, <4>2, <2>1, <2>2, <2>4, HeadFollows
    <3>. QED
      BY <3>2, <3>3
  <2>5. HeadKept(ctx, head, base, a, h, latest[a])
    BY <2>3, <2>4 DEF HeadKept
  <2>. QED
    BY <2>5, <1>1, <1>3 DEF head, base, h
<1>5. HeadsKept(ctx, q, d, next, latest)
  BY <1>4 DEF HeadsKept
<1>. QED
  BY <1>1, <1>5 DEF Kept, HeldKept, PreparedKept, PictureKept, q

LEMMA OpenedIs ==
  ASSUME NEW actor \in Actor, NEW kind \in Kind \cup {"snapped", "hover"}, NEW newest \in Nat,
         NEW g \in Opened(actor, kind, newest + 1)
  PROVE  g \in GestureOf(actor, newest + 1) /\ g.ordinal > newest
<1>1. PICK curve \in Curves[actor], b \in Brush :
        g = [kind |-> kind, path |-> curve, brush |-> b, ordinal |-> newest + 1, frozen |-> 0]
  BY DEF Opened
<1>2. curve \in Seq(Tile) /\ curve # <<>>
  BY CurvesAssumption
<1>3. Len(curve) > 0
  BY <1>2
<1>4. newest + 1 \in 1..(newest + 1)
  OBVIOUS
<1>. QED
  BY <1>1, <1>3, <1>4 DEF GestureOf

LEMMA ResolvedIs ==
  ASSUME NEW actor \in Actor, NEW newest \in Nat, NEW g \in GestureOf(actor, newest), g # Idle,
         NEW h \in Resolved(actor, g)
  PROVE  h \in GestureOf(actor, newest) /\ Follows(g, h, newest)
<1>. DEFINE fitted == g.kind = "stroke"
<1>. DEFINE Ahead == {c \in Curves[actor] : fitted => /\ Len(c) >= Len(g.path)
                                                     /\ IsPrefix(SubSeq(g.path, 1, g.frozen), c)}
            Onto(c) == {[g EXCEPT !.path = c, !.frozen = frozen] :
                           frozen \in IF fitted THEN g.frozen..(Len(c) - 1) ELSE {0}}
<1>0. h \in UNION {Onto(c) : c \in Ahead}
  BY Zenon DEF Resolved
<1>. HIDE DEF Ahead, Onto
<1>1. PICK curve \in Ahead : h \in Onto(curve)
  BY <1>0
<1>. USE DEF Ahead, Onto
<1>2. PICK frozen \in IF fitted THEN g.frozen..(Len(curve) - 1) ELSE {0} :
        h = [g EXCEPT !.path = curve, !.frozen = frozen]
  BY <1>1
<1>3. /\ g.path \in Seq(Tile) /\ Len(g.path) \in Nat /\ Len(g.path) > 0 /\ g.frozen \in Nat
      /\ g.frozen < Len(g.path) /\ (~fitted => g.frozen = 0)
      /\ g.ordinal \in 1..newest /\ g.brush \in Brush /\ g.kind \in Kind \cup {"snapped", "hover"}
  BY GestureFields
<1>4. g = [kind |-> g.kind, path |-> g.path, brush |-> g.brush, ordinal |-> g.ordinal, frozen |-> g.frozen]
  BY DEF GestureOf
<1>5. curve \in Curves[actor] /\ curve \in Seq(Tile) /\ Len(curve) \in Nat /\ Len(curve) > 0
  BY CurvesAssumption
<1>6. frozen \in Nat /\ g.frozen <= frozen /\ frozen < Len(curve) /\ (~fitted => frozen = 0)
  BY <1>3, <1>5
<1>7. h = [kind |-> g.kind, path |-> curve, brush |-> g.brush, ordinal |-> g.ordinal, frozen |-> frozen]
  BY <1>2, <1>4
<1>8. h \in GestureOf(actor, newest)
  BY <1>3, <1>5, <1>6, <1>7 DEF GestureOf
<1>9. h # Idle
  <2>1. g.kind # "none"
    BY <1>3, KindAssumption
  <2>2. h.kind = g.kind
    BY <1>7
  <2>. QED
    BY <2>1, <2>2 DEF Idle
<1>10. ASSUME g.frozen > 0
       PROVE  Len(g.path) <= Len(curve) /\ \A n \in 1..g.frozen : curve[n] = g.path[n]
  <2>1. fitted
    BY <1>3, <1>10
  <2>2. Len(curve) >= Len(g.path) /\ IsPrefix(SubSeq(g.path, 1, g.frozen), curve)
    BY <1>1, <2>1
  <2>. DEFINE settled == SubSeq(g.path, 1, g.frozen)
  <2>3. settled \in Seq(Tile) /\ Len(settled) = g.frozen /\ \A n \in 1..g.frozen : settled[n] = g.path[n]
    BY <1>3
  <2>4. \A n \in 1..g.frozen : curve[n] = settled[n]
    <3>. HIDE DEF settled
    <3>1. SubSeq(settled, 1, g.frozen) = SubSeq(curve, 1, g.frozen)
      <4>1. IsPrefix(settled, curve)
        BY <2>2 DEF settled
      <4>. QED
        BY <2>3, <4>1 DEF IsPrefix
    <3>2. \A n \in 1..g.frozen : SubSeq(settled, 1, g.frozen)[n] = settled[n]
      BY <2>3, <1>3
    <3>3. \A n \in 1..g.frozen : SubSeq(curve, 1, g.frozen)[n] = curve[n]
      BY <2>2, <1>3, <1>5
    <3>. QED
      BY <3>1, <3>2, <3>3
  <2>. QED
    BY <1>3, <1>5, <2>2, <2>3, <2>4
<1>. QED
  BY <1>6, <1>7, <1>8, <1>9, <1>10 DEF Follows

-----------------------------------------------------------------------------
(* What the doors keep                                                        *)

(* Holding an edit, or letting go of one: what is under the heads moves only  *)
(* with the epoch.                                                            *)
LEMMA HoldKeeps ==
  ASSUME NEW ctx \in Context, NEW d \in Document, NEW p, PreviewOK(p),
         NEW gestures, NEW newest, Kept(ctx, p, d, gestures, newest),
         NEW edit \in Edits \cup {None}
  PROVE  LET q == Hold(p, Held(edit, d))
         IN  /\ PreviewOK(q) /\ Kept(ctx, q, d, gestures, newest)
             /\ Presented(q, d) # Presented(p, d) => q.epoch # p.epoch
<1>. DEFINE held == Held(edit, d)
            r == [p EXCEPT !.held = held]
            q == Hold(p, held)
<1>1. /\ p = [held |-> p.held, live |-> p.live, heads |-> p.heads, epoch |-> p.epoch,
              fold |-> p.fold, stale |-> p.stale, prepared |-> p.prepared]
      /\ p.held \in HeldEdit \cup {None} /\ p.live \in Document \cup {None} /\ p.heads \in Heads
      /\ p.epoch \in {0, 1} /\ p.fold \in {0, 1} /\ p.stale \in BOOLEAN
      /\ p.prepared \in PreparedStroke \cup {None}
  BY PreviewFields
<1>2. held \in HeldEdit \cup {None} /\ (held # None => held = Held(held.edit, d))
  BY HeldIs
<1>. HIDE DEF held
<1>3. q = IF HeldDoc(p) # None \/ HeldDoc(r) # None THEN Invalidate(r) ELSE r
  BY DEF Hold
<1>4. r = [p EXCEPT !.held = held]
  OBVIOUS
<1>. HIDE DEF q, r
<1>5. r = [held |-> held, live |-> p.live, heads |-> p.heads, epoch |-> p.epoch,
           fold |-> p.fold, stale |-> p.stale, prepared |-> p.prepared]
  BY <1>1, <1>4
<1>6. PreviewOK(r)
  BY <1>1, <1>2, <1>5, PreviewIs
<1>7. /\ r.held = held /\ r.live = p.live /\ r.heads = p.heads /\ r.epoch = p.epoch
      /\ r.stale = p.stale /\ r.prepared = p.prepared
  BY <1>5
<1>8. HeldKept(r, d)
  BY <1>2, <1>7 DEF HeldKept
<1>9. \A a \in DOMAIN r.heads : r.heads[a].gesture <= newest[a]
  BY <1>7 DEF Kept, HeadsKept, HeadKept
<1>10. CASE HeldDoc(p) # None \/ HeldDoc(r) # None
  <2>1. q = Invalidate(r)
    BY <1>3, <1>10
  <2>2. PreviewOK(q) /\ Kept(ctx, q, d, gestures, newest)
    BY <2>1, <1>6, <1>8, <1>9, InvalidatedIsKept
  <2>3. q.epoch = 1 - r.epoch
    BY <2>1, <1>6, InvalidateDrops
  <2>4. q.epoch # p.epoch
    BY <2>3, <1>1, <1>7
  <2>. QED
    BY <2>2, <2>4 DEF q, held
<1>11. CASE HeldDoc(p) = None /\ HeldDoc(r) = None
  <2>1. q = r
    BY <1>3, <1>11
  <2>2. Base(q, d) = Base(p, d) /\ Presented(q, d) = Presented(p, d)
    BY <2>1, <1>7, <1>11 DEF Base, Presented
  <2>3. HeadsKept(ctx, q, d, gestures, newest)
    BY <2>1, <2>2, <1>7 DEF Kept, HeadsKept
  <2>4. PictureKept(ctx, q, d, gestures)
    BY <2>1, <2>2, <1>7 DEF Kept, PictureKept, Shows
  <2>5. Kept(ctx, q, d, gestures, newest)
    BY <2>1, <2>3, <2>4, <1>7, <1>8 DEF Kept, PreparedKept
  <2>. QED
    BY <2>1, <2>2, <2>5, <1>6 DEF q, held
<1>. QED
  BY <1>10, <1>11

(* A shape that arrives: what was drawn before was drawn without it.          *)
LEMMA ShapeKeeps ==
  ASSUME NEW ctx \in Context, NEW next \in Context, next.tooth = ctx.tooth, ~ctx.arrived, next.arrived,
         NEW d \in Document, NEW p, PreviewOK(p),
         NEW gestures, NEW newest \in [Actor -> Nat],
         \A a \in Actor : gestures[a] \in GestureOf(a, newest[a]),
         Kept(ctx, p, d, gestures, newest)
  PROVE  Kept(next, p, d, gestures, newest)
<1>1. p.heads \in Heads /\ p.held \in HeldEdit \cup {None} /\ p.prepared \in PreparedStroke \cup {None}
  BY PreviewFields
<1>2. Base(p, d) \in Document
  BY <1>1, BaseIs
<1>3. \A rec : Resolves(next, rec)
  BY DEF Resolves
<1>4. ASSUME NEW a \in DOMAIN p.heads
      PROVE  HeadKept(next, p.heads[a], Base(p, d), a, gestures[a], newest[a])
  <2>. DEFINE head == p.heads[a]
              base == Base(p, d)
              g == gestures[a]
              rec == Rec(g)
  <2>1. a \in Actor /\ head \in FrozenHead /\ HeadKept(ctx, head, base, a, g, newest[a])
    BY <1>1, HeadsAre DEF Kept, HeadsKept
  <2>2. ASSUME head.current, ~head.contested, g # Idle, head.gesture = g.ordinal
        PROVE  HeadOn(next, head, base, a, g)
    <3>1. HeadOn(ctx, head, base, a, g)
      BY <2>1, <2>2 DEF HeadKept
    <3>2. newest[a] \in Nat /\ g \in GestureOf(a, newest[a])
      BY <2>1
    <3>. HIDE DEF g, head, base
    <3>3. rec \in Record /\ Spans(rec) = Len(g.path) /\ g.frozen < Len(g.path) /\ g.frozen \in Nat
          /\ Len(g.path) \in Nat
      BY <3>2, <2>1, <2>2, GestureFields
    <3>. HIDE DEF rec
    <3>4. /\ head.spans \in Nat /\ head.spans <= g.frozen
          /\ head.spans > 0 => Resolves(ctx, rec)
          /\ head.state = LaySpans(ctx, base, a, rec, 0, head.spans)
      BY <2>1, <3>1 DEF HeadOn, FrozenHead, rec
    <3>5. head.state = LaySpans(next, base, a, rec, 0, head.spans)
      <4>1. CASE head.spans = 0
        BY <4>1, <3>3, <3>4, <2>1, <1>2, LaySpansUnfold DEF base
      <4>2. CASE head.spans > 0
        <5>1. head.spans \in 0..Spans(rec) /\ Resolves(ctx, rec) /\ Resolves(next, rec) /\ base \in Document
          BY <4>2, <3>3, <3>4, <1>2, <1>3 DEF base
        <5>2. \A to \in 0..Spans(rec) : LaySpans(ctx, base, a, rec, 0, to) = LaySpans(next, base, a, rec, 0, to)
          BY <5>1, <3>3, <2>1, RenderOnceResolved
        <5>. QED
          BY <5>1, <5>2, <3>4
      <4>. QED
        BY <4>1, <4>2, <3>4
    <3>. QED
      BY <3>1, <3>5, <1>3 DEF HeadOn, rec
  <2>. QED
    BY <2>1, <2>2 DEF HeadKept
<1>5. ASSUME p.prepared # None
      PROVE  PreparedOn(next, d, p.prepared)
  <2>. DEFINE rec == p.prepared.rec
  <2>1. rec \in Record /\ PreparedOn(ctx, d, p.prepared)
    BY <1>1, <1>5 DEF PreparedStroke, Record, Kept, PreparedKept
  <2>2. Resolves(ctx, rec) /\ Resolves(next, rec)
    BY <2>1, <1>3 DEF PreparedOn
  <2>3. Me \in Actor
    BY DEF Actor
  <2>. HIDE DEF rec
  <2>4. Render(ctx, d, Me, rec) = Render(next, d, Me, rec)
    BY <2>1, <2>2, <2>3, RenderOnceResolved
  <2>. QED
    BY <2>1, <2>2, <2>4 DEF PreparedOn, rec
<1>6. PictureKept(next, p, d, gestures)
  <2>1. SUFFICES ASSUME ~p.stale PROVE Shows(next, p, d, gestures, FALSE)
    BY DEF PictureKept
  <2>2. ctx.arrived = FALSE
    BY DEF Context
  <2>3. Shows(ctx, p, d, gestures, FALSE)
    BY <2>1, <2>2 DEF Kept, PictureKept
  <2>4. [ctx EXCEPT !.arrived = FALSE] = [next EXCEPT !.arrived = FALSE]
    BY DEF Context
  <2>. QED
    BY <2>3, <2>4 DEF Shows
<1>. QED
  BY <1>4, <1>5, <1>6 DEF Kept, HeadsKept, PreparedKept

LEMMA SupersedeIs ==
  ASSUME NEW p, PreviewOK(p)
  PROVE  LET q == [p EXCEPT !.held = None]
         IN  /\ PreviewOK(q) /\ q.held = None /\ q.heads = p.heads /\ q.live = p.live
             /\ Supersede(p) = Invalidate(q)
<1>. DEFINE q == [p EXCEPT !.held = None]
<1>1. /\ p = [held |-> p.held, live |-> p.live, heads |-> p.heads, epoch |-> p.epoch,
              fold |-> p.fold, stale |-> p.stale, prepared |-> p.prepared]
      /\ p.held \in HeldEdit \cup {None} /\ p.live \in Document \cup {None} /\ p.heads \in Heads
      /\ p.epoch \in {0, 1} /\ p.fold \in {0, 1} /\ p.stale \in BOOLEAN
      /\ p.prepared \in PreparedStroke \cup {None}
  BY PreviewFields
<1>2. q = [p EXCEPT !.held = None] /\ Supersede(p) = Invalidate(q)
  BY DEF Supersede
<1>. HIDE DEF q
<1>3. q = [held |-> None, live |-> p.live, heads |-> p.heads, epoch |-> p.epoch,
           fold |-> p.fold, stale |-> p.stale, prepared |-> p.prepared]
  BY <1>1, <1>2
<1>4. PreviewOK(q)
  BY <1>1, <1>3, PreviewIs
<1>. QED
  BY <1>2, <1>3, <1>4 DEF q

LEMMA TakenIs ==
  ASSUME NEW p, PreviewOK(p)
  PROVE  LET q == [p EXCEPT !.prepared = None]
         IN  /\ PreviewOK(q) /\ q.held = p.held /\ q.heads = p.heads
<1>. DEFINE q == [p EXCEPT !.prepared = None]
<1>1. /\ p = [held |-> p.held, live |-> p.live, heads |-> p.heads, epoch |-> p.epoch,
              fold |-> p.fold, stale |-> p.stale, prepared |-> p.prepared]
      /\ p.held \in HeldEdit \cup {None} /\ p.live \in Document \cup {None} /\ p.heads \in Heads
      /\ p.epoch \in {0, 1} /\ p.fold \in {0, 1} /\ p.stale \in BOOLEAN
      /\ p.prepared \in PreparedStroke \cup {None}
  BY PreviewFields
<1>2. q = [p EXCEPT !.prepared = None]
  OBVIOUS
<1>. HIDE DEF q
<1>3. q = [held |-> p.held, live |-> p.live, heads |-> p.heads, epoch |-> p.epoch,
           fold |-> p.fold, stale |-> p.stale, prepared |-> None]
  BY <1>1, <1>2
<1>4. PreviewOK(q)
  BY <1>1, <1>3, PreviewIs
<1>. QED
  BY <1>3, <1>4 DEF q

-----------------------------------------------------------------------------
(* The steps                                                                  *)

LEMMA GesturesAre ==
  /\ \A a \in Actor : Gestures[a] = IF a = Me THEN hand ELSE peers[a]
  /\ \A a \in Actor : Gestures'[a] = IF a = Me THEN hand' ELSE peers'[a]
  /\ Me \in Actor /\ Peer \subseteq Actor /\ Me \notin Peer /\ \A a \in Actor : a # Me => a \in Peer
BY ActorAssumption DEF Gestures, Actor

LEMMA GesturesGrow ==
  ASSUME NEW actor, NEW newest \in Nat, NEW latest \in Nat, newest <= latest
  PROVE  /\ GestureOf(actor, newest) \subseteq GestureOf(actor, latest)
         /\ Idle \in GestureOf(actor, latest)
<1>1. 1..newest \subseteq 1..latest
  OBVIOUS
<1>2. Idle \in GestureOf(actor, latest)
  BY DEF GestureOf
<1>3. ASSUME NEW g \in GestureOf(actor, newest), g # Idle
      PROVE  g \in GestureOf(actor, latest)
  BY <1>1, <1>3 DEF GestureOf
<1>. QED
  BY <1>2, <1>3

LEMMA GesturesTo ==
  ASSUME IInv, NEW q, PreviewOK(q), Kept(Ctx, q, doc, Gestures, ordinals),
         preview' = Stale(q), UNCHANGED <<doc, past, revision, tooth, arrived>>,
         ordinals' \in [Actor -> Nat], peers' = [a \in Peer |-> peers'[a]],
         \A a \in Actor : /\ ordinals[a] <= ordinals'[a]
                          /\ Gestures'[a] \in GestureOf(a, ordinals'[a])
                          /\ Follows(Gestures[a], Gestures'[a], ordinals[a])
  PROVE  IInv'
<1>1. /\ Ctx \in Context /\ doc \in Document /\ ordinals \in [Actor -> Nat]
      /\ \A a \in Actor : Gestures[a] \in GestureOf(a, ordinals[a])
  BY TypesGive DEF IInv
<1>2. Ctx' = Ctx
  BY DEF Ctx
<1>. DEFINE next == Gestures'
            latest == ordinals'
<1>3. /\ latest \in [Actor -> Nat]
      /\ \A a \in Actor : next[a] \in GestureOf(a, latest[a])
      /\ \A a \in Actor : ordinals[a] <= latest[a] /\ Follows(Gestures[a], next[a], ordinals[a])
  OBVIOUS
<1>. HIDE DEF next, latest
<1>4. PreviewOK(Stale(q)) /\ Kept(Ctx, Stale(q), doc, next, latest)
  BY <1>1, <1>3, GesturesMove
<1>5. PreviewOK(preview') /\ Kept(Ctx', preview', doc', Gestures', ordinals')
  BY <1>2, <1>4 DEF next, latest
<1>6. TypeOK'
  BY <1>1, <1>5 DEF IInv, TypeOK
<1>. QED
  BY <1>5, <1>6 DEF IInv

LEMMA HandTo ==
  ASSUME IInv, NEW q, PreviewOK(q), Kept(Ctx, q, doc, Gestures, ordinals),
         preview' = Stale(q), UNCHANGED <<doc, past, revision, tooth, arrived, peers>>,
         ordinals' \in [Actor -> Nat], \A a \in Actor : ordinals[a] <= ordinals'[a],
         hand' \in GestureOf(Me, ordinals'[Me]), Follows(hand, hand', ordinals[Me])
  PROVE  IInv'
<1>1. /\ ordinals \in [Actor -> Nat] /\ peers = [a \in Peer |-> peers[a]]
      /\ \A a \in Actor : Gestures[a] \in GestureOf(a, ordinals[a])
  BY DEF IInv, TypeOK
<1>2. ASSUME NEW a \in Actor
      PROVE  /\ Gestures'[a] \in GestureOf(a, ordinals'[a])
             /\ Follows(Gestures[a], Gestures'[a], ordinals[a])
  <2>1. CASE a = Me
    BY <2>1, GesturesAre
  <2>2. CASE a # Me
    <3>1. Gestures'[a] = Gestures[a]
      BY <2>2, GesturesAre
    <3>2. Gestures[a] \in GestureOf(a, ordinals'[a])
      <4>1. ordinals[a] \in Nat /\ ordinals'[a] \in Nat /\ ordinals[a] <= ordinals'[a]
        BY <1>1
      <4>. QED
        BY <4>1, <1>1, GesturesGrow
    <3>. QED
      BY <3>1, <3>2 DEF Follows
  <2>. QED
    BY <2>1, <2>2
<1>. QED
  BY <1>1, <1>2, GesturesTo

(* Steps of the local hand over the preview as it is.                         *)
LEMMA HandsMove ==
  ASSUME IInv, NEW g, Hands(g, preview),
         ordinals' \in [Actor -> Nat], \A a \in Actor : ordinals[a] <= ordinals'[a],
         g \in GestureOf(Me, ordinals'[Me]), Follows(hand, g, ordinals[Me])
  PROVE  IInv'
<1>1. PreviewOK(preview) /\ Kept(Ctx, preview, doc, Gestures, ordinals)
  BY DEF IInv, TypeOK
<1>2. /\ hand' = g /\ preview' = Stale(preview)
      /\ UNCHANGED <<doc, past, revision, tooth, arrived, peers>>
  BY DEF Hands
<1>. QED
  BY <1>1, <1>2, HandTo

LEMMA OpensKeeps ==
  ASSUME IInv, NEW kind \in Kind \cup {"snapped", "hover"}, Opens(kind)
  PROVE  IInv'
<1>1. ordinals \in [Actor -> Nat] /\ Me \in Actor
  BY GesturesAre DEF IInv, TypeOK
<1>2. ordinals' = [ordinals EXCEPT ![Me] = @ + 1]
  BY DEF Opens
<1>3. PICK g \in Opened(Me, kind, ordinals[Me] + 1) : Hands(g, preview)
  BY DEF Opens
<1>4. /\ ordinals' \in [Actor -> Nat] /\ \A a \in Actor : ordinals[a] <= ordinals'[a]
      /\ ordinals'[Me] = ordinals[Me] + 1 /\ ordinals[Me] \in Nat
  BY <1>1, <1>2
<1>5. g \in GestureOf(Me, ordinals[Me] + 1) /\ g.ordinal > ordinals[Me]
  BY <1>1, <1>4, OpenedIs
<1>6. Follows(hand, g, ordinals[Me])
  BY <1>5 DEF Follows
<1>. QED
  BY <1>3, <1>4, <1>5, <1>6, HandsMove

LEMMA HandIs ==
  ASSUME IInv
  PROVE  /\ ordinals \in [Actor -> Nat] /\ ordinals[Me] \in Nat /\ Me \in Actor
         /\ hand \in GestureOf(Me, ordinals[Me]) /\ \A a \in Actor : ordinals[a] <= ordinals[a]
<1>1. ordinals \in [Actor -> Nat] /\ Me \in Actor /\ Gestures[Me] \in GestureOf(Me, ordinals[Me])
  BY GesturesAre DEF IInv, TypeOK
<1>. QED
  BY <1>1, GesturesAre

LEMMA HandStepsKeep ==
  ASSUME IInv, Start \/ GestureTo \/ AssistStroke \/ HoverTo \/ SetBrush \/ CancelStroke
  PROVE  IInv'
<1>1. /\ ordinals \in [Actor -> Nat] /\ ordinals[Me] \in Nat /\ Me \in Actor
      /\ hand \in GestureOf(Me, ordinals[Me]) /\ \A a \in Actor : ordinals[a] <= ordinals[a]
  BY HandIs
<1>2. CASE Start
  BY <1>2, OpensKeeps DEF Start
<1>3. CASE AssistStroke
  BY <1>3, OpensKeeps DEF AssistStroke
<1>4. CASE HoverTo
  BY <1>4, OpensKeeps DEF HoverTo
<1>5. CASE GestureTo
  <2>1. PICK g \in Resolved(Me, hand) : Hands(g, preview)
    BY <1>5 DEF GestureTo
  <2>2. ordinals' = ordinals /\ hand # Idle
    BY <1>5 DEF GestureTo, Gesturing, Idle
  <2>3. g \in GestureOf(Me, ordinals[Me]) /\ Follows(hand, g, ordinals[Me])
    BY <1>1, <2>1, <2>2, ResolvedIs
  <2>. QED
    BY <1>1, <2>1, <2>2, <2>3, HandsMove
<1>6. CASE SetBrush
  <2>1. PICK b \in Brush : Hands(IF hand.kind = "hover" THEN [hand EXCEPT !.brush = b] ELSE hand, preview)
    BY <1>6 DEF SetBrush
  <2>2. ordinals' = ordinals
    BY <1>6 DEF SetBrush
  <2>. DEFINE g == IF hand.kind = "hover" THEN [hand EXCEPT !.brush = b] ELSE hand
  <2>3. CASE hand.kind # "hover"
    <3>1. g = hand /\ Hands(g, preview)
      BY <2>1, <2>3
    <3>2. Follows(hand, g, ordinals[Me])
      BY <3>1 DEF Follows
    <3>. HIDE DEF g
    <3>. QED
      BY <1>1, <2>2, <3>1, <3>2, HandsMove
  <2>4. CASE hand.kind = "hover"
    <3>1. hand # Idle
      BY <2>4 DEF Idle
    <3>2. /\ hand.path \in Curves[Me] /\ hand.ordinal \in 1..ordinals[Me] /\ hand.frozen = 0
          /\ hand.frozen \in Nat /\ hand.frozen < Len(hand.path) /\ Len(hand.path) \in Nat
      BY <1>1, <2>4, <3>1, GestureFields
    <3>3. hand = [kind |-> hand.kind, path |-> hand.path, brush |-> hand.brush,
                  ordinal |-> hand.ordinal, frozen |-> hand.frozen]
      BY <1>1, <3>1 DEF GestureOf
    <3>4. g = [hand EXCEPT !.brush = b] /\ Hands(g, preview)
      BY <2>1, <2>4
    <3>. HIDE DEF g
    <3>5. g = [kind |-> "hover", path |-> hand.path, brush |-> b, ordinal |-> hand.ordinal, frozen |-> 0]
      BY <2>4, <3>2, <3>3, <3>4
    <3>6. g \in GestureOf(Me, ordinals[Me])
      BY <3>2, <3>5 DEF GestureOf
    <3>7. g # Idle
      BY <3>5 DEF Idle
    <3>8. Follows(hand, g, ordinals[Me])
      BY <3>1, <3>2, <3>5, <3>7 DEF Follows
    <3>. QED
      BY <1>1, <2>2, <3>4, <3>6, <3>8, HandsMove
  <2>. QED
    BY <2>3, <2>4
<1>7. CASE CancelStroke
  <2>1. Hands(Idle, preview) /\ ordinals' = ordinals
    BY <1>7 DEF CancelStroke
  <2>2. Idle \in GestureOf(Me, ordinals[Me]) /\ Follows(hand, Idle, ordinals[Me])
    BY DEF GestureOf, Follows
  <2>. QED
    BY <1>1, <2>1, <2>2, HandsMove
<1>. QED
  BY <1>2, <1>3, <1>4, <1>5, <1>6, <1>7

LEMMA PeerStepKeeps ==
  ASSUME IInv, MergePresence
  PROVE  IInv'
<1>1. /\ ordinals \in [Actor -> Nat] /\ peers = [a \in Peer |-> peers[a]]
      /\ \A a \in Actor : Gestures[a] \in GestureOf(a, ordinals[a])
      /\ PreviewOK(preview) /\ Kept(Ctx, preview, doc, Gestures, ordinals)
  BY DEF IInv, TypeOK
<1>2. ASSUME NEW p \in Peer, NEW g, PeerShows(p, g),
             ordinals' \in [Actor -> Nat], \A a \in Actor : ordinals[a] <= ordinals'[a],
             g \in GestureOf(p, ordinals'[p]), Follows(peers[p], g, ordinals[p])
      PROVE  IInv'
  <2>1. /\ peers' = [peers EXCEPT ![p] = g] /\ preview' = Stale(preview)
        /\ UNCHANGED <<doc, past, revision, tooth, arrived, hand>>
    BY <1>2 DEF PeerShows
  <2>2. /\ peers' = [a \in Peer |-> peers'[a]] /\ peers'[p] = g
        /\ \A a \in Peer : a # p => peers'[a] = peers[a]
    BY <1>1, <2>1
  <2>3. ASSUME NEW a \in Actor
        PROVE  /\ Gestures'[a] \in GestureOf(a, ordinals'[a])
               /\ Follows(Gestures[a], Gestures'[a], ordinals[a])
    <3>1. CASE a = p
      BY <3>1, <1>2, <2>2, GesturesAre
    <3>2. CASE a # p
      <4>1. Gestures'[a] = Gestures[a]
        BY <3>2, <2>1, <2>2, GesturesAre
      <4>2. ordinals[a] \in Nat /\ ordinals'[a] \in Nat /\ ordinals[a] <= ordinals'[a]
        BY <1>1, <1>2
      <4>3. Gestures[a] \in GestureOf(a, ordinals'[a])
        BY <4>2, <1>1, GesturesGrow
      <4>. QED
        BY <4>1, <4>3 DEF Follows
    <3>. QED
      BY <3>1, <3>2
  <2>. QED
    BY <1>1, <1>2, <2>1, <2>2, <2>3, GesturesTo
<1>3. PICK p \in Peer :
        \/ /\ ordinals[p] < MaxOrdinal
           /\ ordinals' = [ordinals EXCEPT ![p] = @ + 1]
           /\ \E kind \in Kind : \E g \in Opened(p, kind, ordinals[p] + 1) : PeerShows(p, g)
        \/ /\ peers[p] # Idle
           /\ UNCHANGED ordinals
           /\ \E g \in Resolved(p, peers[p]) \cup {Idle} : PeerShows(p, g)
  BY DEF MergePresence
<1>4. /\ p \in Actor /\ ordinals[p] \in Nat /\ peers[p] \in GestureOf(p, ordinals[p])
  BY <1>1, GesturesAre
<1>5. CASE /\ ordinals' = [ordinals EXCEPT ![p] = @ + 1]
           /\ \E kind \in Kind : \E g \in Opened(p, kind, ordinals[p] + 1) : PeerShows(p, g)
  <2>1. PICK kind \in Kind : \E g \in Opened(p, kind, ordinals[p] + 1) : PeerShows(p, g)
    BY <1>5
  <2>2. PICK g \in Opened(p, kind, ordinals[p] + 1) : PeerShows(p, g)
    BY <2>1
  <2>3. /\ ordinals' \in [Actor -> Nat] /\ \A a \in Actor : ordinals[a] <= ordinals'[a]
        /\ ordinals'[p] = ordinals[p] + 1
    BY <1>1, <1>4, <1>5
  <2>4. g \in GestureOf(p, ordinals[p] + 1) /\ g.ordinal > ordinals[p]
    BY <1>4, OpenedIs
  <2>5. Follows(peers[p], g, ordinals[p])
    BY <2>4 DEF Follows
  <2>. QED
    BY <1>2, <2>2, <2>3, <2>4, <2>5
<1>6. CASE /\ peers[p] # Idle
           /\ UNCHANGED ordinals
           /\ \E g \in Resolved(p, peers[p]) \cup {Idle} : PeerShows(p, g)
  <2>1. PICK g \in Resolved(p, peers[p]) \cup {Idle} : PeerShows(p, g)
    BY <1>6
  <2>2. /\ ordinals' \in [Actor -> Nat] /\ \A a \in Actor : ordinals[a] <= ordinals'[a]
        /\ ordinals'[p] = ordinals[p]
    BY <1>1, <1>6
  <2>3. g \in GestureOf(p, ordinals[p]) /\ Follows(peers[p], g, ordinals[p])
    <3>1. CASE g = Idle
      BY <3>1 DEF GestureOf, Follows
    <3>2. CASE g \in Resolved(p, peers[p])
      BY <3>2, <1>4, <1>6, ResolvedIs
    <3>. QED
      BY <3>1, <3>2
  <2>. QED
    BY <1>2, <2>1, <2>2, <2>3
<1>. QED
  BY <1>3, <1>5, <1>6

(* The committed document moves: no gesture begins with it, and the preview   *)
(* is invalidated over the new one.                                           *)
LEMMA ChangedKeeps ==
  ASSUME IInv, NEW d \in Document, NEW history \in Seq(Document), NEW p, PreviewOK(p),
         HeldKept(p, d), \A a \in DOMAIN p.heads : p.heads[a].gesture <= ordinals[a],
         ChangeCommitted(d, history, Invalidate(p)), UNCHANGED ordinals,
         hand' \in {hand, Idle}, peers' = [a \in Peer |-> peers'[a]],
         \A a \in Peer : peers'[a] \in {peers[a], Idle}
  PROVE  IInv'
<1>1. /\ TypeOK /\ ordinals \in [Actor -> Nat] /\ revision \in Nat
      /\ \A a \in Actor : Gestures[a] \in GestureOf(a, ordinals[a])
  BY DEF IInv, TypeOK
<1>2. /\ revision' = revision + 1 /\ doc' = d /\ past' = history /\ preview' = Invalidate(p)
      /\ tooth' = tooth /\ arrived' = arrived
  BY DEF ChangeCommitted
<1>3. \A a \in Actor : Gestures'[a] \in GestureOf(a, ordinals'[a])
  <2>1. ASSUME NEW a \in Actor
        PROVE  Gestures'[a] \in {Gestures[a], Idle}
    BY GesturesAre
  <2>2. \A a \in Actor : Idle \in GestureOf(a, ordinals[a])
    BY DEF GestureOf
  <2>. QED
    BY <1>1, <2>1, <2>2
<1>. DEFINE next == Gestures'
            context == Ctx'
<1>. HIDE DEF next, context
<1>4. PreviewOK(Invalidate(p)) /\ Kept(context, Invalidate(p), d, next, ordinals)
  BY InvalidatedIsKept
<1>5. PreviewOK(preview') /\ Kept(Ctx', preview', doc', Gestures', ordinals')
  BY <1>2, <1>4 DEF next, context
<1>6. TypeOK'
  BY <1>1, <1>2, <1>3, <1>5 DEF TypeOK
<1>. QED
  BY <1>5, <1>6 DEF IInv

LEMMA SupersededKeeps ==
  ASSUME IInv, NEW d \in Document, NEW history \in Seq(Document), NEW p, PreviewOK(p),
         \A a \in DOMAIN p.heads : p.heads[a].gesture <= ordinals[a],
         ChangeCommitted(d, history, Supersede(p)), UNCHANGED <<ordinals, peers>>,
         hand' \in {hand, Idle}
  PROVE  IInv'
<1>. DEFINE q == [p EXCEPT !.held = None]
<1>1. /\ PreviewOK(q) /\ q.held = None /\ q.heads = p.heads /\ Supersede(p) = Invalidate(q)
  BY SupersedeIs
<1>. HIDE DEF q
<1>2. HeldKept(q, d) /\ \A a \in DOMAIN q.heads : q.heads[a].gesture <= ordinals[a]
  BY <1>1 DEF HeldKept
<1>3. ChangeCommitted(d, history, Invalidate(q))
  BY <1>1
<1>4. peers' = [a \in Peer |-> peers'[a]] /\ \A a \in Peer : peers'[a] \in {peers[a], Idle}
  BY DEF IInv, TypeOK
<1>. QED
  BY <1>1, <1>2, <1>3, <1>4, ChangedKeeps

LEMMA KeptNow ==
  ASSUME IInv
  PROVE  /\ PreviewOK(preview) /\ Kept(Ctx, preview, doc, Gestures, ordinals)
         /\ doc \in Document /\ past \in Seq(Document) /\ Append(past, doc) \in Seq(Document)
         /\ Ctx \in Context /\ Complete \in Context /\ Me \in Actor
         /\ \A a \in DOMAIN preview.heads : preview.heads[a].gesture <= ordinals[a]
<1>1. /\ PreviewOK(preview) /\ Kept(Ctx, preview, doc, Gestures, ordinals)
      /\ doc \in Document /\ past \in Seq(Document)
  BY DEF IInv, TypeOK
<1>2. \A a \in DOMAIN preview.heads : preview.heads[a].gesture <= ordinals[a]
  BY <1>1 DEF Kept, HeadsKept, HeadKept
<1>. QED
  BY <1>1, <1>2, TypesGive, GesturesAre DEF IInv

(* Taking the offer and rendering the record leave the same document.         *)
LEMMA OfferIsTheRender ==
  ASSUME NEW ctx \in Context, NEW d \in Document, NEW rec \in Record, NEW p, PreviewOK(p),
         PreparedKept(ctx, p, d), NEW offer \in {p.prepared, None},
         offer # None, IsRenderOf(offer, rec, d)
  PROVE  [d EXCEPT !.paint = offer.painted] = Render(ctx, d, Me, rec)
<1>1. Me \in Actor
  BY GesturesAre
<1>2. offer.rec = rec /\ offer.painted = Render(ctx, d, Me, rec).paint
  BY DEF PreparedKept, PreparedOn, IsRenderOf
<1>. DEFINE after == Render(ctx, d, Me, rec)
<1>3. after \in Document /\ after.mask = d.mask
  BY <1>1, RenderKeeps
<1>. HIDE DEF after
<1>4. after = [paint |-> after.paint, mask |-> after.mask] /\ d = [paint |-> d.paint, mask |-> d.mask]
  BY <1>3 DEF Document
<1>. QED
  BY <1>2, <1>3, <1>4 DEF after

LEMMA StrokeApplies ==
  ASSUME IInv, NEW rec \in Record, NEW p, PreviewOK(p), PreparedKept(Ctx, p, doc),
         NEW offer \in {p.prepared, None}
  PROVE  /\ StrokeApply(doc, rec, offer) = Render(Ctx, doc, Me, rec)
         /\ StrokeApply(doc, rec, offer) \in Document
<1>1. Ctx \in Context /\ doc \in Document /\ Me \in Actor
  BY KeptNow
<1>2. StrokeApply(doc, rec, offer) = Render(Ctx, doc, Me, rec)
  BY <1>1, OfferIsTheRender DEF StrokeApply
<1>3. Render(Ctx, doc, Me, rec) \in Document
  BY <1>1, RenderKeeps
<1>. QED
  BY <1>2, <1>3

LEMMA EndKeeps ==
  ASSUME IInv, End
  PROVE  /\ IInv'
         /\ Stroking /\ past' # past => doc' = Render(Ctx, doc, Me, Rec(hand))
<1>. DEFINE flushed == IF Stroking THEN FlushLive(preview, doc) ELSE preview
            taken == [flushed EXCEPT !.prepared = None]
<1>1. /\ PreviewOK(preview) /\ Kept(Ctx, preview, doc, Gestures, ordinals)
      /\ doc \in Document /\ Append(past, doc) \in Seq(Document)
      /\ Ctx \in Context /\ Me \in Actor
  BY KeptNow
<1>2. /\ ordinals \in [Actor -> Nat] /\ ordinals[Me] \in Nat
      /\ hand \in GestureOf(Me, ordinals[Me]) /\ \A a \in Actor : ordinals[a] <= ordinals[a]
  BY HandIs
<1>3. hand # Idle /\ hand' = Idle /\ UNCHANGED <<ordinals, peers>>
  BY DEF End, Gesturing, Idle
<1>4. Rec(hand) \in Record
  <2>. DEFINE newest == ordinals[Me]
  <2>1. newest \in Nat /\ hand \in GestureOf(Me, newest) /\ hand # Idle /\ Me \in Actor
    BY <1>1, <1>2, <1>3
  <2>. HIDE DEF newest
  <2>. QED
    BY <2>1, GestureFields
<1>5. PreviewOK(flushed) /\ Kept(Ctx, flushed, doc, Gestures, ordinals)
  BY <1>1, FlushKeeps
<1>6. IF Stroking /\ Refuses(Rec(hand))
      THEN preview' = Stale(flushed) /\ UNCHANGED <<doc, past, revision, tooth, arrived>>
      ELSE IF Stroking
      THEN \E fast \in BOOLEAN :
             Commit(StrokeApply(doc, Rec(hand), IF fast THEN flushed.prepared ELSE None), taken)
      ELSE Commit(IF hand.kind = "fill" THEN FillOnto(doc, Me, hand.path) ELSE SelectOnto(doc, Me), flushed)
  BY Zenon DEF End
<1>. HIDE DEF flushed
<1>7. PreviewOK(taken) /\ taken.heads = flushed.heads
  BY <1>5, TakenIs
<1>8. \A a \in DOMAIN flushed.heads : flushed.heads[a].gesture <= ordinals[a]
  BY <1>5 DEF Kept, HeadsKept, HeadKept
<1>. HIDE DEF taken
<1>9. CASE Stroking /\ Refuses(Rec(hand))
  <2>1. preview' = Stale(flushed) /\ UNCHANGED <<doc, past, revision, tooth, arrived>>
    BY <1>6, <1>9
  <2>2. hand' \in GestureOf(Me, ordinals'[Me]) /\ Follows(hand, hand', ordinals[Me])
    BY <1>3 DEF GestureOf, Follows
  <2>3. IInv'
    BY <1>2, <1>3, <1>5, <2>1, <2>2, HandTo
  <2>. QED
    BY <2>1, <2>3
<1>10. CASE Stroking /\ ~Refuses(Rec(hand))
  <2>1. PICK fast \in BOOLEAN :
          Commit(StrokeApply(doc, Rec(hand), IF fast THEN flushed.prepared ELSE None), taken)
    BY <1>6, <1>10
  <2>. DEFINE offer == IF fast THEN flushed.prepared ELSE None
              d == StrokeApply(doc, Rec(hand), offer)
  <2>2. offer \in {flushed.prepared, None} /\ PreparedKept(Ctx, flushed, doc)
    BY <1>5 DEF Kept
  <2>3. ChangeCommitted(d, Append(past, doc), Supersede(taken))
    BY <2>1 DEF Commit
  <2>. HIDE DEF offer
  <2>4. d = Render(Ctx, doc, Me, Rec(hand)) /\ d \in Document
    BY <1>4, <1>5, <2>2, StrokeApplies
  <2>. HIDE DEF d
  <2>5. IInv'
    BY <1>1, <1>3, <1>7, <1>8, <2>3, <2>4, SupersededKeeps
  <2>6. doc' = d
    BY <2>3 DEF ChangeCommitted
  <2>. QED
    BY <2>4, <2>5, <2>6
<1>11. CASE ~Stroking
  <2>. DEFINE d == IF hand.kind = "fill" THEN FillOnto(doc, Me, hand.path) ELSE SelectOnto(doc, Me)
  <2>1. ChangeCommitted(d, Append(past, doc), Supersede(flushed))
    BY <1>6, <1>11 DEF Commit
  <2>2. d \in Document
    BY <1>1, FillLays, SelectMoves
  <2>. HIDE DEF d
  <2>3. IInv'
    BY <1>1, <1>3, <1>5, <1>8, <2>1, <2>2, SupersededKeeps
  <2>. QED
    BY <1>11, <2>3
<1>. QED
  BY <1>9, <1>10, <1>11

(* What happens over the document and the hands as they are.                  *)
LEMMA PreviewTo ==
  ASSUME IInv, PreviewOK(preview'), Kept(Ctx, preview', doc, Gestures, ordinals),
         UNCHANGED <<doc, past, revision, tooth, arrived, hand, ordinals, peers>>
  PROVE  IInv'
<1>1. Ctx' = Ctx /\ Gestures' = Gestures
  BY DEF Ctx, Gestures
<1>2. Kept(Ctx', preview', doc', Gestures', ordinals')
  BY <1>1
<1>3. TypeOK'
  BY <1>1 DEF IInv, TypeOK
<1>. QED
  BY <1>2, <1>3 DEF IInv

LEMMA PaintKeeps ==
  ASSUME IInv, Paint
  PROVE  IInv'
<1>1. /\ preview' = FlushLive(preview, doc)
      /\ UNCHANGED <<doc, past, revision, tooth, arrived, hand, ordinals, peers>>
  BY DEF Paint
<1>. QED
  BY <1>1, FlushKeeps, PreviewTo

LEMMA EditStepsKeep ==
  ASSUME IInv, PreviewEdit \/ CommitEdit \/ Undo
  PROVE  IInv'
<1>1. /\ PreviewOK(preview) /\ Kept(Ctx, preview, doc, Gestures, ordinals)
      /\ doc \in Document /\ past \in Seq(Document) /\ Append(past, doc) \in Seq(Document)
      /\ Ctx \in Context /\ Me \in Actor
      /\ \A a \in DOMAIN preview.heads : preview.heads[a].gesture <= ordinals[a]
  BY KeptNow
<1>2. ASSUME NEW edit \in Edits \cup {None}, preview' = Hold(preview, Held(edit, doc)),
             UNCHANGED <<doc, past, revision, tooth, arrived, hand, ordinals, peers>>
      PROVE  IInv'
  <2>1. PreviewOK(preview') /\ Kept(Ctx, preview', doc, Gestures, ordinals)
    BY <1>1, <1>2, HoldKeeps
  <2>. QED
    BY <1>2, <2>1, PreviewTo
<1>3. Held(None, doc) = None
  BY DEF Held
<1>4. CASE PreviewEdit
  BY <1>2, <1>4 DEF PreviewEdit
<1>5. CASE CommitEdit
  <2>1. PICK edit \in Edits :
          IF EditOnto(edit, doc) # None THEN Commit(EditOnto(edit, doc), preview)
          ELSE preview' = Hold(preview, None) /\ UNCHANGED <<doc, past, revision, tooth, arrived>>
    BY <1>5, Zenon DEF CommitEdit
  <2>2. UNCHANGED <<hand, ordinals, peers>>
    BY <1>5 DEF CommitEdit
  <2>. DEFINE d == EditOnto(edit, doc)
  <2>3. d \in Document \cup {None}
    BY <1>1, HeldIs
  <2>4. CASE d # None
    <3>1. ChangeCommitted(d, Append(past, doc), Supersede(preview))
      BY <2>1, <2>4 DEF Commit
    <3>. HIDE DEF d
    <3>. QED
      BY <1>1, <2>2, <2>3, <2>4, <3>1, SupersededKeeps
  <2>5. CASE d = None
    BY <1>2, <1>3, <2>1, <2>2, <2>5
  <2>. QED
    BY <2>4, <2>5
<1>6. CASE Undo
  <2>1. UNCHANGED <<hand, ordinals, peers>>
    BY <1>6 DEF Undo
  <2>2. CASE past = <<>>
    <3>1. preview' = Hold(preview, None) /\ UNCHANGED <<doc, past, revision, tooth, arrived>>
      BY <1>6, <2>2 DEF Undo
    <3>. QED
      BY <1>2, <1>3, <2>1, <3>1
  <2>3. CASE past # <<>>
    <3>1. ChangeCommitted(Last(past), Front(past), Supersede(preview))
      BY <1>6, <2>3 DEF Undo
    <3>2. Last(past) \in Document /\ Front(past) \in Seq(Document)
      BY <1>1, <2>3 DEF Last, Front
    <3>. QED
      BY <1>1, <2>1, <3>1, <3>2, SupersededKeeps
  <2>. QED
    BY <2>2, <2>3
<1>. QED
  BY <1>4, <1>5, <1>6

LEMMA RefoldIs ==
  ASSUME NEW p, PreviewOK(p), NEW d \in Document
  PROVE  LET q == [p EXCEPT !.held = Held(IF @ = None THEN None ELSE @.edit, d)]
         IN  /\ PreviewOK(q) /\ HeldKept(q, d) /\ q.heads = p.heads
             /\ RefoldHeld(p, d) = Invalidate(q)
<1>. DEFINE edit == IF p.held = None THEN None ELSE p.held.edit
            held == Held(edit, d)
            q == [p EXCEPT !.held = Held(IF @ = None THEN None ELSE @.edit, d)]
<1>1. /\ p = [held |-> p.held, live |-> p.live, heads |-> p.heads, epoch |-> p.epoch,
              fold |-> p.fold, stale |-> p.stale, prepared |-> p.prepared]
      /\ p.held \in HeldEdit \cup {None} /\ p.live \in Document \cup {None} /\ p.heads \in Heads
      /\ p.epoch \in {0, 1} /\ p.fold \in {0, 1} /\ p.stale \in BOOLEAN
      /\ p.prepared \in PreparedStroke \cup {None}
  BY PreviewFields
<1>2. q = [p EXCEPT !.held = held] /\ RefoldHeld(p, d) = Invalidate(q)
  BY Zenon DEF RefoldHeld
<1>3. edit \in Edits \cup {None}
  BY <1>1 DEF HeldEdit
<1>. HIDE DEF edit
<1>4. held \in HeldEdit \cup {None} /\ (held # None => held = Held(held.edit, d))
  BY <1>3, HeldIs
<1>. HIDE DEF held, q
<1>5. q = [held |-> held, live |-> p.live, heads |-> p.heads, epoch |-> p.epoch,
           fold |-> p.fold, stale |-> p.stale, prepared |-> p.prepared]
  BY <1>1, <1>2
<1>6. PreviewOK(q)
  BY <1>1, <1>4, <1>5, PreviewIs
<1>7. q.held = held /\ q.heads = p.heads
  BY <1>5
<1>8. HeldKept(q, d)
  BY <1>4, <1>7 DEF HeldKept
<1>. QED
  BY <1>2, <1>6, <1>7, <1>8 DEF q

LEMMA RemoteStepKeeps ==
  ASSUME IInv, MergeRemote
  PROVE  IInv'
<1>1. /\ PreviewOK(preview) /\ doc \in Document /\ past \in Seq(Document)
      /\ Complete \in Context
      /\ \A a \in DOMAIN preview.heads : preview.heads[a].gesture <= ordinals[a]
  BY KeptNow
<1>2. PICK p \in Peer : \E d \in {Becomes(p), SelectOnto(doc, p)} :
        /\ ChangeCommitted(d, past, RefoldHeld(preview, d))
        /\ peers' = [peers EXCEPT ![p] = Idle]
        /\ UNCHANGED <<hand, ordinals>>
  BY DEF MergeRemote
<1>3. PICK d \in {Becomes(p), SelectOnto(doc, p)} :
        /\ ChangeCommitted(d, past, RefoldHeld(preview, d))
        /\ peers' = [peers EXCEPT ![p] = Idle]
        /\ UNCHANGED <<hand, ordinals>>
  BY <1>2
<1>4. /\ p \in Actor /\ ordinals[p] \in Nat /\ peers[p] \in GestureOf(p, ordinals[p])
      /\ peers = [a \in Peer |-> peers[a]]
  <2>1. p \in Actor /\ Gestures[p] = peers[p]
    BY GesturesAre
  <2>. QED
    BY <2>1 DEF IInv, TypeOK
<1>5. d \in Document
  <2>1. SelectOnto(doc, p) \in Document /\ FillOnto(doc, p, peers[p].path) \in Document
    BY <1>1, <1>4, SelectMoves, FillLays
  <2>2. ASSUME Drawn(peers[p])
        PROVE  Render(Complete, doc, p, Rec(peers[p])) \in Document
    <3>1. peers[p] # Idle
      BY <2>2 DEF Drawn, Idle
    <3>2. Rec(peers[p]) \in Record
      BY <1>4, <3>1, GestureFields
    <3>. QED
      BY <1>1, <1>4, <3>2, RenderKeeps
  <2>3. Becomes(p) \in Document
    BY <2>1, <2>2 DEF Becomes
  <2>. QED
    BY <2>1, <2>3
<1>. DEFINE q == [preview EXCEPT !.held = Held(IF @ = None THEN None ELSE @.edit, d)]
<1>6. /\ PreviewOK(q) /\ HeldKept(q, d) /\ q.heads = preview.heads
      /\ RefoldHeld(preview, d) = Invalidate(q)
  BY <1>1, <1>5, RefoldIs
<1>. HIDE DEF q
<1>7. ChangeCommitted(d, past, Invalidate(q))
  BY <1>3, <1>6
<1>8. /\ peers' = [a \in Peer |-> peers'[a]]
      /\ \A a \in Peer : peers'[a] \in {peers[a], Idle}
  BY <1>3, <1>4
<1>9. \A a \in DOMAIN q.heads : q.heads[a].gesture <= ordinals[a]
  BY <1>1, <1>6
<1>10. UNCHANGED ordinals /\ hand' \in {hand, Idle}
  BY <1>3
<1>. QED
  BY <1>1, <1>5, <1>6, <1>7, <1>8, <1>9, <1>10, ChangedKeeps

LEMMA BlankIs == Blank \in Document
<1>1. [t \in Tile |-> <<>>] \in Painting /\ [a \in Actor |-> 0] \in [Actor -> {0, 1}]
  BY DEF Painting
<1>. QED
  BY <1>1 DEF Blank, Document

LEMMA ClearIs ==
  ASSUME NEW p, PreviewOK(p)
  PROVE  LET q == [p EXCEPT !.held = None, !.live = None, !.heads = NoHeads]
         IN  /\ PreviewOK(q) /\ q.held = None /\ DOMAIN q.heads = {} /\ Clear(p) = Invalidate(q)
<1>. DEFINE q == [p EXCEPT !.held = None, !.live = None, !.heads = NoHeads]
<1>1. /\ p = [held |-> p.held, live |-> p.live, heads |-> p.heads, epoch |-> p.epoch,
              fold |-> p.fold, stale |-> p.stale, prepared |-> p.prepared]
      /\ p.epoch \in {0, 1} /\ p.fold \in {0, 1} /\ p.stale \in BOOLEAN
      /\ p.prepared \in PreparedStroke \cup {None}
  BY PreviewFields
<1>2. q = [p EXCEPT !.held = None, !.live = None, !.heads = NoHeads] /\ Clear(p) = Invalidate(q)
  BY DEF Clear
<1>3. NoHeads \in Heads /\ DOMAIN NoHeads = {}
  <2>1. DOMAIN NoHeads = {} /\ NoHeads \in [{} -> FrozenHead]
    BY DEF NoHeads
  <2>. QED
    BY <2>1, HeadsAre
<1>. HIDE DEF q
<1>4. q = [held |-> None, live |-> None, heads |-> NoHeads, epoch |-> p.epoch,
           fold |-> p.fold, stale |-> p.stale, prepared |-> p.prepared]
  BY <1>1, <1>2
<1>5. PreviewOK(q)
  <2>. DEFINE nobody == NoHeads
              gone == None
  <2>1. nobody \in Heads /\ gone \in HeldEdit \cup {None} /\ gone \in Document \cup {None}
    BY <1>3
  <2>. HIDE DEF nobody, gone
  <2>2. PreviewOK([held |-> gone, live |-> gone, heads |-> nobody, epoch |-> p.epoch,
                   fold |-> p.fold, stale |-> p.stale, prepared |-> p.prepared])
    BY <1>1, <2>1, PreviewIs
  <2>. QED
    BY <2>2, <1>4 DEF nobody, gone
<1>. QED
  BY <1>2, <1>3, <1>4, <1>5 DEF q

LEMMA OutsideStepsKeep ==
  ASSUME IInv, SubstrateArrives \/ ShapeArrives \/ ResetDocument
  PROVE  IInv'
<1>1. /\ PreviewOK(preview) /\ Kept(Ctx, preview, doc, Gestures, ordinals)
      /\ doc \in Document /\ Ctx \in Context
      /\ \A a \in DOMAIN preview.heads : preview.heads[a].gesture <= ordinals[a]
  BY KeptNow
<1>2. CASE SubstrateArrives
  <2>1. /\ tooth' = 1 /\ preview' = Invalidate(preview)
        /\ UNCHANGED <<doc, past, revision, arrived, hand, ordinals, peers>>
    BY <1>2 DEF SubstrateArrives
  <2>2. Gestures' = Gestures
    BY <2>1 DEF Gestures
  <2>3. HeldKept(preview, doc)
    BY <1>1 DEF Kept
  <2>. DEFINE context == Ctx'
  <2>. HIDE DEF context
  <2>4. PreviewOK(Invalidate(preview)) /\ Kept(context, Invalidate(preview), doc, Gestures, ordinals)
    BY <1>1, <2>3, InvalidatedIsKept
  <2>5. PreviewOK(preview') /\ Kept(Ctx', preview', doc', Gestures', ordinals')
    BY <2>1, <2>2, <2>4 DEF context
  <2>6. TypeOK'
    BY <2>1, <2>2, <2>5 DEF IInv, TypeOK
  <2>. QED
    BY <2>5, <2>6 DEF IInv
<1>3. CASE ShapeArrives
  <2>1. /\ ~arrived /\ arrived' = TRUE
        /\ UNCHANGED <<doc, past, revision, tooth, hand, ordinals, peers, preview>>
    BY <1>3 DEF ShapeArrives
  <2>2. Gestures' = Gestures
    BY <2>1 DEF Gestures
  <2>. DEFINE context == Ctx'
  <2>3. context \in Context /\ context.tooth = Ctx.tooth /\ ~Ctx.arrived /\ context.arrived
    BY <2>1 DEF IInv, TypeOK, Ctx, Context
  <2>. HIDE DEF context
  <2>4. /\ ordinals \in [Actor -> Nat]
        /\ \A a \in Actor : Gestures[a] \in GestureOf(a, ordinals[a])
    BY DEF IInv, TypeOK
  <2>5. Kept(context, preview, doc, Gestures, ordinals)
    BY <1>1, <2>3, <2>4, ShapeKeeps
  <2>6. Kept(Ctx', preview', doc', Gestures', ordinals')
    BY <2>1, <2>2, <2>5 DEF context
  <2>7. TypeOK'
    BY <2>1, <2>2 DEF IInv, TypeOK
  <2>. QED
    BY <2>6, <2>7 DEF IInv
<1>4. CASE ResetDocument
  <2>1. /\ ChangeCommitted(Blank, <<>>, Clear(Supersede(preview)))
        /\ hand' = Idle /\ peers' = [p \in Peer |-> Idle] /\ UNCHANGED ordinals
    BY <1>4 DEF ResetDocument
  <2>. DEFINE r == [preview EXCEPT !.held = None]
              s == Supersede(preview)
              q == [s EXCEPT !.held = None, !.live = None, !.heads = NoHeads]
  <2>2. PreviewOK(r) /\ s = Invalidate(r)
    BY <1>1, SupersedeIs
  <2>. HIDE DEF r
  <2>3. PreviewOK(s)
    BY <2>2, InvalidateDrops
  <2>4. ChangeCommitted(Blank, <<>>, Clear(s))
    BY <2>1
  <2>. HIDE DEF s
  <2>5. PreviewOK(q) /\ q.held = None /\ DOMAIN q.heads = {} /\ Clear(s) = Invalidate(q)
    BY <2>3, ClearIs
  <2>. HIDE DEF q
  <2>6. HeldKept(q, Blank) /\ \A a \in DOMAIN q.heads : q.heads[a].gesture <= ordinals[a]
    BY <2>5 DEF HeldKept
  <2>7. ChangeCommitted(Blank, <<>>, Invalidate(q))
    BY <2>4, <2>5
  <2>8. <<>> \in Seq(Document) /\ Blank \in Document
    BY BlankIs
  <2>9. /\ peers' = [a \in Peer |-> peers'[a]] /\ \A a \in Peer : peers'[a] \in {peers[a], Idle}
        /\ hand' \in {hand, Idle} /\ UNCHANGED ordinals
    BY <2>1
  <2>. QED
    BY <2>5, <2>6, <2>7, <2>8, <2>9, ChangedKeeps
<1>. QED
  BY <1>2, <1>3, <1>4

LEMMA Starts ==
  ASSUME Init
  PROVE  IInv
<1>1. /\ doc = Blank /\ past = <<>> /\ revision = 0 /\ tooth = 0 /\ arrived = FALSE /\ hand = Idle
      /\ ordinals = [a \in Actor |-> 0] /\ peers = [a \in Peer |-> Idle] /\ preview = NewPreview
  BY DEF Init
<1>2. \A a \in Actor : Gestures[a] = Idle /\ Idle \in GestureOf(a, ordinals[a])
  <2>1. \A a \in Actor : Gestures[a] = Idle
    BY <1>1, GesturesAre
  <2>2. \A a \in Actor : Idle \in GestureOf(a, ordinals[a])
    BY DEF GestureOf
  <2>. QED
    BY <2>1, <2>2
<1>3. NoHeads \in Heads /\ DOMAIN NoHeads = {}
  <2>1. DOMAIN NoHeads = {} /\ NoHeads \in [{} -> FrozenHead]
    BY DEF NoHeads
  <2>. QED
    BY <2>1, HeadsAre
<1>4. /\ preview = [held |-> None, live |-> None, heads |-> NoHeads, epoch |-> 0, fold |-> 0,
                    stale |-> FALSE, prepared |-> None]
      /\ preview.held = None /\ preview.live = None /\ preview.heads = NoHeads
      /\ preview.prepared = None
  BY <1>1 DEF NewPreview
<1>5. PreviewOK(preview)
  <2>. DEFINE nobody == NoHeads
  <2>1. nobody \in Heads
    BY <1>3
  <2>. HIDE DEF nobody
  <2>2. PreviewOK([held |-> None, live |-> None, heads |-> nobody, epoch |-> 0, fold |-> 0,
                   stale |-> FALSE, prepared |-> None])
    BY <2>1, PreviewIs
  <2>. QED
    BY <2>2, <1>4 DEF nobody
<1>6. TypeOK
  <2>1. ordinals \in [Actor -> Nat] /\ peers = [a \in Peer |-> peers[a]]
    BY <1>1
  <2>2. past \in Seq(Document) /\ doc \in Document
    BY <1>1, BlankIs
  <2>. QED
    BY <1>1, <1>2, <1>5, <2>1, <2>2 DEF TypeOK
<1>7. Shows(Ctx, preview, doc, Gestures, FALSE)
  <2>1. Base(preview, doc) = doc /\ Presented(preview, doc) = doc
    BY <1>4 DEF Base, HeldDoc, Presented
  <2>2. InFlight(Gestures) = {}
    BY <1>2 DEF InFlight
  <2>. DEFINE context == [Ctx EXCEPT !.arrived = FALSE]
  <2>3. context \in Context
    BY <1>6, TypesGive DEF Context
  <2>. HIDE DEF context
  <2>4. FromScratch(context, doc, Gestures, Everyone) = doc
    BY <1>6, <2>2, <2>3, TypesGive, NobodyLays, EveryoneIs
  <2>. QED
    BY <2>1, <2>4 DEF Shows, context
<1>. QED
  BY <1>3, <1>4, <1>6, <1>7 DEF IInv, Kept, HeldKept, HeadsKept, PreparedKept, PictureKept

LEMMA StaysKept ==
  ASSUME IInv, [Next]_vars
  PROVE  IInv'
<1>1. CASE Next
  <2>1. CASE Start \/ GestureTo \/ AssistStroke \/ HoverTo \/ SetBrush \/ CancelStroke
    BY <2>1, HandStepsKeep
  <2>2. CASE Paint
    BY <2>2, PaintKeeps
  <2>3. CASE End
    BY <2>3, EndKeeps
  <2>4. CASE PreviewEdit \/ CommitEdit \/ Undo
    BY <2>4, EditStepsKeep
  <2>5. CASE MergePresence
    BY <2>5, PeerStepKeeps
  <2>6. CASE MergeRemote
    BY <2>6, RemoteStepKeeps
  <2>7. CASE SubstrateArrives \/ ShapeArrives \/ ResetDocument
    BY <2>7, OutsideStepsKeep
  <2>. QED
    BY <1>1, <2>1, <2>2, <2>3, <2>4, <2>5, <2>6, <2>7 DEF Next
<1>2. CASE UNCHANGED vars
  <2>1. UNCHANGED <<doc, past, revision, tooth, arrived, hand, ordinals, peers, preview>>
    BY <1>2 DEF vars
  <2>2. PreviewOK(preview') /\ Kept(Ctx, preview', doc, Gestures, ordinals)
    BY <2>1, KeptNow
  <2>. QED
    BY <2>1, <2>2, PreviewTo
<1>. QED
  BY <1>1, <1>2

LEMMA AlwaysKept == Spec => []IInv
<1>1. Init => IInv
  BY Starts
<1>2. IInv /\ [Next]_vars => IInv'
  BY StaysKept
<1>. QED
  BY <1>1, <1>2, PTL DEF Spec

-----------------------------------------------------------------------------
(* The properties                                                             *)

(* Every variable keeps its type: a gesture in flight is on one of its        *)
(* actor's curves, and the previews, heads and offers are whole.              *)
THEOREM TypeCorrect == Spec => []TypeOK
<1>1. IInv => TypeOK
  BY DEF IInv
<1>. QED
  BY <1>1, AlwaysKept, PTL

(* What the base of a fold is: the held edit over the document, if it folds.  *)
LEMMA BaseIsTheEdit ==
  ASSUME IInv
  PROVE  Base(preview, doc) = IF preview.held # None /\ EditOnto(preview.held.edit, doc) # None
                              THEN EditOnto(preview.held.edit, doc) ELSE doc
<1>1. preview.held # None => preview.held = Held(preview.held.edit, doc)
  BY DEF IInv, Kept, HeldKept
<1>2. CASE preview.held = None
  BY <1>2 DEF Base, HeldDoc
<1>3. CASE preview.held # None
  <2>. DEFINE edit == preview.held.edit
              made == EditOnto(edit, doc)
  <2>1. preview.held = [edit |-> edit, doc |-> made]
    <3>. HIDE DEF edit
    <3>1. preview.held = Held(edit, doc)
      BY <1>1, <1>3 DEF edit
    <3>. QED
      BY <1>3, <3>1 DEF Held
  <2>. HIDE DEF made
  <2>2. preview.held.doc = made
    BY <2>1
  <2>. QED
    BY <1>3, <2>2 DEF Base, HeldDoc, made
<1>. QED
  BY <1>2, <1>3

(* Once the fold is serviced the picture is the fold from scratch, from       *)
(* whatever heads and held edits it was drawn.                                *)
THEOREM FoldIsShown == Spec => []ShownIsTheFold
<1>1. ASSUME IInv
      PROVE  ShownIsTheFold
  <2>1. SUFFICES ASSUME ~preview.stale
                 PROVE  \E resident \in {FALSE, arrived} :
                          /\ Shown.mask = Scratch(resident).mask
                          /\ \A t \in Tile \ Leftover : Shown.paint[t] = Scratch(resident).paint[t]
    BY DEF ShownIsTheFold
  <2>2. Ctx.arrived = arrived
    BY <1>1, TypesGive DEF IInv
  <2>3. PICK resident \in {FALSE, arrived} : Shows(Ctx, preview, doc, Gestures, resident)
    BY <1>1, <2>1, <2>2 DEF IInv, Kept, PictureKept
  <2>4. Scratch(resident)
          = FromScratch([Ctx EXCEPT !.arrived = resident], Base(preview, doc), Gestures, Everyone)
    BY <1>1, BaseIsTheEdit DEF Scratch
  <2>5. Leftover = LeftBy(preview.heads, Gestures)
    BY DEF Leftover, LeftBy
  <2>. QED
    BY <2>3, <2>4, <2>5 DEF Shows, Shown
<1>. QED
  BY <1>1, AlwaysKept, PTL

(* A prepared stroke is the render of its record over the document as it is.  *)
THEOREM OfferIsCurrent == Spec => []PreparedIsCurrent
<1>1. ASSUME IInv
      PROVE  PreparedIsCurrent
  <2>1. SUFFICES ASSUME preview.prepared # None
                 PROVE  /\ preview.prepared.base = doc.paint
                        /\ preview.prepared.painted = Render(Complete, doc, Me, preview.prepared.rec).paint
    BY DEF PreparedIsCurrent
  <2>. DEFINE rec == preview.prepared.rec
  <2>2. PreparedOn(Ctx, doc, preview.prepared)
    BY <1>1, <2>1 DEF IInv, Kept, PreparedKept
  <2>3. rec \in Record
    BY <1>1, <2>1, PreviewFields DEF IInv, TypeOK, PreparedStroke, Record
  <2>4. /\ Ctx \in Context /\ Complete \in Context /\ Complete.tooth = Ctx.tooth /\ Complete.arrived
        /\ doc \in Document
    BY <1>1, TypesGive DEF IInv
  <2>5. Resolves(Ctx, rec) /\ Resolves(Complete, rec)
    BY <2>2, <2>4 DEF PreparedOn, Resolves
  <2>6. Me \in Actor
    BY GesturesAre
  <2>. HIDE DEF rec
  <2>7. Render(Ctx, doc, Me, rec) = Render(Complete, doc, Me, rec)
    BY <2>3, <2>4, <2>5, <2>6, RenderOnceResolved
  <2>. QED
    BY <2>2, <2>7 DEF PreparedOn, rec
<1>. QED
  BY <1>1, AlwaysKept, PTL

(* A pen-up commits what a replay of its record renders, offered or not.      *)
THEOREM CommitsReplay == Spec => StrokesCommitAsReplayed
<1>1. ASSUME IInv, [Next]_vars, Stroking, hand' = Idle, past' = Append(past, doc)
      PROVE  doc' = Render(Ctx, doc, Me, Rec(hand))
  <2>1. past \in Seq(Document) /\ hand # Idle /\ Gesturing
    BY <1>1 DEF IInv, TypeOK, Stroking, Gesturing, Idle
  <2>2. past' # past /\ past' # <<>> /\ hand' # hand
    BY <1>1, <2>1
  <2>3. Next
    BY <1>1, <2>2 DEF vars
  <2>4. CASE End
    BY <1>1, <2>2, <2>4, EndKeeps
  <2>5. ~ (Start \/ GestureTo \/ AssistStroke \/ HoverTo \/ SetBrush \/ CancelStroke)
    BY <2>2 DEF Start, GestureTo, AssistStroke, HoverTo, SetBrush, CancelStroke, Opens, Hands
  <2>6. ~ (Paint \/ PreviewEdit \/ CommitEdit \/ Undo \/ SubstrateArrives \/ ShapeArrives)
    BY <2>2 DEF Paint, PreviewEdit, CommitEdit, Undo, SubstrateArrives, ShapeArrives
  <2>7. ~ (MergePresence \/ MergeRemote)
    BY <2>2 DEF MergePresence, MergeRemote, PeerShows
  <2>8. ~ ResetDocument
    BY <2>2 DEF ResetDocument, ChangeCommitted
  <2>. QED
    BY <2>3, <2>4, <2>5, <2>6, <2>7, <2>8 DEF Next
<1>2. IInv /\ [Next]_vars
        => [Stroking /\ hand' = Idle /\ past' = Append(past, doc)
              => doc' = Render(Ctx, doc, Me, Rec(hand))]_vars
  BY <1>1
<1>. QED
  BY <1>2, AlwaysKept, PTL DEF Spec, StrokesCommitAsReplayed

(* No step moves the picture and leaves the draw list's key where it was.     *)
THEOREM KeyNamesThePicture == Spec => DrawKeyNamesThePicture
<1>. DEFINE Moved == <<revision, preview.epoch, preview.fold>>' # <<revision, preview.epoch, preview.fold>>
<1>1. ASSUME IInv, [Next]_vars, Shown' # Shown
      PROVE  Moved
  <2>1. /\ PreviewOK(preview) /\ Kept(Ctx, preview, doc, Gestures, ordinals) /\ doc \in Document
        /\ Ctx \in Context
    BY <1>1, KeptNow
  <2>2. revision \in Nat
    BY <1>1 DEF IInv, TypeOK
  <2>3. ASSUME revision' = revision + 1
        PROVE  Moved
    BY <2>2, <2>3
  <2>4. Shown = Presented(preview, doc) /\ Shown' = Presented(preview', doc')
    BY DEF Shown
  <2>5. ASSUME preview' = Stale(preview), doc' = doc
        PROVE  FALSE
    <3>1. /\ Stale(preview).held = preview.held /\ Stale(preview).live = preview.live
      BY <2>1, StaleIs
    <3>2. Presented(Stale(preview), doc) = Presented(preview, doc)
      BY <3>1 DEF Presented, Base, HeldDoc
    <3>. QED
      BY <1>1, <2>4, <2>5, <3>2
  <2>6. ASSUME NEW edit \in Edits \cup {None}, preview' = Hold(preview, Held(edit, doc)), doc' = doc
        PROVE  Moved
    <3>1. Presented(preview', doc) # Presented(preview, doc) => preview'.epoch # preview.epoch
      BY <2>1, <2>6, HoldKeeps
    <3>. QED
      BY <1>1, <2>4, <2>6, <3>1
  <2>7. Held(None, doc) = None
    BY DEF Held
  <2>8. CASE Start \/ GestureTo \/ AssistStroke \/ HoverTo \/ SetBrush \/ CancelStroke
    BY <2>5, <2>8 DEF Start, GestureTo, AssistStroke, HoverTo, SetBrush, CancelStroke, Opens, Hands
  <2>9. CASE MergePresence
    BY <2>5, <2>9 DEF MergePresence, PeerShows
  <2>10. CASE MergeRemote \/ ResetDocument
    BY <2>3, <2>10 DEF MergeRemote, ResetDocument, ChangeCommitted
  <2>11. CASE Paint
    <3>1. preview' = FlushLive(preview, doc) /\ doc' = doc
      BY <2>11 DEF Paint
    <3>2. preview'.fold # preview.fold
      BY <1>1, <2>4, <3>1, FlushKeeps
    <3>. QED
      BY <3>2
  <2>12. CASE End
    <3>. DEFINE flushed == IF Stroking THEN FlushLive(preview, doc) ELSE preview
                taken == [flushed EXCEPT !.prepared = None]
    <3>1. IF Stroking /\ Refuses(Rec(hand))
          THEN preview' = Stale(flushed) /\ UNCHANGED <<doc, past, revision, tooth, arrived>>
          ELSE IF Stroking
          THEN \E fast \in BOOLEAN :
                 Commit(StrokeApply(doc, Rec(hand), IF fast THEN flushed.prepared ELSE None), taken)
          ELSE Commit(IF hand.kind = "fill" THEN FillOnto(doc, Me, hand.path) ELSE SelectOnto(doc, Me), flushed)
      BY <2>12, Zenon DEF End
    <3>2. /\ PreviewOK(flushed)
          /\ Presented(flushed, doc) # Presented(preview, doc) => flushed.fold # preview.fold
      BY <1>1, <2>1, FlushKeeps
    <3>. HIDE DEF flushed, taken
    <3>3. CASE Stroking /\ Refuses(Rec(hand))
      <4>1. preview' = Stale(flushed) /\ doc' = doc
        BY <3>1, <3>3
      <4>2. /\ Stale(flushed).held = flushed.held /\ Stale(flushed).live = flushed.live
            /\ Stale(flushed).fold = flushed.fold
        BY <3>2, StaleIs
      <4>3. Presented(Stale(flushed), doc) = Presented(flushed, doc)
        BY <4>2 DEF Presented, Base, HeldDoc
      <4>4. preview'.fold # preview.fold
        BY <1>1, <2>4, <3>2, <4>1, <4>2, <4>3
      <4>. QED
        BY <4>4
    <3>4. CASE ~ (Stroking /\ Refuses(Rec(hand)))
      BY <2>3, <3>1, <3>4 DEF Commit, ChangeCommitted
    <3>. QED
      BY <3>3, <3>4
  <2>13. CASE PreviewEdit
    BY <2>6, <2>13 DEF PreviewEdit
  <2>14. CASE CommitEdit
    <3>1. PICK edit \in Edits :
            IF EditOnto(edit, doc) # None THEN Commit(EditOnto(edit, doc), preview)
            ELSE preview' = Hold(preview, None) /\ UNCHANGED <<doc, past, revision, tooth, arrived>>
      BY <2>14, Zenon DEF CommitEdit
    <3>2. CASE EditOnto(edit, doc) # None
      BY <2>3, <3>1, <3>2 DEF Commit, ChangeCommitted
    <3>3. CASE EditOnto(edit, doc) = None
      BY <2>6, <2>7, <3>1, <3>3
    <3>. QED
      BY <3>2, <3>3
  <2>15. CASE Undo
    <3>1. CASE past = <<>>
      BY <2>6, <2>7, <2>15, <3>1 DEF Undo
    <3>2. CASE past # <<>>
      BY <2>3, <2>15, <3>2 DEF Undo, ChangeCommitted
    <3>. QED
      BY <3>1, <3>2
  <2>16. CASE SubstrateArrives
    <3>1. preview' = Invalidate(preview) /\ doc' = doc
      BY <2>16 DEF SubstrateArrives
    <3>2. preview'.epoch = 1 - preview.epoch
      BY <2>1, <3>1, InvalidateDrops
    <3>3. preview.epoch \in {0, 1}
      BY <2>1, PreviewFields
    <3>. QED
      BY <3>2, <3>3
  <2>17. CASE ShapeArrives
    BY <1>1, <2>17 DEF ShapeArrives, Shown, Presented, Base, HeldDoc
  <2>18. CASE UNCHANGED vars
    BY <1>1, <2>18 DEF vars, Shown, Presented, Base, HeldDoc
  <2>. QED
    BY <1>1, <2>8, <2>9, <2>10, <2>11, <2>12, <2>13, <2>14, <2>15, <2>16, <2>17, <2>18 DEF Next
<1>2. IInv /\ [Next]_vars
        => [Shown' # Shown =>
              <<revision, preview.epoch, preview.fold>>' # <<revision, preview.epoch, preview.fold>>]_vars
  BY <1>1
<1>. QED
  BY <1>2, AlwaysKept, PTL DEF Spec, DrawKeyNamesThePicture
=============================================================================
