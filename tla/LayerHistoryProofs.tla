-------------------------- MODULE LayerHistoryProofs --------------------------
(* For any scene of well-formed actions, however its authors commit and undo:  *)
(* each fold keeps to its footprint, what does not conflict commutes, an undo  *)
(* by patching is a replay without the action, and the tree stays a tree.  The *)
(* lemmas about each come before its theorem: sequences and trees, what folds  *)
(* read and change, patches, the history and its theorems.                     *)
EXTENDS LayerHistory, WellFoundedInduction, SequenceTheorems, TLAPS

-----------------------------------------------------------------------------
(* Numbers and sequences                                                      *)

(* Any set of natural numbers has a least one.                                *)
LEMMA LeastNumber ==
  ASSUME NEW T \in SUBSET Nat, T # {}
  PROVE  \E n \in T : \A m \in T : n <= m
<1>. DEFINE R == {ss \in Nat \X Nat : ss[1] < ss[2]}
<1>1. IsWellFoundedOn(R, Nat)
  BY NatLessThanWellFounded DEF OpToRel
<1>. HIDE DEF R
<1>2. PICK n \in T : \A m \in T : ~ (<<m, n>> \in R)
  BY <1>1, WFMin
<1>3. ASSUME NEW m \in T
      PROVE  n <= m
  <2>1. m \in Nat /\ n \in Nat /\ <<m, n>> \notin R
    BY <1>2
  <2>2. ~ (m < n)
    BY <2>1 DEF R
  <2>. QED
    BY <2>1, <2>2
<1>. QED
  BY <1>3

(* A set that holds 0, and with each number the next, holds them all.         *)
LEMMA Induction ==
  ASSUME NEW S, 0 \in S, \A n \in Nat : n \in S => n + 1 \in S
  PROVE  Nat \subseteq S
<1>. SUFFICES ASSUME Nat \ S # {} PROVE FALSE
  OBVIOUS
<1>1. PICK n \in Nat \ S : \A m \in Nat \ S : n <= m
  BY LeastNumber
<1>2. n # 0 /\ n - 1 \in Nat /\ n - 1 \in S
  BY <1>1
<1>. QED
  BY <1>1, <1>2

(* Only, step by step: a sequence of prefixes that takes each element of S.    *)
LEMMA OnlyUnfolds ==
  ASSUME NEW s, NEW S, Len(s) \in Nat
  PROVE  \E f : /\ f[0] = <<>> /\ Only(s, S) = f[Len(s)]
                /\ \A i \in 1..Len(s) :
                     f[i] = IF s[i] \in S THEN Append(f[i-1], s[i]) ELSE f[i-1]
<1>. DEFINE Good(f, n) == f = [i \in 0..n |-> IF i = 0 THEN <<>>
                                 ELSE IF s[i] \in S THEN Append(f[i-1], s[i]) ELSE f[i-1]]
            N == {n \in Nat : \E f : Good(f, n)}
<1>1. 0 \in N
  <2>1. Good([i \in 0..0 |-> <<>>], 0)
    OBVIOUS
  <2>. QED
    BY <2>1
<1>2. ASSUME NEW n \in Nat, n \in N PROVE n + 1 \in N
  <2>1. PICK f : Good(f, n)
    BY <1>2
  <2>. DEFINE next == [i \in 0..n+1 |-> IF i = n + 1
                         THEN IF s[n+1] \in S THEN Append(f[n], s[n+1]) ELSE f[n]
                         ELSE f[i]]
  <2>2. Good(next, n + 1)
    <3>1. ASSUME NEW i \in 0..n+1
          PROVE  next[i] = IF i = 0 THEN <<>>
                           ELSE IF s[i] \in S THEN Append(next[i-1], s[i]) ELSE next[i-1]
      <4>1. CASE i = n + 1
        <5>1. i - 1 = n /\ n \in 0..n+1 /\ n # n + 1 /\ i # 0
          BY <4>1
        <5>. QED
          BY <4>1, <5>1
      <4>2. CASE i \in 0..n
        <5>1. next[i] = f[i] /\ (i # 0 => i - 1 \in 0..n /\ next[i-1] = f[i-1])
          BY <4>2
        <5>. HIDE DEF next
        <5>2. f[i] = IF i = 0 THEN <<>>
                     ELSE IF s[i] \in S THEN Append(f[i-1], s[i]) ELSE f[i-1]
          BY <2>1, <4>2
        <5>. QED
          BY <5>1, <5>2
      <4>. QED
        BY <4>1, <4>2
    <3>. HIDE DEF next
    <3>2. next = [i \in 0..n+1 |-> next[i]]
      BY DEF next
    <3>. QED
      BY <3>1, <3>2
  <2>. HIDE DEF Good, next
  <2>. QED
    BY <2>2
<1>3. \E f : Good(f, Len(s))
  <2>. HIDE DEF Good
  <2>. QED
    BY <1>1, <1>2, Induction
<1>. DEFINE f == CHOOSE f : Good(f, Len(s))
<1>4. Good(f, Len(s))
  <2>. HIDE DEF Good
  <2>. QED
    BY <1>3
<1>5. Only(s, S) = f[Len(s)]
  BY DEF Only
<1>. HIDE DEF f
<1>6. f[0] = <<>>
  BY <1>4
<1>7. ASSUME NEW i \in 1..Len(s)
      PROVE  f[i] = IF s[i] \in S THEN Append(f[i-1], s[i]) ELSE f[i-1]
  <2>1. i \in 0..Len(s) /\ i # 0
    OBVIOUS
  <2>. QED
    BY <1>4, <2>1
<1>. QED
  BY <1>5, <1>6, <1>7

(* What Only keeps: a sequence of the elements of S, in the order s has them.  *)
LEMMA OnlyKeeps ==
  ASSUME NEW X, NEW s \in Seq(X), NEW S
  PROVE  /\ Only(s, S) \in Seq(X)
         /\ \A j \in 1..Len(Only(s, S)) : \E i \in 1..Len(s) : s[i] = Only(s, S)[j] /\ s[i] \in S
         /\ \A i \in 1..Len(s) : s[i] \in S => \E j \in 1..Len(Only(s, S)) : Only(s, S)[j] = s[i]
         /\ \A j, k \in 1..Len(Only(s, S)) : j < k =>
              \E p, q \in 1..Len(s) : p < q /\ s[p] = Only(s, S)[j] /\ s[q] = Only(s, S)[k]
<1>0. Len(s) \in Nat /\ \A i \in 1..Len(s) : s[i] \in X
  BY LenProperties
<1>1. PICK f : /\ f[0] = <<>> /\ Only(s, S) = f[Len(s)]
               /\ \A i \in 1..Len(s) :
                    f[i] = IF s[i] \in S THEN Append(f[i-1], s[i]) ELSE f[i-1]
  BY <1>0, OnlyUnfolds
<1>. DEFINE Holds(n) ==
       /\ f[n] \in Seq(X)
       /\ \A j \in 1..Len(f[n]) : \E i \in 1..n : s[i] = f[n][j] /\ s[i] \in S
       /\ \A i \in 1..n : s[i] \in S => \E j \in 1..Len(f[n]) : f[n][j] = s[i]
       /\ \A j, k \in 1..Len(f[n]) : j < k =>
            \E p, q \in 1..n : p < q /\ s[p] = f[n][j] /\ s[q] = f[n][k]
     N == {n \in Nat : n <= Len(s) => Holds(n)}
<1>2. 0 \in N
  <2>1. f[0] \in Seq(X) /\ Len(f[0]) = 0
    BY <1>1, EmptySeq
  <2>. QED
    BY <2>1
<1>3. ASSUME NEW n \in Nat, n \in N PROVE n + 1 \in N
  <2>. SUFFICES ASSUME n + 1 <= Len(s) PROVE Holds(n + 1)
    OBVIOUS
  <2>1. Holds(n) /\ n + 1 \in 1..Len(s) /\ (n + 1) - 1 = n
    BY <1>0, <1>3
  <2>2. f[n+1] = IF s[n+1] \in S THEN Append(f[n], s[n+1]) ELSE f[n]
    BY <1>1, <2>1
  <2>3. CASE s[n+1] \notin S
    <3>1. f[n+1] = f[n] /\ \A i \in 1..n : i \in 1..n+1
      BY <2>2, <2>3
    <3>2. \A i \in 1..n+1 : s[i] \in S => i \in 1..n
      BY <2>3
    <3>3. \A j \in 1..Len(f[n+1]) : \E i \in 1..n+1 : s[i] = f[n+1][j] /\ s[i] \in S
      BY <2>1, <3>1
    <3>4. \A i \in 1..n+1 : s[i] \in S => \E j \in 1..Len(f[n+1]) : f[n+1][j] = s[i]
      BY <2>1, <3>1, <3>2
    <3>5. \A j, k \in 1..Len(f[n+1]) : j < k =>
             \E p, q \in 1..n+1 : p < q /\ s[p] = f[n+1][j] /\ s[q] = f[n+1][k]
      BY <2>1, <3>1
    <3>. QED
      BY <2>1, <3>1, <3>3, <3>4, <3>5
  <2>4. CASE s[n+1] \in S
    <3>. DEFINE m == Len(f[n])
    <3>1. /\ f[n+1] \in Seq(X) /\ Len(f[n+1]) = m + 1 /\ f[n+1][m+1] = s[n+1]
          /\ \A j \in 1..m : f[n+1][j] = f[n][j]
      BY <2>1, <2>2, <2>4, <1>0, AppendProperties
    <3>2. m \in Nat /\ \A j \in 1..m+1 : j \in 1..m \/ j = m + 1
      BY <2>1, LenProperties
    <3>. HIDE DEF m
    <3>3. \A j \in 1..m+1 : \E i \in 1..n+1 : s[i] = f[n+1][j] /\ s[i] \in S
      BY <2>1, <2>4, <3>1, <3>2 DEF m
    <3>4. \A i \in 1..n+1 : s[i] \in S => \E j \in 1..m+1 : f[n+1][j] = s[i]
      <4>1. ASSUME NEW i \in 1..n, s[i] \in S PROVE \E j \in 1..m+1 : f[n+1][j] = s[i]
        <5>1. PICK j \in 1..m : f[n][j] = s[i]
          BY <2>1, <4>1 DEF m
        <5>. QED
          BY <5>1, <3>1, <3>2
      <4>2. m + 1 \in 1..m+1 /\ \A i \in 1..n+1 : i \in 1..n \/ i = n+1
        BY <3>2
      <4>. QED
        BY <4>1, <4>2, <3>1
    <3>5. ASSUME NEW j \in 1..m+1, NEW k \in 1..m+1, j < k
          PROVE  \E p, q \in 1..n+1 : p < q /\ s[p] = f[n+1][j] /\ s[q] = f[n+1][k]
      <4>1. j \in 1..m
        BY <3>2, <3>5
      <4>2. CASE k \in 1..m
        <5>1. PICK p \in 1..n, q \in 1..n : p < q /\ s[p] = f[n][j] /\ s[q] = f[n][k]
          BY <2>1, <4>1, <4>2, <3>5 DEF m
        <5>2. p \in 1..n+1 /\ q \in 1..n+1 /\ f[n+1][j] = f[n][j] /\ f[n+1][k] = f[n][k]
          BY <4>1, <4>2, <3>1
        <5>. HIDE DEF Holds, N
        <5>. QED
          BY <5>1, <5>2
      <4>3. CASE k = m + 1
        <5>1. PICK p \in 1..n : s[p] = f[n][j]
          BY <2>1, <4>1 DEF m
        <5>2. p < n + 1 /\ p \in 1..n+1 /\ n + 1 \in 1..n+1
          OBVIOUS
        <5>. QED
          BY <5>1, <5>2, <4>1, <4>3, <3>1
      <4>. QED
        BY <3>2, <4>2, <4>3
    <3>. QED
      BY <3>1, <3>3, <3>4, <3>5
  <2>. QED
    BY <2>3, <2>4
<1>4. Nat \subseteq N
  <2>. HIDE DEF N
  <2>. QED
    BY <1>2, <1>3, Induction
<1>5. Holds(Len(s))
  <2>. HIDE DEF Holds
  <2>. QED
    BY <1>0, <1>4
<1>. QED
  BY <1>1, <1>5

(* What a sequence holds, and that it holds nothing twice.                     *)
Distinct(s) == \A i, j \in 1..Len(s) : s[i] = s[j] => i = j

(* What a sequence's set holds.                                               *)
LEMMA ToSetOf ==
  ASSUME NEW X, NEW s \in Seq(X)
  PROVE  /\ Len(s) \in Nat /\ DOMAIN s = 1..Len(s) /\ ToSet(s) \subseteq X
         /\ \A x : x \in ToSet(s) <=> \E i \in 1..Len(s) : s[i] = x
<1>1. Len(s) \in Nat /\ DOMAIN s = 1..Len(s) /\ \A i \in 1..Len(s) : s[i] \in X
  BY LenProperties
<1>. QED
  BY <1>1 DEF ToSet

(* What is kept of a sequence holds what it held of the set.                  *)
LEMMA OnlyElements ==
  ASSUME NEW X, NEW s \in Seq(X), NEW S
  PROVE  Only(s, S) \in Seq(X) /\ ToSet(Only(s, S)) = ToSet(s) \cap S
<1>. DEFINE t == Only(s, S)
<1>1. /\ t \in Seq(X)
      /\ \A j \in 1..Len(t) : \E i \in 1..Len(s) : s[i] = t[j] /\ s[i] \in S
      /\ \A i \in 1..Len(s) : s[i] \in S => \E j \in 1..Len(t) : t[j] = s[i]
      /\ \A j, k \in 1..Len(t) : j < k =>
           \E p, q \in 1..Len(s) : p < q /\ s[p] = t[j] /\ s[q] = t[k]
  BY OnlyKeeps
<1>. HIDE DEF t
<1>2. \A x : x \in ToSet(s) <=> \E i \in 1..Len(s) : s[i] = x
  BY ToSetOf
<1>3. \A x : x \in ToSet(t) <=> \E i \in 1..Len(t) : t[i] = x
  BY <1>1, ToSetOf
<1>4. ASSUME NEW x \in ToSet(t) PROVE x \in ToSet(s) /\ x \in S
  <2>1. PICK j \in 1..Len(t) : t[j] = x
    BY <1>3
  <2>2. PICK i \in 1..Len(s) : s[i] = t[j] /\ s[i] \in S
    BY <1>1
  <2>. QED
    BY <1>2, <2>1, <2>2
<1>5. ASSUME NEW x \in ToSet(s), x \in S PROVE x \in ToSet(t)
  <2>1. PICK i \in 1..Len(s) : s[i] = x
    BY <1>2
  <2>2. PICK j \in 1..Len(t) : t[j] = s[i]
    BY <1>1, <1>5, <2>1
  <2>. QED
    BY <1>3, <2>1, <2>2
<1>. QED
  BY <1>1, <1>4, <1>5 DEF t

(* Keeping some of a sequence repeats nothing it did not.                     *)
LEMMA OnlyDistinct ==
  ASSUME NEW X, NEW s \in Seq(X), NEW S, Distinct(s)
  PROVE  Distinct(Only(s, S))
<1>. DEFINE t == Only(s, S)
<1>1. t \in Seq(X) /\ \A j, k \in 1..Len(t) : j < k =>
              \E p, q \in 1..Len(s) : p < q /\ s[p] = t[j] /\ s[q] = t[k]
  BY OnlyKeeps
<1>2. Len(s) \in Nat /\ Len(t) \in Nat
  BY <1>1, LenProperties
<1>. HIDE DEF t
<1>3. \A p, q \in 1..Len(s) : p < q => s[p] # s[q]
  BY <1>2 DEF Distinct
<1>4. ASSUME NEW j \in 1..Len(t), NEW k \in 1..Len(t), j < k PROVE t[j] # t[k]
  BY <1>1, <1>3, <1>4
<1>5. ASSUME NEW j \in 1..Len(t), NEW k \in 1..Len(t), t[j] = t[k] PROVE j = k
  <2>1. ~ (j < k) /\ ~ (k < j)
    BY <1>4, <1>5
  <2>. QED
    BY <1>2, <2>1
<1>. QED
  BY <1>5 DEF Distinct, t

(* When the element at p is kept and nothing before it is, it comes first, and *)
(* what is kept is no longer than the rest of s.                               *)
LEMMA OnlyFirst ==
  ASSUME NEW X, NEW s \in Seq(X), NEW S, Distinct(s), NEW p \in 1..Len(s), s[p] \in S,
         \A i \in 1..Len(s) : s[i] \in S => p <= i
  PROVE  Len(Only(s, S)) \in 1..Len(s) - p + 1 /\ Only(s, S)[1] = s[p]
<1>0. Len(s) \in Nat /\ p \in Nat /\ \A i \in 1..Len(s) : s[i] \in X
  BY LenProperties
<1>. DEFINE t == Only(s, S)
<1>1. /\ t \in Seq(X)
      /\ \A j \in 1..Len(t) : \E i \in 1..Len(s) : s[i] = t[j] /\ s[i] \in S
      /\ \E j \in 1..Len(t) : t[j] = s[p]
      /\ \A j, k \in 1..Len(t) : j < k =>
           \E a, b \in 1..Len(s) : a < b /\ s[a] = t[j] /\ s[b] = t[k]
  BY OnlyKeeps
<1>2. Len(t) \in Nat
  BY <1>1, LenProperties
<1>3. PICK f : /\ f[0] = <<>> /\ t = f[Len(s)]
               /\ \A i \in 1..Len(s) :
                    f[i] = IF s[i] \in S THEN Append(f[i-1], s[i]) ELSE f[i-1]
  BY <1>0, OnlyUnfolds
<1>. HIDE DEF t
<1>4. Len(t) <= Len(s) - p + 1
  <2>. DEFINE Holds(n) == /\ f[n] \in Seq(X)
                          /\ IF n < p THEN Len(f[n]) = 0 ELSE Len(f[n]) <= n - p + 1
              N == {n \in Nat : n <= Len(s) => Holds(n)}
  <2>1. 0 \in N
    <3>1. f[0] \in Seq(X) /\ Len(f[0]) = 0
      BY <1>3, EmptySeq
    <3>. QED
      BY <1>0, <3>1
  <2>2. ASSUME NEW n \in Nat, n \in N PROVE n + 1 \in N
    <3>. SUFFICES ASSUME n + 1 <= Len(s) PROVE Holds(n + 1)
      OBVIOUS
    <3>1. Holds(n) /\ n + 1 \in 1..Len(s) /\ (n + 1) - 1 = n
      BY <1>0, <2>2
    <3>2. f[n+1] = IF s[n+1] \in S THEN Append(f[n], s[n+1]) ELSE f[n]
      BY <1>3, <3>1
    <3>3. CASE s[n+1] \notin S
      <4>1. f[n+1] = f[n] /\ f[n] \in Seq(X) /\ n + 1 # p
        BY <3>1, <3>2, <3>3
      <4>2. Len(f[n]) \in Nat
        BY <4>1, LenProperties
      <4>. QED
        BY <1>0, <3>1, <4>1, <4>2
    <3>4. CASE s[n+1] \in S
      <4>1. p <= n + 1
        BY <3>1, <3>4
      <4>2. f[n] \in Seq(X) /\ s[n+1] \in X
        BY <1>0, <3>1
      <4>3. f[n+1] \in Seq(X) /\ Len(f[n+1]) = Len(f[n]) + 1
        BY <3>2, <3>4, <4>2, AppendProperties
      <4>4. Len(f[n]) \in Nat
        BY <4>2, LenProperties
      <4>5. IF n < p THEN Len(f[n]) = 0 ELSE Len(f[n]) <= n - p + 1
        BY <3>1
      <4>6. ~ (n + 1 < p) /\ Len(f[n+1]) <= (n + 1) - p + 1
        BY <1>0, <4>1, <4>3, <4>4, <4>5
      <4>. QED
        BY <4>3, <4>6
    <3>. QED
      BY <3>3, <3>4
  <2>3. Nat \subseteq N
    <3>. HIDE DEF N
    <3>. QED
      BY <2>1, <2>2, Induction
  <2>4. Holds(Len(s))
    <3>. HIDE DEF Holds
    <3>. QED
      BY <1>0, <2>3
  <2>. QED
    BY <1>0, <1>3, <2>4
<1>5. PICK j \in 1..Len(t) : t[j] = s[p]
  BY <1>1
<1>6. j = 1
  <2>. SUFFICES ASSUME j # 1 PROVE FALSE
    OBVIOUS
  <2>1. 1 \in 1..Len(t) /\ 1 < j
    BY <1>2
  <2>2. PICK a \in 1..Len(s), b \in 1..Len(s) : a < b /\ s[a] = t[1] /\ s[b] = t[j]
    BY <1>1, <2>1
  <2>3. b = p
    BY <1>5, <2>2 DEF Distinct
  <2>4. PICK i \in 1..Len(s) : s[i] = t[1] /\ s[i] \in S
    BY <1>1, <2>1
  <2>5. p <= a
    BY <2>2, <2>4
  <2>. QED
    BY <1>0, <2>2, <2>3, <2>5
<1>. QED
  BY <1>0, <1>2, <1>4, <1>5, <1>6 DEF t

(* All of a sequence kept is the sequence.                                    *)
LEMMA OnlyAll ==
  ASSUME NEW X, NEW s \in Seq(X), NEW S, \A i \in 1..Len(s) : s[i] \in S
  PROVE  Only(s, S) = s
<1>0. Len(s) \in Nat /\ \A i \in 1..Len(s) : s[i] \in X
  BY LenProperties
<1>1. PICK f : /\ f[0] = <<>> /\ Only(s, S) = f[Len(s)]
               /\ \A i \in 1..Len(s) :
                    f[i] = IF s[i] \in S THEN Append(f[i-1], s[i]) ELSE f[i-1]
  BY <1>0, OnlyUnfolds
<1>. DEFINE Holds(n) == f[n] \in Seq(X) /\ Len(f[n]) = n /\ \A i \in 1..n : f[n][i] = s[i]
            N == {n \in Nat : n <= Len(s) => Holds(n)}
<1>2. 0 \in N
  <2>1. f[0] \in Seq(X) /\ Len(f[0]) = 0
    BY <1>1, EmptySeq
  <2>. QED
    BY <2>1
<1>3. ASSUME NEW n \in Nat, n \in N PROVE n + 1 \in N
  <2>. SUFFICES ASSUME n + 1 <= Len(s) PROVE Holds(n + 1)
    OBVIOUS
  <2>1. Holds(n) /\ n + 1 \in 1..Len(s) /\ (n + 1) - 1 = n
    BY <1>0, <1>3
  <2>2. f[n+1] = Append(f[n], s[n+1]) /\ s[n+1] \in X
    BY <1>0, <1>1, <2>1
  <2>3. f[n+1] \in Seq(X) /\ Len(f[n+1]) = n + 1 /\ f[n+1][n+1] = s[n+1]
        /\ \A i \in 1..n : f[n+1][i] = f[n][i]
    BY <2>1, <2>2, AppendProperties
  <2>4. \A i \in 1..n+1 : i \in 1..n \/ i = n + 1
    OBVIOUS
  <2>5. \A i \in 1..n+1 : f[n+1][i] = s[i]
    BY <2>1, <2>3, <2>4
  <2>. QED
    BY <2>3, <2>5
<1>4. Nat \subseteq N
  <2>. HIDE DEF N
  <2>. QED
    BY <1>2, <1>3, Induction
<1>5. Holds(Len(s))
  <2>. HIDE DEF Holds
  <2>. QED
    BY <1>0, <1>4
<1>. QED
  BY <1>1, <1>5, SeqEqual

(* None of it kept is nothing.                                                *)
LEMMA OnlyNone ==
  ASSUME NEW X, NEW s \in Seq(X), NEW S, \A i \in 1..Len(s) : s[i] \notin S
  PROVE  Only(s, S) = <<>>
<1>1. /\ Only(s, S) \in Seq(X)
      /\ \A j \in 1..Len(Only(s, S)) : \E i \in 1..Len(s) : s[i] = Only(s, S)[j] /\ s[i] \in S
  BY OnlyKeeps
<1>2. Len(Only(s, S)) \in Nat
  BY <1>1, LenProperties
<1>3. ~ (1 \in 1..Len(Only(s, S)))
  BY <1>1
<1>4. Len(Only(s, S)) = 0
  BY <1>2, <1>3
<1>. QED
  BY <1>1, <1>4, EmptySeq

-----------------------------------------------------------------------------
(* Sound documents: what the operators of the tree rely on and keep.           *)

(* A layer's record, with a value for every property and every tile.           *)
LayerSound(r) ==
  /\ r = [kind |-> r.kind, prop |-> r.prop, tiles |-> r.tiles, run |-> r.run,
          number |-> r.number]
  /\ r.prop = [p \in Prop |-> r.prop[p]]
  /\ r.tiles = [t \in Tile |-> r.tiles[t]]

(* An order that names each layer once, a carrier for each that precedes it,   *)
(* and no layer in a filter.                                                   *)
OrderSound(doc) ==
  /\ doc.order \in Seq(Id) /\ Distinct(doc.order)
  /\ \A i \in 1..Len(doc.order) :
       \/ doc.carrier[doc.order[i]] = Root
       \/ \E j \in 1..i - 1 : doc.order[j] = doc.carrier[doc.order[i]]

Sound(doc) ==
  /\ doc = [order |-> doc.order, carrier |-> doc.carrier, layer |-> doc.layer,
            mask |-> doc.mask, substrate |-> doc.substrate, color |-> doc.color,
            guides |-> doc.guides]
  /\ OrderSound(doc)
  /\ doc.carrier = [l \in Present(doc) |-> doc.carrier[l]]
  /\ doc.layer = [l \in Present(doc) |-> doc.layer[l]]
  /\ doc.mask = [x \in Actor |-> doc.mask[x]]
  /\ \A l \in Present(doc) : LayerSound(doc.layer[l])
  /\ \A l \in Present(doc) :
       doc.carrier[l] # Root => doc.layer[doc.carrier[l]].kind # "filter"

(* A subtree to be grafted: its head first, every other layer after its        *)
(* carrier, which is one of them.                                              *)
TreeToGraft(tree) ==
  /\ tree.order \in Seq(Id) /\ Distinct(tree.order) /\ Len(tree.order) >= 1
  /\ DOMAIN tree.layer = ToSet(tree.order)
  /\ DOMAIN tree.carrier \subseteq ToSet(tree.order)
  /\ \A l \in ToSet(tree.order) : LayerSound(tree.layer[l])
  /\ \A i \in 2..Len(tree.order) :
       /\ tree.order[i] \in DOMAIN tree.carrier
       /\ \E j \in 1..i - 1 : tree.order[j] = tree.carrier[tree.order[i]]
       /\ tree.layer[tree.carrier[tree.order[i]]].kind # "filter"

(* A document's layers are those its order names.                             *)
LEMMA PresentOf ==
  ASSUME NEW doc, doc.order \in Seq(Id)
  PROVE  /\ Len(doc.order) \in Nat /\ DOMAIN doc.order = 1..Len(doc.order)
         /\ Present(doc) \subseteq Id
         /\ \A x : x \in Present(doc) <=> \E i \in 1..Len(doc.order) : doc.order[i] = x
BY ToSetOf DEF Present

(* The one place of an element in a sequence that repeats nothing.            *)
LEMMA PositionOf ==
  ASSUME NEW X, NEW s \in Seq(X), Distinct(s), NEW x \in ToSet(s)
  PROVE  /\ Position(s, x) \in 1..Len(s) /\ s[Position(s, x)] = x
         /\ \A i \in 1..Len(s) : s[i] = x => i = Position(s, x)
<1>1. DOMAIN s = 1..Len(s) /\ \E i \in DOMAIN s : s[i] = x
  BY ToSetOf
<1>2. Position(s, x) \in DOMAIN s /\ s[Position(s, x)] = x
  BY <1>1 DEF Position
<1>. QED
  BY <1>1, <1>2 DEF Distinct

(* A carrier precedes what it carries, and a document holds it.                *)
LEMMA CarrierOf ==
  ASSUME NEW doc, OrderSound(doc), NEW l \in Present(doc), doc.carrier[l] # Root
  PROVE  /\ doc.carrier[l] \in Present(doc)
         /\ Position(doc.order, doc.carrier[l]) < Position(doc.order, l)
<1>1. doc.order \in Seq(Id) /\ Distinct(doc.order)
  BY DEF OrderSound
<1>2. Position(doc.order, l) \in 1..Len(doc.order) /\ doc.order[Position(doc.order, l)] = l
  BY <1>1, PositionOf DEF Present
<1>3. PICK j \in 1..Position(doc.order, l) - 1 : doc.order[j] = doc.carrier[l]
  BY <1>2 DEF OrderSound
<1>4. Len(doc.order) \in Nat
  BY <1>1, LenProperties
<1>5. j \in 1..Len(doc.order) /\ j < Position(doc.order, l)
  BY <1>2, <1>3, <1>4
<1>6. doc.carrier[l] \in Present(doc)
  BY <1>1, <1>3, <1>5, PresentOf
<1>7. j = Position(doc.order, doc.carrier[l])
  BY <1>1, <1>3, <1>5, <1>6, PositionOf DEF Present
<1>. QED
  BY <1>5, <1>6, <1>7

-----------------------------------------------------------------------------
(* What a layer carries                                                        *)

(* Within, along the composite order.                                          *)
WithinSteps(doc, id, f) ==
  /\ f[0] = {id} /\ Within(doc, id) = f[Len(doc.order)]
  /\ \A i \in 1..Len(doc.order) :
       f[i] = IF doc.carrier[doc.order[i]] \in f[i-1]
              THEN f[i-1] \cup {doc.order[i]} ELSE f[i-1]

(* The subtree of a layer is gathered in one pass down the order.             *)
LEMMA WithinUnfolds ==
  ASSUME NEW doc, NEW id, Len(doc.order) \in Nat
  PROVE  \E f : WithinSteps(doc, id, f)
<1>. DEFINE Step(i, was) == IF doc.carrier[doc.order[i]] \in was
                            THEN was \cup {doc.order[i]} ELSE was
            Good(f, n) == f = [i \in 0..n |-> IF i = 0 THEN {id}
                                ELSE IF doc.carrier[doc.order[i]] \in f[i-1]
                                     THEN f[i-1] \cup {doc.order[i]} ELSE f[i-1]]
            N == {n \in Nat : \E f : Good(f, n)}
<1>1. 0 \in N
  <2>1. Good([i \in 0..0 |-> {id}], 0)
    OBVIOUS
  <2>. QED
    BY <2>1
<1>2. ASSUME NEW n \in Nat, n \in N PROVE n + 1 \in N
  <2>1. PICK f : Good(f, n)
    BY <1>2
  <2>. DEFINE next == [i \in 0..n+1 |-> IF i = n + 1 THEN Step(n + 1, f[n]) ELSE f[i]]
  <2>2. Good(next, n + 1)
    <3>1. ASSUME NEW i \in 0..n+1
          PROVE  next[i] = IF i = 0 THEN {id} ELSE Step(i, next[i-1])
      <4>1. CASE i = n + 1
        <5>1. i - 1 = n /\ n \in 0..n+1 /\ n # n + 1 /\ i # 0
          BY <4>1
        <5>. HIDE DEF Step
        <5>. QED
          BY <4>1, <5>1
      <4>2. CASE i \in 0..n
        <5>1. next[i] = f[i] /\ (i # 0 => i - 1 \in 0..n /\ next[i-1] = f[i-1])
          BY <4>2
        <5>2. f[i] = IF i = 0 THEN {id} ELSE Step(i, f[i-1])
          BY <2>1, <4>2
        <5>. HIDE DEF next, Step
        <5>. QED
          BY <5>1, <5>2
      <4>. QED
        BY <4>1, <4>2
    <3>. HIDE DEF next
    <3>2. next = [i \in 0..n+1 |-> next[i]]
      BY DEF next
    <3>. QED
      BY <3>1, <3>2
  <2>. HIDE DEF Good, next
  <2>. QED
    BY <2>2
<1>3. \E f : Good(f, Len(doc.order))
  <2>. HIDE DEF Good
  <2>. QED
    BY <1>1, <1>2, Induction
<1>. DEFINE f == CHOOSE f : Good(f, Len(doc.order))
<1>4. Good(f, Len(doc.order))
  <2>. HIDE DEF Good
  <2>. QED
    BY <1>3
<1>5. Within(doc, id) = f[Len(doc.order)]
  BY DEF Within
<1>. HIDE DEF f
<1>6. f[0] = {id}
  BY <1>4
<1>7. ASSUME NEW i \in 1..Len(doc.order)
      PROVE  f[i] = Step(i, f[i-1])
  <2>1. i \in 0..Len(doc.order) /\ i # 0
    OBVIOUS
  <2>. QED
    BY <1>4, <2>1
<1>. QED
  BY <1>5, <1>6, <1>7 DEF WithinSteps

(* Within(doc, id) is the least set that holds id and whatever one of it       *)
(* carries.                                                                    *)
LEMMA WithinIsClosed ==
  ASSUME NEW doc, OrderSound(doc), NEW id, id # Root
  PROVE  /\ id \in Within(doc, id)
         /\ Within(doc, id) \subseteq {id} \cup Present(doc)
         /\ \A m \in Present(doc) : doc.carrier[m] \in Within(doc, id) => m \in Within(doc, id)
         /\ \A m \in Within(doc, id) : m # id =>
              m \in Present(doc) /\ doc.carrier[m] \in Within(doc, id)
<1>. DEFINE o == doc.order
            n == Len(o)
<1>0. /\ n \in Nat /\ o \in Seq(Id) /\ Distinct(o)
      /\ \A x : x \in Present(doc) <=> \E i \in 1..n : o[i] = x
  BY PresentOf DEF OrderSound
<1>. HIDE DEF o
<1>a. PICK f : WithinSteps(doc, id, f)
  BY <1>0, WithinUnfolds DEF o
<1>1. /\ f[0] = {id} /\ Within(doc, id) = f[n]
      /\ \A i \in 1..n : f[i] = IF doc.carrier[o[i]] \in f[i-1]
                                THEN f[i-1] \cup {o[i]} ELSE f[i-1]
  BY <1>a DEF WithinSteps, o
<1>. DEFINE Holds(k) == /\ \A j \in 0..k : f[j] \subseteq f[k]
                        /\ \A x \in f[k] : x = id \/ \E j \in 1..k :
                             x = o[j] /\ doc.carrier[x] \in f[j-1]
            N == {k \in Nat : k <= n => Holds(k)}
<1>2. 0 \in N
  BY <1>1
<1>3. ASSUME NEW k \in Nat, k \in N PROVE k + 1 \in N
  <2>. SUFFICES ASSUME k + 1 <= n PROVE Holds(k + 1)
    OBVIOUS
  <2>1. Holds(k) /\ k + 1 \in 1..n /\ (k + 1) - 1 = k
    BY <1>0, <1>3
  <2>2. f[k+1] = IF doc.carrier[o[k+1]] \in f[k] THEN f[k] \cup {o[k+1]} ELSE f[k]
    BY <1>1, <2>1
  <2>3. f[k] \subseteq f[k+1]
    BY <2>2
  <2>4. ASSUME NEW j \in 0..k+1 PROVE f[j] \subseteq f[k+1]
    <3>1. j \in 0..k \/ j = k + 1
      OBVIOUS
    <3>. QED
      BY <2>1, <2>3, <3>1
  <2>5. ASSUME NEW x \in f[k+1], x # id
        PROVE  \E j \in 1..k+1 : x = o[j] /\ doc.carrier[x] \in f[j-1]
    <3>1. CASE x \in f[k]
      <4>1. PICK j \in 1..k : x = o[j] /\ doc.carrier[x] \in f[j-1]
        BY <2>1, <2>5, <3>1
      <4>. QED
        BY <4>1
    <3>2. CASE x \notin f[k]
      <4>1. x = o[k+1] /\ doc.carrier[x] \in f[k] /\ k + 1 \in 1..k+1
        BY <2>2, <3>2
      <4>. QED
        BY <2>1, <4>1
    <3>. QED
      BY <3>1, <3>2
  <2>. QED
    BY <2>4, <2>5
<1>4. Nat \subseteq N
  <2>. HIDE DEF N
  <2>. QED
    BY <1>2, <1>3, Induction
<1>5. ASSUME NEW k \in 0..n PROVE Holds(k)
  <2>. HIDE DEF Holds
  <2>. QED
    BY <1>0, <1>4
<1>6. n \in 0..n /\ 0 \in 0..n
  BY <1>0
<1>. DEFINE W == Within(doc, id)
<1>7. id \in W
  BY <1>1, <1>5, <1>6
<1>8. ASSUME NEW x \in W, x # id
      PROVE  x \in Present(doc) /\ doc.carrier[x] \in W
  <2>1. PICK j \in 1..n : x = o[j] /\ doc.carrier[x] \in f[j-1]
    BY <1>1, <1>5, <1>6, <1>8
  <2>2. j - 1 \in 0..n
    BY <1>0
  <2>3. f[j-1] \subseteq f[n]
    BY <1>5, <1>6, <2>2
  <2>4. x \in Present(doc)
    BY <1>0, <2>1
  <2>. QED
    BY <1>1, <2>1, <2>3, <2>4
<1>9. ASSUME NEW m \in Present(doc), doc.carrier[m] \in W PROVE m \in W
  <2>1. PICK i \in 1..n : o[i] = m
    BY <1>0
  <2>2. i - 1 \in 0..n /\ i \in 0..n
    BY <1>0
  <2>3. doc.carrier[m] \in f[i-1]
    <3>1. CASE doc.carrier[m] = id
      <4>1. Holds(i - 1) /\ 0 \in 0..i - 1
        BY <1>5, <2>2
      <4>2. f[0] \subseteq f[i-1]
        BY <4>1
      <4>. QED
        BY <1>1, <4>2, <3>1
    <3>2. CASE doc.carrier[m] # id
      <4>1. PICK j \in 1..n : doc.carrier[m] = o[j] /\ doc.carrier[o[j]] \in f[j-1]
        BY <1>1, <1>5, <1>6, <1>9, <3>2
      <4>2. doc.carrier[m] # Root
        <5>1. o[j] \in Id
          BY <1>0, <4>1, LenProperties
        <5>. QED
          BY <4>1, <5>1 DEF Id, Root
      <4>3. PICK k \in 1..i - 1 : o[k] = doc.carrier[m]
        BY <2>1, <4>2 DEF OrderSound, o
      <4>4. k \in 1..n /\ k = j
        BY <1>0, <2>2, <4>1, <4>3 DEF Distinct
      <4>5. j \in 0..n /\ j \in 0..i - 1
        BY <1>0, <4>3, <4>4
      <4>6. o[j] \in f[j]
        BY <1>1, <4>1
      <4>. QED
        BY <1>5, <2>2, <4>1, <4>5, <4>6
    <3>. QED
      BY <3>1, <3>2
  <2>4. m \in f[i]
    BY <1>1, <2>1, <2>3
  <2>. QED
    BY <1>1, <1>5, <1>6, <2>2, <2>4
<1>. HIDE DEF Holds, N
<1>10. W \subseteq {id} \cup Present(doc)
  BY <1>8
<1>. QED
  BY <1>7, <1>8, <1>9, <1>10

(* It is the least set that holds the layer and what its members carry.       *)
LEMMA WithinIsLeast ==
  ASSUME NEW doc, Len(doc.order) \in Nat, NEW id, NEW S, id \in S,
         \A i \in 1..Len(doc.order) : doc.carrier[doc.order[i]] \in S => doc.order[i] \in S
  PROVE  Within(doc, id) \subseteq S
<1>. DEFINE o == doc.order
            n == Len(o)
<1>a. PICK f : WithinSteps(doc, id, f)
  BY WithinUnfolds
<1>1. /\ f[0] = {id} /\ Within(doc, id) = f[n]
      /\ \A i \in 1..n : f[i] = IF doc.carrier[o[i]] \in f[i-1]
                                THEN f[i-1] \cup {o[i]} ELSE f[i-1]
  BY <1>a DEF WithinSteps
<1>. DEFINE N == {k \in Nat : k <= n => f[k] \subseteq S}
<1>2. 0 \in N
  BY <1>1
<1>3. ASSUME NEW k \in Nat, k \in N PROVE k + 1 \in N
  <2>. SUFFICES ASSUME k + 1 <= n PROVE f[k+1] \subseteq S
    OBVIOUS
  <2>1. f[k] \subseteq S /\ k + 1 \in 1..n /\ (k + 1) - 1 = k
    BY <1>3
  <2>2. f[k+1] = IF doc.carrier[o[k+1]] \in f[k] THEN f[k] \cup {o[k+1]} ELSE f[k]
    BY <1>1, <2>1
  <2>. QED
    BY <2>1, <2>2
<1>4. Nat \subseteq N
  <2>. HIDE DEF N
  <2>. QED
    BY <1>2, <1>3, Induction
<1>. QED
  BY <1>1, <1>4

(* Nothing a layer carries precedes it.                                        *)
LEMMA WithinComesAfter ==
  ASSUME NEW doc, OrderSound(doc), NEW id \in Present(doc)
  PROVE  /\ Within(doc, id) \subseteq Present(doc)
         /\ \A i \in 1..Len(doc.order) : doc.order[i] \in Within(doc, id) =>
                                           Position(doc.order, id) <= i
<1>. DEFINE o == doc.order
            p == Position(o, id)
            S == {o[i] : i \in p..Len(o)}
<1>1. /\ Len(o) \in Nat /\ o \in Seq(Id) /\ Distinct(o) /\ id \in Id /\ id # Root
      /\ \A x : x \in Present(doc) <=> \E i \in 1..Len(o) : o[i] = x
  BY PresentOf DEF OrderSound, Id, Root
<1>2. p \in 1..Len(o) /\ o[p] = id
  BY <1>1, PositionOf DEF Present
<1>3. id \in S
  BY <1>1, <1>2
<1>4. ASSUME NEW i \in 1..Len(o), doc.carrier[o[i]] \in S PROVE o[i] \in S
  <2>1. PICK j \in p..Len(o) : doc.carrier[o[i]] = o[j]
    BY <1>4
  <2>2. o[j] # Root /\ j \in 1..Len(o)
    <3>1. j \in 1..Len(o)
      BY <1>2
    <3>2. o[j] \in Id
      BY <1>1, <3>1, LenProperties
    <3>. QED
      BY <3>1, <3>2 DEF Id, Root
  <2>3. PICK k \in 1..i - 1 : o[k] = o[j]
    BY <2>1, <2>2 DEF OrderSound
  <2>4. k = j
    BY <1>1, <2>2, <2>3 DEF Distinct
  <2>5. i \in p..Len(o)
    BY <1>2, <2>3, <2>4
  <2>. QED
    BY <2>5
<1>5. Within(doc, id) \subseteq S
  <2>. HIDE DEF S
  <2>. QED
    BY <1>1, <1>3, <1>4, WithinIsLeast
<1>6. ASSUME NEW i \in 1..Len(o), o[i] \in Within(doc, id) PROVE p <= i
  <2>1. PICK j \in p..Len(o) : o[i] = o[j]
    BY <1>5, <1>6
  <2>2. i = j
    BY <1>1, <1>2, <2>1 DEF Distinct
  <2>. QED
    BY <1>2, <2>1, <2>2
<1>7. Within(doc, id) \subseteq Present(doc)
  BY <1>1, WithinIsClosed
<1>. QED
  BY <1>6, <1>7

(* The subtree in document order: its layer first, and no more of them than   *)
(* follow it.                                                                 *)
LEMMA SubtreeIdsOf ==
  ASSUME NEW doc, OrderSound(doc), NEW id \in Present(doc)
  PROVE  /\ SubtreeIds(doc, id) \in Seq(Id) /\ Distinct(SubtreeIds(doc, id))
         /\ Len(SubtreeIds(doc, id)) \in 1..Len(doc.order) - Position(doc.order, id) + 1
         /\ SubtreeIds(doc, id)[1] = id
         /\ ToSet(SubtreeIds(doc, id)) = Within(doc, id)
<1>. DEFINE o == doc.order
            p == Position(o, id)
            W == Within(doc, id)
<1>1. o \in Seq(Id) /\ Distinct(o) /\ id # Root
  BY PresentOf DEF OrderSound, Id, Root
<1>2. p \in 1..Len(o) /\ o[p] = id
  BY <1>1, PositionOf DEF Present
<1>3. W \subseteq Present(doc) /\ \A i \in 1..Len(o) : o[i] \in W => p <= i
  BY WithinComesAfter
<1>4. id \in W
  BY <1>1, WithinIsClosed
<1>5. SubtreeIds(doc, id) = Only(o, W)
  BY DEF SubtreeIds
<1>. HIDE DEF o, p, W
<1>6. Len(Only(o, W)) \in 1..Len(o) - p + 1 /\ Only(o, W)[1] = o[p]
  BY <1>1, <1>2, <1>3, <1>4, OnlyFirst
<1>7. Only(o, W) \in Seq(Id) /\ ToSet(Only(o, W)) = ToSet(o) \cap W
  BY <1>1, OnlyElements
<1>8. Distinct(Only(o, W))
  BY <1>1, OnlyDistinct
<1>9. ToSet(o) \cap W = W
  BY <1>3 DEF Present, o
<1>. QED
  BY <1>2, <1>5, <1>6, <1>7, <1>8, <1>9 DEF o, p, W

(* Of the layers kept, each still comes after its carrier.                     *)
CarriersFirst(t, carrier, S) ==
  \A i \in 1..Len(t) : carrier[t[i]] # Root /\ carrier[t[i]] \in S =>
                         \E j \in 1..i - 1 : t[j] = carrier[t[i]]

(* Keeping some layers of an order keeps each after its carrier.              *)
LEMMA OnlyKeepsCarriersFirst ==
  ASSUME NEW doc, OrderSound(doc), NEW S
  PROVE  CarriersFirst(Only(doc.order, S), doc.carrier, S)
<1>. DEFINE o == doc.order
            t == Only(o, S)
<1>. SUFFICES ASSUME NEW i \in 1..Len(t), doc.carrier[t[i]] # Root, doc.carrier[t[i]] \in S
              PROVE  \E j \in 1..i - 1 : t[j] = doc.carrier[t[i]]
  BY DEF CarriersFirst
<1>. DEFINE c == doc.carrier[t[i]]
<1>0. i \in 1..Len(t) /\ c # Root /\ c \in S /\ c = doc.carrier[t[i]]
  OBVIOUS
<1>1. o \in Seq(Id) /\ Distinct(o) /\ Len(o) \in Nat
  BY LenProperties DEF OrderSound
<1>. HIDE DEF o
<1>2. /\ t \in Seq(Id)
      /\ \A j \in 1..Len(t) : \E k \in 1..Len(o) : o[k] = t[j] /\ o[k] \in S
      /\ \A k \in 1..Len(o) : o[k] \in S => \E j \in 1..Len(t) : t[j] = o[k]
      /\ \A j, k \in 1..Len(t) : j < k =>
           \E p, q \in 1..Len(o) : p < q /\ o[p] = t[j] /\ o[q] = t[k]
  <2>1. t \in Seq(Id)
    BY ONLY <1>1, OnlyKeeps
  <2>2. \A j \in 1..Len(t) : \E k \in 1..Len(o) : o[k] = t[j] /\ o[k] \in S
    BY ONLY <1>1, OnlyKeeps
  <2>3. \A k \in 1..Len(o) : o[k] \in S => \E j \in 1..Len(t) : t[j] = o[k]
    BY ONLY <1>1, OnlyKeeps
  <2>4. \A j, k \in 1..Len(t) : j < k =>
           \E p, q \in 1..Len(o) : p < q /\ o[p] = t[j] /\ o[q] = t[k]
    BY ONLY <1>1, OnlyKeeps
  <2>. QED
    BY <2>1, <2>2, <2>3, <2>4
<1>3. Len(t) \in Nat
  BY <1>2, LenProperties
<1>. HIDE DEF t, c
<1>4. PICK k \in 1..Len(o) : o[k] = t[i]
  BY <1>0, <1>2
<1>5. PICK h \in 1..k - 1 : o[h] = c
  BY <1>0, <1>4 DEF OrderSound, o
<1>6. h \in 1..Len(o) /\ h < k
  BY <1>1, <1>5
<1>7. PICK j \in 1..Len(t) : t[j] = c
  BY <1>0, <1>2, <1>5, <1>6
<1>8. j < i
  <2>. SUFFICES ASSUME ~ (j < i) PROVE FALSE
    OBVIOUS
  <2>0. i \in 1..Len(t)
    BY <1>0
  <2>1. j # i
    BY <1>1, <1>4, <1>5, <1>6, <1>7 DEF Distinct
  <2>2. i < j
    BY <1>3, <1>7, <2>0, <2>1
  <2>3. PICK p \in 1..Len(o), q \in 1..Len(o) : p < q /\ o[p] = t[i] /\ o[q] = t[j]
    BY <1>2, <1>7, <2>0, <2>2
  <2>4. p = k /\ q = h
    BY <1>1, <1>4, <1>5, <1>6, <1>7, <2>3 DEF Distinct
  <2>. QED
    BY <1>1, <1>6, <2>3, <2>4
<1>9. j \in 1..i - 1
  BY <1>0, <1>3, <1>7, <1>8
<1>. QED
  BY <1>0, <1>7, <1>9 DEF t

(* The stack of a carrier holds what it carries.                              *)
LEMMA StackOfElements ==
  ASSUME NEW doc, doc.order \in Seq(Id), NEW c
  PROVE  /\ StackOf(doc, c) \in Seq(Id)
         /\ \A l : l \in ToSet(StackOf(doc, c)) <=> l \in Present(doc) /\ doc.carrier[l] = c
<1>. DEFINE S == {l \in Present(doc) : doc.carrier[l] = c}
<1>1. StackOf(doc, c) \in Seq(Id) /\ ToSet(StackOf(doc, c)) = ToSet(doc.order) \cap S
  BY OnlyElements DEF StackOf
<1>. QED
  BY <1>1 DEF Present

(* A slot of c lies in the order, after c.                                     *)
LEMMA SlotIsAfterCarrier ==
  ASSUME NEW doc, OrderSound(doc), NEW c, MayCarry(doc, c), NEW place
  PROVE  /\ Slot(doc, c, place) \in 0..Len(doc.order)
         /\ c # Root => \E j \in 1..Slot(doc, c, place) : doc.order[j] = c
<1>. DEFINE o == doc.order
<1>1. o \in Seq(Id) /\ Distinct(o) /\ Len(o) \in Nat
  BY LenProperties DEF OrderSound
<1>2. ASSUME NEW l \in Present(doc)
      PROVE  /\ EndOf(doc, l) \in Position(o, l)..Len(o)
             /\ Position(o, l) \in 1..Len(o) /\ o[Position(o, l)] = l
  <2>1. Position(o, l) \in 1..Len(o) /\ o[Position(o, l)] = l
    BY <1>1, PositionOf DEF Present
  <2>2. Len(SubtreeIds(doc, l)) \in 1..Len(o) - Position(o, l) + 1
    BY SubtreeIdsOf
  <2>. QED
    BY <1>1, <2>1, <2>2 DEF EndOf
<1>3. CASE place \in ToSet(StackOf(doc, c))
  <2>1. place \in Present(doc) /\ doc.carrier[place] = c
    BY <1>1, <1>3, StackOfElements
  <2>2. Slot(doc, c, place) = EndOf(doc, place)
    BY <1>3 DEF Slot
  <2>3. c # Root => c \in Present(doc) /\ Position(o, c) < Position(o, place)
    BY <2>1, CarrierOf
  <2>4. EndOf(doc, place) \in Position(o, place)..Len(o) /\ Position(o, place) \in 1..Len(o)
    BY <1>2, <2>1
  <2>5. c # Root => Position(o, c) \in 1..Len(o) /\ o[Position(o, c)] = c
    BY <1>2, <2>3
  <2>6. c # Root => Position(o, c) \in 1..EndOf(doc, place)
    BY <1>1, <2>3, <2>4, <2>5
  <2>7. EndOf(doc, place) \in 0..Len(o)
    BY <1>1, <2>4
  <2>. QED
    BY <2>2, <2>5, <2>6, <2>7
<1>4. CASE place \notin ToSet(StackOf(doc, c)) /\ c = Root
  BY <1>1, <1>4 DEF Slot
<1>5. CASE place \notin ToSet(StackOf(doc, c)) /\ c # Root
  <2>1. c \in Present(doc)
    BY <1>5 DEF MayCarry
  <2>2. Slot(doc, c, place) = IF place = Bottom THEN Position(o, c) ELSE EndOf(doc, c)
    BY <1>5 DEF Slot
  <2>3. /\ EndOf(doc, c) \in Position(o, c)..Len(o)
        /\ Position(o, c) \in 1..Len(o) /\ o[Position(o, c)] = c
    BY <1>2, <2>1
  <2>4. Slot(doc, c, place) \in 0..Len(o) /\ Position(o, c) \in 1..Slot(doc, c, place)
    BY <1>1, <2>2, <2>3
  <2>. QED
    BY <2>3, <2>4
<1>. QED
  BY <1>3, <1>4, <1>5

-----------------------------------------------------------------------------
(* Tree surgery                                                                *)

(* The record of a document.                                                   *)
Shaped(doc) ==
  doc = [order |-> doc.order, carrier |-> doc.carrier, layer |-> doc.layer,
         mask |-> doc.mask, substrate |-> doc.substrate, color |-> doc.color,
         guides |-> doc.guides]

(* The parts of a document that are not its tree.                              *)
SameGlobals(doc, other) ==
  /\ doc.mask = other.mask /\ doc.substrate = other.substrate
  /\ doc.color = other.color /\ doc.guides = other.guides

(* Whatever reads the tree reads its order and its carriers alone.             *)
LEMMA SameTree ==
  ASSUME NEW D, NEW E, OrderSound(D), D.order = E.order, D.carrier = E.carrier
  PROVE  /\ OrderSound(E) /\ Present(E) = Present(D)
         /\ \A id \in Id : Within(E, id) = Within(D, id) /\ SubtreeIds(E, id) = SubtreeIds(D, id)
         /\ \A c : StackOf(E, c) = StackOf(D, c)
         /\ \A c \in Present(D) \cup {Root} : \A place : Slot(E, c, place) = Slot(D, c, place)
<1>1. OrderSound(E)
  BY DEF OrderSound
<1>2. Present(E) = Present(D) /\ Present(D) \subseteq Id
  BY PresentOf DEF Present, OrderSound
<1>3. ASSUME NEW id \in Id PROVE Within(E, id) = Within(D, id)
  <2>0. id # Root /\ Len(D.order) \in Nat /\ D.order \in Seq(Id)
    BY LenProperties DEF Id, Root, OrderSound
  <2>1. \A i \in 1..Len(D.order) : D.order[i] \in Present(D)
    BY <2>0, PresentOf
  <2>2. Within(D, id) \subseteq Within(E, id)
    <3>1. id \in Within(E, id) /\ \A m \in Present(E) : E.carrier[m] \in Within(E, id) => m \in Within(E, id)
      BY <1>1, <2>0, WithinIsClosed
    <3>. QED
      BY <1>2, <2>0, <2>1, <3>1, WithinIsLeast
  <2>3. Within(E, id) \subseteq Within(D, id)
    <3>1. id \in Within(D, id) /\ \A m \in Present(D) : D.carrier[m] \in Within(D, id) => m \in Within(D, id)
      BY <2>0, WithinIsClosed
    <3>. QED
      BY <1>2, <2>0, <2>1, <3>1, WithinIsLeast
  <2>. QED
    BY <2>2, <2>3
<1>4. ASSUME NEW id \in Id PROVE SubtreeIds(E, id) = SubtreeIds(D, id)
  BY <1>3 DEF SubtreeIds
<1>5. ASSUME NEW c PROVE StackOf(E, c) = StackOf(D, c)
  <2>1. {l \in Present(E) : E.carrier[l] = c} = {l \in Present(D) : D.carrier[l] = c}
    BY <1>2
  <2>. QED
    BY <2>1 DEF StackOf
<1>6. ASSUME NEW l \in Present(D) PROVE EndOf(E, l) = EndOf(D, l)
  BY <1>2, <1>4 DEF EndOf
<1>7. ASSUME NEW c \in Present(D) \cup {Root}, NEW place
      PROVE  Slot(E, c, place) = Slot(D, c, place)
  <2>1. CASE place \in ToSet(StackOf(D, c))
    <3>1. place \in Present(D)
      BY <2>1, StackOfElements DEF OrderSound
    <3>. QED
      BY <1>5, <1>6, <2>1, <3>1 DEF Slot
  <2>2. CASE place \notin ToSet(StackOf(D, c))
    BY <1>5, <1>6, <2>2 DEF Slot
  <2>. QED
    BY <2>1, <2>2
<1>. QED
  BY <1>1, <1>2, <1>3, <1>4, <1>5, <1>7

(* Layers are taken out with everything they carry.                            *)
LEMMA WithoutIsSound ==
  ASSUME NEW doc, Sound(doc), NEW gone,
         \A m \in Present(doc) : doc.carrier[m] \in gone => m \in gone
  PROVE  /\ Sound(Without(doc, gone))
         /\ Present(Without(doc, gone)) = Present(doc) \ gone
         /\ \A l \in Present(doc) \ gone : /\ Without(doc, gone).carrier[l] = doc.carrier[l]
                                           /\ Without(doc, gone).layer[l] = doc.layer[l]
         /\ Without(doc, gone).order = Only(doc.order, Present(doc) \ gone)
         /\ SameGlobals(Without(doc, gone), doc)
<1>. DEFINE kept == Present(doc) \ gone
            new  == Without(doc, gone)
            t    == Only(doc.order, kept)
<1>0. Shaped(doc)
  BY DEF Sound, Shaped
<1>1. /\ Shaped(new) /\ new.order = t /\ SameGlobals(new, doc)
      /\ new.carrier = [l \in kept |-> doc.carrier[l]]
      /\ new.layer = [l \in kept |-> doc.layer[l]]
  <2>. DEFINE carrier == [l \in kept |-> doc.carrier[l]]
              layer == [l \in kept |-> doc.layer[l]]
  <2>1. new = [doc EXCEPT !.order = t, !.carrier = carrier, !.layer = layer]
    BY DEF Without, Restrict
  <2>. HIDE DEF new, t, carrier, layer
  <2>2. /\ Shaped(new) /\ SameGlobals(new, doc)
        /\ new.order = t /\ new.carrier = carrier /\ new.layer = layer
    BY <1>0, <2>1 DEF Shaped, SameGlobals
  <2>. QED
    BY <2>2 DEF carrier, layer
<1>2. OrderSound(doc) /\ doc.order \in Seq(Id) /\ Distinct(doc.order)
  BY DEF Sound, OrderSound
<1>3. t \in Seq(Id) /\ ToSet(t) = kept /\ Distinct(t)
  <2>1. t \in Seq(Id) /\ ToSet(t) = ToSet(doc.order) \cap kept /\ Distinct(t)
    BY <1>2, OnlyElements, OnlyDistinct
  <2>. QED
    BY <2>1 DEF Present
<1>4. Present(new) = kept
  BY <1>1, <1>3 DEF Present
<1>. HIDE DEF new
<1>5. \A l \in kept : new.carrier[l] = doc.carrier[l] /\ new.layer[l] = doc.layer[l]
  BY <1>1
<1>6. \A l \in Present(doc) : doc.carrier[l] # Root => doc.carrier[l] \in Present(doc)
  BY <1>2, CarrierOf
<1>7. \A l \in kept : doc.carrier[l] # Root => doc.carrier[l] \in kept
  BY <1>6
<1>8. ASSUME NEW i \in 1..Len(t), new.carrier[t[i]] # Root
      PROVE  \E j \in 1..i - 1 : t[j] = new.carrier[t[i]]
  <2>1. t[i] \in kept
    <3>. HIDE DEF t, kept
    <3>. QED
      BY <1>3, ToSetOf
  <2>2. new.carrier[t[i]] = doc.carrier[t[i]] /\ doc.carrier[t[i]] \in kept
    BY <1>5, <1>7, <1>8, <2>1
  <2>3. CarriersFirst(t, doc.carrier, kept)
    BY <1>2, OnlyKeepsCarriersFirst
  <2>. HIDE DEF kept, t
  <2>. QED
    BY <1>8, <2>2, <2>3 DEF CarriersFirst
<1>9. OrderSound(new)
  <2>. HIDE DEF t
  <2>. QED
    BY <1>1, <1>3, <1>8 DEF OrderSound
<1>10. \A l \in kept : LayerSound(new.layer[l])
  BY <1>5 DEF Sound
<1>11. \A l \in kept : new.carrier[l] # Root => new.layer[new.carrier[l]].kind # "filter"
  BY <1>5, <1>7 DEF Sound
<1>12. new.mask = [x \in Actor |-> new.mask[x]]
  BY <1>1 DEF Sound, SameGlobals
<1>13. Sound(new)
  <2>1. new.carrier = [l \in kept |-> new.carrier[l]] /\ new.layer = [l \in kept |-> new.layer[l]]
    BY <1>1
  <2>. HIDE DEF kept, t
  <2>. QED
    BY <1>1, <1>4, <1>9, <1>10, <1>11, <1>12, <2>1 DEF Sound, Shaped
<1>. QED
  BY <1>1, <1>4, <1>5, <1>13 DEF new

(* Nothing is taken out.                                                       *)
LEMMA WithoutNothing ==
  ASSUME NEW doc, Sound(doc)
  PROVE  Without(doc, {}) = doc
<1>1. Present(doc) \ {} = Present(doc)
  OBVIOUS
<1>2. Only(doc.order, Present(doc)) = doc.order
  <2>1. doc.order \in Seq(Id)
    BY DEF Sound, OrderSound
  <2>2. \A i \in 1..Len(doc.order) : doc.order[i] \in Present(doc)
    BY <2>1, PresentOf
  <2>. QED
    BY <2>1, <2>2, OnlyAll
<1>3. Restrict(doc.carrier, Present(doc)) = doc.carrier /\ Restrict(doc.layer, Present(doc)) = doc.layer
  BY DEF Sound, Restrict
<1>4. Without(doc, {}) = [doc EXCEPT !.order = doc.order, !.carrier = doc.carrier, !.layer = doc.layer]
  BY <1>1, <1>2, <1>3 DEF Without
<1>. QED
  BY <1>4 DEF Sound

(* s is o with t put in after its first `slot` elements.                       *)
Spliced(o, slot, t, s) ==
  /\ s \in Seq(Id) /\ Len(s) = Len(o) + Len(t)
  /\ \A i \in 1..Len(o) + Len(t) :
       s[i] = IF i <= slot THEN o[i]
              ELSE IF i <= slot + Len(t) THEN t[i - slot] ELSE o[i - Len(t)]

(* Two parts of an order with another between them.                           *)
LEMMA SplicedOf ==
  ASSUME NEW o \in Seq(Id), NEW t \in Seq(Id), NEW slot \in 0..Len(o)
  PROVE  Spliced(o, slot, t, SubSeq(o, 1, slot) \o t \o SubSeq(o, slot + 1, Len(o)))
<1>. DEFINE n == Len(o)
            k == Len(t)
            foot == SubSeq(o, 1, slot)
            head == SubSeq(o, slot + 1, n)
<1>2. o \in Seq(Id) /\ n \in Nat
  BY LenProperties
<1>3. t \in Seq(Id) /\ k \in Nat
  BY LenProperties
<1>4. slot \in Nat /\ slot <= n
  BY <1>2
<1>5. /\ foot \in Seq(Id) /\ Len(foot) = slot /\ \A i \in 1..slot : foot[i] = o[i]
  <2>1. \A i \in 1..slot : o[i] \in Id
    BY <1>2, <1>4, LenProperties
  <2>. QED
    BY <1>4, <2>1, SubSeqProperties
<1>6. /\ head \in Seq(Id) /\ Len(head) = n - slot /\ \A i \in 1..n - slot : head[i] = o[slot + i]
  <2>1. \A i \in slot + 1..n : o[i] \in Id
    BY <1>2, <1>4, LenProperties
  <2>2. slot + 1 \in Nat /\ slot + 1 <= n + 1
    BY <1>4
  <2>. QED
    BY <1>2, <1>4, <2>1, <2>2, SubSeqProperties
<1>. DEFINE s == foot \o t \o head
<1>. HIDE DEF n, k, foot, head, s
<1>a. s = foot \o t \o head
  BY DEF s
<1>7. /\ s \in Seq(Id) /\ Len(s) = n + k
      /\ \A i \in 1..n + k : s[i] = IF i <= slot THEN o[i]
                                    ELSE IF i <= slot + k THEN t[i - slot] ELSE o[i - k]
  <2>0. Len(t) = k
    BY DEF k
  <2>1. /\ foot \o t \in Seq(Id) /\ Len(foot \o t) = slot + k
        /\ \A i \in 1..slot + k : (foot \o t)[i] = IF i <= slot THEN foot[i] ELSE t[i - slot]
    <3>1. /\ foot \o t \in Seq(Id) /\ Len(foot \o t) = Len(foot) + Len(t)
          /\ \A i \in 1..Len(foot) + Len(t) :
               (foot \o t)[i] = IF i <= Len(foot) THEN foot[i] ELSE t[i - Len(foot)]
      BY <1>3, <1>5, ConcatProperties
    <3>. QED
      BY <1>5, <2>0, <3>1
  <2>2. /\ (foot \o t) \o head \in Seq(Id) /\ Len((foot \o t) \o head) = (slot + k) + (n - slot)
        /\ \A i \in 1..(slot + k) + (n - slot) :
             ((foot \o t) \o head)[i] = IF i <= slot + k THEN (foot \o t)[i] ELSE head[i - (slot + k)]
    <3>. DEFINE low == foot \o t
    <3>0. low \in Seq(Id) /\ Len(low) = slot + k
      BY <2>1
    <3>. HIDE DEF low
    <3>1. /\ low \o head \in Seq(Id) /\ Len(low \o head) = Len(low) + Len(head)
          /\ \A i \in 1..Len(low) + Len(head) :
               (low \o head)[i] = IF i <= Len(low) THEN low[i] ELSE head[i - Len(low)]
      BY <1>6, <3>0, ConcatProperties
    <3>2. /\ low \o head \in Seq(Id) /\ Len(low \o head) = (slot + k) + (n - slot)
          /\ \A i \in 1..(slot + k) + (n - slot) :
               (low \o head)[i] = IF i <= slot + k THEN low[i] ELSE head[i - (slot + k)]
      BY <1>6, <3>0, <3>1
    <3>. QED
      BY <3>2 DEF low
  <2>3. (slot + k) + (n - slot) = n + k
    BY <1>2, <1>3, <1>4
  <2>4. ASSUME NEW i \in 1..n + k
        PROVE  s[i] = IF i <= slot THEN o[i]
                      ELSE IF i <= slot + k THEN t[i - slot] ELSE o[i - k]
    <3>1. CASE i <= slot
      <4>1. i \in 1..slot /\ i \in 1..slot + k /\ i <= slot + k
        BY <3>1, <1>3, <1>4
      <4>. QED
        BY <1>a, <1>5, <2>1, <2>2, <2>3, <3>1, <4>1
    <3>2. CASE slot < i /\ i <= slot + k
      <4>1. i \in 1..slot + k /\ ~ (i <= slot)
        BY <3>2, <1>3, <1>4
      <4>. QED
        BY <1>a, <2>1, <2>2, <2>3, <3>2, <4>1
    <3>3. CASE slot + k < i
      <4>1. ~ (i <= slot + k) /\ ~ (i <= slot) /\ i - (slot + k) \in 1..n - slot
            /\ slot + (i - (slot + k)) = i - k
        BY <3>3, <1>2, <1>3, <1>4
      <4>. QED
        BY <1>a, <1>6, <2>2, <2>3, <4>1
    <3>. QED
      BY <1>2, <1>3, <1>4, <3>1, <3>2, <3>3
  <2>. QED
    BY <1>a, <2>2, <2>3, <2>4
<1>. QED
  BY <1>7 DEF Spliced, s, n, k, foot, head

(* new is the document with the tree in the stack of c.                        *)
Grafted(doc, tree, c, new) ==
  /\ Sound(new) /\ SameGlobals(new, doc)
  /\ Present(new) = Present(doc) \cup ToSet(tree.order)
  /\ \A l \in Present(doc) : new.carrier[l] = doc.carrier[l] /\ new.layer[l] = doc.layer[l]
  /\ new.carrier[tree.order[1]] = c
  /\ \A i \in 2..Len(tree.order) : new.carrier[tree.order[i]] = tree.carrier[tree.order[i]]
  /\ \A l \in ToSet(tree.order) : new.layer[l] = tree.layer[l]

(* A subtree is grafted into a slot of its carrier.                            *)
LEMMA GraftIsSound ==
  ASSUME NEW doc, Sound(doc), NEW tree, TreeToGraft(tree), NEW c, MayCarry(doc, c),
         ToSet(tree.order) \cap Present(doc) = {}, NEW slot \in 0..Len(doc.order),
         c # Root => \E j \in 1..slot : doc.order[j] = c
  PROVE  Grafted(doc, tree, c, Graft(doc, slot, tree, c))
<1>. DEFINE new == Graft(doc, slot, tree, c)
            o == doc.order
            t == tree.order
            n == Len(o)
            k == Len(t)
            all == Present(doc) \cup ToSet(t)
            foot == SubSeq(o, 1, slot)
            head == SubSeq(o, slot + 1, n)
            carrier == Over([l \in {Head(t)} |-> c], Over(tree.carrier, doc.carrier))
<1>0. Shaped(doc)
  BY DEF Sound, Shaped
<1>1. /\ Shaped(new) /\ SameGlobals(new, doc) /\ new.order = foot \o t \o head
      /\ new.carrier = carrier /\ new.layer = Over(tree.layer, doc.layer)
  <2>. DEFINE order == foot \o t \o head
              layer == Over(tree.layer, doc.layer)
  <2>1. new = [doc EXCEPT !.order = order, !.carrier = carrier, !.layer = layer]
    BY DEF Graft
  <2>. HIDE DEF new, order, carrier, layer
  <2>2. /\ Shaped(new) /\ SameGlobals(new, doc)
        /\ new.order = order /\ new.carrier = carrier /\ new.layer = layer
    BY <1>0, <2>1 DEF Shaped, SameGlobals
  <2>. QED
    BY <2>2 DEF order, layer
<1>2. /\ OrderSound(doc) /\ o \in Seq(Id) /\ Distinct(o) /\ n \in Nat
      /\ \A x : x \in Present(doc) <=> \E i \in 1..n : o[i] = x
  BY PresentOf DEF Sound, OrderSound
<1>3. /\ t \in Seq(Id) /\ Distinct(t) /\ k \in Nat /\ k >= 1 /\ Head(t) = t[1]
      /\ \A x : x \in ToSet(t) <=> \E i \in 1..k : t[i] = x
  BY ToSetOf DEF TreeToGraft
<1>4. slot \in Nat /\ slot <= n
  BY <1>2
<1>5. Spliced(o, slot, t, foot \o t \o head)
  BY <1>2, <1>3, SplicedOf
<1>. HIDE DEF o, t, n, k, foot, head, carrier
<1>. DEFINE s == new.order
<1>7. /\ s \in Seq(Id) /\ Len(s) = n + k
      /\ \A i \in 1..n + k : s[i] = IF i <= slot THEN o[i]
                                    ELSE IF i <= slot + k THEN t[i - slot] ELSE o[i - k]
  BY <1>1, <1>5 DEF Spliced, n, k
<1>. HIDE DEF new
<1>8. Present(new) = all
  <2>1. \A x : x \in Present(new) <=> \E i \in 1..n + k : s[i] = x
    BY <1>7, PresentOf
  <2>2. ASSUME NEW i \in 1..n + k PROVE s[i] \in all
    <3>1. i <= slot => i \in 1..n /\ s[i] = o[i]
      BY <1>2, <1>4, <1>7
    <3>2. ~ (i <= slot) /\ i <= slot + k => i - slot \in 1..k /\ s[i] = t[i - slot]
      BY <1>2, <1>3, <1>4, <1>7
    <3>3. ~ (i <= slot) /\ ~ (i <= slot + k) => i - k \in 1..n /\ s[i] = o[i - k]
      BY <1>2, <1>3, <1>4, <1>7
    <3>. QED
      BY <1>2, <1>3, <3>1, <3>2, <3>3
  <2>3. ASSUME NEW i \in 1..n PROVE \E j \in 1..n + k : s[j] = o[i]
    <3>1. i <= slot => i \in 1..n + k /\ s[i] = o[i]
      BY <1>2, <1>3, <1>7
    <3>2. ~ (i <= slot) => i + k \in 1..n + k /\ s[i + k] = o[i]
      BY <1>2, <1>3, <1>4, <1>7
    <3>. QED
      BY <3>1, <3>2
  <2>4. ASSUME NEW i \in 1..k PROVE \E j \in 1..n + k : s[j] = t[i]
    <3>1. slot + i \in 1..n + k /\ s[slot + i] = t[i]
      BY <1>2, <1>3, <1>4, <1>7
    <3>. QED
      BY <3>1
  <2>5. Present(new) \subseteq all
    BY <2>1, <2>2
  <2>6. Present(doc) \subseteq Present(new)
    BY <1>2, <2>1, <2>3
  <2>7. ToSet(t) \subseteq Present(new)
    BY <1>3, <2>1, <2>4
  <2>. QED
    BY <2>5, <2>6, <2>7
<1>9. /\ \A i \in 1..n : o[i] \in Present(doc) /\ o[i] \notin ToSet(t)
      /\ \A i \in 1..k : t[i] \in ToSet(t) /\ t[i] \notin Present(doc)
  BY <1>2, <1>3 DEF t
<1>10. Distinct(s)
  <2>1. ASSUME NEW i \in 1..n + k, NEW j \in 1..n + k, s[i] = s[j], i < j PROVE FALSE
    <3>1. CASE i <= slot
      <4>1. i \in 1..n /\ s[i] = o[i]
        BY <1>2, <1>4, <1>7, <3>1
      <4>2. j <= slot => j \in 1..n /\ s[j] = o[j]
        BY <1>2, <1>4, <1>7
      <4>3. ~ (j <= slot) /\ j <= slot + k => j - slot \in 1..k /\ s[j] = t[j - slot]
        BY <1>2, <1>3, <1>4, <1>7
      <4>4. ~ (j <= slot) /\ ~ (j <= slot + k) => j - k \in 1..n /\ s[j] = o[j - k] /\ i # j - k
        BY <1>2, <1>3, <1>4, <1>7, <3>1
      <4>. QED
        BY <1>2, <1>9, <2>1, <4>1, <4>2, <4>3, <4>4 DEF Distinct, n
    <3>2. CASE ~ (i <= slot) /\ i <= slot + k
      <4>1. i - slot \in 1..k /\ s[i] = t[i - slot]
        BY <1>2, <1>3, <1>4, <1>7, <3>2
      <4>2. ~ (j <= slot)
        BY <1>2, <1>3, <1>4, <2>1, <3>2
      <4>3. j <= slot + k => j - slot \in 1..k /\ s[j] = t[j - slot] /\ j - slot # i - slot
        BY <1>2, <1>3, <1>4, <1>7, <2>1, <4>2
      <4>4. ~ (j <= slot + k) => j - k \in 1..n /\ s[j] = o[j - k]
        BY <1>2, <1>3, <1>4, <1>7, <4>2
      <4>. QED
        BY <1>3, <1>9, <2>1, <4>1, <4>3, <4>4 DEF Distinct, k
    <3>3. CASE ~ (i <= slot) /\ ~ (i <= slot + k)
      <4>1. i - k \in 1..n /\ s[i] = o[i - k]
        BY <1>2, <1>3, <1>4, <1>7, <3>3
      <4>2. j - k \in 1..n /\ s[j] = o[j - k] /\ j - k # i - k
        BY <1>2, <1>3, <1>4, <1>7, <2>1, <3>3
      <4>. QED
        BY <1>2, <2>1, <4>1, <4>2 DEF Distinct, n
    <3>. QED
      BY <3>1, <3>2, <3>3
  <2>2. ASSUME NEW i \in 1..n + k, NEW j \in 1..n + k, s[i] = s[j] PROVE i = j
    <3>1. ~ (i < j) /\ ~ (j < i)
      BY <2>1, <2>2
    <3>. QED
      BY <1>2, <1>3, <3>1
  <2>. QED
    BY <1>7, <2>2 DEF Distinct
<1>11. /\ DOMAIN doc.carrier = Present(doc) /\ DOMAIN doc.layer = Present(doc)
       /\ DOMAIN tree.layer = ToSet(t) /\ DOMAIN tree.carrier \subseteq ToSet(t)
       /\ t[1] \in ToSet(t) /\ t[1] \notin Present(doc)
       /\ \A l \in Present(doc) : l \notin ToSet(t)
  <2>1. DOMAIN doc.carrier = Present(doc) /\ DOMAIN doc.layer = Present(doc)
    BY DEF Sound
  <2>2. \A l \in Present(doc) : l \notin ToSet(t)
    BY DEF t
  <2>. QED
    BY <1>3, <1>9, <2>1, <2>2 DEF TreeToGraft, t
<1>12. \A i \in 2..k : t[i] \in DOMAIN tree.carrier /\ t[i] # t[1]
  BY <1>3 DEF TreeToGraft, t, k, Distinct
<1>13. /\ DOMAIN carrier = all /\ carrier = [l \in all |-> carrier[l]]
       /\ carrier[t[1]] = c
       /\ \A l \in Present(doc) : carrier[l] = doc.carrier[l]
       /\ \A i \in 2..k : carrier[t[i]] = tree.carrier[t[i]]
  <2>1. DOMAIN carrier = {t[1]} \cup (DOMAIN tree.carrier \cup Present(doc))
    BY <1>3, <1>11 DEF carrier, Over
  <2>2. ToSet(t) \subseteq {t[1]} \cup DOMAIN tree.carrier
    BY <1>3, <1>12
  <2>3. DOMAIN carrier = all
    BY <1>11, <2>1, <2>2
  <2>4. carrier = [l \in DOMAIN carrier |-> carrier[l]]
    BY DEF carrier, Over
  <2>5. carrier[t[1]] = c
    BY <1>3 DEF carrier, Over
  <2>6. ASSUME NEW l \in Present(doc) PROVE carrier[l] = doc.carrier[l]
    BY <1>3, <1>11 DEF carrier, Over
  <2>7. ASSUME NEW i \in 2..k PROVE carrier[t[i]] = tree.carrier[t[i]]
    BY <1>3, <1>12 DEF carrier, Over
  <2>. QED
    BY <2>3, <2>4, <2>5, <2>6, <2>7
<1>14. /\ new.layer = [l \in all |-> new.layer[l]]
       /\ \A l \in Present(doc) : new.layer[l] = doc.layer[l]
       /\ \A l \in ToSet(t) : new.layer[l] = tree.layer[l]
  BY <1>1, <1>11 DEF Over, t
<1>. HIDE DEF carrier
<1>15. ASSUME NEW i \in 1..n + k, new.carrier[s[i]] # Root
       PROVE  \E j \in 1..i - 1 : s[j] = new.carrier[s[i]]
  <2>1. CASE i <= slot
    <3>1. i \in 1..n /\ s[i] = o[i] /\ o[i] \in Present(doc)
      BY <1>2, <1>4, <1>7, <1>9, <2>1
    <3>2. PICK j \in 1..i - 1 : o[j] = doc.carrier[o[i]]
      BY <1>1, <1>13, <1>15, <3>1 DEF OrderSound, Sound, o, n
    <3>3. j \in 1..n + k /\ j <= slot
      BY <1>2, <1>3, <1>4, <2>1, <3>2
    <3>4. s[j] = o[j] /\ j \in 1..i - 1
      BY <1>7, <3>2, <3>3
    <3>5. new.carrier[s[i]] = doc.carrier[o[i]]
      BY <1>1, <1>13, <3>1
    <3>. QED
      BY <3>2, <3>4, <3>5
  <2>2. CASE i = slot + 1
    <3>1. s[i] = t[1]
      <4>1. ~ (i <= slot) /\ i <= slot + k /\ i - slot = 1
        BY <1>3, <1>4, <2>2
      <4>. QED
        BY <1>7, <4>1
    <3>2. new.carrier[s[i]] = c
      BY <1>1, <1>13, <3>1
    <3>3. PICK j \in 1..slot : o[j] = c
      BY <1>15, <3>2 DEF o
    <3>4. j \in 1..n + k /\ j <= slot /\ j \in 1..i - 1
      BY <1>2, <1>3, <1>4, <2>2, <3>3
    <3>. QED
      BY <1>7, <3>2, <3>3, <3>4
  <2>3. CASE slot + 1 < i /\ i <= slot + k
    <3>1. i - slot \in 2..k /\ s[i] = t[i - slot]
      BY <1>3, <1>4, <1>7, <2>3
    <3>2. PICK j \in 1..(i - slot) - 1 : t[j] = tree.carrier[t[i - slot]]
      BY <3>1 DEF TreeToGraft, t, k
    <3>3. slot + j \in 1..n + k /\ slot + j \in 1..i - 1 /\ ~ (slot + j <= slot) /\ slot + j <= slot + k
          /\ (slot + j) - slot = j
      BY <1>2, <1>3, <1>4, <2>3, <3>2
    <3>4. s[slot + j] = t[j]
      BY <1>7, <3>3
    <3>5. new.carrier[s[i]] = tree.carrier[t[i - slot]]
      <4>1. carrier[t[i - slot]] = tree.carrier[t[i - slot]]
        BY <1>13, <3>1
      <4>. QED
        BY <1>1, <3>1, <4>1
    <3>. QED
      BY <3>2, <3>3, <3>4, <3>5
  <2>4. CASE slot + k < i
    <3>1. i - k \in 1..n /\ s[i] = o[i - k] /\ o[i - k] \in Present(doc)
      BY <1>2, <1>3, <1>4, <1>7, <1>9, <2>4
    <3>2. PICK j \in 1..(i - k) - 1 : o[j] = doc.carrier[o[i - k]]
      BY <1>1, <1>13, <1>15, <3>1 DEF OrderSound, Sound, o, n
    <3>0. new.carrier[s[i]] = doc.carrier[o[i - k]]
      BY <1>1, <1>13, <3>1
    <3>3. CASE j <= slot
      <4>1. j \in 1..n + k /\ j \in 1..i - 1
        BY <1>2, <1>3, <1>4, <2>4, <3>2
      <4>2. s[j] = o[j]
        BY <1>7, <3>3, <4>1
      <4>. QED
        BY <3>0, <3>2, <4>1, <4>2
    <3>4. CASE ~ (j <= slot)
      <4>1. j + k \in 1..n + k /\ j + k \in 1..i - 1 /\ ~ (j + k <= slot) /\ ~ (j + k <= slot + k)
            /\ (j + k) - k = j
        <5>1. j \in Nat /\ j <= (i - k) - 1 /\ i <= n + k /\ i \in Nat
          BY <1>2, <1>3, <1>4, <2>4, <3>2
        <5>. QED
          BY <1>2, <1>3, <1>4, <3>4, <5>1
      <4>2. s[j + k] = o[j]
        BY <1>7, <4>1
      <4>. QED
        BY <3>0, <3>2, <4>1, <4>2
    <3>. QED
      BY <3>3, <3>4
  <2>. QED
    BY <1>2, <1>3, <1>4, <2>1, <2>2, <2>3, <2>4
<1>16. OrderSound(new)
  BY <1>7, <1>10, <1>15 DEF OrderSound
<1>17. \A l \in all : LayerSound(new.layer[l])
  BY <1>14 DEF Sound, TreeToGraft, t
<1>18. ASSUME NEW l \in all, new.carrier[l] # Root
       PROVE  new.layer[new.carrier[l]].kind # "filter"
  <2>1. CASE l \in Present(doc)
    <3>1. new.carrier[l] = doc.carrier[l]
      BY <1>1, <1>13, <2>1
    <3>2. doc.carrier[l] \in Present(doc)
      BY <1>2, <1>18, <2>1, <3>1, CarrierOf
    <3>. QED
      BY <1>14, <1>18, <2>1, <3>1, <3>2 DEF Sound
  <2>2. CASE l = t[1]
    <3>1. new.carrier[l] = c /\ c \in Present(doc) /\ doc.layer[c].kind # "filter"
      BY <1>1, <1>13, <1>18, <2>2 DEF MayCarry
    <3>. QED
      BY <1>14, <3>1
  <2>3. CASE \E i \in 2..k : l = t[i]
    <3>1. PICK i \in 2..k : l = t[i]
      BY <2>3
    <3>2. new.carrier[l] = tree.carrier[t[i]] /\ tree.layer[tree.carrier[t[i]]].kind # "filter"
      BY <1>1, <1>13, <3>1 DEF TreeToGraft, t, k
    <3>3. PICK j \in 1..i - 1 : t[j] = tree.carrier[t[i]]
      BY <3>1 DEF TreeToGraft, t, k
    <3>4. j \in 1..k
      BY <1>3, <3>3
    <3>5. tree.carrier[t[i]] \in ToSet(t)
      BY <1>3, <3>3, <3>4
    <3>. QED
      BY <1>14, <3>2, <3>5
  <2>. QED
    BY <1>3, <2>1, <2>2, <2>3
<1>19. new.mask = [x \in Actor |-> new.mask[x]]
  BY <1>1 DEF Sound, SameGlobals
<1>20. Sound(new)
  <2>1. new.carrier = [l \in all |-> new.carrier[l]]
    BY <1>1, <1>13
  <2>. HIDE DEF all, s
  <2>. QED
    BY <1>1, <1>8, <1>14, <1>16, <1>17, <1>18, <1>19, <2>1 DEF Sound, Shaped
<1>. QED
  BY <1>1, <1>8, <1>13, <1>14, <1>20 DEF new, t, k, Grafted

(* A layer's subtree, cut out with its records, may be grafted elsewhere.     *)
LEMMA SubtreeIsToGraft ==
  ASSUME NEW doc, Sound(doc), NEW id \in Present(doc)
  PROVE  /\ TreeToGraft(Subtree(doc, id)) /\ Head(Subtree(doc, id).order) = id
         /\ Subtree(doc, id).order[1] = id
         /\ Subtree(doc, id).order = SubtreeIds(doc, id)
         /\ ToSet(Subtree(doc, id).order) = Within(doc, id)
         /\ Within(doc, id) \subseteq Present(doc)
         /\ \A l \in Within(doc, id) : /\ Subtree(doc, id).carrier[l] = doc.carrier[l]
                                       /\ Subtree(doc, id).layer[l] = doc.layer[l]
<1>. DEFINE tree == Subtree(doc, id)
            t == SubtreeIds(doc, id)
            W == Within(doc, id)
<1>1. /\ tree.order = t /\ tree.carrier = [l \in W |-> doc.carrier[l]]
      /\ tree.layer = [l \in W |-> doc.layer[l]]
  BY DEF Subtree, Restrict
<1>2. OrderSound(doc) /\ id # Root
  BY PresentOf DEF Sound, OrderSound, Id, Root
<1>3. /\ t \in Seq(Id) /\ Distinct(t) /\ Len(t) \in Nat /\ Len(t) >= 1 /\ t[1] = id /\ ToSet(t) = W
  BY <1>2, SubtreeIdsOf
<1>4. W \subseteq Present(doc) /\ \A m \in W : m # id => doc.carrier[m] \in W
  BY <1>2, WithinComesAfter, WithinIsClosed
<1>5. W \subseteq Id
  BY <1>2, <1>4, PresentOf DEF OrderSound
<1>6. t = Only(doc.order, W)
  BY DEF SubtreeIds
<1>. HIDE DEF tree, t, W
<1>7. \A l \in W : tree.carrier[l] = doc.carrier[l] /\ tree.layer[l] = doc.layer[l]
  BY <1>1
<1>8. ASSUME NEW i \in 2..Len(t)
      PROVE  /\ t[i] \in DOMAIN tree.carrier
             /\ \E j \in 1..i - 1 : t[j] = tree.carrier[t[i]]
             /\ tree.layer[tree.carrier[t[i]]].kind # "filter"
  <2>1. i \in 1..Len(t) /\ 1 \in 1..Len(t) /\ i # 1
    BY <1>3
  <2>2. t[i] \in W /\ t[i] # id
    BY <1>3, <2>1, ToSetOf DEF Distinct
  <2>3. doc.carrier[t[i]] \in W /\ tree.carrier[t[i]] = doc.carrier[t[i]]
    BY <1>4, <1>7, <2>2
  <2>4. doc.carrier[t[i]] # Root
    BY <1>5, <2>3 DEF Id, Root
  <2>5. \E j \in 1..i - 1 : t[j] = doc.carrier[t[i]]
    <3>1. CarriersFirst(t, doc.carrier, W)
      BY <1>2, <1>6, OnlyKeepsCarriersFirst
    <3>. QED
      BY <2>1, <2>3, <2>4, <3>1 DEF CarriersFirst
  <2>6. doc.layer[doc.carrier[t[i]]].kind # "filter"
    BY <1>4, <2>2, <2>4 DEF Sound
  <2>. QED
    BY <1>1, <1>7, <2>2, <2>3, <2>5, <2>6
<1>9. \A l \in W : LayerSound(tree.layer[l])
  BY <1>4, <1>7 DEF Sound
<1>10. TreeToGraft(tree)
  BY <1>1, <1>3, <1>8, <1>9 DEF TreeToGraft
<1>11. Head(t) = id
  BY <1>3
<1>. QED
  BY <1>1, <1>3, <1>4, <1>7, <1>10, <1>11 DEF tree, t, W

(* Only layers and what they look like are changed.                            *)
LEMMA RelayeredIsSound ==
  ASSUME NEW doc, Sound(doc), NEW new, Shaped(new),
         new.order = doc.order, new.carrier = doc.carrier,
         new.mask = [x \in Actor |-> new.mask[x]],
         new.layer = [l \in Present(doc) |-> new.layer[l]],
         \A l \in Present(doc) : LayerSound(new.layer[l]) /\ new.layer[l].kind = doc.layer[l].kind
  PROVE  Sound(new) /\ Present(new) = Present(doc)
<1>0. Present(new) = Present(doc) /\ OrderSound(doc)
  BY DEF Present, Sound
<1>1. Present(new) = Present(doc) /\ OrderSound(new) /\ OrderSound(doc)
  BY <1>0 DEF OrderSound
<1>2. \A l \in Present(doc) : doc.carrier[l] # Root => doc.carrier[l] \in Present(doc)
  BY <1>1, CarrierOf
<1>3. \A l \in Present(doc) : new.carrier[l] # Root => new.layer[new.carrier[l]].kind # "filter"
  BY <1>2 DEF Sound
<1>4. new.carrier = [l \in Present(doc) |-> new.carrier[l]]
  BY DEF Sound
<1>. QED
  BY <1>1, <1>3, <1>4 DEF Sound, Shaped

(* One layer's record is replaced by one of its kind.                          *)
Put(doc, id, r) == [doc EXCEPT !.layer[id] = r]

(* A layer's record replaced by one of its kind disturbs nothing else of the  *)
(* document.                                                                  *)
LEMMA PutIsSound ==
  ASSUME NEW doc, Sound(doc), NEW id \in Present(doc), NEW r, LayerSound(r),
         r.kind = doc.layer[id].kind
  PROVE  /\ Sound(Put(doc, id, r)) /\ Present(Put(doc, id, r)) = Present(doc)
         /\ Put(doc, id, r).order = doc.order /\ Put(doc, id, r).carrier = doc.carrier
         /\ Put(doc, id, r).layer[id] = r
         /\ \A l \in Present(doc) : l # id => Put(doc, id, r).layer[l] = doc.layer[l]
         /\ SameGlobals(Put(doc, id, r), doc)
<1>. DEFINE new == Put(doc, id, r)
<1>1. Shaped(doc) /\ doc.layer = [l \in Present(doc) |-> doc.layer[l]]
      /\ doc.mask = [x \in Actor |-> doc.mask[x]]
  BY DEF Sound, Shaped
<1>2. /\ Shaped(new) /\ SameGlobals(new, doc) /\ new.order = doc.order /\ new.carrier = doc.carrier
      /\ new.layer = [doc.layer EXCEPT ![id] = r]
  BY <1>1 DEF Put, Shaped, SameGlobals
<1>3. /\ new.layer = [l \in Present(doc) |-> new.layer[l]] /\ new.layer[id] = r
      /\ \A l \in Present(doc) : l # id => new.layer[l] = doc.layer[l]
  BY <1>1, <1>2
<1>. HIDE DEF new
<1>4. \A l \in Present(doc) : LayerSound(new.layer[l]) /\ new.layer[l].kind = doc.layer[l].kind
  BY <1>3 DEF Sound
<1>5. new.mask = [x \in Actor |-> new.mask[x]]
  BY <1>1, <1>2 DEF SameGlobals
<1>6. Sound(new) /\ Present(new) = Present(doc)
  BY <1>2, <1>3, <1>4, <1>5, RelayeredIsSound
<1>. QED
  BY <1>2, <1>3, <1>6 DEF new

(* A tree whose layers the document does not hold is inserted, or refused when *)
(* nothing may carry it.                                                       *)
LEMMA InsertIsSound ==
  ASSUME NEW doc, Sound(doc), NEW tree, TreeToGraft(tree), NEW c, NEW place,
         ToSet(tree.order) \cap Present(doc) = {}
  PROVE  /\ ~ MayCarry(doc, c) => Insert(doc, tree, c, place) = doc
         /\ MayCarry(doc, c) => Grafted(doc, tree, c, Insert(doc, tree, c, place))
<1>1. Head(tree.order) = tree.order[1] /\ tree.order[1] \in ToSet(tree.order)
  BY ToSetOf DEF TreeToGraft
<1>2. ASSUME MayCarry(doc, c)
      PROVE  Grafted(doc, tree, c, Insert(doc, tree, c, place))
  <2>1. Insert(doc, tree, c, place) = Graft(doc, Slot(doc, c, place), tree, c)
    BY <1>1, <1>2 DEF Insert
  <2>2. /\ Slot(doc, c, place) \in 0..Len(doc.order)
        /\ c # Root => \E j \in 1..Slot(doc, c, place) : doc.order[j] = c
    BY <1>2, SlotIsAfterCarrier DEF Sound
  <2>. QED
    BY <1>2, <2>1, <2>2, GraftIsSound
<1>. QED
  BY <1>2 DEF Insert

(* A layer is moved with all it carries: every layer stays what it was.        *)
LEMMA MoveLayerIsSound ==
  ASSUME NEW doc, Sound(doc), NEW id, NEW c, NEW place
  PROVE  /\ Sound(MoveLayer(doc, id, c, place))
         /\ Present(MoveLayer(doc, id, c, place)) = Present(doc)
         /\ \A l \in Present(doc) : MoveLayer(doc, id, c, place).layer[l] = doc.layer[l]
         /\ SameGlobals(MoveLayer(doc, id, c, place), doc)
<1>. DEFINE rest == Without(doc, Within(doc, id))
            tree == Subtree(doc, id)
            new == MoveLayer(doc, id, c, place)
<1>1. CASE id \notin Present(doc) \/ ~ MayCarry(doc, c) \/ c \in Within(doc, id)
  BY <1>1 DEF MoveLayer, SameGlobals
<1>2. CASE id \in Present(doc) /\ MayCarry(doc, c) /\ c \notin Within(doc, id)
  <2>0. OrderSound(doc) /\ id # Root /\ Root \notin Present(doc)
    BY <1>2, PresentOf DEF Sound, OrderSound, Id, Root
  <2>1. new = Graft(rest, Slot(rest, c, place), tree, c)
    BY <1>2 DEF MoveLayer, RemoveLayer
  <2>2. \A m \in Present(doc) : doc.carrier[m] \in Within(doc, id) => m \in Within(doc, id)
    BY <2>0, WithinIsClosed
  <2>3. /\ Sound(rest) /\ Present(rest) = Present(doc) \ Within(doc, id) /\ SameGlobals(rest, doc)
        /\ \A l \in Present(doc) \ Within(doc, id) : rest.layer[l] = doc.layer[l]
    <3>. DEFINE gone == Within(doc, id)
    <3>1. \A m \in Present(doc) : doc.carrier[m] \in gone => m \in gone
      BY <2>2
    <3>. HIDE DEF gone
    <3>2. /\ Sound(Without(doc, gone))
          /\ Present(Without(doc, gone)) = Present(doc) \ gone
          /\ \A l \in Present(doc) \ gone : /\ Without(doc, gone).carrier[l] = doc.carrier[l]
                                            /\ Without(doc, gone).layer[l] = doc.layer[l]
          /\ Without(doc, gone).order = Only(doc.order, Present(doc) \ gone)
          /\ SameGlobals(Without(doc, gone), doc)
      BY <3>1, WithoutIsSound
    <3>. QED
      BY <3>2 DEF gone
  <2>4. /\ TreeToGraft(tree) /\ ToSet(tree.order) = Within(doc, id)
        /\ Within(doc, id) \subseteq Present(doc)
        /\ \A l \in Within(doc, id) : tree.layer[l] = doc.layer[l]
    BY <1>2, SubtreeIsToGraft
  <2>. HIDE DEF rest, tree, new
  <2>5. MayCarry(rest, c)
    BY <1>2, <2>3 DEF MayCarry
  <2>6. /\ Slot(rest, c, place) \in 0..Len(rest.order)
        /\ c # Root => \E j \in 1..Slot(rest, c, place) : rest.order[j] = c
    BY <2>3, <2>5, SlotIsAfterCarrier DEF Sound
  <2>7. ToSet(tree.order) \cap Present(rest) = {}
    BY <2>3, <2>4
  <2>8. Grafted(rest, tree, c, new)
    BY <2>1, <2>3, <2>4, <2>5, <2>6, <2>7, GraftIsSound
  <2>9. Present(new) = Present(doc)
    BY <2>3, <2>4, <2>8 DEF Grafted
  <2>10. ASSUME NEW l \in Present(doc) PROVE new.layer[l] = doc.layer[l]
    BY <2>3, <2>4, <2>8 DEF Grafted
  <2>11. SameGlobals(new, doc)
    BY <2>3, <2>8 DEF Grafted, SameGlobals
  <2>. QED
    BY <2>8, <2>9, <2>10, <2>11 DEF Grafted, new
<1>. QED
  BY <1>1, <1>2

-----------------------------------------------------------------------------
(* Claims                                                                      *)

(* Two records of the layer l that differ in the resources S alone.            *)
SameRecord(x, y, l, S) ==
  /\ x.kind = y.kind /\ x.number = y.number
  /\ \A t \in Tile : <<"paint", l, t>> \notin S => x.tiles[t] = y.tiles[t]
  /\ \A p \in Prop : <<"prop", l, p>> \notin S => x.prop[p] = y.prop[p]
  /\ <<"run", l>> \notin S => x.run = y.run

ApartGlobals(D, E, S) ==
  /\ \A x \in Actor : <<"selection", x>> \notin S => D.mask[x] = E.mask[x]
  /\ <<"substrate">> \notin S => D.substrate = E.substrate
  /\ <<"substrate color">> \notin S => D.color = E.color
  /\ <<"guides">> \notin S => D.guides = E.guides

(* Two documents that differ in the resources S alone.                         *)
Apart(D, E, S) ==
  /\ <<"stack order">> \notin S => D.order = E.order /\ D.carrier = E.carrier
  /\ \A l \in Id : <<"existence", l>> \notin S => (l \in Present(D) <=> l \in Present(E))
  /\ \A l \in Present(D) \cap Present(E) : SameRecord(D.layer[l], E.layer[l], l, S)
  /\ ApartGlobals(D, E, S)

(* What an action makes of a document, in the terms its undo is proved in: only *)
(* what it declares differs; no layer that stays changes its carrier unless all *)
(* stay; and what goes is one subtree, every resource of which it declares.     *)
Change(a, before, after) ==
  /\ Sound(after) /\ Apart(after, before, Writes(a))
  /\ \/ Present(after) = Present(before)
     \/ \A m \in Present(before) \cap Present(after) : after.carrier[m] = before.carrier[m]
  /\ \/ Present(before) \subseteq Present(after)
     \/ \E x \in Present(before) : Present(before) \ Present(after) = Within(before, x)
  /\ \A l \in Present(before) \ Present(after) : LayerClaim({l}) \subseteq Writes(a) \cup Reads(a)

(* The action touches nothing of S.                                            *)
Clear(a, S) == S \cap (Reads(a) \cup Writes(a)) = {}

(* A record differs from itself in nothing.                                   *)
LEMMA SameRecordIsReflexive ==
  ASSUME NEW x, NEW l, NEW S
  PROVE  SameRecord(x, x, l, S)
BY DEF SameRecord

(* Records that differ in nothing of the layer's are equal.                   *)
LEMMA SameRecordOnEverything ==
  ASSUME NEW x, LayerSound(x), NEW y, LayerSound(y), NEW l, NEW S, SameRecord(x, y, l, S),
         S \cap LayerClaim({l}) = {}
  PROVE  x = y
<1>1. /\ \A t \in Tile : <<"paint", l, t>> \in LayerClaim({l})
      /\ \A p \in Prop : <<"prop", l, p>> \in LayerClaim({l})
      /\ <<"run", l>> \in LayerClaim({l})
  BY DEF LayerClaim, Paint, PropClaim, LiquifyRun
<1>2. x.kind = y.kind /\ x.number = y.number /\ x.run = y.run
  BY <1>1 DEF SameRecord
<1>3. x.tiles = y.tiles
  BY <1>1 DEF SameRecord, LayerSound
<1>4. x.prop = y.prop
  BY <1>1 DEF SameRecord, LayerSound
<1>. QED
  BY <1>2, <1>3, <1>4 DEF LayerSound

(* An action that leaves the tree as it is.                                    *)
LEMMA QuietChange ==
  ASSUME NEW a, NEW doc, Sound(doc), NEW new, Sound(new),
         new.order = doc.order, new.carrier = doc.carrier,
         \A l \in Present(doc) : SameRecord(new.layer[l], doc.layer[l], l, Writes(a)),
         ApartGlobals(new, doc, Writes(a))
  PROVE  Change(a, doc, new)
<1>1. Present(new) = Present(doc)
  BY DEF Present
<1>. QED
  BY <1>1 DEF Change, Apart

(* Two documents stay apart in the same resources when only their records     *)
(* change, alike.                                                             *)
LEMMA QuietlyAlike ==
  ASSUME NEW D, NEW E, NEW S, Apart(D, E, S), NEW D1, NEW E1,
         D1.order = D.order, D1.carrier = D.carrier, E1.order = E.order, E1.carrier = E.carrier,
         \A l \in Present(D) \cap Present(E) : SameRecord(D1.layer[l], E1.layer[l], l, S),
         ApartGlobals(D1, E1, S)
  PROVE  Apart(D1, E1, S)
<1>1. Present(D1) = Present(D) /\ Present(E1) = Present(E)
  BY DEF Present
<1>. QED
  BY <1>1 DEF Apart

(* Globals                                                                     *)
LEMMA SameGlobalsAreApart ==
  ASSUME NEW D, NEW E, SameGlobals(D, E), NEW S
  PROVE  ApartGlobals(D, E, S)
BY DEF SameGlobals, ApartGlobals

(* What does not touch masks, substrate, color and guides keeps them as far   *)
(* apart.                                                                     *)
LEMMA GlobalsStayApart ==
  ASSUME NEW D, NEW E, NEW S, ApartGlobals(D, E, S), NEW D1, NEW E1,
         SameGlobals(D1, D), SameGlobals(E1, E)
  PROVE  ApartGlobals(D1, E1, S)
BY DEF SameGlobals, ApartGlobals

(* A layer the action reads the existence of.                                  *)
LEMMA LayerStands ==
  ASSUME NEW D, NEW E, Sound(D), Sound(E), NEW S, Apart(D, E, S), NEW a, Clear(a, S), NEW l,
         Existence({l}) \subseteq Reads(a) \cup Writes(a)
  PROVE  /\ l \in Present(D) <=> l \in Present(E)
         /\ l \in Present(D) => SameRecord(D.layer[l], E.layer[l], l, S)
         /\ Paintable(D, l) <=> Paintable(E, l)
<1>1. Present(D) \subseteq Id /\ Present(E) \subseteq Id
  BY PresentOf DEF Sound, OrderSound
<1>2. ASSUME l \in Id PROVE l \in Present(D) <=> l \in Present(E)
  <2>1. <<"existence", l>> \in Existence({l})
    BY <1>2 DEF Existence, Id, Root, Top, Bottom
  <2>2. <<"existence", l>> \notin S
    BY <2>1 DEF Clear
  <2>. QED
    BY <1>2, <2>2 DEF Apart
<1>3. l \in Present(D) <=> l \in Present(E)
  BY <1>1, <1>2
<1>4. l \in Present(D) => SameRecord(D.layer[l], E.layer[l], l, S)
  BY <1>3 DEF Apart
<1>. QED
  BY <1>3, <1>4 DEF Paintable, SameRecord

(* Putting one layer's record.                                                 *)
LEMMA PutChanges ==
  ASSUME NEW a, NEW doc, Sound(doc), NEW id \in Present(doc), NEW r, LayerSound(r),
         SameRecord(r, doc.layer[id], id, Writes(a))
  PROVE  Change(a, doc, Put(doc, id, r))
<1>. DEFINE new == Put(doc, id, r)
<1>1. /\ Sound(new) /\ Present(new) = Present(doc)
      /\ new.order = doc.order /\ new.carrier = doc.carrier
      /\ new.layer[id] = r
      /\ \A l \in Present(doc) : l # id => new.layer[l] = doc.layer[l]
      /\ SameGlobals(new, doc)
  BY PutIsSound DEF SameRecord
<1>2. ApartGlobals(new, doc, Writes(a))
  BY <1>1, SameGlobalsAreApart
<1>3. \A l \in Present(doc) : SameRecord(new.layer[l], doc.layer[l], l, Writes(a))
  BY <1>1, SameRecordIsReflexive
<1>. HIDE DEF new
<1>4. Change(a, doc, new)
  BY <1>1, <1>2, <1>3, QuietChange
<1>. QED
  BY <1>4 DEF new

(* Records put alike into both documents leave them as far apart.             *)
LEMMA PutsAlike ==
  ASSUME NEW D, Sound(D), NEW E, Sound(E), NEW S, Apart(D, E, S),
         NEW id \in Present(D) \cap Present(E), NEW x, LayerSound(x), x.kind = D.layer[id].kind,
         NEW y, LayerSound(y), y.kind = E.layer[id].kind, SameRecord(x, y, id, S)
  PROVE  Apart(Put(D, id, x), Put(E, id, y), S)
<1>. DEFINE D1 == Put(D, id, x)
            E1 == Put(E, id, y)
<1>1. /\ D1.order = D.order /\ D1.carrier = D.carrier /\ D1.layer[id] = x
      /\ \A l \in Present(D) : l # id => D1.layer[l] = D.layer[l]
      /\ SameGlobals(D1, D)
  BY PutIsSound
<1>2. /\ E1.order = E.order /\ E1.carrier = E.carrier /\ E1.layer[id] = y
      /\ \A l \in Present(E) : l # id => E1.layer[l] = E.layer[l]
      /\ SameGlobals(E1, E)
  BY PutIsSound
<1>. HIDE DEF D1, E1
<1>3. ApartGlobals(D1, E1, S)
  BY <1>1, <1>2, GlobalsStayApart DEF Apart
<1>4. \A l \in Present(D) \cap Present(E) : SameRecord(D1.layer[l], E1.layer[l], l, S)
  BY <1>1, <1>2 DEF Apart
<1>5. Apart(D1, E1, S)
  BY <1>1, <1>2, <1>3, <1>4, QuietlyAlike
<1>. QED
  BY <1>5 DEF D1, E1

(* Tiles are laid over a record's own.                                         *)
Tiled(r, tiles) == [r EXCEPT !.tiles = Over(tiles, @)]

(* A record with some of its tiles redrawn.                                   *)
LEMMA TiledIsSound ==
  ASSUME NEW r, LayerSound(r), NEW tiles, DOMAIN tiles \subseteq Tile
  PROVE  /\ LayerSound(Tiled(r, tiles))
         /\ Tiled(r, tiles).kind = r.kind /\ Tiled(r, tiles).number = r.number
         /\ Tiled(r, tiles).prop = r.prop /\ Tiled(r, tiles).run = r.run
         /\ \A t \in Tile : Tiled(r, tiles).tiles[t] = IF t \in DOMAIN tiles THEN tiles[t] ELSE r.tiles[t]
<1>1. /\ r = [kind |-> r.kind, prop |-> r.prop, tiles |-> r.tiles, run |-> r.run, number |-> r.number]
      /\ r.prop = [p \in Prop |-> r.prop[p]] /\ r.tiles = [t \in Tile |-> r.tiles[t]]
  BY DEF LayerSound
<1>. DEFINE new == Over(tiles, r.tiles)
            x == Tiled(r, tiles)
<1>2. new = [t \in Tile |-> IF t \in DOMAIN tiles THEN tiles[t] ELSE r.tiles[t]]
  <2>1. DOMAIN r.tiles = Tile
    BY <1>1
  <2>2. DOMAIN tiles \cup DOMAIN r.tiles = Tile
    BY <2>1
  <2>. QED
    BY <2>2 DEF Over
<1>3. x = [r EXCEPT !.tiles = new]
  BY DEF Tiled
<1>. HIDE DEF new, x
<1>4. /\ x = [kind |-> x.kind, prop |-> x.prop, tiles |-> x.tiles, run |-> x.run, number |-> x.number]
      /\ x.kind = r.kind /\ x.number = r.number /\ x.prop = r.prop /\ x.run = r.run /\ x.tiles = new
  BY <1>1, <1>3
<1>. QED
  BY <1>1, <1>2, <1>4 DEF LayerSound, x

(* Redrawing a layer's tiles puts its redrawn record.                         *)
LEMMA WithTilesIsPut ==
  ASSUME NEW doc, Sound(doc), NEW id \in Present(doc), NEW tiles
  PROVE  WithTiles(doc, id, tiles) = Put(doc, id, Tiled(doc.layer[id], tiles))
<1>1. id \in DOMAIN doc.layer /\ Shaped(doc)
  BY DEF Sound, Shaped
<1>. QED
  BY <1>1 DEF WithTiles, Put, Tiled

-----------------------------------------------------------------------------
(* The actions that leave the tree as it is                                    *)

(* Doing nothing stays within any footprint.                                  *)
LEMMA NothingChanges ==
  ASSUME NEW a, NEW doc, Sound(doc)
  PROVE  Change(a, doc, doc)
BY SameRecordIsReflexive, QuietChange DEF ApartGlobals

(* Globals are replaced.                                                       *)
LEMMA GlobalsAreSound ==
  ASSUME NEW doc, Sound(doc), NEW new, Shaped(new), new.order = doc.order,
         new.carrier = doc.carrier, new.layer = doc.layer,
         new.mask = [x \in Actor |-> new.mask[x]]
  PROVE  Sound(new) /\ Present(new) = Present(doc)
<1>1. /\ doc.layer = [l \in Present(doc) |-> doc.layer[l]]
      /\ \A l \in Present(doc) : LayerSound(doc.layer[l])
  BY DEF Sound
<1>. QED
  BY <1>1, RelayeredIsSound

(* After a change within the footprint, one of the globals it declares is     *)
(* another.                                                                   *)
LEMMA GlobalsChange ==
  ASSUME NEW a, NEW doc, NEW new, Change(a, doc, new), NEW other, Sound(other),
         other.order = new.order, other.carrier = new.carrier, other.layer = new.layer,
         ApartGlobals(other, doc, Writes(a))
  PROVE  Change(a, doc, other)
<1>1. Present(other) = Present(new)
  BY DEF Present
<1>. QED
  BY <1>1 DEF Change, Apart

(* Globals changed alike leave two documents as far apart.                    *)
LEMMA GlobalsAlike ==
  ASSUME NEW D, NEW E, NEW S, Apart(D, E, S), NEW D1, NEW E1,
         D1.order = D.order, D1.carrier = D.carrier, D1.layer = D.layer,
         E1.order = E.order, E1.carrier = E.carrier, E1.layer = E.layer,
         ApartGlobals(D1, E1, S)
  PROVE  Apart(D1, E1, S)
<1>1. \A l \in Present(D) \cap Present(E) : SameRecord(D1.layer[l], E1.layer[l], l, S)
  BY DEF Apart
<1>. QED
  BY <1>1, QuietlyAlike

(* An author's mask is replaced.                                               *)
Masked(doc, x, m) == [doc EXCEPT !.mask[x] = m]

(* An actor's mask replaced is nothing else replaced.                         *)
LEMMA MaskedIsSound ==
  ASSUME NEW doc, Sound(doc), NEW x \in Actor, NEW m
  PROVE  /\ Sound(Masked(doc, x, m)) /\ Masked(doc, x, m).order = doc.order
         /\ Masked(doc, x, m).carrier = doc.carrier /\ Masked(doc, x, m).layer = doc.layer
         /\ \A y \in Actor : Masked(doc, x, m).mask[y] = IF y = x THEN m ELSE doc.mask[y]
         /\ Masked(doc, x, m).substrate = doc.substrate /\ Masked(doc, x, m).color = doc.color
         /\ Masked(doc, x, m).guides = doc.guides
<1>. DEFINE new == Masked(doc, x, m)
<1>1. Shaped(doc) /\ doc.mask = [y \in Actor |-> doc.mask[y]]
  BY DEF Sound, Shaped
<1>2. /\ Shaped(new) /\ new.order = doc.order /\ new.carrier = doc.carrier /\ new.layer = doc.layer
      /\ new.substrate = doc.substrate /\ new.color = doc.color /\ new.guides = doc.guides
      /\ new.mask = [doc.mask EXCEPT ![x] = m]
  BY <1>1 DEF Masked, Shaped
<1>3. /\ new.mask = [y \in Actor |-> new.mask[y]]
      /\ \A y \in Actor : new.mask[y] = IF y = x THEN m ELSE doc.mask[y]
  BY <1>1, <1>2
<1>. HIDE DEF new
<1>4. Sound(new)
  BY <1>2, <1>3, GlobalsAreSound
<1>. QED
  BY <1>2, <1>3, <1>4 DEF new

(* An actor's mask is replaced by an action that declares its selection.      *)
LEMMA MaskedChanges ==
  ASSUME NEW a, NEW doc, NEW new, Change(a, doc, new), a.actor \in Actor, NEW m,
         <<"selection", a.actor>> \in Writes(a)
  PROVE  Change(a, doc, Masked(new, a.actor, m))
<1>. DEFINE other == Masked(new, a.actor, m)
<1>1. Sound(new) /\ ApartGlobals(new, doc, Writes(a))
  BY DEF Change, Apart
<1>2. /\ Sound(other) /\ other.order = new.order
      /\ other.carrier = new.carrier /\ other.layer = new.layer
      /\ \A y \in Actor : other.mask[y] = IF y = a.actor THEN m ELSE new.mask[y]
      /\ other.substrate = new.substrate /\ other.color = new.color
      /\ other.guides = new.guides
  BY <1>1, MaskedIsSound
<1>. HIDE DEF other
<1>3. ApartGlobals(other, doc, Writes(a))
  BY <1>1, <1>2 DEF ApartGlobals
<1>4. Change(a, doc, other)
  BY <1>2, <1>3, GlobalsChange
<1>. QED
  BY <1>4 DEF other

(* The same mask set in both documents leaves them as far apart.              *)
LEMMA MaskedAlike ==
  ASSUME NEW D, Sound(D), NEW E, Sound(E), NEW S, Apart(D, E, S), NEW x \in Actor, NEW m
  PROVE  Apart(Masked(D, x, m), Masked(E, x, m), S)
<1>. DEFINE D1 == Masked(D, x, m)
            E1 == Masked(E, x, m)
<1>1. /\ D1.order = D.order /\ D1.carrier = D.carrier /\ D1.layer = D.layer
      /\ \A y \in Actor : D1.mask[y] = IF y = x THEN m ELSE D.mask[y]
      /\ D1.substrate = D.substrate /\ D1.color = D.color /\ D1.guides = D.guides
  BY MaskedIsSound
<1>2. /\ E1.order = E.order /\ E1.carrier = E.carrier /\ E1.layer = E.layer
      /\ \A y \in Actor : E1.mask[y] = IF y = x THEN m ELSE E.mask[y]
      /\ E1.substrate = E.substrate /\ E1.color = E.color /\ E1.guides = E.guides
  BY MaskedIsSound
<1>. HIDE DEF D1, E1
<1>3. ApartGlobals(D1, E1, S)
  BY <1>1, <1>2 DEF ApartGlobals, Apart
<1>4. Apart(D1, E1, S)
  BY <1>1, <1>2, <1>3, GlobalsAlike
<1>. QED
  BY <1>4 DEF D1, E1

(* The claims, kind by kind.                                                   *)
LEMMA PaintClaims ==
  ASSUME NEW a
  PROVE  /\ a.kind = "CommitStroke" =>
              /\ Reads(a) = Existence({a.layer}) \cup Selection(a.actor) \cup Substrate \cup {}
              /\ Writes(a) = Paint(a.layer, a.tiles)
         /\ a.kind = "Liquify" =>
              /\ Reads(a) = Existence({a.layer}) \cup Selection(a.actor) \cup Substrate
                              \cup (Paint(a.layer, a.reach) \cup LiquifyRun(a.layer))
              /\ Writes(a) = Paint(a.layer, a.tiles) \cup LiquifyRun(a.layer)
         /\ a.kind = "Fill" =>
              /\ Reads(a) = Existence({a.layer}) \cup Selection(a.actor)
              /\ Writes(a) = Paint(a.layer, a.tiles)
         /\ a.kind = "Transform" =>
              /\ Reads(a) = Existence({a.layer})
              /\ Writes(a) = Paint(a.layer, a.tiles) \cup Selection(a.actor)
         /\ a.kind = "Select" => Writes(a) = Selection(a.actor)
BY DEF Reads, Writes

(* The footprints of the actions on properties and globals                    *)
(* (Action::footprint).                                                       *)
LEMMA PropertyClaims ==
  ASSUME NEW a
  PROVE  /\ a.kind = "SetProp" =>
              Reads(a) = Existence({a.layer}) /\ Writes(a) = PropClaim(a.layer, {a.prop})
         /\ a.kind = "SetMatte" =>
              Reads(a) = Existence({a.layer}) /\ Writes(a) = PropClaim(a.layer, {"matte"})
         /\ a.kind = "TranslateLayers" =>
              /\ Reads(a) = Existence(DOMAIN a.moves)
              /\ Writes(a) = UNION {PropClaim(id, {"translation"}) : id \in DOMAIN a.moves}
         /\ a.kind = "SetSubstrate" => Writes(a) = Substrate
         /\ a.kind = "SetSubstrateColor" => Writes(a) = SubstrateColor
         /\ a.kind = "Guides" => Writes(a) = GuideRoster
BY DEF Reads, Writes

(* The footprints of the actions on the tree (Action::footprint).             *)
LEMMA TreeClaims ==
  ASSUME NEW a
  PROVE  /\ a.kind \in {"AddLayer", "PlaceImage"} =>
              /\ Reads(a) = Existence({a.carrier, a.place})
              /\ Writes(a) = LayerClaim({a.layer}) \cup StackOrder
         /\ a.kind = "FloatSelection" =>
              /\ Reads(a) = Existence({a.source})
              /\ Writes(a) = Paint(a.source, Tile) \cup LayerClaim({a.layer})
                               \cup Selection(a.actor) \cup StackOrder
         /\ a.kind = "DuplicateLayer" =>
              /\ Reads(a) = LayerClaim({a.ids[k][1] : k \in DOMAIN a.ids})
              /\ Writes(a) = LayerClaim({a.ids[k][2] : k \in DOMAIN a.ids}) \cup StackOrder
         /\ a.kind = "RemoveLayer" =>
              Writes(a) = LayerClaim({a.layer} \cup ToSet(a.carried)) \cup StackOrder
         /\ a.kind = "MoveLayer" =>
              /\ Reads(a) = Existence({a.layer, a.carrier, a.place})
              /\ Writes(a) = StackOrder
         /\ a.kind = "MergeLayerDown" =>
              /\ Reads(a) = LayerClaim({a.source, a.dest})
              /\ Writes(a) = Existence({a.source, a.dest}) \cup Paint(a.dest, Tile)
                               \cup PropClaim(a.dest, {"blend", "clip", "opacity"}) \cup StackOrder
BY DEF Reads, Writes, SourcesRead

(* Tiles laid over a layer's own.                                              *)
LEMMA PaintChanges ==
  ASSUME NEW a, NEW doc, Sound(doc), NEW id \in Present(doc), NEW tiles,
         DOMAIN tiles \subseteq Tile, Paint(id, DOMAIN tiles) \subseteq Writes(a)
  PROVE  Change(a, doc, WithTiles(doc, id, tiles))
<1>. DEFINE r == Tiled(doc.layer[id], tiles)
<1>1. LayerSound(doc.layer[id])
  BY DEF Sound
<1>2. /\ LayerSound(r) /\ r.kind = doc.layer[id].kind /\ r.number = doc.layer[id].number
      /\ r.prop = doc.layer[id].prop /\ r.run = doc.layer[id].run
      /\ \A t \in Tile : r.tiles[t] = IF t \in DOMAIN tiles THEN tiles[t] ELSE doc.layer[id].tiles[t]
  BY <1>1, TiledIsSound
<1>. HIDE DEF r
<1>3. SameRecord(r, doc.layer[id], id, Writes(a))
  BY <1>2 DEF SameRecord, Paint
<1>4. Change(a, doc, Put(doc, id, r))
  BY <1>2, <1>3, PutChanges
<1>. QED
  BY <1>4, WithTilesIsPut DEF r

(* The same tiles redrawn in two records leave them as far apart.             *)
LEMMA TiledAlike ==
  ASSUME NEW x, LayerSound(x), NEW y, LayerSound(y), NEW id, NEW S, SameRecord(x, y, id, S),
         NEW tiles, DOMAIN tiles \subseteq Tile
  PROVE  SameRecord(Tiled(x, tiles), Tiled(y, tiles), id, S)
<1>1. /\ Tiled(x, tiles).kind = x.kind /\ Tiled(x, tiles).number = x.number
      /\ Tiled(x, tiles).prop = x.prop /\ Tiled(x, tiles).run = x.run
      /\ \A t \in Tile : Tiled(x, tiles).tiles[t] = IF t \in DOMAIN tiles THEN tiles[t] ELSE x.tiles[t]
  BY TiledIsSound
<1>2. /\ Tiled(y, tiles).kind = y.kind /\ Tiled(y, tiles).number = y.number
      /\ Tiled(y, tiles).prop = y.prop /\ Tiled(y, tiles).run = y.run
      /\ \A t \in Tile : Tiled(y, tiles).tiles[t] = IF t \in DOMAIN tiles THEN tiles[t] ELSE y.tiles[t]
  BY TiledIsSound
<1>. QED
  BY <1>1, <1>2 DEF SameRecord

(* The same tiles redrawn in a layer of both documents leave them as far      *)
(* apart.                                                                     *)
LEMMA PaintsAlike ==
  ASSUME NEW D, Sound(D), NEW E, Sound(E), NEW S, Apart(D, E, S),
         NEW id \in Present(D) \cap Present(E), NEW tiles, DOMAIN tiles \subseteq Tile
  PROVE  Apart(WithTiles(D, id, tiles), WithTiles(E, id, tiles), S)
<1>. DEFINE x == D.layer[id]
            y == E.layer[id]
<1>1. LayerSound(x) /\ LayerSound(y) /\ SameRecord(x, y, id, S)
  BY DEF Sound, Apart
<1>2. LayerSound(Tiled(x, tiles)) /\ Tiled(x, tiles).kind = x.kind
  BY <1>1, TiledIsSound
<1>3. LayerSound(Tiled(y, tiles)) /\ Tiled(y, tiles).kind = y.kind
  BY <1>1, TiledIsSound
<1>4. SameRecord(Tiled(x, tiles), Tiled(y, tiles), id, S)
  BY <1>1, TiledAlike
<1>5. Apart(Put(D, id, Tiled(x, tiles)), Put(E, id, Tiled(y, tiles)), S)
  BY <1>2, <1>3, <1>4, PutsAlike
<1>. QED
  BY <1>5, WithTilesIsPut

(* What an edit reads of a layer is alike where the tiles it reads are.        *)
LEMMA ReadsAlike ==
  ASSUME NEW x, NEW y, NEW S, NEW id, SameRecord(x, y, id, S),
         NEW tiles, tiles \subseteq Tile, \A t \in tiles : <<"paint", id, t>> \notin S
  PROVE  Restrict(x.tiles, tiles) = Restrict(y.tiles, tiles)
<1>1. \A t \in tiles : x.tiles[t] = y.tiles[t]
  BY DEF SameRecord
<1>. QED
  BY <1>1 DEF Restrict

(* An action that may commute reads one mask in both documents.               *)
LEMMA MaskAlike ==
  ASSUME NEW D, NEW E, NEW S, Apart(D, E, S), NEW a, a.actor \in Actor,
         <<"selection", a.actor>> \notin S
  PROVE  Mask(a, D) = Mask(a, E)
BY DEF Apart, ApartGlobals, Mask

(* A stroke changes what it declares.                                         *)
LEMMA StrokeChanges ==
  ASSUME NEW a, WellFormed(a), a.kind = "CommitStroke", NEW doc, Sound(doc)
  PROVE  Change(a, doc, FoldStroke(a, doc))
<1>1. CASE ~ Paintable(doc, a.layer)
  BY <1>1, NothingChanges DEF FoldStroke
<1>2. CASE Paintable(doc, a.layer)
  <2>. DEFINE reads == <<TilesOf(doc, a.layer, a.tiles), doc.substrate>>
              tiles == [t \in a.tiles |-> Drawn(a, doc, "stroke", reads)]
  <2>1. FoldStroke(a, doc) = WithTiles(doc, a.layer, tiles)
    BY <1>2 DEF FoldStroke
  <2>2. DOMAIN tiles = a.tiles /\ a.tiles \subseteq Tile
    BY DEF WellFormed
  <2>3. a.layer \in Present(doc) /\ Writes(a) = Paint(a.layer, a.tiles)
    BY <1>2, PaintClaims DEF Paintable
  <2>. HIDE DEF tiles
  <2>. QED
    BY <2>1, <2>2, <2>3, PaintChanges
<1>. QED
  BY <1>1, <1>2

(* A stroke does to documents apart in nothing it claims the same.            *)
LEMMA StrokesAlike ==
  ASSUME NEW a, WellFormed(a), a.kind = "CommitStroke", NEW D, Sound(D), NEW E, Sound(E),
         NEW S, Apart(D, E, S), Clear(a, S)
  PROVE  Apart(FoldStroke(a, D), FoldStroke(a, E), S)
<1>0. /\ Reads(a) = Existence({a.layer}) \cup Selection(a.actor) \cup Substrate \cup {}
      /\ Writes(a) = Paint(a.layer, a.tiles) /\ a.tiles \subseteq Tile /\ a.actor \in Actor
  BY PaintClaims DEF WellFormed
<1>1. /\ Paintable(D, a.layer) <=> Paintable(E, a.layer)
      /\ a.layer \in Present(D) => SameRecord(D.layer[a.layer], E.layer[a.layer], a.layer, S)
  BY <1>0, LayerStands
<1>2. CASE ~ Paintable(D, a.layer)
  BY <1>1, <1>2 DEF FoldStroke
<1>3. CASE Paintable(D, a.layer)
  <2>. DEFINE reads(doc) == <<TilesOf(doc, a.layer, a.tiles), doc.substrate>>
              tiles(doc) == [t \in a.tiles |-> Drawn(a, doc, "stroke", reads(doc))]
  <2>1. /\ FoldStroke(a, D) = WithTiles(D, a.layer, tiles(D))
        /\ FoldStroke(a, E) = WithTiles(E, a.layer, tiles(E))
    BY <1>1, <1>3 DEF FoldStroke
  <2>2. a.layer \in Present(D) \cap Present(E)
    BY <1>1, <1>3 DEF Paintable
  <2>3. /\ \A t \in a.tiles : <<"paint", a.layer, t>> \notin S
        /\ <<"selection", a.actor>> \notin S /\ <<"substrate">> \notin S
    BY <1>0 DEF Clear, Selection, Substrate, Paint
  <2>4. TilesOf(D, a.layer, a.tiles) = TilesOf(E, a.layer, a.tiles)
    <3>1. SameRecord(D.layer[a.layer], E.layer[a.layer], a.layer, S)
      BY <1>1, <2>2
    <3>. QED
      BY <1>0, <2>3, <3>1, ReadsAlike DEF TilesOf
  <2>5. Mask(a, D) = Mask(a, E) /\ D.substrate = E.substrate
    BY <1>0, <2>3, MaskAlike DEF Apart, ApartGlobals
  <2>6. tiles(D) = tiles(E) /\ DOMAIN tiles(D) = a.tiles
    BY <2>4, <2>5 DEF Drawn
  <2>. HIDE DEF tiles
  <2>. QED
    BY <1>0, <2>1, <2>2, <2>6, PaintsAlike
<1>. QED
  BY <1>2, <1>3

(* A fill changes what it declares.                                           *)
LEMMA FillChanges ==
  ASSUME NEW a, WellFormed(a), a.kind = "Fill", NEW doc, Sound(doc)
  PROVE  Change(a, doc, FoldFill(a, doc))
<1>1. CASE ~ Paintable(doc, a.layer)
  BY <1>1, NothingChanges DEF FoldFill
<1>2. CASE Paintable(doc, a.layer)
  <2>. DEFINE tiles == [t \in a.tiles |-> Drawn(a, doc, "fill", TilesOf(doc, a.layer, {t}))]
  <2>1. FoldFill(a, doc) = WithTiles(doc, a.layer, tiles)
    BY <1>2 DEF FoldFill
  <2>2. DOMAIN tiles = a.tiles /\ a.tiles \subseteq Tile
    BY DEF WellFormed
  <2>3. a.layer \in Present(doc) /\ Writes(a) = Paint(a.layer, a.tiles)
    BY <1>2, PaintClaims DEF Paintable
  <2>. HIDE DEF tiles
  <2>. QED
    BY <2>1, <2>2, <2>3, PaintChanges
<1>. QED
  BY <1>1, <1>2

(* A fill does the same to documents apart in nothing it claims.              *)
LEMMA FillsAlike ==
  ASSUME NEW a, WellFormed(a), a.kind = "Fill", NEW D, Sound(D), NEW E, Sound(E),
         NEW S, Apart(D, E, S), Clear(a, S)
  PROVE  Apart(FoldFill(a, D), FoldFill(a, E), S)
<1>0. /\ Reads(a) = Existence({a.layer}) \cup Selection(a.actor)
      /\ Writes(a) = Paint(a.layer, a.tiles) /\ a.tiles \subseteq Tile /\ a.actor \in Actor
  BY PaintClaims DEF WellFormed
<1>1. /\ Paintable(D, a.layer) <=> Paintable(E, a.layer)
      /\ a.layer \in Present(D) => SameRecord(D.layer[a.layer], E.layer[a.layer], a.layer, S)
  BY <1>0, LayerStands
<1>2. CASE ~ Paintable(D, a.layer)
  BY <1>1, <1>2 DEF FoldFill
<1>3. CASE Paintable(D, a.layer)
  <2>. DEFINE tiles(doc) == [t \in a.tiles |-> Drawn(a, doc, "fill", TilesOf(doc, a.layer, {t}))]
  <2>1. /\ FoldFill(a, D) = WithTiles(D, a.layer, tiles(D))
        /\ FoldFill(a, E) = WithTiles(E, a.layer, tiles(E))
    BY <1>1, <1>3 DEF FoldFill
  <2>2. a.layer \in Present(D) \cap Present(E)
    BY <1>1, <1>3 DEF Paintable
  <2>3. /\ \A t \in a.tiles : <<"paint", a.layer, t>> \notin S
        /\ <<"selection", a.actor>> \notin S
    BY <1>0 DEF Clear, Selection, Paint
  <2>4. ASSUME NEW t \in a.tiles
        PROVE  TilesOf(D, a.layer, {t}) = TilesOf(E, a.layer, {t})
    <3>1. SameRecord(D.layer[a.layer], E.layer[a.layer], a.layer, S)
      BY <1>1, <2>2
    <3>2. {t} \subseteq Tile /\ \A u \in {t} : <<"paint", a.layer, u>> \notin S
      BY <1>0, <2>3
    <3>. QED
      BY <3>1, <3>2, ReadsAlike DEF TilesOf
  <2>5. Mask(a, D) = Mask(a, E)
    BY <1>0, <2>3, MaskAlike
  <2>6. tiles(D) = tiles(E) /\ DOMAIN tiles(D) = a.tiles
    BY <2>4, <2>5 DEF Drawn
  <2>. HIDE DEF tiles
  <2>. QED
    BY <1>0, <2>1, <2>2, <2>6, PaintsAlike
<1>. QED
  BY <1>2, <1>3

(* A transform changes what it declares.                                      *)
LEMMA TransformChanges ==
  ASSUME NEW a, WellFormed(a), a.kind = "Transform", NEW doc, Sound(doc)
  PROVE  Change(a, doc, FoldTransform(a, doc))
<1>1. CASE ~ Paintable(doc, a.layer)
  BY <1>1, NothingChanges DEF FoldTransform
<1>2. CASE Paintable(doc, a.layer)
  <2>. DEFINE reads == TilesOf(doc, a.layer, a.tiles)
              tiles == [t \in a.tiles |-> Drawn(a, doc, "transform", reads)]
              new == WithTiles(doc, a.layer, tiles)
              was == new.mask[a.actor]
              m == IF was = Universal THEN was ELSE <<"transform", a.n, was>>
  <2>1. FoldTransform(a, doc) = Masked(new, a.actor, m)
    BY <1>2 DEF FoldTransform, Masked
  <2>2. DOMAIN tiles = a.tiles /\ a.tiles \subseteq Tile /\ a.actor \in Actor
    BY DEF WellFormed
  <2>3. a.layer \in Present(doc) /\ Writes(a) = Paint(a.layer, a.tiles) \cup Selection(a.actor)
    BY <1>2, PaintClaims DEF Paintable
  <2>4. <<"selection", a.actor>> \in Writes(a) /\ Paint(a.layer, a.tiles) \subseteq Writes(a)
    BY <2>3 DEF Selection
  <2>. HIDE DEF tiles
  <2>5. Change(a, doc, new)
    BY <2>2, <2>3, <2>4, PaintChanges
  <2>. HIDE DEF new, m
  <2>. QED
    BY <2>1, <2>2, <2>4, <2>5, MaskedChanges
<1>. QED
  BY <1>1, <1>2

(* A transform does the same to documents apart in nothing it claims.         *)
LEMMA TransformsAlike ==
  ASSUME NEW a, WellFormed(a), a.kind = "Transform", NEW D, Sound(D), NEW E, Sound(E),
         NEW S, Apart(D, E, S), Clear(a, S)
  PROVE  Apart(FoldTransform(a, D), FoldTransform(a, E), S)
<1>0. /\ Reads(a) = Existence({a.layer}) /\ Writes(a) = Paint(a.layer, a.tiles) \cup Selection(a.actor)
      /\ a.tiles \subseteq Tile /\ a.actor \in Actor
  BY PaintClaims DEF WellFormed
<1>1. /\ Paintable(D, a.layer) <=> Paintable(E, a.layer)
      /\ a.layer \in Present(D) => SameRecord(D.layer[a.layer], E.layer[a.layer], a.layer, S)
  BY <1>0, LayerStands
<1>2. CASE ~ Paintable(D, a.layer)
  BY <1>1, <1>2 DEF FoldTransform
<1>3. CASE Paintable(D, a.layer)
  <2>. DEFINE reads(doc) == TilesOf(doc, a.layer, a.tiles)
              tiles(doc) == [t \in a.tiles |-> Drawn(a, doc, "transform", reads(doc))]
              new(doc) == WithTiles(doc, a.layer, tiles(doc))
              m(was) == IF was = Universal THEN was ELSE <<"transform", a.n, was>>
  <2>1. /\ FoldTransform(a, D) = Masked(new(D), a.actor, m(new(D).mask[a.actor]))
        /\ FoldTransform(a, E) = Masked(new(E), a.actor, m(new(E).mask[a.actor]))
    BY <1>1, <1>3 DEF FoldTransform, Masked
  <2>2. a.layer \in Present(D) \cap Present(E)
    BY <1>1, <1>3 DEF Paintable
  <2>3. /\ \A t \in a.tiles : <<"paint", a.layer, t>> \notin S
        /\ <<"selection", a.actor>> \notin S
    BY <1>0 DEF Clear, Selection, Paint
  <2>4. TilesOf(D, a.layer, a.tiles) = TilesOf(E, a.layer, a.tiles)
    <3>1. SameRecord(D.layer[a.layer], E.layer[a.layer], a.layer, S)
      BY <1>1, <2>2
    <3>. QED
      BY <1>0, <2>3, <3>1, ReadsAlike DEF TilesOf
  <2>5. Mask(a, D) = Mask(a, E)
    BY <1>0, <2>3, MaskAlike
  <2>6. tiles(D) = tiles(E) /\ DOMAIN tiles(D) = a.tiles
    BY <2>4, <2>5 DEF Drawn
  <2>. HIDE DEF tiles
  <2>7. Apart(new(D), new(E), S)
    BY <1>0, <2>2, <2>6, PaintsAlike
  <2>8. Sound(new(D)) /\ Sound(new(E))
    <3>1. /\ DOMAIN tiles(D) \subseteq Tile /\ DOMAIN tiles(E) \subseteq Tile
      BY <1>0, <2>6
    <3>2. Paint(a.layer, DOMAIN tiles(D)) \subseteq Writes(a)
          /\ Paint(a.layer, DOMAIN tiles(E)) \subseteq Writes(a)
      BY <1>0, <2>6
    <3>. QED
      BY <2>2, <3>1, <3>2, PaintChanges DEF Change
  <2>9. new(D).mask[a.actor] = new(E).mask[a.actor]
    BY <1>0, <2>3, <2>7 DEF Apart, ApartGlobals
  <2>. HIDE DEF new, m
  <2>. QED
    BY <1>0, <2>1, <2>7, <2>8, <2>9, MaskedAlike
<1>. QED
  BY <1>2, <1>3

(* A selection changes what it declares.                                      *)
LEMMA SelectChanges ==
  ASSUME NEW a, WellFormed(a), a.kind = "Select", NEW doc, Sound(doc)
  PROVE  Change(a, doc, FoldSelect(a, doc))
<1>. DEFINE was == doc.mask[a.actor]
            m == IF a.op = "everything" THEN Universal ELSE <<a.op, a.n, was>>
<1>1. FoldSelect(a, doc) = Masked(doc, a.actor, m)
  BY DEF FoldSelect, Masked
<1>2. a.actor \in Actor /\ <<"selection", a.actor>> \in Writes(a)
  BY PaintClaims DEF WellFormed, Selection
<1>3. Change(a, doc, doc)
  BY NothingChanges
<1>. HIDE DEF m
<1>. QED
  BY <1>1, <1>2, <1>3, MaskedChanges

(* A selection does the same to documents apart in nothing it claims.         *)
LEMMA SelectsAlike ==
  ASSUME NEW a, WellFormed(a), a.kind = "Select", NEW D, Sound(D), NEW E, Sound(E),
         NEW S, Apart(D, E, S), Clear(a, S)
  PROVE  Apart(FoldSelect(a, D), FoldSelect(a, E), S)
<1>. DEFINE m(was) == IF a.op = "everything" THEN Universal ELSE <<a.op, a.n, was>>
<1>1. /\ FoldSelect(a, D) = Masked(D, a.actor, m(D.mask[a.actor]))
      /\ FoldSelect(a, E) = Masked(E, a.actor, m(E.mask[a.actor]))
  BY DEF FoldSelect, Masked
<1>2. a.actor \in Actor /\ <<"selection", a.actor>> \notin S
  BY PaintClaims DEF WellFormed, Selection, Clear
<1>3. D.mask[a.actor] = E.mask[a.actor]
  BY <1>2 DEF Apart, ApartGlobals
<1>. HIDE DEF m
<1>. QED
  BY <1>1, <1>2, <1>3, MaskedAlike

(* A run of liquify strokes is left on a layer.                                *)
Ran(r, run) == [r EXCEPT !.run = run]

(* A record with its liquify run replaced.                                    *)
LEMMA RanIsSound ==
  ASSUME NEW r, LayerSound(r), NEW run
  PROVE  /\ LayerSound(Ran(r, run)) /\ Ran(r, run).kind = r.kind
         /\ Ran(r, run).number = r.number /\ Ran(r, run).prop = r.prop
         /\ Ran(r, run).tiles = r.tiles /\ Ran(r, run).run = run
<1>1. /\ r = [kind |-> r.kind, prop |-> r.prop, tiles |-> r.tiles, run |-> r.run, number |-> r.number]
      /\ r.prop = [p \in Prop |-> r.prop[p]] /\ r.tiles = [t \in Tile |-> r.tiles[t]]
  BY DEF LayerSound
<1>2. /\ Ran(r, run) = [kind |-> r.kind, prop |-> r.prop, tiles |-> r.tiles, run |-> run,
                        number |-> r.number]
  BY <1>1 DEF Ran
<1>. QED
  BY <1>1, <1>2 DEF LayerSound

(* A liquify stroke puts one record: its tiles redrawn and its run left       *)
(* behind.                                                                    *)
LEMMA LiquifyIsPut ==
  ASSUME NEW doc, Sound(doc), NEW id \in Present(doc), NEW tiles, NEW run
  PROVE  [WithTiles(doc, id, tiles) EXCEPT !.layer[id].run = run]
           = Put(doc, id, Ran(Tiled(doc.layer[id], tiles), run))
<1>1. Shaped(doc) /\ doc.layer = [l \in Present(doc) |-> doc.layer[l]]
  BY DEF Sound, Shaped
<1>. DEFINE r == Tiled(doc.layer[id], tiles)
            new == Put(doc, id, r)
<1>2. WithTiles(doc, id, tiles) = new
  BY WithTilesIsPut
<1>. HIDE DEF r
<1>3. new = [doc EXCEPT !.layer = [doc.layer EXCEPT ![id] = r]]
  BY <1>1 DEF Put
<1>4. new.layer[id] = r
  BY <1>1, <1>3 DEF Shaped
<1>5. [new EXCEPT !.layer[id].run = run] = [new EXCEPT !.layer[id] = Ran(r, run)]
  BY <1>4 DEF Ran
<1>6. [new EXCEPT !.layer[id] = Ran(r, run)] = [doc EXCEPT !.layer[id] = Ran(r, run)]
  BY <1>1 DEF Put, Shaped
<1>. QED
  BY <1>2, <1>5, <1>6 DEF Put, r

(* A liquify stroke changes what it declares.                                 *)
LEMMA LiquifyChanges ==
  ASSUME NEW a, WellFormed(a), a.kind = "Liquify", NEW doc, Sound(doc)
  PROVE  Change(a, doc, FoldLiquify(a, doc))
<1>1. CASE ~ Paintable(doc, a.layer)
  BY <1>1, NothingChanges DEF FoldLiquify
<1>2. CASE Paintable(doc, a.layer)
  <2>. DEFINE layer == doc.layer[a.layer]
              reach == TilesOf(doc, a.layer, a.reach)
              run   == IF Fresh(layer.run, layer.tiles, a.reach) THEN layer.run ELSE NoRun
              reads == <<reach, run.field, doc.substrate>>
              drawn == [t \in a.tiles |-> Drawn(a, doc, "liquify", reads)]
              left  == [expects |-> Over(Over(drawn, run.expects), reach), field |-> <<a.n, reads>>]
              r     == Ran(Tiled(layer, drawn), left)
  <2>1. FoldLiquify(a, doc) = [WithTiles(doc, a.layer, drawn) EXCEPT !.layer[a.layer].run = left]
    BY <1>2 DEF FoldLiquify
  <2>2. DOMAIN drawn = a.tiles /\ a.tiles \subseteq Tile
    BY DEF WellFormed
  <2>3. a.layer \in Present(doc) /\ Writes(a) = Paint(a.layer, a.tiles) \cup LiquifyRun(a.layer)
    BY <1>2, PaintClaims DEF Paintable
  <2>4. LayerSound(layer)
    BY <2>3 DEF Sound
  <2>. HIDE DEF drawn, left
  <2>5. FoldLiquify(a, doc) = Put(doc, a.layer, r)
    BY <2>1, <2>3, LiquifyIsPut
  <2>. HIDE DEF layer
  <2>6. /\ LayerSound(Tiled(layer, drawn))
        /\ Tiled(layer, drawn).kind = layer.kind /\ Tiled(layer, drawn).number = layer.number
        /\ Tiled(layer, drawn).prop = layer.prop
        /\ \A t \in Tile : Tiled(layer, drawn).tiles[t] = IF t \in DOMAIN drawn THEN drawn[t] ELSE layer.tiles[t]
    BY <2>2, <2>4, TiledIsSound
  <2>7. /\ LayerSound(r) /\ r.kind = layer.kind /\ r.number = layer.number /\ r.prop = layer.prop
        /\ \A t \in Tile : r.tiles[t] = IF t \in DOMAIN drawn THEN drawn[t] ELSE layer.tiles[t]
    BY <2>6, RanIsSound
  <2>. HIDE DEF r
  <2>8. SameRecord(r, layer, a.layer, Writes(a))
    BY <2>2, <2>3, <2>7 DEF SameRecord, Paint, LiquifyRun
  <2>. QED
    BY <2>3, <2>5, <2>7, <2>8, PutChanges DEF layer
<1>. QED
  BY <1>1, <1>2

(* A liquify stroke does the same to documents apart in nothing it claims:    *)
(* the run it continues, the tiles in its reach and the selection are all     *)
(* declared.                                                                  *)
LEMMA LiquifiesAlike ==
  ASSUME NEW a, WellFormed(a), a.kind = "Liquify", NEW D, Sound(D), NEW E, Sound(E),
         NEW S, Apart(D, E, S), Clear(a, S)
  PROVE  Apart(FoldLiquify(a, D), FoldLiquify(a, E), S)
<1>0. /\ Reads(a) = Existence({a.layer}) \cup Selection(a.actor) \cup Substrate
                      \cup (Paint(a.layer, a.reach) \cup LiquifyRun(a.layer))
      /\ Writes(a) = Paint(a.layer, a.tiles) \cup LiquifyRun(a.layer)
      /\ a.tiles \subseteq Tile /\ a.reach \subseteq Tile /\ a.actor \in Actor
  BY PaintClaims DEF WellFormed
<1>1. /\ Paintable(D, a.layer) <=> Paintable(E, a.layer)
      /\ a.layer \in Present(D) => SameRecord(D.layer[a.layer], E.layer[a.layer], a.layer, S)
  BY <1>0, LayerStands
<1>2. CASE ~ Paintable(D, a.layer)
  BY <1>1, <1>2 DEF FoldLiquify
<1>3. CASE Paintable(D, a.layer)
  <2>. DEFINE layer(doc) == doc.layer[a.layer]
              reach(doc) == TilesOf(doc, a.layer, a.reach)
              run(doc)   == IF Fresh(layer(doc).run, layer(doc).tiles, a.reach)
                            THEN layer(doc).run ELSE NoRun
              reads(doc) == <<reach(doc), run(doc).field, doc.substrate>>
              drawn(doc) == [t \in a.tiles |-> Drawn(a, doc, "liquify", reads(doc))]
              left(doc)  == [expects |-> Over(Over(drawn(doc), run(doc).expects), reach(doc)),
                             field |-> <<a.n, reads(doc)>>]
              r(doc)     == Ran(Tiled(layer(doc), drawn(doc)), left(doc))
  <2>1. /\ FoldLiquify(a, D) = [WithTiles(D, a.layer, drawn(D)) EXCEPT !.layer[a.layer].run = left(D)]
        /\ FoldLiquify(a, E) = [WithTiles(E, a.layer, drawn(E)) EXCEPT !.layer[a.layer].run = left(E)]
    BY <1>1, <1>3 DEF FoldLiquify
  <2>2. a.layer \in Present(D) \cap Present(E)
    BY <1>1, <1>3 DEF Paintable
  <2>3. /\ \A t \in a.reach : <<"paint", a.layer, t>> \notin S
        /\ <<"selection", a.actor>> \notin S /\ <<"substrate">> \notin S
        /\ <<"run", a.layer>> \notin S
    BY <1>0 DEF Clear, Selection, Paint, Substrate, LiquifyRun
  <2>4. SameRecord(layer(D), layer(E), a.layer, S)
    BY <1>1, <2>2
  <2>5. reach(D) = reach(E)
    BY <1>0, <2>3, <2>4, ReadsAlike DEF TilesOf
  <2>6. Mask(a, D) = Mask(a, E) /\ D.substrate = E.substrate
    BY <1>0, <2>3, MaskAlike DEF Apart, ApartGlobals
  <2>7. run(D) = run(E)
    <3>1. layer(D).run = layer(E).run
      BY <2>3, <2>4 DEF SameRecord
    <3>2. \A t \in a.reach : layer(D).tiles[t] = layer(E).tiles[t]
      BY <1>0, <2>3, <2>4 DEF SameRecord
    <3>3. Fresh(layer(D).run, layer(D).tiles, a.reach) <=> Fresh(layer(E).run, layer(E).tiles, a.reach)
      BY <3>1, <3>2 DEF Fresh
    <3>. QED
      BY <3>1, <3>3
  <2>. HIDE DEF reach, run
  <2>8. drawn(D) = drawn(E) /\ left(D) = left(E) /\ DOMAIN drawn(D) = a.tiles
    BY <2>5, <2>6, <2>7 DEF Drawn
  <2>. HIDE DEF drawn, left
  <2>9. FoldLiquify(a, D) = Put(D, a.layer, r(D)) /\ FoldLiquify(a, E) = Put(E, a.layer, r(E))
    <3>1. FoldLiquify(a, D) = Put(D, a.layer, r(D))
      BY <2>1, <2>2, LiquifyIsPut
    <3>2. FoldLiquify(a, E) = Put(E, a.layer, r(E))
      BY <2>1, <2>2, LiquifyIsPut
    <3>. QED
      BY <3>1, <3>2
  <2>10. LayerSound(layer(D)) /\ LayerSound(layer(E))
    BY <2>2 DEF Sound
  <2>. HIDE DEF layer
  <2>. DEFINE x == Tiled(layer(D), drawn(D))
              y == Tiled(layer(E), drawn(D))
  <2>11. LayerSound(x) /\ x.kind = layer(D).kind /\ LayerSound(y) /\ y.kind = layer(E).kind
    BY <1>0, <2>8, <2>10, TiledIsSound
  <2>12. SameRecord(x, y, a.layer, S)
    BY <1>0, <2>4, <2>8, <2>10, TiledAlike
  <2>. HIDE DEF x, y
  <2>. DEFINE u == Ran(x, left(D))
              v == Ran(y, left(D))
  <2>13. /\ LayerSound(u) /\ u.kind = x.kind /\ u.number = x.number /\ u.prop = x.prop
         /\ u.tiles = x.tiles /\ u.run = left(D)
    BY <2>11, RanIsSound
  <2>14. /\ LayerSound(v) /\ v.kind = y.kind /\ v.number = y.number /\ v.prop = y.prop
         /\ v.tiles = y.tiles /\ v.run = left(D)
    BY <2>11, RanIsSound
  <2>15. r(D) = u /\ r(E) = v
    BY <2>8 DEF x, y
  <2>. HIDE DEF u, v, r
  <2>16. SameRecord(u, v, a.layer, S)
    BY <2>12, <2>13, <2>14 DEF SameRecord
  <2>17. Apart(Put(D, a.layer, u), Put(E, a.layer, v), S)
    BY <2>2, <2>11, <2>13, <2>14, <2>16, PutsAlike DEF layer
  <2>. QED
    BY <2>9, <2>15, <2>17
<1>. QED
  BY <1>2, <1>3

(* A property of a layer is set.                                               *)
Propped(r, p, v) == [r EXCEPT !.prop[p] = v]

(* Only the property set differs.                                              *)
LEMMA ProppedIsSound ==
  ASSUME NEW r, LayerSound(r), NEW p, NEW v
  PROVE  /\ LayerSound(Propped(r, p, v)) /\ Propped(r, p, v).kind = r.kind
         /\ Propped(r, p, v).number = r.number /\ Propped(r, p, v).tiles = r.tiles
         /\ Propped(r, p, v).run = r.run
         /\ \A q \in Prop : Propped(r, p, v).prop[q] = IF q = p THEN v ELSE r.prop[q]
<1>1. /\ r = [kind |-> r.kind, prop |-> r.prop, tiles |-> r.tiles, run |-> r.run, number |-> r.number]
      /\ r.prop = [q \in Prop |-> r.prop[q]] /\ r.tiles = [t \in Tile |-> r.tiles[t]]
  BY DEF LayerSound
<1>2. Propped(r, p, v) = [kind |-> r.kind, prop |-> [r.prop EXCEPT ![p] = v], tiles |-> r.tiles,
                          run |-> r.run, number |-> r.number]
  BY <1>1 DEF Propped
<1>3. [r.prop EXCEPT ![p] = v] = [q \in Prop |-> IF q = p THEN v ELSE r.prop[q]]
  BY <1>1
<1>. QED
  BY <1>1, <1>2, <1>3 DEF LayerSound

(* A property a layer refuses leaves it as it was, any other is all that differs. *)
LEMMA WithPropIsSound ==
  ASSUME NEW r, LayerSound(r), NEW p, NEW v
  PROVE  /\ LayerSound(WithProp(r, p, v)) /\ WithProp(r, p, v).kind = r.kind
         /\ WithProp(r, p, v).number = r.number /\ WithProp(r, p, v).tiles = r.tiles
         /\ WithProp(r, p, v).run = r.run
         /\ \A q \in Prop : WithProp(r, p, v).prop[q] =
                              IF q = p /\ ~ Refuses(r, p) THEN v ELSE r.prop[q]
<1>1. CASE Refuses(r, p)
  BY <1>1 DEF WithProp
<1>2. CASE ~ Refuses(r, p)
  <2>1. WithProp(r, p, v) = Propped(r, p, v)
    BY <1>2 DEF WithProp, Propped
  <2>. QED
    BY <1>2, <2>1, ProppedIsSound
<1>. QED
  BY <1>1, <1>2

(* Set to the same value, two records differ no more than they did.            *)
LEMMA WithPropAlike ==
  ASSUME NEW x, LayerSound(x), NEW y, LayerSound(y), NEW id, NEW S, SameRecord(x, y, id, S),
         NEW p, NEW v
  PROVE  SameRecord(WithProp(x, p, v), WithProp(y, p, v), id, S)
<1>1. Refuses(x, p) <=> Refuses(y, p)
  BY DEF Refuses, SameRecord
<1>. DEFINE u == WithProp(x, p, v)
            w == WithProp(y, p, v)
<1>2. /\ u.kind = x.kind /\ u.number = x.number /\ u.tiles = x.tiles /\ u.run = x.run
      /\ \A q \in Prop : u.prop[q] = IF q = p /\ ~ Refuses(x, p) THEN v ELSE x.prop[q]
  BY WithPropIsSound
<1>3. /\ w.kind = y.kind /\ w.number = y.number /\ w.tiles = y.tiles /\ w.run = y.run
      /\ \A q \in Prop : w.prop[q] = IF q = p /\ ~ Refuses(y, p) THEN v ELSE y.prop[q]
  BY WithPropIsSound
<1>. HIDE DEF u, w
<1>. SUFFICES SameRecord(u, w, id, S)
  BY DEF u, w
<1>. QED
  BY <1>1, <1>2, <1>3 DEF SameRecord

(* A property set keeps a document sound.                                     *)
LEMMA SetPropIsSound ==
  ASSUME NEW doc, Sound(doc), NEW id, NEW p, NEW v
  PROVE  Sound(SetProp(doc, id, p, v)) /\ Present(SetProp(doc, id, p, v)) = Present(doc)
<1>1. CASE id \notin Present(doc)
  BY <1>1 DEF SetProp
<1>2. CASE id \in Present(doc)
  <2>. DEFINE layer == doc.layer[id]
              r == WithProp(layer, p, v)
  <2>1. SetProp(doc, id, p, v) = Put(doc, id, r)
    BY <1>2 DEF SetProp, Put
  <2>2. LayerSound(layer)
    BY <1>2 DEF Sound
  <2>. HIDE DEF layer
  <2>3. LayerSound(r) /\ r.kind = layer.kind
    BY <2>2, WithPropIsSound
  <2>. HIDE DEF r
  <2>. QED
    BY <1>2, <2>1, <2>3, PutIsSound DEF layer
<1>. QED
  BY <1>1, <1>2

(* SetProp writes the property it sets.                                        *)
LEMMA SetPropChanges ==
  ASSUME NEW a, NEW doc, Sound(doc), NEW id, NEW p, NEW v, <<"prop", id, p>> \in Writes(a)
  PROVE  Change(a, doc, SetProp(doc, id, p, v))
<1>1. CASE id \notin Present(doc)
  BY <1>1, NothingChanges DEF SetProp
<1>2. CASE id \in Present(doc)
  <2>. DEFINE layer == doc.layer[id]
              r == WithProp(layer, p, v)
  <2>1. SetProp(doc, id, p, v) = Put(doc, id, r)
    BY <1>2 DEF SetProp, Put
  <2>2. LayerSound(layer)
    BY <1>2 DEF Sound
  <2>. HIDE DEF layer
  <2>3. /\ LayerSound(r) /\ r.kind = layer.kind /\ r.number = layer.number
        /\ r.tiles = layer.tiles /\ r.run = layer.run
        /\ \A q \in Prop : r.prop[q] = IF q = p /\ ~ Refuses(layer, p) THEN v ELSE layer.prop[q]
    BY <2>2, WithPropIsSound
  <2>. HIDE DEF r
  <2>4. SameRecord(r, layer, id, Writes(a))
    BY <2>3 DEF SameRecord
  <2>. QED
    BY <1>2, <2>1, <2>3, <2>4, PutChanges DEF layer
<1>. QED
  BY <1>1, <1>2

(* And does the same to two documents that agree on the layer's existence.     *)
LEMMA SetPropsAlike ==
  ASSUME NEW D, Sound(D), NEW E, Sound(E), NEW S, Apart(D, E, S), NEW id,
         id \in Present(D) <=> id \in Present(E), NEW p, NEW v
  PROVE  Apart(SetProp(D, id, p, v), SetProp(E, id, p, v), S)
<1>1. CASE id \notin Present(D)
  BY <1>1 DEF SetProp
<1>2. CASE id \in Present(D)
  <2>. DEFINE x == D.layer[id]
              y == E.layer[id]
              u == WithProp(x, p, v)
              w == WithProp(y, p, v)
  <2>1. SetProp(D, id, p, v) = Put(D, id, u) /\ SetProp(E, id, p, v) = Put(E, id, w)
    BY <1>2 DEF SetProp, Put
  <2>2. LayerSound(x) /\ LayerSound(y) /\ SameRecord(x, y, id, S)
    BY <1>2 DEF Sound, Apart
  <2>. HIDE DEF x, y
  <2>3. LayerSound(u) /\ u.kind = x.kind /\ LayerSound(w) /\ w.kind = y.kind
    BY <2>2, WithPropIsSound
  <2>4. SameRecord(u, w, id, S)
    BY <2>2, WithPropAlike
  <2>. HIDE DEF u, w
  <2>5. id \in Present(D) \cap Present(E)
    BY <1>2
  <2>6. Apart(Put(D, id, u), Put(E, id, w), S)
    BY <2>3, <2>4, <2>5, PutsAlike DEF x, y
  <2>. QED
    BY <2>1, <2>6
<1>. QED
  BY <1>1, <1>2

(* A matte's region or its paint.                                              *)
LEMMA SetMatteIsPut ==
  ASSUME NEW doc, Sound(doc), NEW id \in Present(doc), doc.layer[id].kind = "matte",
         NEW half, NEW v
  PROVE  SetMatte(doc, id, half, v)
           = Put(doc, id, Propped(doc.layer[id], "matte",
                                  [doc.layer[id].prop["matte"] EXCEPT ![half] = v]))
BY DEF SetMatte, Put, Propped

(* Half a matte is set by an action that declares the matte.                  *)
LEMMA SetMatteChanges ==
  ASSUME NEW a, NEW doc, Sound(doc), NEW id, NEW half, NEW v, <<"prop", id, "matte">> \in Writes(a)
  PROVE  Change(a, doc, SetMatte(doc, id, half, v))
<1>1. CASE id \notin Present(doc) \/ doc.layer[id].kind # "matte"
  BY <1>1, NothingChanges DEF SetMatte
<1>2. CASE id \in Present(doc) /\ doc.layer[id].kind = "matte"
  <2>. DEFINE layer == doc.layer[id]
              m == [layer.prop["matte"] EXCEPT ![half] = v]
              r == Propped(layer, "matte", m)
  <2>1. SetMatte(doc, id, half, v) = Put(doc, id, r)
    BY <1>2, SetMatteIsPut
  <2>2. LayerSound(layer)
    BY <1>2 DEF Sound
  <2>. HIDE DEF layer, m
  <2>3. /\ LayerSound(r) /\ r.kind = layer.kind /\ r.number = layer.number
        /\ r.tiles = layer.tiles /\ r.run = layer.run
        /\ \A q \in Prop : r.prop[q] = IF q = "matte" THEN m ELSE layer.prop[q]
    BY <2>2, ProppedIsSound
  <2>. HIDE DEF r
  <2>4. SameRecord(r, layer, id, Writes(a))
    BY <2>3 DEF SameRecord
  <2>. QED
    BY <1>2, <2>1, <2>3, <2>4, PutChanges DEF layer
<1>. QED
  BY <1>1, <1>2

(* Half a matte set alike leaves two documents as far apart.                  *)
LEMMA SetMattesAlike ==
  ASSUME NEW D, Sound(D), NEW E, Sound(E), NEW S, Apart(D, E, S), NEW id,
         id \in Present(D) <=> id \in Present(E), NEW half, NEW v, <<"prop", id, "matte">> \notin S
  PROVE  Apart(SetMatte(D, id, half, v), SetMatte(E, id, half, v), S)
<1>. DEFINE x == D.layer[id]
            y == E.layer[id]
<1>1. CASE id \notin Present(D)
  BY <1>1 DEF SetMatte
<1>2. CASE id \in Present(D)
  <2>1. LayerSound(x) /\ LayerSound(y)
    BY <1>2 DEF Sound
  <2>2. LayerSound(x) /\ LayerSound(y) /\ SameRecord(x, y, id, S) /\ x.kind = y.kind
    <3>1. id \in Present(D) \cap Present(E)
      BY <1>2
    <3>2. SameRecord(x, y, id, S)
      BY <3>1 DEF Apart
    <3>. QED
      BY <2>1, <3>2 DEF SameRecord
  <2>3. CASE x.kind # "matte"
    BY <2>2, <2>3 DEF SetMatte
  <2>4. CASE x.kind = "matte"
    <3>. DEFINE m == [x.prop["matte"] EXCEPT ![half] = v]
                n == [y.prop["matte"] EXCEPT ![half] = v]
                u == Propped(x, "matte", m)
                w == Propped(y, "matte", n)
    <3>1. m = n
      <4>1. "matte" \in Prop
        BY DEF Prop
      <4>. QED
        BY <2>2, <4>1 DEF SameRecord
    <3>2. SetMatte(D, id, half, v) = Put(D, id, u) /\ SetMatte(E, id, half, v) = Put(E, id, w)
      BY <1>2, <2>2, <2>4, SetMatteIsPut
    <3>. HIDE DEF x, y, m, n
    <3>3. /\ LayerSound(u) /\ u.kind = x.kind /\ u.number = x.number
          /\ u.tiles = x.tiles /\ u.run = x.run
          /\ \A q \in Prop : u.prop[q] = IF q = "matte" THEN m ELSE x.prop[q]
      BY <2>2, ProppedIsSound
    <3>4. /\ LayerSound(w) /\ w.kind = y.kind /\ w.number = y.number
          /\ w.tiles = y.tiles /\ w.run = y.run
          /\ \A q \in Prop : w.prop[q] = IF q = "matte" THEN n ELSE y.prop[q]
      BY <2>2, ProppedIsSound
    <3>. HIDE DEF u, w
    <3>5. SameRecord(u, w, id, S)
      BY <2>2, <3>1, <3>3, <3>4 DEF SameRecord
    <3>6. id \in Present(D) \cap Present(E)
      BY <1>2
    <3>7. Apart(Put(D, id, u), Put(E, id, w), S)
      BY <3>3, <3>4, <3>5, <3>6, PutsAlike DEF x, y
    <3>. QED
      BY <3>2, <3>7
  <2>. QED
    BY <2>3, <2>4
<1>. QED
  BY <1>1, <1>2

(* Layers are translated, each on its own.                                     *)
LEMMA TranslatedLayers ==
  ASSUME NEW doc, Sound(doc), NEW moves
  PROVE  /\ Sound(TranslateLayers(doc, moves))
         /\ TranslateLayers(doc, moves).order = doc.order
         /\ TranslateLayers(doc, moves).carrier = doc.carrier
         /\ SameGlobals(TranslateLayers(doc, moves), doc)
         /\ \A l \in Present(doc) : TranslateLayers(doc, moves).layer[l] =
              IF l \in DOMAIN moves THEN WithProp(doc.layer[l], "translation", moves[l])
              ELSE doc.layer[l]
<1>. DEFINE new == TranslateLayers(doc, moves)
<1>1. Shaped(doc) /\ doc.layer = [l \in Present(doc) |-> doc.layer[l]]
      /\ doc.mask = [x \in Actor |-> doc.mask[x]]
  BY DEF Sound, Shaped
<1>2. DOMAIN doc.layer = Present(doc)
  BY <1>1
<1>3. /\ Shaped(new) /\ SameGlobals(new, doc) /\ new.order = doc.order /\ new.carrier = doc.carrier
      /\ new.layer = [l \in DOMAIN doc.layer |->
           IF l \in DOMAIN moves THEN WithProp(doc.layer[l], "translation", moves[l])
           ELSE doc.layer[l]]
  BY <1>1 DEF TranslateLayers, Shaped, SameGlobals
<1>. HIDE DEF new
<1>4. ASSUME NEW l \in Present(doc)
      PROVE  LayerSound(new.layer[l]) /\ new.layer[l].kind = doc.layer[l].kind
  <2>1. LayerSound(doc.layer[l])
    BY DEF Sound
  <2>2. new.layer[l] = IF l \in DOMAIN moves THEN WithProp(doc.layer[l], "translation", moves[l])
                       ELSE doc.layer[l]
    BY <1>2, <1>3
  <2>. QED
    BY <2>1, <2>2, WithPropIsSound
<1>5. new.mask = [x \in Actor |-> new.mask[x]] /\ new.layer = [l \in Present(doc) |-> new.layer[l]]
  BY <1>1, <1>2, <1>3 DEF SameGlobals
<1>6. Sound(new)
  BY <1>3, <1>4, <1>5, RelayeredIsSound
<1>. QED
  BY <1>2, <1>3, <1>6 DEF new

(* Layers are translated by an action that declares each translation.         *)
LEMMA TranslateChanges ==
  ASSUME NEW a, NEW doc, Sound(doc), NEW moves,
         \A l \in DOMAIN moves : <<"prop", l, "translation">> \in Writes(a)
  PROVE  Change(a, doc, TranslateLayers(doc, moves))
<1>. DEFINE new == TranslateLayers(doc, moves)
<1>1. /\ Sound(new) /\ new.order = doc.order /\ new.carrier = doc.carrier /\ SameGlobals(new, doc)
      /\ \A l \in Present(doc) : new.layer[l] =
              IF l \in DOMAIN moves THEN WithProp(doc.layer[l], "translation", moves[l])
              ELSE doc.layer[l]
  BY TranslatedLayers
<1>. HIDE DEF new
<1>2. ASSUME NEW l \in Present(doc)
      PROVE  SameRecord(new.layer[l], doc.layer[l], l, Writes(a))
  <2>1. CASE l \notin DOMAIN moves
    BY <1>1, <2>1, SameRecordIsReflexive
  <2>2. CASE l \in DOMAIN moves
    <3>. DEFINE x == doc.layer[l]
                u == WithProp(x, "translation", moves[l])
    <3>1. LayerSound(x) /\ new.layer[l] = u
      BY <1>1, <2>2 DEF Sound
    <3>. HIDE DEF x
    <3>2. /\ u.kind = x.kind /\ u.number = x.number /\ u.tiles = x.tiles /\ u.run = x.run
          /\ \A q \in Prop : u.prop[q] = IF q = "translation" /\ ~ Refuses(x, "translation")
                                         THEN moves[l] ELSE x.prop[q]
      BY <3>1, WithPropIsSound
    <3>. HIDE DEF u
    <3>3. SameRecord(u, x, l, Writes(a))
      BY <2>2, <3>2 DEF SameRecord
    <3>. QED
      BY <3>1, <3>3 DEF x
  <2>. QED
    BY <2>1, <2>2
<1>3. ApartGlobals(new, doc, Writes(a))
  BY <1>1, SameGlobalsAreApart
<1>4. Change(a, doc, new)
  BY <1>1, <1>2, <1>3, QuietChange
<1>. QED
  BY <1>4 DEF new

(* Layers translated alike leave two documents as far apart.                  *)
LEMMA TranslatesAlike ==
  ASSUME NEW D, Sound(D), NEW E, Sound(E), NEW S, Apart(D, E, S), NEW moves
  PROVE  Apart(TranslateLayers(D, moves), TranslateLayers(E, moves), S)
<1>. DEFINE new(doc) == TranslateLayers(doc, moves)
<1>1. /\ new(D).order = D.order /\ new(D).carrier = D.carrier /\ SameGlobals(new(D), D)
      /\ \A l \in Present(D) : new(D).layer[l] =
              IF l \in DOMAIN moves THEN WithProp(D.layer[l], "translation", moves[l])
              ELSE D.layer[l]
  BY TranslatedLayers
<1>2. /\ new(E).order = E.order /\ new(E).carrier = E.carrier /\ SameGlobals(new(E), E)
      /\ \A l \in Present(E) : new(E).layer[l] =
              IF l \in DOMAIN moves THEN WithProp(E.layer[l], "translation", moves[l])
              ELSE E.layer[l]
  BY TranslatedLayers
<1>. HIDE DEF new
<1>3. ASSUME NEW l \in Present(D) \cap Present(E)
      PROVE  SameRecord(new(D).layer[l], new(E).layer[l], l, S)
  <2>0. LayerSound(D.layer[l]) /\ LayerSound(E.layer[l]) /\ SameRecord(D.layer[l], E.layer[l], l, S)
    BY DEF Sound, Apart
  <2>1. CASE l \notin DOMAIN moves
    BY <1>1, <1>2, <2>0, <2>1
  <2>2. CASE l \in DOMAIN moves
    <3>1. /\ new(D).layer[l] = WithProp(D.layer[l], "translation", moves[l])
          /\ new(E).layer[l] = WithProp(E.layer[l], "translation", moves[l])
      BY <1>1, <1>2, <2>2
    <3>. QED
      BY <2>0, <3>1, WithPropAlike
  <2>. QED
    BY <2>1, <2>2
<1>4. ApartGlobals(new(D), new(E), S)
  BY <1>1, <1>2, GlobalsStayApart DEF Apart
<1>5. Apart(new(D), new(E), S)
  BY <1>1, <1>2, <1>3, <1>4, QuietlyAlike
<1>. QED
  BY <1>5 DEF new

(* The substrate, its color and the guides are written whole.                  *)
LEMMA SubstrateChanges ==
  ASSUME NEW a, <<"substrate">> \in Writes(a), NEW doc, Sound(doc), NEW v
  PROVE  Change(a, doc, [doc EXCEPT !.substrate = v])
<1>. DEFINE new == [doc EXCEPT !.substrate = v]
<1>1. Shaped(doc) /\ doc.mask = [x \in Actor |-> doc.mask[x]]
  BY DEF Sound, Shaped
<1>2. /\ Shaped(new) /\ new.order = doc.order /\ new.carrier = doc.carrier /\ new.layer = doc.layer
      /\ new.mask = doc.mask /\ new.color = doc.color /\ new.guides = doc.guides
  BY <1>1 DEF Shaped
<1>. HIDE DEF new
<1>3. Sound(new)
  BY <1>1, <1>2, GlobalsAreSound
<1>4. ApartGlobals(new, doc, Writes(a))
  BY <1>2 DEF ApartGlobals
<1>5. Change(a, doc, new)
  BY <1>2, <1>3, <1>4, NothingChanges, GlobalsChange
<1>. QED
  BY <1>5 DEF new

(* The substrate's color is set by an action that declares it.                *)
LEMMA ColorChanges ==
  ASSUME NEW a, <<"substrate color">> \in Writes(a), NEW doc, Sound(doc), NEW v
  PROVE  Change(a, doc, [doc EXCEPT !.color = v])
<1>. DEFINE new == [doc EXCEPT !.color = v]
<1>1. Shaped(doc) /\ doc.mask = [x \in Actor |-> doc.mask[x]]
  BY DEF Sound, Shaped
<1>2. /\ Shaped(new) /\ new.order = doc.order /\ new.carrier = doc.carrier /\ new.layer = doc.layer
      /\ new.mask = doc.mask /\ new.substrate = doc.substrate /\ new.guides = doc.guides
  <2>0. Shaped(doc)
    BY <1>1
  <2>1. new = [order |-> doc.order, carrier |-> doc.carrier, layer |-> doc.layer,
               mask |-> doc.mask, substrate |-> doc.substrate, color |-> v,
               guides |-> doc.guides]
    <3>1. PICK o, c, l, m, s, k, g :
            doc = [order |-> o, carrier |-> c, layer |-> l, mask |-> m, substrate |-> s,
                   color |-> k, guides |-> g]
      BY <2>0 DEF Shaped
    <3>2. [doc EXCEPT !.color = v]
             = [order |-> o, carrier |-> c, layer |-> l, mask |-> m, substrate |-> s, color |-> v,
                guides |-> g]
      BY ONLY <3>1
    <3>. QED
      BY <3>1, <3>2
  <2>. QED
    BY <2>1 DEF Shaped
<1>. HIDE DEF new
<1>3. Sound(new)
  BY <1>1, <1>2, GlobalsAreSound
<1>4. ApartGlobals(new, doc, Writes(a))
  BY <1>2 DEF ApartGlobals
<1>5. Change(a, doc, new)
  BY <1>2, <1>3, <1>4, NothingChanges, GlobalsChange
<1>. QED
  BY <1>5 DEF new

(* The guides are edited by an action that declares them.                     *)
LEMMA GuidesChange ==
  ASSUME NEW a, <<"guides">> \in Writes(a), NEW doc, Sound(doc), NEW v
  PROVE  Change(a, doc, [doc EXCEPT !.guides = v])
<1>. DEFINE new == [doc EXCEPT !.guides = v]
<1>1. Shaped(doc) /\ doc.mask = [x \in Actor |-> doc.mask[x]]
  BY DEF Sound, Shaped
<1>2. /\ Shaped(new) /\ new.order = doc.order /\ new.carrier = doc.carrier /\ new.layer = doc.layer
      /\ new.mask = doc.mask /\ new.substrate = doc.substrate /\ new.color = doc.color
  BY <1>1 DEF Shaped
<1>. HIDE DEF new
<1>3. Sound(new)
  BY <1>1, <1>2, GlobalsAreSound
<1>4. ApartGlobals(new, doc, Writes(a))
  BY <1>2 DEF ApartGlobals
<1>5. Change(a, doc, new)
  BY <1>2, <1>3, <1>4, NothingChanges, GlobalsChange
<1>. QED
  BY <1>5 DEF new

(* Written alike in two documents, none of them sets the two apart.            *)
LEMMA SubstratesAlike ==
  ASSUME NEW D, Sound(D), NEW E, Sound(E), NEW S, Apart(D, E, S), NEW v
  PROVE  Apart([D EXCEPT !.substrate = v], [E EXCEPT !.substrate = v], S)
<1>1. Shaped(D) /\ Shaped(E) /\ ApartGlobals(D, E, S)
  BY DEF Sound, Shaped, Apart
<1>. DEFINE x == [D EXCEPT !.substrate = v]
            y == [E EXCEPT !.substrate = v]
<1>2. /\ x.order = D.order /\ x.carrier = D.carrier /\ x.layer = D.layer
      /\ x.mask = D.mask /\ x.substrate = v /\ x.color = D.color /\ x.guides = D.guides
  BY <1>1 DEF Shaped
<1>3. /\ y.order = E.order /\ y.carrier = E.carrier /\ y.layer = E.layer
      /\ y.mask = E.mask /\ y.substrate = v /\ y.color = E.color /\ y.guides = E.guides
  BY <1>1 DEF Shaped
<1>. HIDE DEF x, y
<1>4. ApartGlobals(x, y, S)
  BY <1>1, <1>2, <1>3 DEF ApartGlobals
<1>5. Apart(x, y, S)
  BY <1>2, <1>3, <1>4, GlobalsAlike
<1>. QED
  BY <1>5 DEF x, y

(* One color set in both leaves two documents as far apart.                   *)
LEMMA ColorsAlike ==
  ASSUME NEW D, Sound(D), NEW E, Sound(E), NEW S, Apart(D, E, S), NEW v
  PROVE  Apart([D EXCEPT !.color = v], [E EXCEPT !.color = v], S)
<1>1. Shaped(D) /\ Shaped(E) /\ ApartGlobals(D, E, S)
  BY DEF Sound, Shaped, Apart
<1>. DEFINE x == [D EXCEPT !.color = v]
            y == [E EXCEPT !.color = v]
<1>2. /\ x.order = D.order /\ x.carrier = D.carrier /\ x.layer = D.layer
      /\ x.mask = D.mask /\ x.substrate = D.substrate /\ x.color = v /\ x.guides = D.guides
  BY <1>1 DEF Shaped
<1>3. /\ y.order = E.order /\ y.carrier = E.carrier /\ y.layer = E.layer
      /\ y.mask = E.mask /\ y.substrate = E.substrate /\ y.color = v /\ y.guides = E.guides
  BY <1>1 DEF Shaped
<1>. HIDE DEF x, y
<1>4. ApartGlobals(x, y, S)
  BY <1>1, <1>2, <1>3 DEF ApartGlobals
<1>5. Apart(x, y, S)
  BY <1>2, <1>3, <1>4, GlobalsAlike
<1>. QED
  BY <1>5 DEF x, y

(* The same guides in both leave two documents as far apart.                  *)
LEMMA GuidesAlike ==
  ASSUME NEW D, Sound(D), NEW E, Sound(E), NEW S, Apart(D, E, S), NEW v
  PROVE  Apart([D EXCEPT !.guides = v], [E EXCEPT !.guides = v], S)
<1>1. Shaped(D) /\ Shaped(E) /\ ApartGlobals(D, E, S)
  BY DEF Sound, Shaped, Apart
<1>. DEFINE x == [D EXCEPT !.guides = v]
            y == [E EXCEPT !.guides = v]
<1>2. /\ x.order = D.order /\ x.carrier = D.carrier /\ x.layer = D.layer
      /\ x.mask = D.mask /\ x.substrate = D.substrate /\ x.color = D.color /\ x.guides = v
  BY <1>1 DEF Shaped
<1>3. /\ y.order = E.order /\ y.carrier = E.carrier /\ y.layer = E.layer
      /\ y.mask = E.mask /\ y.substrate = E.substrate /\ y.color = E.color /\ y.guides = v
  BY <1>1 DEF Shaped
<1>. HIDE DEF x, y
<1>4. ApartGlobals(x, y, S)
  BY <1>1, <1>2, <1>3 DEF ApartGlobals
<1>5. Apart(x, y, S)
  BY <1>2, <1>3, <1>4, GlobalsAlike
<1>. QED
  BY <1>5 DEF x, y

-----------------------------------------------------------------------------
(* The actions that bring layers                                               *)

(* Where the order and the carriers agree, whatever reads the tree agrees.     *)
LEMMA TreesAlike ==
  ASSUME NEW D, Sound(D), NEW E, Sound(E), NEW S, Apart(D, E, S), <<"stack order">> \notin S
  PROVE  /\ D.order = E.order /\ D.carrier = E.carrier /\ Present(E) = Present(D)
         /\ \A l \in Present(D) : SameRecord(D.layer[l], E.layer[l], l, S)
         /\ \A id \in Id : Within(E, id) = Within(D, id) /\ SubtreeIds(E, id) = SubtreeIds(D, id)
         /\ \A c : StackOf(E, c) = StackOf(D, c)
         /\ \A c \in Present(D) \cup {Root} : \A place : Slot(E, c, place) = Slot(D, c, place)
         /\ \A c : MayCarry(E, c) <=> MayCarry(D, c)
<1>1. D.order = E.order /\ D.carrier = E.carrier /\ OrderSound(D)
  BY DEF Apart, Sound
<1>2. /\ OrderSound(E) /\ Present(E) = Present(D)
      /\ \A id \in Id : Within(E, id) = Within(D, id) /\ SubtreeIds(E, id) = SubtreeIds(D, id)
      /\ \A c : StackOf(E, c) = StackOf(D, c)
      /\ \A c \in Present(D) \cup {Root} : \A place : Slot(E, c, place) = Slot(D, c, place)
  BY <1>1, SameTree
<1>3. \A l \in Present(D) : SameRecord(D.layer[l], E.layer[l], l, S)
  BY <1>2 DEF Apart
<1>4. \A c : MayCarry(E, c) <=> MayCarry(D, c)
  BY <1>2, <1>3 DEF MayCarry, SameRecord
<1>. QED
  BY <1>1, <1>2, <1>3, <1>4

(* A graft changes nothing but the tree's shape and the layers it brings.      *)
LEMMA GraftedChanges ==
  ASSUME NEW a, <<"stack order">> \in Writes(a), NEW doc, Sound(doc), NEW mid, Change(a, doc, mid),
         mid.order = doc.order, mid.carrier = doc.carrier,
         NEW tree, TreeToGraft(tree), NEW c, NEW new, Grafted(mid, tree, c, new),
         ToSet(tree.order) \cap Present(doc) = {},
         \A l \in ToSet(tree.order) : <<"existence", l>> \in Writes(a)
  PROVE  Change(a, doc, new)
<1>1. Present(mid) = Present(doc)
  BY DEF Present
<1>2. /\ Sound(new) /\ Present(new) = Present(doc) \cup ToSet(tree.order)
      /\ \A l \in Present(doc) : new.carrier[l] = doc.carrier[l] /\ new.layer[l] = mid.layer[l]
      /\ SameGlobals(new, mid)
  BY <1>1 DEF Grafted
<1>3. Apart(mid, doc, Writes(a))
  BY DEF Change
<1>4. \A l \in Present(new) \cap Present(doc) : SameRecord(new.layer[l], doc.layer[l], l, Writes(a))
  BY <1>1, <1>2, <1>3 DEF Apart
<1>5. ApartGlobals(new, doc, Writes(a))
  BY <1>2, <1>3 DEF Apart, ApartGlobals, SameGlobals
<1>6. Apart(new, doc, Writes(a))
  BY <1>2, <1>4, <1>5 DEF Apart
<1>. QED
  BY <1>2, <1>6 DEF Change

(* The head of a sequence is its first element.                               *)
LEMMA HeadOf ==
  ASSUME NEW X, NEW s \in Seq(X), Len(s) >= 1
  PROVE  Head(s) = s[1] /\ Head(s) \in ToSet(s)
BY ToSetOf

(* Grafted into two documents at the same place of the same tree, layers that   *)
(* differ in S alone leave the two as far apart as they were.                  *)
LEMMA InsertsAlike ==
  ASSUME NEW D, Sound(D), NEW E, Sound(E), NEW S, Apart(D, E, S), <<"stack order">> \notin S,
         NEW x, TreeToGraft(x), NEW y, TreeToGraft(y), x.order = y.order, x.carrier = y.carrier,
         \A l \in ToSet(x.order) : SameRecord(x.layer[l], y.layer[l], l, S),
         ToSet(x.order) \cap Present(D) = {}, NEW c, NEW place
  PROVE  Apart(Insert(D, x, c, place), Insert(E, y, c, place), S)
<1>1. /\ D.order = E.order /\ D.carrier = E.carrier /\ Present(E) = Present(D)
      /\ \A l \in Present(D) : SameRecord(D.layer[l], E.layer[l], l, S)
      /\ \A k \in Present(D) \cup {Root} : \A p : Slot(E, k, p) = Slot(D, k, p)
      /\ \A k : MayCarry(E, k) <=> MayCarry(D, k)
  BY TreesAlike
<1>2. ToSet(y.order) \cap Present(E) = {}
  BY <1>1
<1>3. CASE ~ MayCarry(D, c)
  <2>1. Insert(D, x, c, place) = D
    BY <1>3, InsertIsSound
  <2>2. Insert(E, y, c, place) = E
    BY <1>1, <1>2, <1>3, InsertIsSound
  <2>. QED
    BY <2>1, <2>2
<1>4. CASE MayCarry(D, c)
  <2>. DEFINE D1 == Insert(D, x, c, place)
              E1 == Insert(E, y, c, place)
              slot == Slot(D, c, place)
  <2>1. Grafted(D, x, c, D1)
    BY <1>4, InsertIsSound
  <2>2. Grafted(E, y, c, E1)
    BY <1>1, <1>2, <1>4, InsertIsSound
  <2>3. Slot(E, c, place) = slot
    BY <1>1, <1>4 DEF MayCarry
  <2>4. Head(x.order) \in ToSet(x.order)
    BY HeadOf DEF TreeToGraft
  <2>5. D1 = Graft(D, slot, x, c) /\ E1 = Graft(E, slot, y, c)
    BY <1>1, <1>4, <2>3, <2>4 DEF Insert
  <2>6. D1.order = E1.order /\ D1.carrier = E1.carrier
    <3>1. Shaped(D) /\ Shaped(E)
      BY DEF Sound, Shaped
    <3>. HIDE DEF D1, E1, slot
    <3>2. /\ D1.order = SubSeq(D.order, 1, slot) \o x.order
                          \o SubSeq(D.order, slot + 1, Len(D.order))
          /\ D1.carrier = Over([l \in {Head(x.order)} |-> c], Over(x.carrier, D.carrier))
      BY <2>5, <3>1 DEF Graft, Shaped
    <3>3. /\ E1.order = SubSeq(E.order, 1, slot) \o y.order
                          \o SubSeq(E.order, slot + 1, Len(E.order))
          /\ E1.carrier = Over([l \in {Head(y.order)} |-> c], Over(y.carrier, E.carrier))
      BY <2>5, <3>1 DEF Graft, Shaped
    <3>. QED
      BY <1>1, <3>2, <3>3
  <2>. HIDE DEF D1, E1
  <2>7. Present(D1) = Present(E1) /\ Present(D1) = Present(D) \cup ToSet(x.order)
    BY <2>1, <2>6 DEF Present, Grafted
  <2>8. ASSUME NEW l \in Present(D1) PROVE SameRecord(D1.layer[l], E1.layer[l], l, S)
    <3>1. CASE l \in Present(D)
      BY <1>1, <2>1, <2>2, <3>1 DEF Grafted
    <3>2. CASE l \in ToSet(x.order)
      BY <2>1, <2>2, <3>2 DEF Grafted
    <3>. QED
      BY <2>7, <3>1, <3>2
  <2>9. ApartGlobals(D1, E1, S)
    <3>1. ApartGlobals(D, E, S) /\ SameGlobals(D1, D) /\ SameGlobals(E1, E)
      BY <2>1, <2>2 DEF Apart, Grafted
    <3>. QED
      BY <3>1, GlobalsStayApart
  <2>10. Apart(D1, E1, S)
    BY <2>6, <2>7, <2>8, <2>9 DEF Apart
  <2>. QED
    BY <2>10 DEF D1, E1
<1>. QED
  BY <1>3, <1>4

(* One layer alone.                                                            *)
LEMMA LeafIsToGraft ==
  ASSUME NEW id \in Id, NEW r, LayerSound(r)
  PROVE  /\ TreeToGraft(Leaf(id, r)) /\ ToSet(Leaf(id, r).order) = {id}
         /\ Leaf(id, r).order[1] = id /\ Head(Leaf(id, r).order) = id
         /\ Leaf(id, r).layer[id] = r
<1>. DEFINE t == Leaf(id, r)
<1>1. /\ t.order = <<id>> /\ DOMAIN t.carrier = {id} /\ DOMAIN t.layer = {id} /\ t.layer[id] = r
  BY DEF Leaf
<1>. HIDE DEF t
<1>2. t.order \in Seq(Id) /\ Len(t.order) = 1 /\ t.order[1] = id /\ Head(t.order) = id
  BY <1>1
<1>3. ToSet(t.order) = {id}
  BY <1>2, ToSetOf
<1>4. Distinct(t.order)
  BY <1>2 DEF Distinct
<1>5. TreeToGraft(t)
  BY <1>1, <1>2, <1>3, <1>4 DEF TreeToGraft
<1>. QED
  BY <1>1, <1>2, <1>3, <1>5 DEF t

(* A new layer's record has a value for everything.                           *)
LEMMA NewLayerIsSound ==
  ASSUME NEW kind, NEW content, NEW number
  PROVE  LayerSound(NewLayer(kind, content, number))
<1>. DEFINE r == NewLayer(kind, content, number)
            value(p) == CASE p = "blend"       -> "normal"
                          [] p = "clip"        -> FALSE
                          [] p = "opacity"     -> "full"
                          [] p = "visible"     -> TRUE
                          [] p = "name"        -> "unnamed"
                          [] p = "matte"       -> IF kind = "matte" THEN content ELSE <<>>
                          [] p = "filter"      -> IF kind = "filter" THEN content ELSE "none"
                          [] p = "translation" -> 0
<1>1. r = [kind |-> kind, prop |-> [p \in Prop |-> value(p)], tiles |-> [t \in Tile |-> Bare],
           run |-> NoRun, number |-> number]
  BY DEF NewLayer
<1>. HIDE DEF r, value
<1>2. LayerSound(r)
  BY <1>1 DEF LayerSound
<1>. QED
  BY <1>2 DEF r

(* What is claimed of a layer, its existence among it.                         *)
LEMMA ExistenceIsClaimed ==
  ASSUME NEW l \in Id
  PROVE  Existence({l}) = {<<"existence", l>>} /\ <<"existence", l>> \in LayerClaim({l})
<1>1. {l} \ {Root, Top, Bottom} = {l}
  BY DEF Id, Root, Top, Bottom
<1>. QED
  BY <1>1 DEF Existence, LayerClaim

(* To claim layers is to claim each of them.                                  *)
LEMMA ClaimsOfEach ==
  ASSUME NEW ids
  PROVE  \A r : r \in LayerClaim(ids) <=> \E l \in ids : r \in LayerClaim({l})
BY DEF LayerClaim

(* A claim on two layers holds the claim on either.                           *)
LEMMA ClaimOfTwo ==
  ASSUME NEW s, NEW d
  PROVE  LayerClaim({s}) \subseteq LayerClaim({s, d}) /\ LayerClaim({d}) \subseteq LayerClaim({s, d})
BY DEF LayerClaim

(* A layer is added.                                                           *)
LEMMA AddLayerChanges ==
  ASSUME NEW a, WellFormed(a), a.kind \in {"AddLayer", "PlaceImage"}, NEW doc, Sound(doc)
  PROVE  Change(a, doc, FoldAddLayer(a, doc))
<1>. DEFINE r == NewLayer(a.content[1], a.content[2], a.number)
            tree == Leaf(a.layer, r)
            new == Insert(doc, tree, a.carrier, a.place)
<1>0. FoldAddLayer(a, doc) = new
  BY DEF FoldAddLayer
<1>1. a.layer \in Id /\ LayerSound(r)
  BY NewLayerIsSound DEF WellFormed
<1>. HIDE DEF r, new
<1>2. TreeToGraft(tree) /\ ToSet(tree.order) = {a.layer} /\ Head(tree.order) = a.layer
  BY ONLY <1>1, LeafIsToGraft
<1>3. <<"stack order">> \in Writes(a) /\ <<"existence", a.layer>> \in Writes(a)
  <2>1. <<"existence", a.layer>> \in LayerClaim({a.layer})
    BY <1>1, ExistenceIsClaimed
  <2>. QED
    BY <2>1, TreeClaims DEF StackOrder
<1>. HIDE DEF tree
<1>4. CASE a.layer \in Present(doc)
  BY <1>0, <1>2, <1>4, NothingChanges DEF Insert, new
<1>5. CASE a.layer \notin Present(doc) /\ ~ MayCarry(doc, a.carrier)
  BY <1>0, <1>5, NothingChanges DEF Insert, new
<1>6. CASE a.layer \notin Present(doc) /\ MayCarry(doc, a.carrier)
  <2>1. ToSet(tree.order) \cap Present(doc) = {}
    BY <1>2, <1>6
  <2>2. Grafted(doc, tree, a.carrier, new)
    BY <1>2, <1>6, <2>1, InsertIsSound DEF new
  <2>3. Change(a, doc, doc) /\ \A l \in ToSet(tree.order) : <<"existence", l>> \in Writes(a)
    BY <1>2, <1>3, NothingChanges
  <2>4. Change(a, doc, new)
    BY <1>2, <1>3, <2>1, <2>2, <2>3, GraftedChanges
  <2>. QED
    BY <1>0, <2>4
<1>. QED
  BY <1>4, <1>5, <1>6

(* A layer added alike leaves two documents as far apart.                     *)
LEMMA AddLayersAlike ==
  ASSUME NEW a, WellFormed(a), a.kind \in {"AddLayer", "PlaceImage"}, NEW D, Sound(D),
         NEW E, Sound(E), NEW S, Apart(D, E, S), Clear(a, S)
  PROVE  Apart(FoldAddLayer(a, D), FoldAddLayer(a, E), S)
<1>. DEFINE r == NewLayer(a.content[1], a.content[2], a.number)
            tree == Leaf(a.layer, r)
            new(doc) == Insert(doc, tree, a.carrier, a.place)
<1>0. FoldAddLayer(a, D) = new(D) /\ FoldAddLayer(a, E) = new(E)
  BY DEF FoldAddLayer
<1>1. a.layer \in Id /\ LayerSound(r)
  BY NewLayerIsSound DEF WellFormed
<1>. HIDE DEF r
<1>2. TreeToGraft(tree) /\ ToSet(tree.order) = {a.layer} /\ Head(tree.order) = a.layer
  BY <1>1, LeafIsToGraft
<1>3. <<"stack order">> \notin S
  <2>1. <<"stack order">> \in Writes(a)
    BY TreeClaims DEF StackOrder
  <2>. QED
    BY <2>1 DEF Clear
<1>. HIDE DEF tree
<1>4. Present(D) = Present(E)
  BY <1>3, TreesAlike
<1>5. CASE a.layer \in Present(D)
  BY <1>0, <1>2, <1>4, <1>5 DEF Insert
<1>6. CASE a.layer \notin Present(D)
  <2>1. ToSet(tree.order) \cap Present(D) = {}
    BY <1>2, <1>6
  <2>2. \A l \in ToSet(tree.order) : SameRecord(tree.layer[l], tree.layer[l], l, S)
    BY SameRecordIsReflexive
  <2>3. Apart(new(D), new(E), S)
    BY <1>2, <1>3, <2>1, <2>2, InsertsAlike
  <2>. QED
    BY <1>0, <2>3
<1>. QED
  BY <1>5, <1>6

(* The layers an action brings may be given any record.                        *)
LEMMA BroughtAnew ==
  ASSUME NEW a, NEW doc, NEW new, Change(a, doc, new), NEW other, Sound(other),
         other.order = new.order, other.carrier = new.carrier, SameGlobals(other, new),
         \A l \in Present(doc) \cap Present(new) : other.layer[l] = new.layer[l]
  PROVE  Change(a, doc, other)
<1>1. Present(other) = Present(new)
  BY DEF Present
<1>2. Apart(new, doc, Writes(a))
  BY DEF Change
<1>3. ApartGlobals(other, doc, Writes(a))
  BY <1>2 DEF Apart, ApartGlobals, SameGlobals
<1>4. Apart(other, doc, Writes(a))
  BY <1>1, <1>2, <1>3 DEF Apart
<1>. QED
  BY <1>1, <1>4 DEF Change

(* A placed image changes what it declares.                                   *)
LEMMA PlaceImageChanges ==
  ASSUME NEW a, WellFormed(a), a.kind = "PlaceImage", NEW doc, Sound(doc)
  PROVE  Change(a, doc, FoldPlaceImage(a, doc))
<1>. DEFINE added == FoldAddLayer(a, doc)
            named == SetProp(added, a.layer, "name", a.name)
            tiles == [t \in a.tiles |-> <<"image", a.n>>]
            placed == WithTiles(named, a.layer, tiles)
<1>1. CASE a.layer \in Present(doc) \/ a.layer \notin Present(added)
  BY <1>1, NothingChanges DEF FoldPlaceImage
<1>2. CASE a.layer \notin Present(doc) /\ a.layer \in Present(added)
  <2>1. FoldPlaceImage(a, doc) = placed
    BY <1>2 DEF FoldPlaceImage
  <2>2. Change(a, doc, added) /\ Sound(added)
    BY AddLayerChanges DEF Change
  <2>. HIDE DEF added
  <2>. DEFINE x == added.layer[a.layer]
              r == WithProp(x, "name", a.name)
  <2>3. named = Put(added, a.layer, r)
    BY <1>2 DEF SetProp, Put
  <2>4. LayerSound(x)
    BY <1>2, <2>2 DEF Sound
  <2>. HIDE DEF x
  <2>5. LayerSound(r) /\ r.kind = x.kind
    BY <2>4, WithPropIsSound
  <2>. HIDE DEF r
  <2>6. /\ Sound(named) /\ Present(named) = Present(added)
        /\ named.order = added.order /\ named.carrier = added.carrier
        /\ \A l \in Present(added) : l # a.layer => named.layer[l] = added.layer[l]
        /\ SameGlobals(named, added)
    BY <1>2, <2>2, <2>3, <2>5, PutIsSound DEF x
  <2>. HIDE DEF named
  <2>. DEFINE y == named.layer[a.layer]
              s == Tiled(y, tiles)
  <2>7. placed = Put(named, a.layer, s)
    BY <1>2, <2>6, WithTilesIsPut
  <2>8. LayerSound(y) /\ DOMAIN tiles \subseteq Tile
    BY <1>2, <2>6 DEF Sound, WellFormed
  <2>. HIDE DEF y, tiles
  <2>9. LayerSound(s) /\ s.kind = y.kind
    BY <2>8, TiledIsSound
  <2>. HIDE DEF s
  <2>10. /\ Sound(placed) /\ placed.order = named.order /\ placed.carrier = named.carrier
         /\ \A l \in Present(named) : l # a.layer => placed.layer[l] = named.layer[l]
         /\ SameGlobals(placed, named)
    BY <1>2, <2>6, <2>7, <2>9, PutIsSound DEF y
  <2>. HIDE DEF placed
  <2>11. /\ placed.order = added.order /\ placed.carrier = added.carrier
         /\ SameGlobals(placed, added)
         /\ \A l \in Present(doc) \cap Present(added) : placed.layer[l] = added.layer[l]
    BY <1>2, <2>6, <2>10 DEF SameGlobals
  <2>. QED
    BY <2>1, <2>2, <2>10, <2>11, BroughtAnew
<1>. QED
  BY <1>1, <1>2

(* A placed image does the same to documents apart in nothing it claims.      *)
LEMMA PlaceImagesAlike ==
  ASSUME NEW a, WellFormed(a), a.kind = "PlaceImage", NEW D, Sound(D), NEW E, Sound(E),
         NEW S, Apart(D, E, S), Clear(a, S)
  PROVE  Apart(FoldPlaceImage(a, D), FoldPlaceImage(a, E), S)
<1>. DEFINE added(doc) == FoldAddLayer(a, doc)
            named(doc) == SetProp(added(doc), a.layer, "name", a.name)
            tiles == [t \in a.tiles |-> <<"image", a.n>>]
            placed(doc) == WithTiles(named(doc), a.layer, tiles)
<1>1. <<"stack order">> \notin S
  <2>1. <<"stack order">> \in Writes(a)
    BY TreeClaims DEF StackOrder
  <2>. QED
    BY <2>1 DEF Clear
<1>2. Present(D) = Present(E)
  BY <1>1, TreesAlike
<1>3. /\ Apart(added(D), added(E), S) /\ Sound(added(D)) /\ Sound(added(E))
  BY AddLayersAlike, AddLayerChanges DEF Change
<1>4. Present(added(D)) = Present(added(E))
  BY <1>1, <1>3, TreesAlike
<1>5. CASE a.layer \in Present(D) \/ a.layer \notin Present(added(D))
  BY <1>2, <1>4, <1>5 DEF FoldPlaceImage
<1>6. CASE a.layer \notin Present(D) /\ a.layer \in Present(added(D))
  <2>1. FoldPlaceImage(a, D) = placed(D) /\ FoldPlaceImage(a, E) = placed(E)
    BY <1>2, <1>4, <1>6 DEF FoldPlaceImage
  <2>. HIDE DEF added
  <2>2. Apart(named(D), named(E), S)
    BY <1>3, <1>4, SetPropsAlike
  <2>3. Sound(named(D)) /\ Sound(named(E))
    BY <1>3, SetPropIsSound
  <2>4. a.layer \in Present(named(D)) \cap Present(named(E))
    BY <1>3, <1>4, <1>6, SetPropIsSound
  <2>5. DOMAIN tiles \subseteq Tile
    BY DEF WellFormed
  <2>. HIDE DEF named, tiles
  <2>6. Apart(placed(D), placed(E), S)
    BY <2>2, <2>3, <2>4, <2>5, PaintsAlike
  <2>. QED
    BY <2>1, <2>6
<1>. QED
  BY <1>5, <1>6

(* Redrawing tiles keeps a document sound and its tree as it was.             *)
LEMMA WithTilesIsSound ==
  ASSUME NEW doc, Sound(doc), NEW id \in Present(doc), NEW tiles, DOMAIN tiles \subseteq Tile
  PROVE  /\ Sound(WithTiles(doc, id, tiles)) /\ Present(WithTiles(doc, id, tiles)) = Present(doc)
         /\ WithTiles(doc, id, tiles).order = doc.order
         /\ WithTiles(doc, id, tiles).carrier = doc.carrier
         /\ WithTiles(doc, id, tiles).layer[id].kind = doc.layer[id].kind
<1>. DEFINE layer == doc.layer[id]
            r == Tiled(layer, tiles)
<1>1. LayerSound(layer)
  BY DEF Sound
<1>2. WithTiles(doc, id, tiles) = Put(doc, id, r)
  BY WithTilesIsPut
<1>. HIDE DEF layer
<1>3. LayerSound(r) /\ r.kind = layer.kind
  BY <1>1, TiledIsSound
<1>. HIDE DEF r
<1>4. /\ Sound(Put(doc, id, r)) /\ Present(Put(doc, id, r)) = Present(doc)
      /\ Put(doc, id, r).order = doc.order /\ Put(doc, id, r).carrier = doc.carrier
      /\ Put(doc, id, r).layer[id] = r
  BY <1>3, PutIsSound DEF layer
<1>. QED
  BY <1>2, <1>3, <1>4 DEF layer

-----------------------------------------------------------------------------
(* A floated selection                                                         *)

(* The paint cut, what is left in its place, and the layer it is lifted onto.  *)
CutTiles(a, was, mask) ==
  [t \in {u \in Tile : was[u] # Bare} |-> <<"float", a.n, was[t], mask>>]
RestTiles(a, was, mask) ==
  [t \in DOMAIN CutTiles(a, was, mask) |-> <<"cut", a.n, was[t], mask>>]
Lifted(a, was, mask) ==
  Tiled(WithProp(NewLayer("paint", <<>>, a.number), "translation", a.frame), CutTiles(a, was, mask))
Floated(a, doc, was, mask) ==
  Insert(WithTiles(doc, a.source, RestTiles(a, was, mask)), Leaf(a.layer, Lifted(a, was, mask)),
         a.source, Bottom)

(* A float that happens cuts the tiles out, grafts the layer they make and    *)
(* drops the mask.                                                            *)
LEMMA FloatInSteps ==
  ASSUME NEW a, NEW doc, a.layer \notin Present(doc), FloatOffered(a, doc)
  PROVE  FoldFloat(a, doc)
           = Masked(Floated(a, doc, doc.layer[a.source].tiles, Mask(a, doc)), a.actor, Universal)
BY DEF FoldFloat, Masked, Floated, Lifted, RestTiles, CutTiles, Tiled

(* The layer a float lifts, and the tiles it cuts and leaves.                 *)
LEMMA LiftedIsSound ==
  ASSUME NEW a, NEW was, NEW mask
  PROVE  /\ LayerSound(Lifted(a, was, mask))
         /\ DOMAIN CutTiles(a, was, mask) \subseteq Tile
         /\ DOMAIN RestTiles(a, was, mask) \subseteq Tile
<1>. DEFINE blank == NewLayer("paint", <<>>, a.number)
            r == WithProp(blank, "translation", a.frame)
            cut == CutTiles(a, was, mask)
<1>1. LayerSound(blank)
  BY NewLayerIsSound
<1>. HIDE DEF blank
<1>2. LayerSound(r)
  BY <1>1, WithPropIsSound
<1>3. DOMAIN cut \subseteq Tile
  BY DEF CutTiles
<1>4. DOMAIN RestTiles(a, was, mask) = DOMAIN cut
  BY DEF RestTiles
<1>. HIDE DEF r, cut
<1>5. LayerSound(Tiled(r, cut))
  BY <1>2, <1>3, TiledIsSound
<1>. QED
  BY <1>3, <1>4, <1>5 DEF Lifted, r, cut, blank

(* A float changes what it declares.                                          *)
LEMMA FloatChanges ==
  ASSUME NEW a, WellFormed(a), a.kind = "FloatSelection", NEW doc, Sound(doc)
  PROVE  Change(a, doc, FoldFloat(a, doc))
<1>1. CASE a.layer \in Present(doc) \/ ~ FloatOffered(a, doc)
  BY <1>1, NothingChanges DEF FoldFloat
<1>2. CASE a.layer \notin Present(doc) /\ FloatOffered(a, doc)
  <2>. DEFINE was == doc.layer[a.source].tiles
              mask == Mask(a, doc)
              rest == RestTiles(a, was, mask)
              r == Lifted(a, was, mask)
              mid == WithTiles(doc, a.source, rest)
              tree == Leaf(a.layer, r)
              new == Insert(mid, tree, a.source, Bottom)
  <2>1. FoldFloat(a, doc) = Masked(new, a.actor, Universal)
    BY <1>2, FloatInSteps DEF Floated
  <2>2. LayerSound(r) /\ DOMAIN rest \subseteq Tile
    BY LiftedIsSound
  <2>3. a.source \in Present(doc) /\ doc.layer[a.source].kind = "paint"
    BY <1>2 DEF FloatOffered, Paintable
  <2>4. a.layer \in Id /\ a.actor \in Actor
    BY DEF WellFormed
  <2>5. /\ Paint(a.source, Tile) \subseteq Writes(a) /\ <<"selection", a.actor>> \in Writes(a)
        /\ LayerClaim({a.layer}) \subseteq Writes(a) /\ <<"stack order">> \in Writes(a)
    BY TreeClaims DEF Selection, StackOrder
  <2>. HIDE DEF r, rest
  <2>6. Paint(a.source, DOMAIN rest) \subseteq Writes(a)
    BY <2>2, <2>5 DEF Paint
  <2>7. Change(a, doc, mid)
    BY <2>2, <2>3, <2>6, PaintChanges
  <2>8. TreeToGraft(tree) /\ ToSet(tree.order) = {a.layer}
    BY ONLY <2>2, <2>4, LeafIsToGraft
  <2>9. /\ mid.order = doc.order /\ mid.carrier = doc.carrier /\ Present(mid) = Present(doc)
        /\ MayCarry(mid, a.source) /\ Sound(mid)
    BY <2>2, <2>3, WithTilesIsSound DEF MayCarry
  <2>. HIDE DEF mid, tree
  <2>10. ToSet(tree.order) \cap Present(doc) = {}
    BY <1>2, <2>8
  <2>11. Grafted(mid, tree, a.source, new)
    BY <2>8, <2>9, <2>10, InsertIsSound
  <2>12. \A l \in ToSet(tree.order) : <<"existence", l>> \in Writes(a)
    BY <2>4, <2>5, <2>8, ExistenceIsClaimed
  <2>. HIDE DEF new
  <2>13. Change(a, doc, new)
    BY <2>5, <2>7, <2>8, <2>9, <2>10, <2>11, <2>12, GraftedChanges
  <2>. QED
    BY <2>1, <2>4, <2>5, <2>13, MaskedChanges
<1>. QED
  BY <1>1, <1>2

(* A float does the same to documents apart in nothing it claims.             *)
LEMMA FloatsAlike ==
  ASSUME NEW a, WellFormed(a), a.kind = "FloatSelection", NEW D, Sound(D), NEW E, Sound(E),
         NEW S, Apart(D, E, S), Clear(a, S)
  PROVE  Apart(FoldFloat(a, D), FoldFloat(a, E), S)
<1>0. /\ Reads(a) = Existence({a.source}) /\ a.layer \in Id /\ a.actor \in Actor
      /\ \A t \in Tile : <<"paint", a.source, t>> \notin S
      /\ <<"selection", a.actor>> \notin S /\ <<"stack order">> \notin S
  <2>1. /\ Paint(a.source, Tile) \subseteq Writes(a) /\ <<"selection", a.actor>> \in Writes(a)
        /\ <<"stack order">> \in Writes(a)
    BY TreeClaims DEF Selection, StackOrder
  <2>. QED
    BY <2>1, TreeClaims DEF Clear, Paint, WellFormed
<1>1. /\ Paintable(D, a.source) <=> Paintable(E, a.source)
      /\ a.source \in Present(D) => SameRecord(D.layer[a.source], E.layer[a.source], a.source, S)
  <2>1. Existence({a.source}) \subseteq Reads(a) \cup Writes(a)
    BY <1>0
  <2>. QED
    BY <2>1, LayerStands
<1>2. Mask(a, D) = Mask(a, E) /\ Present(D) = Present(E)
  BY <1>0, MaskAlike, TreesAlike
<1>. DEFINE was(doc) == doc.layer[a.source].tiles
            mask == Mask(a, D)
<1>3. Paintable(D, a.source) => was(D) = was(E)
  <2>1. SUFFICES ASSUME Paintable(D, a.source) PROVE was(D) = was(E)
    OBVIOUS
  <2>2. a.source \in Present(D) /\ a.source \in Present(E)
    BY <1>1, <2>1 DEF Paintable
  <2>3. LayerSound(D.layer[a.source]) /\ LayerSound(E.layer[a.source])
    BY <2>2 DEF Sound
  <2>4. was(D) = [t \in Tile |-> was(D)[t]] /\ was(E) = [t \in Tile |-> was(E)[t]]
    BY <2>3 DEF LayerSound
  <2>5. \A t \in Tile : was(D)[t] = was(E)[t]
    BY <1>0, <1>1, <2>2 DEF SameRecord
  <2>. HIDE DEF was
  <2>. QED
    BY <2>4, <2>5
<1>4. FloatOffered(a, D) <=> FloatOffered(a, E)
  BY <1>1, <1>2, <1>3 DEF FloatOffered
<1>5. CASE a.layer \in Present(D) \/ ~ FloatOffered(a, D)
  BY <1>2, <1>4, <1>5 DEF FoldFloat
<1>6. CASE a.layer \notin Present(D) /\ FloatOffered(a, D)
  <2>0. a.layer \notin Present(E) /\ FloatOffered(a, E)
    BY <1>2, <1>4, <1>6
  <2>1. was(D) = was(E) /\ a.source \in Present(D) \cap Present(E)
    BY <1>2, <1>3, <1>6 DEF FloatOffered, Paintable
  <2>. DEFINE rest == RestTiles(a, was(D), mask)
              r == Lifted(a, was(D), mask)
              tree == Leaf(a.layer, r)
              mid(doc) == WithTiles(doc, a.source, rest)
              new(doc) == Insert(mid(doc), tree, a.source, Bottom)
  <2>2. FoldFloat(a, D) = Masked(new(D), a.actor, Universal)
    BY <1>6, FloatInSteps DEF Floated
  <2>3. FoldFloat(a, E) = Masked(new(E), a.actor, Universal)
    BY <1>2, <2>0, <2>1, FloatInSteps DEF Floated
  <2>4. LayerSound(r) /\ DOMAIN rest \subseteq Tile
    BY LiftedIsSound
  <2>. HIDE DEF r, rest, was, mask
  <2>5. Apart(mid(D), mid(E), S)
    BY <2>1, <2>4, PaintsAlike
  <2>6. /\ Sound(mid(D)) /\ Present(mid(D)) = Present(D)
        /\ Sound(mid(E)) /\ Present(mid(E)) = Present(E)
    BY <2>1, <2>4, WithTilesIsSound
  <2>7. TreeToGraft(tree) /\ ToSet(tree.order) = {a.layer}
    BY ONLY <1>0, <2>4, LeafIsToGraft
  <2>. HIDE DEF mid, tree
  <2>8. ToSet(tree.order) \cap Present(mid(D)) = {} /\ ToSet(tree.order) \cap Present(mid(E)) = {}
    BY <1>2, <1>6, <2>6, <2>7
  <2>9. \A l \in ToSet(tree.order) : SameRecord(tree.layer[l], tree.layer[l], l, S)
    BY SameRecordIsReflexive
  <2>10. Apart(new(D), new(E), S)
    BY <1>0, <2>5, <2>6, <2>7, <2>8, <2>9, InsertsAlike
  <2>11. Sound(new(D)) /\ Sound(new(E))
    BY <2>6, <2>7, <2>8, InsertIsSound DEF Grafted
  <2>. HIDE DEF new
  <2>12. Apart(Masked(new(D), a.actor, Universal), Masked(new(E), a.actor, Universal), S)
    BY <1>0, <2>10, <2>11, MaskedAlike
  <2>. QED
    BY <2>2, <2>3, <2>12
<1>. QED
  BY <1>5, <1>6

-----------------------------------------------------------------------------
(* The actions that remove and reorder layers                                  *)

(* Layers that go with whatever they carry.                                    *)
Whole(doc, gone) == \A m \in Present(doc) : doc.carrier[m] \in gone => m \in gone

(* What is left without them.                                                  *)
Kept(doc, gone, new) ==
  /\ Sound(new) /\ Present(new) = Present(doc) \ gone /\ SameGlobals(new, doc)
  /\ \A l \in Present(doc) \ gone : new.carrier[l] = doc.carrier[l] /\ new.layer[l] = doc.layer[l]
  /\ new.order = Only(doc.order, Present(doc) \ gone)

(* Whole subtrees taken out leave a sound document.                           *)
LEMMA WithoutWhole ==
  ASSUME NEW doc, Sound(doc), NEW gone, Whole(doc, gone)
  PROVE  Kept(doc, gone, Without(doc, gone))
BY WithoutIsSound DEF Whole, Kept

(* A layer's subtree is whole.                                                *)
LEMMA WithinIsWhole ==
  ASSUME NEW doc, Sound(doc), NEW id \in Present(doc)
  PROVE  /\ Whole(doc, Within(doc, id)) /\ id \in Within(doc, id)
         /\ Within(doc, id) \subseteq Present(doc) /\ id \in Id /\ id # Root
<1>1. OrderSound(doc) /\ id \in Id /\ id # Root
  BY PresentOf DEF Sound, OrderSound, Id, Root
<1>. QED
  BY <1>1, WithinIsClosed DEF Whole

ShapedAlike(x, y) == x.order = y.order /\ x.carrier = y.carrier

(* The same subtree taken out of both leaves two documents as far apart.      *)
LEMMA WithoutAlike ==
  ASSUME NEW D, Sound(D), NEW E, Sound(E), NEW S, Apart(D, E, S), <<"stack order">> \notin S,
         NEW gone, Whole(D, gone)
  PROVE  /\ Apart(Without(D, gone), Without(E, gone), S)
         /\ ShapedAlike(Without(D, gone), Without(E, gone))
<1>. DEFINE D1 == Without(D, gone)
            E1 == Without(E, gone)
<1>1. /\ D.order = E.order /\ D.carrier = E.carrier /\ Present(E) = Present(D)
      /\ \A l \in Present(D) : SameRecord(D.layer[l], E.layer[l], l, S)
  BY TreesAlike
<1>2. /\ Sound(D1) /\ Present(D1) = Present(D) \ gone /\ SameGlobals(D1, D)
      /\ \A l \in Present(D) \ gone : D1.layer[l] = D.layer[l]
      /\ D1.order = Only(D.order, Present(D) \ gone)
  <2>1. Kept(D, gone, D1)
    BY WithoutWhole
  <2>. HIDE DEF D1
  <2>. QED
    BY <2>1 DEF Kept
<1>3. Whole(E, gone)
  BY <1>1 DEF Whole
<1>4. /\ Sound(E1) /\ Present(E1) = Present(E) \ gone /\ SameGlobals(E1, E)
      /\ \A l \in Present(E) \ gone : E1.layer[l] = E.layer[l]
      /\ E1.order = Only(E.order, Present(E) \ gone)
  <2>1. Kept(E, gone, E1)
    BY <1>3, WithoutWhole
  <2>. HIDE DEF E1
  <2>. QED
    BY <2>1 DEF Kept
<1>5. D1.carrier = E1.carrier
  <2>1. Shaped(D) /\ Shaped(E)
    BY DEF Sound, Shaped
  <2>2. D1.carrier = Restrict(D.carrier, Present(D) \ gone)
    BY <2>1 DEF Without, Shaped
  <2>3. E1.carrier = Restrict(E.carrier, Present(E) \ gone)
    BY <2>1 DEF Without, Shaped
  <2>. QED
    BY <1>1, <2>2, <2>3
<1>6. D1.order = E1.order
  BY <1>1, <1>2, <1>4
<1>. HIDE DEF D1, E1
<1>7. ApartGlobals(D1, E1, S)
  BY <1>2, <1>4, GlobalsStayApart DEF Apart
<1>8. Present(D1) = Present(E1)
      /\ \A l \in Present(D1) : SameRecord(D1.layer[l], E1.layer[l], l, S)
  BY <1>1, <1>2, <1>4
<1>9. Apart(D1, E1, S)
  BY <1>5, <1>6, <1>7, <1>8 DEF Apart
<1>. QED
  BY <1>5, <1>6, <1>9 DEF D1, E1, ShapedAlike

(* A subtree is taken out, every resource of which is claimed.                 *)
LEMMA RemovalChanges ==
  ASSUME NEW a, <<"stack order">> \in Writes(a), NEW doc, Sound(doc), NEW mid, Change(a, doc, mid),
         mid.order = doc.order, mid.carrier = doc.carrier, NEW x \in Present(doc),
         \A l \in Within(doc, x) :
            <<"existence", l>> \in Writes(a) /\ LayerClaim({l}) \subseteq Writes(a) \cup Reads(a)
  PROVE  Change(a, doc, RemoveLayer(mid, x))
<1>0. OrderSound(doc) /\ Sound(mid) /\ x \in Id /\ x # Root
  BY PresentOf DEF Sound, Change, OrderSound, Id, Root
<1>1. Present(mid) = Present(doc) /\ Within(mid, x) = Within(doc, x)
  BY <1>0, SameTree
<1>. DEFINE gone == Within(doc, x)
            new == Without(mid, gone)
<1>2. RemoveLayer(mid, x) = new
  BY <1>1 DEF RemoveLayer
<1>3. Whole(mid, gone) /\ x \in gone /\ gone \subseteq Present(doc)
  BY <1>0, <1>1, WithinIsWhole
<1>. HIDE DEF gone
<1>4. /\ Sound(new) /\ Present(new) = Present(mid) \ gone
      /\ \A l \in Present(mid) \ gone : new.carrier[l] = mid.carrier[l] /\ new.layer[l] = mid.layer[l]
      /\ SameGlobals(new, mid)
  BY <1>0, <1>3, WithoutWhole DEF Kept
<1>. HIDE DEF new
<1>5. Apart(mid, doc, Writes(a))
  BY DEF Change
<1>6. \A l \in Present(new) \cap Present(doc) : SameRecord(new.layer[l], doc.layer[l], l, Writes(a))
  BY <1>1, <1>4, <1>5 DEF Apart
<1>7. ApartGlobals(new, doc, Writes(a))
  BY <1>4, <1>5 DEF Apart, ApartGlobals, SameGlobals
<1>8. \A l \in Id : <<"existence", l>> \notin Writes(a) => (l \in Present(new) <=> l \in Present(doc))
  BY <1>1, <1>4 DEF gone
<1>9. Apart(new, doc, Writes(a))
  BY <1>6, <1>7, <1>8 DEF Apart
<1>10. Present(doc) \ Present(new) = gone
  BY <1>1, <1>3, <1>4
<1>11. /\ \A m \in Present(doc) \cap Present(new) : new.carrier[m] = doc.carrier[m]
       /\ \A l \in Present(doc) \ Present(new) : LayerClaim({l}) \subseteq Writes(a) \cup Reads(a)
  BY <1>1, <1>4, <1>10 DEF gone
<1>. QED
  BY <1>2, <1>4, <1>9, <1>10, <1>11 DEF Change, gone

(* A removal changes what it declares: every layer it carries away with it    *)
(* included.                                                                  *)
LEMMA RemoveChanges ==
  ASSUME NEW a, a.kind = "RemoveLayer", NEW doc, Sound(doc)
  PROVE  Change(a, doc, FoldRemoveLayer(a, doc))
<1>1. CASE ~ (a.layer \in Present(doc) /\ CarriedIds(doc, a.layer) = a.carried)
  BY <1>1, NothingChanges DEF FoldRemoveLayer
<1>2. CASE a.layer \in Present(doc) /\ CarriedIds(doc, a.layer) = a.carried
  <2>. DEFINE s == SubtreeIds(doc, a.layer)
  <2>1. FoldRemoveLayer(a, doc) = RemoveLayer(doc, a.layer)
    BY <1>2 DEF FoldRemoveLayer
  <2>2. /\ s \in Seq(Id) /\ Len(s) >= 1 /\ s[1] = a.layer /\ ToSet(s) = Within(doc, a.layer)
        /\ Len(s) \in Nat
    BY <1>2, SubtreeIdsOf DEF Sound
  <2>3. a.carried = Tail(s)
    BY <1>2 DEF CarriedIds
  <2>. HIDE DEF s
  <2>4. ASSUME NEW l \in Within(doc, a.layer) PROVE l \in Id /\ l \in {a.layer} \cup ToSet(a.carried)
    <3>1. PICK i \in 1..Len(s) : s[i] = l
      BY <2>2, ToSetOf
    <3>2. s[i] \in Id
      BY <2>2
    <3>3. CASE i = 1
      BY <2>2, <3>1, <3>2, <3>3
    <3>4. CASE i # 1
      <4>1. Tail(s) \in Seq(Id) /\ Len(Tail(s)) = Len(s) - 1
        BY <2>2
      <4>2. i - 1 \in 1..Len(Tail(s)) /\ Tail(s)[i - 1] = s[i]
        BY <2>2, <3>1, <3>4, <4>1
      <4>3. s[i] \in ToSet(Tail(s))
        BY <4>1, <4>2, ToSetOf
      <4>. QED
        BY <2>3, <3>1, <3>2, <4>3
    <3>. QED
      BY <3>3, <3>4
  <2>5. Writes(a) = LayerClaim({a.layer} \cup ToSet(a.carried)) \cup StackOrder
    BY TreeClaims
  <2>6. ASSUME NEW l \in Within(doc, a.layer)
        PROVE  <<"existence", l>> \in Writes(a) /\ LayerClaim({l}) \subseteq Writes(a) \cup Reads(a)
    <3>1. LayerClaim({l}) \subseteq Writes(a)
      BY <2>4, <2>5, ClaimsOfEach
    <3>. QED
      BY <2>4, <3>1, ExistenceIsClaimed
  <2>7. <<"stack order">> \in Writes(a)
    BY <2>5 DEF StackOrder
  <2>. QED
    BY <1>2, <2>1, <2>6, <2>7, NothingChanges, RemovalChanges
<1>. QED
  BY <1>1, <1>2

(* The same subtree is taken out of two documents of one shape.                *)
LEMMA RemovalsAlike ==
  ASSUME NEW D, Sound(D), NEW E, Sound(E), NEW S, Apart(D, E, S), <<"stack order">> \notin S, NEW x
  PROVE  Apart(RemoveLayer(D, x), RemoveLayer(E, x), S)
<1>1. /\ Present(E) = Present(D) /\ D.carrier = E.carrier
      /\ \A id \in Id : Within(E, id) = Within(D, id)
  BY TreesAlike
<1>2. CASE x \notin Present(D)
  BY <1>1, <1>2 DEF RemoveLayer
<1>3. CASE x \in Present(D)
  <2>0. OrderSound(D) /\ x \in Id /\ x # Root
    BY <1>3, PresentOf DEF Sound, OrderSound, Id, Root
  <2>. DEFINE gone == Within(D, x)
  <2>1. RemoveLayer(D, x) = Without(D, gone) /\ RemoveLayer(E, x) = Without(E, gone)
    BY <1>1, <1>3, <2>0 DEF RemoveLayer
  <2>2. Whole(D, gone)
    BY <1>3, WithinIsWhole
  <2>. HIDE DEF gone
  <2>. QED
    BY <2>1, <2>2, WithoutAlike
<1>. QED
  BY <1>2, <1>3

(* A removal does the same to documents apart in nothing it claims.           *)
LEMMA RemovesAlike ==
  ASSUME NEW a, a.kind = "RemoveLayer", NEW D, Sound(D), NEW E, Sound(E),
         NEW S, Apart(D, E, S), Clear(a, S)
  PROVE  Apart(FoldRemoveLayer(a, D), FoldRemoveLayer(a, E), S)
<1>0. <<"stack order">> \notin S
  <2>1. <<"stack order">> \in Writes(a)
    BY TreeClaims DEF StackOrder
  <2>. QED
    BY <2>1 DEF Clear
<1>1. /\ Present(E) = Present(D) /\ \A id \in Id : SubtreeIds(E, id) = SubtreeIds(D, id)
  BY <1>0, TreesAlike
<1>2. Present(D) \subseteq Id
  BY PresentOf DEF Sound, OrderSound
<1>3. a.layer \in Present(D) => CarriedIds(D, a.layer) = CarriedIds(E, a.layer)
  BY <1>1, <1>2 DEF CarriedIds
<1>4. Apart(RemoveLayer(D, a.layer), RemoveLayer(E, a.layer), S)
  BY <1>0, RemovalsAlike
<1>. QED
  BY <1>1, <1>3, <1>4 DEF FoldRemoveLayer

(* A move changes the stack order it declares, or is declined.                *)
LEMMA MoveChanges ==
  ASSUME NEW a, a.kind = "MoveLayer", NEW doc, Sound(doc)
  PROVE  Change(a, doc, MoveLayer(doc, a.layer, a.carrier, a.place))
<1>. DEFINE new == MoveLayer(doc, a.layer, a.carrier, a.place)
<1>1. /\ Sound(new) /\ Present(new) = Present(doc) /\ SameGlobals(new, doc)
      /\ \A l \in Present(doc) : new.layer[l] = doc.layer[l]
  BY MoveLayerIsSound
<1>. HIDE DEF new
<1>2. <<"stack order">> \in Writes(a)
  BY TreeClaims DEF StackOrder
<1>3. ApartGlobals(new, doc, Writes(a))
  BY <1>1, SameGlobalsAreApart
<1>4. \A l \in Present(doc) : SameRecord(new.layer[l], doc.layer[l], l, Writes(a))
  BY <1>1, SameRecordIsReflexive
<1>5. Apart(new, doc, Writes(a))
  BY <1>1, <1>2, <1>3, <1>4 DEF Apart
<1>6. Change(a, doc, new)
  BY <1>1, <1>5 DEF Change
<1>. QED
  BY <1>6 DEF new

(* A move does the same to documents apart in nothing it claims.              *)
LEMMA MovesAlike ==
  ASSUME NEW a, a.kind = "MoveLayer", NEW D, Sound(D), NEW E, Sound(E),
         NEW S, Apart(D, E, S), Clear(a, S)
  PROVE  Apart(MoveLayer(D, a.layer, a.carrier, a.place), MoveLayer(E, a.layer, a.carrier, a.place), S)
<1>. DEFINE id == a.layer
            c == a.carrier
            place == a.place
            D1 == MoveLayer(D, id, c, place)
            E1 == MoveLayer(E, id, c, place)
<1>0. <<"stack order">> \notin S
  <2>1. <<"stack order">> \in Writes(a)
    BY TreeClaims DEF StackOrder
  <2>. QED
    BY <2>1 DEF Clear
<1>1. /\ D.order = E.order /\ D.carrier = E.carrier /\ Present(E) = Present(D)
      /\ \A l \in Present(D) : SameRecord(D.layer[l], E.layer[l], l, S)
      /\ \A x \in Id : Within(E, x) = Within(D, x) /\ SubtreeIds(E, x) = SubtreeIds(D, x)
      /\ \A x : MayCarry(E, x) <=> MayCarry(D, x)
  BY <1>0, TreesAlike
<1>2. Present(D) \subseteq Id /\ Root \notin Id
  BY PresentOf DEF Sound, OrderSound, Id, Root
<1>3. CASE id \notin Present(D) \/ ~ MayCarry(D, c) \/ c \in Within(D, id)
  <2>1. D1 = D
    BY <1>3 DEF MoveLayer
  <2>2. E1 = E
    BY <1>1, <1>2, <1>3 DEF MoveLayer
  <2>. QED
    BY <2>1, <2>2
<1>4. CASE id \in Present(D) /\ MayCarry(D, c) /\ c \notin Within(D, id)
  <2>. DEFINE gone == Within(D, id)
              rest(doc) == Without(doc, gone)
              tree(doc) == Subtree(doc, id)
              slot == Slot(rest(D), c, place)
  <2>0. id \in Id /\ id # Root /\ OrderSound(D)
    BY <1>2, <1>4 DEF Sound
  <2>1. D1 = Graft(rest(D), slot, tree(D), c)
    BY <1>4 DEF MoveLayer, RemoveLayer
  <2>2. E1 = Graft(rest(E), Slot(rest(E), c, place), tree(E), c)
    BY <1>1, <1>4, <2>0 DEF MoveLayer, RemoveLayer
  <2>3. Whole(D, gone) /\ Whole(E, gone)
    <3>1. Whole(D, gone)
      BY <1>4, WithinIsWhole
    <3>. QED
      BY <1>1, <3>1 DEF Whole
  <2>4. /\ tree(D).order = tree(E).order /\ tree(D).carrier = tree(E).carrier
    BY <1>1, <2>0 DEF Subtree
  <2>. HIDE DEF gone, tree
  <2>5. /\ Sound(rest(D)) /\ Present(rest(D)) = Present(D) \ gone
        /\ \A l \in Present(D) \ gone : rest(D).layer[l] = D.layer[l]
    <3>1. Kept(D, gone, rest(D))
      BY <2>3, WithoutWhole
    <3>. HIDE DEF rest
    <3>. QED
      BY <3>1 DEF Kept
  <2>6. rest(D).order = rest(E).order /\ rest(D).carrier = rest(E).carrier
    <3>1. ShapedAlike(rest(D), rest(E))
      BY <1>0, <2>3, WithoutAlike
    <3>. QED
      BY <3>1 DEF ShapedAlike
  <2>7. MayCarry(rest(D), c)
    BY <1>4, <2>5 DEF MayCarry, gone
  <2>. HIDE DEF rest
  <2>8. Slot(rest(E), c, place) = slot
    <3>1. OrderSound(rest(D)) /\ c \in Present(rest(D)) \cup {Root}
      BY <2>5, <2>7 DEF Sound, MayCarry
    <3>2. \A k \in Present(rest(D)) \cup {Root} : \A p : Slot(rest(E), k, p) = Slot(rest(D), k, p)
      BY <2>6, <3>1, SameTree
    <3>. QED
      BY <3>1, <3>2
  <2>9. Shaped(rest(D)) /\ Shaped(rest(E))
    <3>1. Shaped(rest(D))
      BY <2>5 DEF Sound, Shaped
    <3>2. Sound(rest(E))
      BY <2>3, WithoutWhole DEF rest, Kept
    <3>3. Shaped(rest(E))
      BY <3>2 DEF Sound, Shaped
    <3>. QED
      BY <3>1, <3>3
  <2>. HIDE DEF D1, E1, slot
  <2>10. /\ D1.order = SubSeq(rest(D).order, 1, slot) \o tree(D).order
                         \o SubSeq(rest(D).order, slot + 1, Len(rest(D).order))
         /\ D1.carrier = Over([l \in {Head(tree(D).order)} |-> c],
                              Over(tree(D).carrier, rest(D).carrier))
    BY <2>1, <2>9 DEF Graft, Shaped
  <2>11. /\ E1.order = SubSeq(rest(E).order, 1, slot) \o tree(E).order
                         \o SubSeq(rest(E).order, slot + 1, Len(rest(E).order))
         /\ E1.carrier = Over([l \in {Head(tree(E).order)} |-> c],
                              Over(tree(E).carrier, rest(E).carrier))
    BY <2>2, <2>8, <2>9 DEF Graft, Shaped
  <2>12. D1.order = E1.order /\ D1.carrier = E1.carrier
    BY <2>4, <2>6, <2>10, <2>11
  <2>13. /\ Present(D1) = Present(D) /\ SameGlobals(D1, D)
         /\ \A l \in Present(D) : D1.layer[l] = D.layer[l]
    BY MoveLayerIsSound DEF D1
  <2>14. /\ Present(E1) = Present(E) /\ SameGlobals(E1, E)
         /\ \A l \in Present(E) : E1.layer[l] = E.layer[l]
    BY MoveLayerIsSound DEF E1
  <2>15. ApartGlobals(D1, E1, S)
    BY <2>13, <2>14, GlobalsStayApart DEF Apart
  <2>16. \A l \in Present(D1) : SameRecord(D1.layer[l], E1.layer[l], l, S)
    BY <1>1, <2>13, <2>14
  <2>17. Apart(D1, E1, S)
    BY <1>1, <2>12, <2>13, <2>14, <2>15, <2>16 DEF Apart
  <2>. QED
    BY <2>17 DEF D1, E1
<1>. QED
  BY <1>3, <1>4

-----------------------------------------------------------------------------
(* Merging down                                                                *)

(* A merge is offered between two layers, and what is merged carries nothing.  *)
LEMMA MergeOfferedOf ==
  ASSUME NEW doc, Sound(doc), NEW s, NEW d, MergeOffered(doc, s, d)
  PROVE  s \in Present(doc) /\ d \in Present(doc) /\ Within(doc, s) = {s}
<1>1. s \in Present(doc)
  BY DEF MergeOffered
<1>2. d \in Present(doc)
  BY DEF MergeOffered, FilterMerges, PaintMerges, PlainPaint, Paintable
<1>3. s \in Id /\ s # Root /\ OrderSound(doc) /\ Len(doc.order) \in Nat
      /\ s \in Within(doc, s)
  <2>1. s \in Within(doc, s) /\ s \in Id /\ s # Root
    BY <1>1, WithinIsWhole
  <2>. QED
    BY <2>1, PresentOf DEF Sound, OrderSound
<1>4. \A l \in Present(doc) : doc.carrier[l] # s
  <2>1. CASE doc.layer[s].kind = "filter"
    BY <1>3, <2>1 DEF Sound
  <2>2. CASE doc.layer[s].kind # "filter"
    <3>1. StackOf(doc, s) = <<>>
      BY <2>2 DEF MergeOffered, PaintMerges, PlainPaint
    <3>2. ToSet(<<>>) = {}
      BY DEF ToSet
    <3>. QED
      BY <1>3, <3>1, <3>2, StackOfElements DEF OrderSound
  <2>. QED
    BY <2>1, <2>2
<1>5. \A i \in 1..Len(doc.order) : doc.carrier[doc.order[i]] \in {s} => doc.order[i] \in {s}
  BY <1>3, <1>4, PresentOf DEF OrderSound
<1>6. Within(doc, s) \subseteq {s}
  BY <1>3, <1>5, WithinIsLeast
<1>. QED
  BY <1>1, <1>2, <1>3, <1>6

(* What the destination becomes.                                               *)
Merged(doc, s, d) == [Survivor(doc, s, d) EXCEPT !.tiles = MergedTiles(doc, s, d)]

(* The record a merge leaves: the lower layer's but for its pixels, clip and  *)
(* opacity.                                                                   *)
LEMMA MergedIsSound ==
  ASSUME NEW doc, Sound(doc), NEW s, NEW d \in Present(doc)
  PROVE  /\ LayerSound(Merged(doc, s, d))
         /\ Merged(doc, s, d).kind = doc.layer[d].kind
         /\ Merged(doc, s, d).number = doc.layer[d].number
         /\ Merged(doc, s, d).run = doc.layer[d].run
         /\ \A p \in Prop \ {"clip", "opacity"} :
              Merged(doc, s, d).prop[p] = doc.layer[d].prop[p]
<1>. DEFINE down == doc.layer[d]
            tiles == MergedTiles(doc, s, d)
            kept == Survivor(doc, s, d)
            r == Merged(doc, s, d)
<1>1. LayerSound(down)
  BY DEF Sound
<1>2. tiles = [t \in Tile |-> tiles[t]]
  BY DEF MergedTiles
<1>3. /\ LayerSound(kept) /\ kept.kind = down.kind /\ kept.number = down.number /\ kept.run = down.run
      /\ \A p \in Prop \ {"clip", "opacity"} : kept.prop[p] = down.prop[p]
  <2>1. CASE doc.layer[s].kind = "filter" \/ doc.carrier[s] = d
    BY <1>1, <2>1 DEF Survivor
  <2>2. CASE ~ (doc.layer[s].kind = "filter" \/ doc.carrier[s] = d)
    <3>. DEFINE no == FALSE
                x == Propped(down, "clip", no)
                y == Propped(x, "opacity", "full")
    <3>1. kept = [down EXCEPT !.prop["clip"] = FALSE, !.prop["opacity"] = "full"]
      BY <2>2 DEF Survivor
    <3>2. [down EXCEPT !.prop["clip"] = FALSE, !.prop["opacity"] = "full"] = y
      BY DEF Propped
    <3>. HIDE DEF down, kept, no
    <3>3. /\ LayerSound(x) /\ x.kind = down.kind /\ x.number = down.number /\ x.run = down.run
          /\ \A p \in Prop : x.prop[p] = IF p = "clip" THEN no ELSE down.prop[p]
      BY <1>1, ProppedIsSound
    <3>. HIDE DEF x
    <3>4. /\ LayerSound(y) /\ y.kind = x.kind /\ y.number = x.number /\ y.run = x.run
          /\ \A p \in Prop : y.prop[p] = IF p = "opacity" THEN "full" ELSE x.prop[p]
      BY <3>3, ProppedIsSound
    <3>. HIDE DEF y
    <3>. QED
      BY <3>1, <3>2, <3>3, <3>4
  <2>. QED
    BY <2>1, <2>2
<1>. HIDE DEF tiles, kept, down
<1>4. r = [kept EXCEPT !.tiles = tiles]
  BY DEF Merged, kept, tiles
<1>5. r = [kind |-> kept.kind, prop |-> kept.prop, tiles |-> tiles, run |-> kept.run,
           number |-> kept.number]
  BY <1>3, <1>4 DEF LayerSound
<1>. HIDE DEF r
<1>6. kept.prop = [p \in Prop |-> kept.prop[p]]
  BY <1>3 DEF LayerSound
<1>7. LayerSound(r)
  BY <1>2, <1>5, <1>6 DEF LayerSound
<1>. QED
  BY <1>3, <1>5, <1>7 DEF r, down

(* A merge that happens redraws the lower layer and removes the upper one.    *)
LEMMA MergeInSteps ==
  ASSUME NEW a, NEW doc, MergeOffered(doc, a.source, a.dest)
  PROVE  FoldMergeDown(a, doc)
           = RemoveLayer(Put(doc, a.dest, Merged(doc, a.source, a.dest)), a.source)
BY DEF FoldMergeDown, Put, Merged

(* A merge changes what it declares.                                          *)
LEMMA MergeChanges ==
  ASSUME NEW a, a.kind = "MergeLayerDown", NEW doc, Sound(doc)
  PROVE  Change(a, doc, FoldMergeDown(a, doc))
<1>. DEFINE s == a.source
            d == a.dest
<1>1. CASE ~ MergeOffered(doc, s, d)
  BY <1>1, NothingChanges DEF FoldMergeDown
<1>2. CASE MergeOffered(doc, s, d)
  <2>. DEFINE r == Merged(doc, s, d)
              mid == Put(doc, d, r)
              layer == doc.layer[d]
  <2>1. FoldMergeDown(a, doc) = RemoveLayer(mid, s)
    BY <1>2, MergeInSteps
  <2>2. s \in Present(doc) /\ d \in Present(doc) /\ Within(doc, s) = {s}
    BY <1>2, MergeOfferedOf
  <2>3. /\ LayerSound(r) /\ r.kind = layer.kind /\ r.number = layer.number /\ r.run = layer.run
        /\ \A p \in Prop \ {"clip", "opacity"} : r.prop[p] = layer.prop[p]
    BY <2>2, MergedIsSound
  <2>4. /\ Reads(a) = LayerClaim({s, d})
        /\ Writes(a) = Existence({s, d}) \cup Paint(d, Tile)
                         \cup PropClaim(d, {"blend", "clip", "opacity"}) \cup StackOrder
    BY TreeClaims
  <2>. HIDE DEF r, layer
  <2>5. SameRecord(r, layer, d, Writes(a))
    BY <2>3, <2>4 DEF SameRecord, Paint, PropClaim
  <2>6. Change(a, doc, mid)
    BY <2>2, <2>3, <2>5, PutChanges DEF layer
  <2>7. mid.order = doc.order /\ mid.carrier = doc.carrier
    BY <2>2, <2>3, PutIsSound DEF layer
  <2>8. <<"stack order">> \in Writes(a) /\ LayerClaim({s}) \subseteq Reads(a)
    <3>1. LayerClaim({s}) \subseteq LayerClaim({s, d})
      BY ClaimOfTwo
    <3>2. LayerClaim({s}) \subseteq Reads(a)
      BY <2>4, <3>1, Zenon
    <3>. QED
      BY <2>4, <3>2 DEF StackOrder
  <2>9. <<"existence", s>> \in Writes(a)
    <3>1. s \in Id
      BY <2>2, WithinIsWhole
    <3>2. s \in {s, d} \ {Root, Top, Bottom}
      BY <3>1 DEF Id, Root, Top, Bottom
    <3>. QED
      BY <2>4, <3>2 DEF Existence
  <2>10. \A l \in Within(doc, s) :
            <<"existence", l>> \in Writes(a) /\ LayerClaim({l}) \subseteq Writes(a) \cup Reads(a)
    BY <2>2, <2>8, <2>9
  <2>. HIDE DEF mid
  <2>11. Change(a, doc, RemoveLayer(mid, s))
    BY <2>2, <2>6, <2>7, <2>8, <2>10, RemovalChanges
  <2>. QED
    BY <2>1, <2>11
<1>. QED
  BY <1>1, <1>2

(* All a merge reads is the tree and the two layers.                           *)
LEMMA MergeReads ==
  ASSUME NEW D, NEW E, NEW s, NEW d, D.order = E.order, D.carrier = E.carrier,
         \A c : StackOf(E, c) = StackOf(D, c),
         s \in Present(D), d \in Present(D), D.layer[s] = E.layer[s], D.layer[d] = E.layer[d]
  PROVE  /\ MergeOffered(D, s, d) <=> MergeOffered(E, s, d)
         /\ Merged(D, s, d) = Merged(E, s, d)
<1>1. Present(D) = Present(E)
  BY DEF Present
<1>2. Below(D, s) = Below(E, s)
  BY DEF Below
<1>3. /\ Paintable(D, s) <=> Paintable(E, s)
      /\ Paintable(D, d) <=> Paintable(E, d)
      /\ PlainPaint(D, s) <=> PlainPaint(E, s)
      /\ PlainPaint(D, d) <=> PlainPaint(E, d)
  BY <1>1 DEF Paintable, PlainPaint
<1>4. d = Below(D, s) => (BackdropIsDest(D, s) <=> BackdropIsDest(E, s))
  <2>1. SUFFICES ASSUME d = Below(D, s) PROVE BackdropIsDest(D, s) <=> BackdropIsDest(E, s)
    OBVIOUS
  <2>. DEFINE stack == StackOf(D, D.carrier[s])
              i == Position(stack, s)
  <2>2. StackOf(E, E.carrier[s]) = stack
    OBVIOUS
  <2>. HIDE DEF stack
  <2>3. i = 2 => stack[1] = d
    BY <2>1 DEF Below, stack
  <2>. HIDE DEF i
  <2>4. BackdropIsDest(D, s) <=> \/ i = 1
                                 \/ i = 2 /\ D.carrier[s] = Root /\ ~ D.layer[stack[1]].prop["clip"]
    BY DEF BackdropIsDest, stack, i
  <2>5. BackdropIsDest(E, s) <=> \/ i = 1
                                 \/ i = 2 /\ E.carrier[s] = Root /\ ~ E.layer[stack[1]].prop["clip"]
    BY <2>2 DEF BackdropIsDest, i
  <2>. QED
    BY <2>3, <2>4, <2>5
<1>5. MergeOffered(D, s, d) <=> MergeOffered(E, s, d)
  <2>1. CASE d # Below(D, s)
    BY <1>2, <2>1 DEF MergeOffered
  <2>2. CASE d = Below(D, s)
    <3>1. FilterMerges(D, s, d) <=> FilterMerges(E, s, d)
      BY <1>3, <1>4, <2>2 DEF FilterMerges
    <3>2. PaintMerges(D, s, d) <=> PaintMerges(E, s, d)
      BY <1>3, <1>4, <2>2 DEF PaintMerges
    <3>. QED
      BY <1>1, <1>2, <3>1, <3>2 DEF MergeOffered
  <2>. QED
    BY <2>1, <2>2
<1>6. Merged(D, s, d) = Merged(E, s, d)
  <2>1. MergedTiles(D, s, d) = MergedTiles(E, s, d)
    BY DEF MergedTiles
  <2>2. Survivor(D, s, d) = Survivor(E, s, d)
    BY DEF Survivor
  <2>. QED
    BY <2>1, <2>2 DEF Merged
<1>. QED
  BY <1>5, <1>6

(* A merge does the same to documents apart in nothing it claims.             *)
LEMMA MergesAlike ==
  ASSUME NEW a, a.kind = "MergeLayerDown", NEW D, Sound(D), NEW E, Sound(E),
         NEW S, Apart(D, E, S), Clear(a, S)
  PROVE  Apart(FoldMergeDown(a, D), FoldMergeDown(a, E), S)
<1>. DEFINE s == a.source
            d == a.dest
<1>0. /\ <<"stack order">> \notin S /\ S \cap LayerClaim({s}) = {} /\ S \cap LayerClaim({d}) = {}
  <2>1. <<"stack order">> \in Writes(a) /\ Reads(a) = LayerClaim({s, d})
    BY TreeClaims DEF StackOrder
  <2>2. LayerClaim({s}) \subseteq Reads(a) /\ LayerClaim({d}) \subseteq Reads(a)
    <3>1. LayerClaim({s}) \subseteq LayerClaim({s, d}) /\ LayerClaim({d}) \subseteq LayerClaim({s, d})
      BY ClaimOfTwo
    <3>2. Reads(a) = LayerClaim({s, d})
      BY <2>1
    <3>. QED
      BY <3>1, <3>2, Zenon
  <2>. QED
    BY <2>1, <2>2 DEF Clear
<1>1. /\ D.order = E.order /\ D.carrier = E.carrier /\ Present(E) = Present(D)
      /\ \A l \in Present(D) : SameRecord(D.layer[l], E.layer[l], l, S)
      /\ \A c : StackOf(E, c) = StackOf(D, c)
  BY <1>0, TreesAlike
<1>2. CASE s \notin Present(D) \/ d \notin Present(D)
  <2>1. ~ MergeOffered(D, s, d) /\ ~ MergeOffered(E, s, d)
    BY <1>1, <1>2, MergeOfferedOf
  <2>. QED
    BY <2>1 DEF FoldMergeDown
<1>3. CASE s \in Present(D) /\ d \in Present(D)
  <2>1. D.layer[s] = E.layer[s] /\ D.layer[d] = E.layer[d]
    <3>1. /\ LayerSound(D.layer[s]) /\ LayerSound(E.layer[s])
          /\ LayerSound(D.layer[d]) /\ LayerSound(E.layer[d])
      BY <1>1, <1>3 DEF Sound
    <3>2. SameRecord(D.layer[s], E.layer[s], s, S) /\ SameRecord(D.layer[d], E.layer[d], d, S)
      BY <1>1, <1>3
    <3>. QED
      BY <1>0, <3>1, <3>2, SameRecordOnEverything
  <2>2. /\ MergeOffered(D, s, d) <=> MergeOffered(E, s, d)
        /\ Merged(D, s, d) = Merged(E, s, d)
    BY <1>1, <1>3, <2>1, MergeReads
  <2>3. CASE ~ MergeOffered(D, s, d)
    BY <2>2, <2>3 DEF FoldMergeDown
  <2>4. CASE MergeOffered(D, s, d)
    <3>. DEFINE r == Merged(D, s, d)
    <3>1. FoldMergeDown(a, D) = RemoveLayer(Put(D, d, r), s)
      BY <2>4, MergeInSteps
    <3>2. FoldMergeDown(a, E) = RemoveLayer(Put(E, d, r), s)
      BY <2>2, <2>4, MergeInSteps
    <3>3. LayerSound(r) /\ r.kind = D.layer[d].kind /\ r.kind = E.layer[d].kind
      BY <1>3, <2>1, MergedIsSound
    <3>. HIDE DEF r
    <3>4. SameRecord(r, r, d, S) /\ d \in Present(D) \cap Present(E)
      BY <1>1, <1>3, SameRecordIsReflexive
    <3>5. Apart(Put(D, d, r), Put(E, d, r), S)
      BY <3>3, <3>4, PutsAlike
    <3>6. Sound(Put(D, d, r)) /\ Sound(Put(E, d, r))
      BY <3>3, <3>4, PutIsSound
    <3>7. Apart(RemoveLayer(Put(D, d, r), s), RemoveLayer(Put(E, d, r), s), S)
      BY <1>0, <3>5, <3>6, RemovalsAlike
    <3>. QED
      BY <3>1, <3>2, <3>7
  <2>. QED
    BY <2>3, <2>4
<1>. QED
  BY <1>2, <1>3

-----------------------------------------------------------------------------
(* Duplicating a subtree                                                       *)

(* The pair of a layer, its copy, and the layer a copy is of.                  *)
PairOf(ids, l) == CHOOSE k \in DOMAIN ids : ids[k][1] = l
CopyOf(ids, l) == ids[PairOf(ids, l)][2]
CopiedFrom(ids, was, id) == CHOOSE l \in ToSet(was) : CopyOf(ids, l) = id

Declined(doc, ids) ==
  \/ \E j, k \in DOMAIN ids : j # k /\ ids[j][2] = ids[k][2]
  \/ \E k \in DOMAIN ids : ids[k][2] \in Present(doc)
  \/ ids[1][1] \notin Present(doc)
  \/ \E l \in Within(doc, ids[1][1]) : \A k \in DOMAIN ids : ids[k][1] # l

CopiedRecord(r, number) == IF r.number = 0 THEN r ELSE [r EXCEPT !.number = number]

Copied(doc, ids, was, number) ==
  [order   |-> [i \in DOMAIN was |-> CopyOf(ids, was[i])],
   carrier |-> [id \in {CopyOf(ids, l) : l \in ToSet(was) \ {ids[1][1]}} |->
                  CopyOf(ids, doc.carrier[CopiedFrom(ids, was, id)])],
   layer   |-> [id \in {CopyOf(ids, l) : l \in ToSet(was)} |->
                  CopiedRecord(doc.layer[CopiedFrom(ids, was, id)],
                               number + PairOf(ids, CopiedFrom(ids, was, id)) - 1)]]

(* A duplication inserts the copied subtree, or is declined.                  *)
LEMMA DuplicateInSteps ==
  ASSUME NEW doc, NEW ids, NEW number
  PROVE  DuplicateLayer(doc, ids, number) =
           IF Declined(doc, ids) THEN doc
           ELSE Insert(doc, Copied(doc, ids, SubtreeIds(doc, ids[1][1]), number),
                       doc.carrier[ids[1][1]], ids[1][1])
BY DEF DuplicateLayer, Declined, Copied, CopiedRecord, CopyOf, CopiedFrom, PairOf

(* A copied record has a value for everything.                                *)
LEMMA CopiedRecordIsSound ==
  ASSUME NEW r, LayerSound(r), NEW number
  PROVE  LayerSound(CopiedRecord(r, number)) /\ CopiedRecord(r, number).kind = r.kind
<1>1. CASE r.number = 0
  BY <1>1 DEF CopiedRecord
<1>2. CASE r.number # 0
  <2>1. CopiedRecord(r, number) = [kind |-> r.kind, prop |-> r.prop, tiles |-> r.tiles,
                                   run |-> r.run, number |-> number]
    BY <1>2 DEF CopiedRecord, LayerSound
  <2>2. r.prop = [p \in Prop |-> r.prop[p]] /\ r.tiles = [t \in Tile |-> r.tiles[t]]
    BY DEF LayerSound
  <2>. QED
    BY <2>1, <2>2 DEF LayerSound
<1>. QED
  BY <1>1, <1>2

(* Every layer of the subtree has a copy of its own, which the document lacks. *)
LEMMA CopiesAreNew ==
  ASSUME NEW doc, Sound(doc), NEW ids \in Seq(Id \X Id), ~ Declined(doc, ids),
         NEW was, was = SubtreeIds(doc, ids[1][1])
  PROVE  /\ \A l \in ToSet(was) :
              /\ PairOf(ids, l) \in DOMAIN ids /\ ids[PairOf(ids, l)][1] = l
              /\ CopyOf(ids, l) \in Id /\ CopyOf(ids, l) \notin Present(doc)
              /\ CopyOf(ids, l) \in {ids[k][2] : k \in DOMAIN ids}
         /\ \A l, m \in ToSet(was) : CopyOf(ids, l) = CopyOf(ids, m) => l = m
         /\ \A l \in ToSet(was) : CopiedFrom(ids, was, CopyOf(ids, l)) = l
<1>0. ids[1][1] \in Present(doc) /\ ToSet(was) = Within(doc, ids[1][1])
  BY SubtreeIdsOf DEF Declined, Sound
<1>1. ASSUME NEW l \in ToSet(was) PROVE PairOf(ids, l) \in DOMAIN ids /\ ids[PairOf(ids, l)][1] = l
  <2>1. \E k \in DOMAIN ids : ids[k][1] = l
    BY <1>0 DEF Declined
  <2>. QED
    BY <2>1 DEF PairOf
<1>2. ASSUME NEW l \in ToSet(was)
      PROVE  /\ CopyOf(ids, l) \in Id /\ CopyOf(ids, l) \notin Present(doc)
             /\ CopyOf(ids, l) \in {ids[k][2] : k \in DOMAIN ids}
  <2>. DEFINE k == PairOf(ids, l)
  <2>1. k \in DOMAIN ids
    BY <1>1
  <2>2. CopyOf(ids, l) = ids[k][2]
    BY DEF CopyOf
  <2>. HIDE DEF k
  <2>3. ids[k] \in Id \X Id
    BY <2>1
  <2>. QED
    BY <2>1, <2>2, <2>3 DEF Declined
<1>3. ASSUME NEW l \in ToSet(was), NEW m \in ToSet(was), CopyOf(ids, l) = CopyOf(ids, m)
      PROVE  l = m
  <2>1. PairOf(ids, l) = PairOf(ids, m)
    BY <1>1, <1>3 DEF CopyOf, Declined
  <2>. QED
    BY <1>1, <2>1
<1>4. ASSUME NEW l \in ToSet(was) PROVE CopiedFrom(ids, was, CopyOf(ids, l)) = l
  <2>. DEFINE c == CopyOf(ids, l)
              m == CopiedFrom(ids, was, c)
  <2>1. \E x \in ToSet(was) : CopyOf(ids, x) = c
    OBVIOUS
  <2>. HIDE DEF c
  <2>2. m \in ToSet(was) /\ CopyOf(ids, m) = c
    BY <2>1 DEF CopiedFrom
  <2>. QED
    BY <1>3, <2>2 DEF c
<1>. QED
  BY <1>1, <1>2, <1>3, <1>4

(* The copied subtree, of the original's shape.                                *)
LEMMA CopiedIsToGraft ==
  ASSUME NEW doc, Sound(doc), NEW ids \in Seq(Id \X Id), ~ Declined(doc, ids), NEW number,
         NEW was, was = SubtreeIds(doc, ids[1][1])
  PROVE  /\ TreeToGraft(Copied(doc, ids, was, number))
         /\ ToSet(Copied(doc, ids, was, number).order) \cap Present(doc) = {}
         /\ ToSet(Copied(doc, ids, was, number).order) \subseteq {ids[k][2] : k \in DOMAIN ids}
<1>. DEFINE tree == Copied(doc, ids, was, number)
            source == ids[1][1]
            within == Within(doc, source)
<1>0. /\ source \in Present(doc) /\ ToSet(was) = within /\ was \in Seq(Id) /\ Distinct(was)
      /\ Len(was) >= 1 /\ was[1] = source /\ Len(was) \in Nat /\ DOMAIN was = 1..Len(was)
  <2>1. source \in Present(doc)
    BY DEF Declined
  <2>2. /\ was \in Seq(Id) /\ Distinct(was)
        /\ Len(was) \in 1..Len(doc.order) - Position(doc.order, source) + 1
        /\ was[1] = source /\ ToSet(was) = within
    BY <2>1, SubtreeIdsOf DEF Sound
  <2>. QED
    BY <2>1, <2>2
<1>1. /\ \A l \in ToSet(was) :
              /\ CopyOf(ids, l) \in Id /\ CopyOf(ids, l) \notin Present(doc)
              /\ CopyOf(ids, l) \in {ids[k][2] : k \in DOMAIN ids}
      /\ \A l, m \in ToSet(was) : CopyOf(ids, l) = CopyOf(ids, m) => l = m
      /\ \A l \in ToSet(was) : CopiedFrom(ids, was, CopyOf(ids, l)) = l
  BY CopiesAreNew
<1>2. \A i \in 1..Len(was) : was[i] \in ToSet(was) /\ was[i] \in Present(doc)
  <2>1. within \subseteq Present(doc)
    BY <1>0, WithinIsWhole
  <2>. QED
    BY <1>0, <2>1, ToSetOf
<1>3. /\ tree.order = [i \in 1..Len(was) |-> CopyOf(ids, was[i])]
      /\ DOMAIN tree.carrier = {CopyOf(ids, l) : l \in ToSet(was) \ {source}}
      /\ DOMAIN tree.layer = {CopyOf(ids, l) : l \in ToSet(was)}
      /\ \A id \in DOMAIN tree.carrier :
           tree.carrier[id] = CopyOf(ids, doc.carrier[CopiedFrom(ids, was, id)])
      /\ \A id \in DOMAIN tree.layer :
           tree.layer[id] = CopiedRecord(doc.layer[CopiedFrom(ids, was, id)],
                               number + PairOf(ids, CopiedFrom(ids, was, id)) - 1)
  BY <1>0 DEF Copied
<1>. HIDE DEF tree, source, within
<1>4. tree.order \in Seq(Id) /\ Len(tree.order) = Len(was)
  BY <1>0, <1>1, <1>2, <1>3
<1>5. ToSet(tree.order) = {CopyOf(ids, l) : l \in ToSet(was)}
  <2>1. \A x : x \in ToSet(tree.order) <=> \E i \in 1..Len(was) : tree.order[i] = x
    BY <1>4, ToSetOf
  <2>2. \A l : l \in ToSet(was) <=> \E i \in 1..Len(was) : was[i] = l
    BY <1>0, ToSetOf
  <2>. QED
    BY <1>3, <2>1, <2>2
<1>6. Distinct(tree.order)
  BY <1>0, <1>1, <1>2, <1>3, <1>4 DEF Distinct
<1>7. ASSUME NEW l \in ToSet(was)
      PROVE  /\ CopyOf(ids, l) \in DOMAIN tree.layer
             /\ LayerSound(tree.layer[CopyOf(ids, l)])
             /\ tree.layer[CopyOf(ids, l)].kind = doc.layer[l].kind
  <2>1. CopyOf(ids, l) \in DOMAIN tree.layer
    BY <1>3
  <2>2. LayerSound(doc.layer[l])
    <3>1. l \in Present(doc)
      BY <1>0, WithinIsWhole DEF within
    <3>. QED
      BY <3>1 DEF Sound
  <2>3. tree.layer[CopyOf(ids, l)] = CopiedRecord(doc.layer[l], number + PairOf(ids, l) - 1)
    BY <1>1, <1>3, <2>1
  <2>. QED
    BY <2>1, <2>2, <2>3, CopiedRecordIsSound
<1>8. ASSUME NEW i \in 2..Len(tree.order)
      PROVE  /\ tree.order[i] \in DOMAIN tree.carrier
             /\ \E j \in 1..i - 1 : tree.order[j] = tree.carrier[tree.order[i]]
             /\ tree.layer[tree.carrier[tree.order[i]]].kind # "filter"
  <2>1. i \in 1..Len(was) /\ i # 1
    BY <1>0, <1>4
  <2>. DEFINE l == was[i]
              c == doc.carrier[l]
  <2>2. l \in ToSet(was) /\ l # source /\ tree.order[i] = CopyOf(ids, l) /\ l \in Present(doc)
    <3>1. l # source
      BY <1>0, <2>1 DEF Distinct
    <3>. QED
      BY <1>2, <1>3, <2>1, <3>1
  <2>3. tree.order[i] \in DOMAIN tree.carrier
    BY <1>3, <2>2
  <2>4. tree.carrier[tree.order[i]] = CopyOf(ids, c)
    BY <1>1, <1>3, <2>2, <2>3
  <2>. HIDE DEF l, c
  <2>5. c \in ToSet(was) /\ c # Root
    <3>1. OrderSound(doc) /\ source # Root
      BY <1>0, WithinIsWhole DEF Sound
    <3>2. c \in within
      BY <1>0, <2>2, <3>1, WithinIsClosed DEF within, c
    <3>3. Root \notin Present(doc)
      BY PresentOf DEF Sound, OrderSound, Id, Root
    <3>. QED
      BY <1>0, <3>2, <3>3, WithinIsWhole DEF within
  <2>6. \E j \in 1..i - 1 : was[j] = c
    <3>1. CarriersFirst(was, doc.carrier, within)
      BY OnlyKeepsCarriersFirst DEF Sound, SubtreeIds, within, source
    <3>. QED
      BY <1>0, <2>1, <2>5, <3>1 DEF CarriersFirst, c, l
  <2>7. \E j \in 1..i - 1 : tree.order[j] = CopyOf(ids, c)
    BY <1>0, <1>3, <2>1, <2>6
  <2>8. doc.layer[c].kind # "filter"
    BY <2>2, <2>5 DEF Sound, c
  <2>9. tree.layer[CopyOf(ids, c)].kind # "filter"
    BY <1>7, <2>5, <2>8
  <2>. QED
    BY <2>3, <2>4, <2>7, <2>9
<1>9. \A l \in ToSet(tree.order) : LayerSound(tree.layer[l])
  BY <1>5, <1>7
<1>10. DOMAIN tree.carrier \subseteq ToSet(tree.order)
  BY <1>3, <1>5
<1>11. TreeToGraft(tree)
  BY <1>0, <1>3, <1>4, <1>5, <1>6, <1>8, <1>9, <1>10 DEF TreeToGraft
<1>12. /\ ToSet(tree.order) \cap Present(doc) = {}
       /\ ToSet(tree.order) \subseteq {ids[k][2] : k \in DOMAIN ids}
  BY <1>1, <1>5
<1>. QED
  BY <1>11, <1>12 DEF tree

(* A duplication changes what it declares.                                    *)
LEMMA DuplicateChanges ==
  ASSUME NEW a, WellFormed(a), a.kind = "DuplicateLayer", NEW doc, Sound(doc)
  PROVE  Change(a, doc, DuplicateLayer(doc, a.ids, a.number))
<1>. DEFINE ids == a.ids
            source == ids[1][1]
            was == SubtreeIds(doc, source)
            tree == Copied(doc, ids, was, a.number)
            c == doc.carrier[source]
            new == Insert(doc, tree, c, source)
<1>0. ids \in Seq(Id \X Id)
  BY DEF WellFormed
<1>1. CASE Declined(doc, ids)
  BY <1>1, DuplicateInSteps, NothingChanges
<1>2. CASE ~ Declined(doc, ids)
  <2>1. DuplicateLayer(doc, ids, a.number) = new
    BY <1>2, DuplicateInSteps
  <2>2. /\ TreeToGraft(tree) /\ ToSet(tree.order) \cap Present(doc) = {}
        /\ ToSet(tree.order) \subseteq {ids[k][2] : k \in DOMAIN ids}
    BY <1>0, <1>2, CopiedIsToGraft
  <2>. HIDE DEF tree, c
  <2>3. Writes(a) = LayerClaim({ids[k][2] : k \in DOMAIN ids}) \cup StackOrder
    BY TreeClaims
  <2>4. \A l \in ToSet(tree.order) : <<"existence", l>> \in Writes(a)
    <3>1. ToSet(tree.order) \subseteq Id
      BY <2>2, ToSetOf DEF TreeToGraft
    <3>2. \A l \in ToSet(tree.order) : <<"existence", l>> \in LayerClaim({l})
      BY <3>1, ExistenceIsClaimed
    <3>. DEFINE copies == {ids[k][2] : k \in DOMAIN ids}
    <3>. HIDE DEF copies
    <3>3. \A l \in ToSet(tree.order) : <<"existence", l>> \in LayerClaim(copies)
      BY <2>2, <3>2, ClaimsOfEach DEF copies
    <3>. QED
      BY <2>3, <3>3 DEF copies
  <2>5. <<"stack order">> \in Writes(a)
    BY <2>3 DEF StackOrder
  <2>6. CASE ~ MayCarry(doc, c)
    <3>1. new = doc
      BY <2>2, <2>6, InsertIsSound
    <3>. QED
      BY <2>1, <3>1, NothingChanges
  <2>7. CASE MayCarry(doc, c)
    <3>1. Grafted(doc, tree, c, new)
      BY <2>2, <2>7, InsertIsSound
    <3>. HIDE DEF new
    <3>2. Change(a, doc, new)
      BY <2>2, <2>4, <2>5, <3>1, NothingChanges, GraftedChanges
    <3>. QED
      BY <2>1, <3>2
  <2>. QED
    BY <2>6, <2>7
<1>. QED
  BY <1>1, <1>2

(* A duplication does the same to documents apart in nothing it claims: every *)
(* layer it copies is read whole.                                             *)
LEMMA DuplicatesAlike ==
  ASSUME NEW a, WellFormed(a), a.kind = "DuplicateLayer", NEW D, Sound(D), NEW E, Sound(E),
         NEW S, Apart(D, E, S), Clear(a, S)
  PROVE  Apart(DuplicateLayer(D, a.ids, a.number), DuplicateLayer(E, a.ids, a.number), S)
<1>. DEFINE ids == a.ids
            source == ids[1][1]
            was == SubtreeIds(D, source)
            tree == Copied(D, ids, was, a.number)
            c == D.carrier[source]
<1>0. ids \in Seq(Id \X Id) /\ source \in Id
  <2>1. ids \in Seq(Id \X Id) /\ Len(ids) >= 1
    BY DEF WellFormed
  <2>2. ids[1] \in Id \X Id
    BY <2>1
  <2>. QED
    BY <2>1, <2>2
<1>1. <<"stack order">> \notin S /\ S \cap LayerClaim({ids[k][1] : k \in DOMAIN ids}) = {}
  <2>1. /\ <<"stack order">> \in Writes(a)
        /\ Reads(a) = LayerClaim({ids[k][1] : k \in DOMAIN ids})
    BY TreeClaims DEF StackOrder
  <2>. QED
    BY <2>1 DEF Clear
<1>2. /\ D.order = E.order /\ D.carrier = E.carrier /\ Present(E) = Present(D)
      /\ \A l \in Present(D) : SameRecord(D.layer[l], E.layer[l], l, S)
      /\ \A x \in Id : Within(E, x) = Within(D, x) /\ SubtreeIds(E, x) = SubtreeIds(D, x)
  BY <1>1, TreesAlike
<1>3. Declined(D, ids) <=> Declined(E, ids)
  BY <1>0, <1>2 DEF Declined
<1>4. CASE Declined(D, ids)
  <2>1. DuplicateLayer(D, ids, a.number) = D
    BY <1>4, DuplicateInSteps
  <2>2. DuplicateLayer(E, ids, a.number) = E
    BY <1>3, <1>4, DuplicateInSteps
  <2>. QED
    BY <2>1, <2>2
<1>5. CASE ~ Declined(D, ids)
  <2>1. SubtreeIds(E, source) = was /\ E.carrier[source] = c
    BY <1>0, <1>2
  <2>2. source \in Present(D) /\ ToSet(was) = Within(D, source)
    BY <1>5, SubtreeIdsOf DEF Declined, Sound
  <2>3. /\ TreeToGraft(tree) /\ ToSet(tree.order) \cap Present(D) = {}
    BY <1>0, <1>5, CopiedIsToGraft
  <2>4. ASSUME NEW l \in ToSet(was) PROVE D.layer[l] = E.layer[l]
    <3>1. l \in Present(D)
      BY <2>2, WithinIsWhole
    <3>2. PICK k \in DOMAIN ids : ids[k][1] = l
      BY <1>5, <2>2 DEF Declined
    <3>. DEFINE sources == {ids[j][1] : j \in DOMAIN ids}
    <3>3. l \in sources
      BY <3>2
    <3>. HIDE DEF sources
    <3>4. LayerClaim({l}) \subseteq LayerClaim(sources)
      BY <3>3, ClaimsOfEach
    <3>5. S \cap LayerClaim({l}) = {}
      BY <1>1, <3>4 DEF sources
    <3>6. LayerSound(D.layer[l]) /\ LayerSound(E.layer[l])
      BY <1>2, <3>1 DEF Sound
    <3>7. SameRecord(D.layer[l], E.layer[l], l, S)
      BY <1>2, <3>1
    <3>. QED
      BY <3>5, <3>6, <3>7, SameRecordOnEverything
  <2>5. \A l \in ToSet(was) : CopiedFrom(ids, was, CopyOf(ids, l)) = l
    BY <1>0, <1>5, CopiesAreNew
  <2>6. Copied(E, ids, was, a.number) = tree
    <3>. HIDE DEF was
    <3>. DEFINE copies == {CopyOf(ids, l) : l \in ToSet(was)}
                record(doc) == [id \in copies |->
                  CopiedRecord(doc.layer[CopiedFrom(ids, was, id)],
                               a.number + PairOf(ids, CopiedFrom(ids, was, id)) - 1)]
    <3>1. ASSUME NEW id \in copies
          PROVE  D.layer[CopiedFrom(ids, was, id)] = E.layer[CopiedFrom(ids, was, id)]
      <4>1. PICK l \in ToSet(was) : id = CopyOf(ids, l)
        OBVIOUS
      <4>. QED
        BY <2>4, <2>5, <4>1
    <3>2. record(D) = record(E)
      BY <3>1
    <3>3. D.carrier = E.carrier
      BY <1>2
    <3>. QED
      BY <3>2, <3>3 DEF Copied
  <2>. HIDE DEF tree, was, c
  <2>7. DuplicateLayer(D, ids, a.number) = Insert(D, tree, c, source)
    BY <1>5, DuplicateInSteps DEF tree, was, c
  <2>8. DuplicateLayer(E, ids, a.number) = Insert(E, tree, c, source)
    <3>1. DuplicateLayer(E, ids, a.number)
            = Insert(E, Copied(E, ids, SubtreeIds(E, source), a.number), E.carrier[source], source)
      BY <1>3, <1>5, DuplicateInSteps
    <3>. QED
      BY <2>1, <2>6, <3>1
  <2>9. \A l \in ToSet(tree.order) : SameRecord(tree.layer[l], tree.layer[l], l, S)
    BY SameRecordIsReflexive
  <2>10. Apart(Insert(D, tree, c, source), Insert(E, tree, c, source), S)
    BY <1>1, <2>3, <2>9, InsertsAlike
  <2>. QED
    BY <2>7, <2>8, <2>10
<1>. QED
  BY <1>4, <1>5

-----------------------------------------------------------------------------
(* Every action                                                                *)

(* Which operator folds which kind.                                            *)
LEMMA FoldByKind ==
  ASSUME NEW a, NEW doc
  PROVE  /\ a.kind = "CommitStroke"    => Fold(a, doc) = FoldStroke(a, doc)
         /\ a.kind = "Liquify"         => Fold(a, doc) = FoldLiquify(a, doc)
         /\ a.kind = "Fill"            => Fold(a, doc) = FoldFill(a, doc)
         /\ a.kind = "Transform"       => Fold(a, doc) = FoldTransform(a, doc)
         /\ a.kind = "Select"          => Fold(a, doc) = FoldSelect(a, doc)
         /\ a.kind = "AddLayer"        => Fold(a, doc) = FoldAddLayer(a, doc)
         /\ a.kind = "PlaceImage"      => Fold(a, doc) = FoldPlaceImage(a, doc)
         /\ a.kind = "FloatSelection"  => Fold(a, doc) = FoldFloat(a, doc)
         /\ a.kind = "DuplicateLayer"  => Fold(a, doc) = DuplicateLayer(doc, a.ids, a.number)
         /\ a.kind = "RemoveLayer"     => Fold(a, doc) = FoldRemoveLayer(a, doc)
         /\ a.kind = "MoveLayer"       => Fold(a, doc) = MoveLayer(doc, a.layer, a.carrier, a.place)
         /\ a.kind = "MergeLayerDown"  => Fold(a, doc) = FoldMergeDown(a, doc)
         /\ a.kind = "SetProp"         => Fold(a, doc) = SetProp(doc, a.layer, a.prop, a.value)
         /\ a.kind = "SetMatte"        => Fold(a, doc) = SetMatte(doc, a.layer, a.half, a.value)
         /\ a.kind = "TranslateLayers" => Fold(a, doc) = TranslateLayers(doc, a.moves)
BY DEF Fold

(* What the actions on substrate, color and guides do.                        *)
LEMMA FoldOfGlobals ==
  ASSUME NEW a, NEW doc
  PROVE  /\ a.kind = "SetSubstrate" => Fold(a, doc) = [doc EXCEPT !.substrate = <<a.n, doc.substrate>>]
         /\ a.kind = "SetSubstrateColor" => Fold(a, doc) = [doc EXCEPT !.color = <<a.n>>]
         /\ a.kind = "Guides" => Fold(a, doc) = [doc EXCEPT !.guides = FoldGuides(a, doc.guides)]
BY DEF Fold

(* Folding an action into a sound document leaves a sound one, and changes     *)
(* what the action declares alone (fold/apply.rs against footprint.rs).        *)
LEMMA FoldChanges ==
  ASSUME NEW a, WellFormed(a), NEW doc, Sound(doc)
  PROVE  Change(a, doc, Fold(a, doc))
<1>0. a.kind \in Kinds
  BY DEF WellFormed
<1>1. CASE a.kind \in {"CommitStroke", "Liquify", "Fill", "Transform", "Select"}
  BY <1>1, FoldByKind, StrokeChanges, LiquifyChanges, FillChanges, TransformChanges, SelectChanges
<1>2. CASE a.kind \in {"AddLayer", "PlaceImage", "FloatSelection", "DuplicateLayer"}
  BY <1>2, FoldByKind, AddLayerChanges, PlaceImageChanges, FloatChanges, DuplicateChanges
<1>3. CASE a.kind \in {"RemoveLayer", "MoveLayer", "MergeLayerDown"}
  BY <1>3, FoldByKind, RemoveChanges, MoveChanges, MergeChanges
<1>4. CASE a.kind = "SetProp"
  <2>1. <<"prop", a.layer, a.prop>> \in Writes(a)
    <3>1. Writes(a) = PropClaim(a.layer, {a.prop})
      BY <1>4, PropertyClaims
    <3>. QED
      BY <3>1 DEF PropClaim
  <2>. QED
    BY <1>4, <2>1, FoldByKind, SetPropChanges
<1>5. CASE a.kind = "SetMatte"
  <2>1. <<"prop", a.layer, "matte">> \in Writes(a)
    <3>1. Writes(a) = PropClaim(a.layer, {"matte"})
      BY <1>5, PropertyClaims
    <3>. QED
      BY <3>1 DEF PropClaim
  <2>. QED
    BY <1>5, <2>1, FoldByKind, SetMatteChanges
<1>6. CASE a.kind = "TranslateLayers"
  <2>1. \A l \in DOMAIN a.moves : <<"prop", l, "translation">> \in Writes(a)
    <3>1. Writes(a) = UNION {PropClaim(id, {"translation"}) : id \in DOMAIN a.moves}
      BY <1>6, PropertyClaims
    <3>2. \A l : <<"prop", l, "translation">> \in PropClaim(l, {"translation"})
      BY DEF PropClaim
    <3>. QED
      BY <3>1, <3>2
  <2>. QED
    BY <1>6, <2>1, FoldByKind, TranslateChanges
<1>7. CASE a.kind \in {"SetSubstrate", "SetSubstrateColor", "Guides"}
  <2>1. /\ a.kind = "SetSubstrate" => <<"substrate">> \in Writes(a)
        /\ a.kind = "SetSubstrateColor" => <<"substrate color">> \in Writes(a)
        /\ a.kind = "Guides" => <<"guides">> \in Writes(a)
    BY PropertyClaims DEF Substrate, SubstrateColor, GuideRoster
  <2>2. CASE a.kind = "SetSubstrate"
    BY <2>1, <2>2, FoldOfGlobals, SubstrateChanges
  <2>3. CASE a.kind = "SetSubstrateColor"
    <3>. DEFINE v == <<a.n>>
    <3>1. Fold(a, doc) = [doc EXCEPT !.color = v]
      BY <2>3, FoldOfGlobals
    <3>. HIDE DEF v
    <3>2. Change(a, doc, [doc EXCEPT !.color = v])
      BY <2>1, <2>3, ColorChanges
    <3>. QED
      BY <3>1, <3>2
  <2>4. CASE a.kind = "Guides"
    BY <2>1, <2>4, FoldOfGlobals, GuidesChange
  <2>. QED
    BY <1>7, <2>2, <2>3, <2>4
<1>. QED
  BY <1>0, <1>1, <1>2, <1>3, <1>4, <1>5, <1>6, <1>7 DEF Kinds

(* And does the same to two documents that differ in what it does not touch.   *)
LEMMA FoldsAlike ==
  ASSUME NEW a, WellFormed(a), NEW D, Sound(D), NEW E, Sound(E), NEW S, Apart(D, E, S), Clear(a, S)
  PROVE  Apart(Fold(a, D), Fold(a, E), S)
<1>0. a.kind \in Kinds
  BY DEF WellFormed
<1>1. CASE a.kind \in {"CommitStroke", "Liquify", "Fill", "Transform", "Select"}
  <2>1. CASE a.kind = "CommitStroke"
    BY <2>1, FoldByKind, StrokesAlike
  <2>2. CASE a.kind = "Liquify"
    BY <2>2, FoldByKind, LiquifiesAlike
  <2>3. CASE a.kind = "Fill"
    BY <2>3, FoldByKind, FillsAlike
  <2>4. CASE a.kind = "Transform"
    BY <2>4, FoldByKind, TransformsAlike
  <2>5. CASE a.kind = "Select"
    BY <2>5, FoldByKind, SelectsAlike
  <2>. QED
    BY <1>1, <2>1, <2>2, <2>3, <2>4, <2>5
<1>2. CASE a.kind \in {"AddLayer", "PlaceImage", "FloatSelection", "DuplicateLayer"}
  <2>1. CASE a.kind = "AddLayer"
    BY <2>1, FoldByKind, AddLayersAlike
  <2>2. CASE a.kind = "PlaceImage"
    BY <2>2, FoldByKind, PlaceImagesAlike
  <2>3. CASE a.kind = "FloatSelection"
    BY <2>3, FoldByKind, FloatsAlike
  <2>4. CASE a.kind = "DuplicateLayer"
    BY <2>4, FoldByKind, DuplicatesAlike
  <2>. QED
    BY <1>2, <2>1, <2>2, <2>3, <2>4
<1>3. CASE a.kind \in {"RemoveLayer", "MoveLayer", "MergeLayerDown"}
  <2>1. CASE a.kind = "RemoveLayer"
    BY <2>1, FoldByKind, RemovesAlike
  <2>2. CASE a.kind = "MoveLayer"
    BY <2>2, FoldByKind, MovesAlike
  <2>3. CASE a.kind = "MergeLayerDown"
    BY <2>3, FoldByKind, MergesAlike
  <2>. QED
    BY <1>3, <2>1, <2>2, <2>3
<1>4. CASE a.kind \in {"SetProp", "SetMatte"}
  <2>1. Existence({a.layer}) \subseteq Reads(a) \cup Writes(a)
    BY <1>4, PropertyClaims
  <2>2. a.layer \in Present(D) <=> a.layer \in Present(E)
    BY <2>1, LayerStands
  <2>3. CASE a.kind = "SetProp"
    BY <2>2, <2>3, FoldByKind, SetPropsAlike
  <2>4. CASE a.kind = "SetMatte"
    <3>1. <<"prop", a.layer, "matte">> \notin S
      <4>1. Writes(a) = PropClaim(a.layer, {"matte"})
        BY <2>4, PropertyClaims
      <4>2. <<"prop", a.layer, "matte">> \in Writes(a)
        BY <4>1 DEF PropClaim
      <4>. QED
        BY <4>2 DEF Clear
    <3>. QED
      BY <2>2, <2>4, <3>1, FoldByKind, SetMattesAlike
  <2>. QED
    BY <1>4, <2>3, <2>4
<1>5. CASE a.kind = "TranslateLayers"
  BY <1>5, FoldByKind, TranslatesAlike
<1>6. CASE a.kind = "SetSubstrate"
  <2>1. <<"substrate">> \notin S
    BY <1>6, PropertyClaims DEF Substrate, Clear
  <2>2. D.substrate = E.substrate
    BY <2>1 DEF Apart, ApartGlobals
  <2>. DEFINE v == <<a.n, D.substrate>>
  <2>3. Fold(a, D) = [D EXCEPT !.substrate = v] /\ Fold(a, E) = [E EXCEPT !.substrate = v]
    BY <1>6, <2>2, FoldOfGlobals
  <2>. HIDE DEF v
  <2>4. Apart([D EXCEPT !.substrate = v], [E EXCEPT !.substrate = v], S)
    BY SubstratesAlike
  <2>. QED
    BY <2>3, <2>4
<1>7. CASE a.kind = "SetSubstrateColor"
  <2>. DEFINE v == <<a.n>>
  <2>1. Fold(a, D) = [D EXCEPT !.color = v] /\ Fold(a, E) = [E EXCEPT !.color = v]
    BY <1>7, FoldOfGlobals
  <2>. HIDE DEF v
  <2>2. Apart([D EXCEPT !.color = v], [E EXCEPT !.color = v], S)
    BY ColorsAlike
  <2>. QED
    BY <2>1, <2>2
<1>8. CASE a.kind = "Guides"
  <2>1. <<"guides">> \notin S
    BY <1>8, PropertyClaims DEF GuideRoster, Clear
  <2>2. D.guides = E.guides
    BY <2>1 DEF Apart, ApartGlobals
  <2>. DEFINE v == FoldGuides(a, D.guides)
  <2>3. Fold(a, D) = [D EXCEPT !.guides = v] /\ Fold(a, E) = [E EXCEPT !.guides = v]
    BY <1>8, <2>2, FoldOfGlobals
  <2>. HIDE DEF v
  <2>4. Apart([D EXCEPT !.guides = v], [E EXCEPT !.guides = v], S)
    BY GuidesAlike
  <2>. QED
    BY <2>3, <2>4
<1>. QED
  BY <1>0, <1>1, <1>2, <1>3, <1>4, <1>5, <1>6, <1>7, <1>8 DEF Kinds

-----------------------------------------------------------------------------
(* What a footprint is like                                                    *)

(* A resource of the layer l other than its existence is among A.              *)
Touches(A, l) == \/ \E t : <<"paint", l, t>> \in A
                 \/ \E p : <<"prop", l, p>> \in A
                 \/ <<"run", l>> \in A

(* Whatever is claimed of a layer, its existence is.                           *)
Closed(A) == \A l \in Id : Touches(A, l) => <<"existence", l>> \in A

(* A union touches the layers its parts do.                                   *)
LEMMA TouchedByUnion ==
  ASSUME NEW A, NEW B, NEW l
  PROVE  Touches(A \cup B, l) <=> Touches(A, l) \/ Touches(B, l)
BY DEF Touches

(* Tiles, properties and runs touch their own layer.                          *)
LEMMA TouchedByCells ==
  ASSUME NEW id, NEW T, NEW l
  PROVE  /\ Touches(Paint(id, T), l) => l = id
         /\ Touches(PropClaim(id, T), l) => l = id
         /\ Touches(LiquifyRun(id), l) => l = id
<1>1. Touches(Paint(id, T), l) => l = id
  BY DEF Touches, Paint
<1>2. Touches(PropClaim(id, T), l) => l = id
  BY DEF Touches, PropClaim
<1>3. Touches(LiquifyRun(id), l) => l = id
  BY DEF Touches, LiquifyRun
<1>. QED
  BY <1>1, <1>2, <1>3

(* No other resource touches a layer.                                         *)
LEMMA TouchedByNothingElse ==
  ASSUME NEW l
  PROVE  /\ \A ids : ~ Touches(Existence(ids), l)
         /\ \A x : ~ Touches(Selection(x), l)
         /\ ~ Touches(StackOrder, l) /\ ~ Touches(Substrate, l) /\ ~ Touches(SubstrateColor, l)
         /\ ~ Touches(GuideRoster, l) /\ ~ Touches({}, l)
<1>1. \A ids : ~ Touches(Existence(ids), l)
  BY DEF Touches, Existence
<1>2. \A x : ~ Touches(Selection(x), l)
  BY DEF Touches, Selection
<1>3. /\ ~ Touches(StackOrder, l) /\ ~ Touches(Substrate, l) /\ ~ Touches(SubstrateColor, l)
      /\ ~ Touches(GuideRoster, l) /\ ~ Touches({}, l)
  BY DEF Touches, StackOrder, Substrate, SubstrateColor, GuideRoster
<1>. QED
  BY <1>1, <1>2, <1>3

(* A layer named is a layer whose existence is claimed.                       *)
LEMMA ExistenceOf ==
  ASSUME NEW ids, NEW l \in Id, l \in ids
  PROVE  <<"existence", l>> \in Existence(ids)
<1>1. l \in ids \ {Root, Top, Bottom}
  BY DEF Id, Root, Top, Bottom
<1>. QED
  BY <1>1 DEF Existence

(* A layer touched by a whole-layer claim has its existence claimed.          *)
LEMMA TouchedByLayerClaim ==
  ASSUME NEW ids, NEW l \in Id, Touches(LayerClaim(ids), l)
  PROVE  <<"existence", l>> \in LayerClaim(ids)
<1>1. PICK r : r \in LayerClaim(ids) /\ (\/ \E t : r = <<"paint", l, t>>
                                        \/ \E p : r = <<"prop", l, p>>
                                        \/ r = <<"run", l>>)
  BY DEF Touches
<1>2. PICK id \in ids : r \in Existence({id}) \cup Paint(id, Tile) \cup LiquifyRun(id)
                                \cup PropClaim(id, Prop)
  BY <1>1 DEF LayerClaim
<1>3. id = l
  BY <1>1, <1>2 DEF Existence, Paint, LiquifyRun, PropClaim
<1>4. <<"existence", l>> \in Existence({id})
  BY <1>3, ExistenceOf
<1>. QED
  BY <1>2, <1>4 DEF LayerClaim

(* The actions that read nothing.                                             *)
LEMMA OtherReads ==
  ASSUME NEW a, a.kind \in {"Select", "RemoveLayer", "SetSubstrate", "SetSubstrateColor", "Guides"}
  PROVE  Reads(a) = {}
BY DEF Reads

(* A footprint whose claims are all of one layer, that its existence is among.  *)
LEMMA ClosedOnOne ==
  ASSUME NEW W, NEW R, NEW id, \A l : Touches(W, l) => l = id, \A l : ~ Touches(R, l),
         Existence({id}) \subseteq R
  PROVE  Closed(W \cup R)
<1>. SUFFICES ASSUME NEW l \in Id, Touches(W \cup R, l) PROVE <<"existence", l>> \in W \cup R
  BY DEF Closed
<1>1. l = id
  BY TouchedByUnion
<1>2. <<"existence", l>> \in Existence({id})
  BY <1>1, ExistenceOf
<1>. QED
  BY <1>2

(* Closedness survives unions.                                                *)
LEMMA ClosedUnion ==
  ASSUME NEW A, NEW B, Closed(A), Closed(B)
  PROVE  Closed(A \cup B)
BY TouchedByUnion DEF Closed

(* A whole-layer claim is closed.                                             *)
LEMMA LayerClaimIsClosed ==
  ASSUME NEW ids
  PROVE  Closed(LayerClaim(ids))
BY TouchedByLayerClaim DEF Closed

(* What touches no layer is closed.                                           *)
LEMMA NothingIsClosed ==
  ASSUME NEW A, \A l : ~ Touches(A, l)
  PROVE  Closed(A)
BY DEF Closed

(* What names no cell of any layer.                                            *)
Quiet(A) == \A l : ~ Touches(A, l)

(* The resources that are no part of a layer's record are quiet.              *)
LEMMA QuietClaims ==
  /\ \A ids : Quiet(Existence(ids))
  /\ \A x : Quiet(Selection(x))
  /\ Quiet(StackOrder) /\ Quiet(Substrate) /\ Quiet(SubstrateColor) /\ Quiet(GuideRoster) /\ Quiet({})
BY TouchedByNothingElse DEF Quiet

(* Quietness survives unions.                                                 *)
LEMMA QuietUnion ==
  ASSUME NEW A, NEW B, Quiet(A), Quiet(B)
  PROVE  Quiet(A \cup B)
BY TouchedByUnion DEF Quiet

(* Every footprint is so (document/footprint.rs).                              *)
LEMMA FootprintIsClosed ==
  ASSUME NEW a, a.kind \in Kinds
  PROVE  Closed(Writes(a) \cup Reads(a))
<1>. DEFINE id == a.layer
            here == Existence({id})
            mask == Selection(a.actor)
            paint == Paint(id, a.tiles)
<1>0. Quiet(here) /\ Quiet(mask) /\ Quiet(Substrate) /\ Quiet({})
  BY QuietClaims
<1>00. \A l : Touches(paint, l) => l = id
  BY TouchedByCells
<1>1. CASE a.kind = "CommitStroke"
  <2>1. Reads(a) = here \cup mask \cup Substrate \cup {} /\ Writes(a) = paint
    BY <1>1, PaintClaims
  <2>2. here \subseteq Reads(a)
    BY <2>1
  <2>. HIDE DEF here, mask, paint
  <2>3. \A l : ~ Touches(Reads(a), l)
    BY <1>0, <2>1, QuietUnion DEF Quiet
  <2>. QED
    BY <1>00, <2>1, <2>2, <2>3, ClosedOnOne DEF here
<1>2. CASE a.kind = "Liquify"
  <2>. DEFINE reach == Paint(id, a.reach)
              run == LiquifyRun(id)
  <2>1. /\ Reads(a) = here \cup mask \cup Substrate \cup (reach \cup run)
        /\ Writes(a) = paint \cup run
    BY <1>2, PaintClaims
  <2>2. \A l : (Touches(reach, l) => l = id) /\ (Touches(run, l) => l = id)
    BY TouchedByCells
  <2>. DEFINE W == paint \cup run \cup reach
              R == here \cup mask \cup Substrate
  <2>3. Writes(a) \cup Reads(a) = W \cup R
    BY <2>1
  <2>4. here \subseteq R
    OBVIOUS
  <2>. HIDE DEF here, mask, paint, reach, run
  <2>5. Quiet(R)
    BY <1>0, QuietUnion
  <2>6. \A l : Touches(W, l) => l = id
    BY <1>00, <2>2, TouchedByUnion
  <2>. HIDE DEF W, R
  <2>7. Closed(W \cup R)
    BY <2>4, <2>5, <2>6, ClosedOnOne DEF here, Quiet
  <2>. QED
    BY <2>3, <2>7
<1>3. CASE a.kind = "Fill"
  <2>1. Reads(a) = here \cup mask /\ Writes(a) = paint
    BY <1>3, PaintClaims
  <2>2. here \subseteq Reads(a)
    BY <2>1
  <2>. HIDE DEF here, mask, paint
  <2>3. \A l : ~ Touches(Reads(a), l)
    BY <1>0, <2>1, QuietUnion DEF Quiet
  <2>. QED
    BY <1>00, <2>1, <2>2, <2>3, ClosedOnOne DEF here
<1>4. CASE a.kind = "Transform"
  <2>1. Reads(a) = here /\ Writes(a) = paint \cup mask
    BY <1>4, PaintClaims
  <2>. HIDE DEF here, mask, paint
  <2>2. \A l : Touches(Writes(a), l) => l = id
    BY <1>0, <1>00, <2>1, TouchedByUnion DEF Quiet
  <2>3. \A l : ~ Touches(Reads(a), l)
    BY <1>0, <2>1 DEF Quiet
  <2>. QED
    BY <2>1, <2>2, <2>3, ClosedOnOne DEF here
<1>5. CASE a.kind \in {"SetProp", "SetMatte"}
  <2>1. PICK ps : Reads(a) = here /\ Writes(a) = PropClaim(id, ps)
    BY <1>5, PropertyClaims
  <2>2. \A l : Touches(PropClaim(id, ps), l) => l = id
    BY TouchedByCells
  <2>. HIDE DEF here
  <2>3. \A l : ~ Touches(Reads(a), l)
    BY <1>0, <2>1 DEF Quiet
  <2>. QED
    BY <2>1, <2>2, <2>3, ClosedOnOne DEF here
<1>6. CASE a.kind = "TranslateLayers"
  <2>1. /\ Reads(a) = Existence(DOMAIN a.moves)
        /\ Writes(a) = UNION {PropClaim(m, {"translation"}) : m \in DOMAIN a.moves}
    BY <1>6, PropertyClaims
  <2>2. ASSUME NEW l \in Id, Touches(Writes(a) \cup Reads(a), l)
        PROVE  <<"existence", l>> \in Writes(a) \cup Reads(a)
    <3>1. ~ Touches(Reads(a), l)
      BY <2>1, TouchedByNothingElse
    <3>2. Touches(Writes(a), l)
      BY <2>2, <3>1, TouchedByUnion
    <3>3. PICK r \in Writes(a) : \/ \E t : r = <<"paint", l, t>>
                                 \/ \E p : r = <<"prop", l, p>>
                                 \/ r = <<"run", l>>
      BY <3>2 DEF Touches
    <3>4. PICK m \in DOMAIN a.moves : r \in PropClaim(m, {"translation"})
      BY <2>1, <3>3
    <3>5. l = m
      BY <3>3, <3>4 DEF PropClaim
    <3>. QED
      BY <2>1, <3>5, ExistenceOf
  <2>. QED
    BY <2>2 DEF Closed
<1>7. CASE a.kind \in {"AddLayer", "PlaceImage"}
  <2>. DEFINE new == LayerClaim({a.layer})
              there == Existence({a.carrier, a.place})
  <2>1. Reads(a) = there /\ Writes(a) = new \cup StackOrder
    BY <1>7, TreeClaims
  <2>2. Closed(new) /\ Quiet(there) /\ Quiet(StackOrder)
    BY LayerClaimIsClosed, QuietClaims
  <2>. HIDE DEF new, there
  <2>. QED
    BY <2>1, <2>2, ClosedUnion, NothingIsClosed DEF Quiet
<1>8. CASE a.kind = "FloatSelection"
  <2>. DEFINE new == LayerClaim({a.layer})
              cut == Paint(a.source, Tile)
              there == Existence({a.source})
  <2>1. Reads(a) = there /\ Writes(a) = cut \cup new \cup mask \cup StackOrder
    BY <1>8, TreeClaims
  <2>2. Closed(new) /\ Quiet(there) /\ Quiet(StackOrder)
    BY LayerClaimIsClosed, QuietClaims
  <2>3. \A l : Touches(cut, l) => l = a.source
    BY TouchedByCells
  <2>4. Closed(cut \cup there)
    BY <2>2, <2>3, ClosedOnOne DEF Quiet
  <2>. HIDE DEF new, cut, there, mask
  <2>5. Closed(mask) /\ Closed(StackOrder)
    BY <1>0, <2>2, NothingIsClosed DEF Quiet
  <2>6. Writes(a) \cup Reads(a) = ((cut \cup there) \cup new) \cup (mask \cup StackOrder)
    BY <2>1
  <2>. QED
    BY <2>2, <2>4, <2>5, <2>6, ClosedUnion
<1>9. CASE a.kind = "DuplicateLayer"
  <2>. DEFINE read == LayerClaim({a.ids[k][1] : k \in DOMAIN a.ids})
              new == LayerClaim({a.ids[k][2] : k \in DOMAIN a.ids})
  <2>1. Reads(a) = read /\ Writes(a) = new \cup StackOrder
    BY <1>9, TreeClaims
  <2>2. Closed(new) /\ Closed(read) /\ Quiet(StackOrder)
    BY LayerClaimIsClosed, QuietClaims
  <2>. HIDE DEF new, read
  <2>. QED
    BY <2>1, <2>2, ClosedUnion, NothingIsClosed DEF Quiet
<1>10. CASE a.kind = "RemoveLayer"
  <2>. DEFINE gone == LayerClaim({a.layer} \cup ToSet(a.carried))
  <2>0. Reads(a) = {}
    BY <1>10, OtherReads
  <2>1. Writes(a) = gone \cup StackOrder
    BY <1>10, TreeClaims
  <2>2. Closed(gone) /\ Quiet(StackOrder) /\ Quiet({})
    BY LayerClaimIsClosed, QuietClaims
  <2>. HIDE DEF gone
  <2>. QED
    BY <2>0, <2>1, <2>2, ClosedUnion, NothingIsClosed DEF Quiet
<1>11. CASE a.kind = "MoveLayer"
  <2>. DEFINE there == Existence({a.layer, a.carrier, a.place})
  <2>1. Reads(a) = there /\ Writes(a) = StackOrder
    BY <1>11, TreeClaims
  <2>2. Quiet(there) /\ Quiet(StackOrder)
    BY QuietClaims
  <2>. HIDE DEF there
  <2>. QED
    BY <2>1, <2>2, QuietUnion, NothingIsClosed DEF Quiet
<1>12. CASE a.kind = "MergeLayerDown"
  <2>. DEFINE both == LayerClaim({a.source, a.dest})
              merged == Existence({a.source, a.dest})
              under == Paint(a.dest, Tile)
              props == PropClaim(a.dest, {"blend", "clip", "opacity"})
  <2>1. Reads(a) = both /\ Writes(a) = merged \cup under \cup props \cup StackOrder
    BY <1>12, TreeClaims
  <2>2. Closed(both) /\ Quiet(merged) /\ Quiet(StackOrder)
    BY LayerClaimIsClosed, QuietClaims
  <2>3. \A l : Touches(under, l) \/ Touches(props, l) => l = a.dest
    BY TouchedByCells
  <2>4. Existence({a.dest}) \subseteq merged
    BY DEF Existence
  <2>. HIDE DEF both, merged, under, props
  <2>. DEFINE W == under \cup props
              R == merged \cup StackOrder
  <2>5. Quiet(R) /\ \A l : Touches(W, l) => l = a.dest
    BY <2>2, <2>3, QuietUnion, TouchedByUnion
  <2>6. Writes(a) \cup Reads(a) = (W \cup R) \cup both /\ Existence({a.dest}) \subseteq R
    BY <2>1, <2>4
  <2>. HIDE DEF W, R
  <2>7. Closed(W \cup R)
    BY <2>5, <2>6, ClosedOnOne DEF Quiet
  <2>. QED
    BY <2>2, <2>6, <2>7, ClosedUnion
<1>13. CASE a.kind \in {"Select", "SetSubstrate", "SetSubstrateColor", "Guides"}
  <2>1. Quiet(Reads(a))
    BY <1>13, OtherReads, QuietClaims
  <2>2. Quiet(Writes(a))
    <3>1. CASE a.kind = "Select"
      BY <1>0, <3>1, PaintClaims
    <3>2. CASE a.kind \in {"SetSubstrate", "SetSubstrateColor", "Guides"}
      BY <3>2, PropertyClaims, QuietClaims
    <3>. QED
      BY <1>13, <3>1, <3>2
  <2>. QED
    BY <2>1, <2>2, QuietUnion, NothingIsClosed DEF Quiet
<1>. QED
  BY <1>1, <1>2, <1>3, <1>4, <1>5, <1>6, <1>7, <1>8, <1>9, <1>10, <1>11, <1>12, <1>13 DEF Kinds

(* Whoever brings or takes a layer declares the order of the stacks.           *)
LEMMA ExistenceIsStructure ==
  ASSUME NEW a, a.kind \in Kinds, NEW l, <<"existence", l>> \in Writes(a)
  PROVE  <<"stack order">> \in Writes(a)
<1>1. CASE a.kind \in {"AddLayer", "PlaceImage", "FloatSelection", "DuplicateLayer", "RemoveLayer",
                       "MoveLayer", "MergeLayerDown"}
  BY <1>1, TreeClaims DEF StackOrder
<1>2. CASE a.kind \in {"CommitStroke", "Liquify", "Fill", "Transform", "Select"}
  <2>1. /\ \A id, T : <<"existence", l>> \notin Paint(id, T)
        /\ \A id : <<"existence", l>> \notin LiquifyRun(id)
        /\ \A x : <<"existence", l>> \notin Selection(x)
    BY DEF Paint, LiquifyRun, Selection
  <2>. DEFINE e == <<"existence", l>>
              p == Paint(a.layer, a.tiles)
              run == LiquifyRun(a.layer)
              sel == Selection(a.actor)
  <2>2. e \notin p /\ e \notin run /\ e \notin sel
    BY <2>1
  <2>3. Writes(a) = p \/ Writes(a) = p \cup run \/ Writes(a) = p \cup sel \/ Writes(a) = sel
    BY <1>2, PaintClaims
  <2>4. e \in Writes(a)
    OBVIOUS
  <2>. HIDE DEF e, p, run, sel
  <2>. QED
    BY <2>2, <2>3, <2>4
<1>3. CASE a.kind \in {"SetProp", "SetMatte", "TranslateLayers"}
  <2>1. \A id, ps : <<"existence", l>> \notin PropClaim(id, ps)
    BY DEF PropClaim
  <2>2. CASE a.kind \in {"SetProp", "SetMatte"}
    <3>1. PICK ps : Writes(a) = PropClaim(a.layer, ps)
      BY <2>2, PropertyClaims
    <3>. QED
      BY <2>1, <3>1
  <2>3. CASE a.kind = "TranslateLayers"
    <3>. DEFINE claim(m) == PropClaim(m, {"translation"})
    <3>1. Writes(a) = UNION {claim(m) : m \in DOMAIN a.moves}
      BY <2>3, PropertyClaims
    <3>2. \A m : <<"existence", l>> \notin claim(m)
      BY <2>1
    <3>. HIDE DEF claim
    <3>3. PICK m \in DOMAIN a.moves : <<"existence", l>> \in claim(m)
      BY <3>1
    <3>. QED
      BY <3>2, <3>3
  <2>. QED
    BY <1>3, <2>2, <2>3
<1>4. CASE a.kind \in {"SetSubstrate", "SetSubstrateColor", "Guides"}
  <2>1. /\ <<"existence", l>> \notin Substrate /\ <<"existence", l>> \notin SubstrateColor
        /\ <<"existence", l>> \notin GuideRoster
    BY DEF Substrate, SubstrateColor, GuideRoster
  <2>. QED
    BY <1>4, <2>1, PropertyClaims
<1>. QED
  BY <1>1, <1>2, <1>3, <1>4 DEF Kinds
-----------------------------------------------------------------------------
(* Taking an action out                                                        *)

(* Two actions that do not conflict: neither writes what the other touches.    *)
LEMMA ClearOfEachOther ==
  ASSUME NEW a, NEW b, ~ Conflicts(a, b)
  PROVE  /\ Clear(b, Writes(a)) /\ Clear(a, Writes(b))
         /\ Writes(b) \cap (Writes(a) \cup Reads(a)) = {}
BY DEF Conflicts, Clear

(* Two records of the layer l that are alike in the resources A.               *)
AlikeCells(x, y, l, A) ==
  /\ \A t \in Tile : <<"paint", l, t>> \in A => x.tiles[t] = y.tiles[t]
  /\ \A p \in Prop : <<"prop", l, p>> \in A => x.prop[p] = y.prop[p]
  /\ <<"run", l>> \in A => x.run = y.run

AlikeWithin(x, y, l, A) ==
  x.kind = y.kind /\ x.number = y.number /\ AlikeCells(x, y, l, A)

GlobalsWithin(D, E, A) ==
  /\ \A x \in Actor : <<"selection", x>> \in A => D.mask[x] = E.mask[x]
  /\ <<"substrate">> \in A => D.substrate = E.substrate
  /\ <<"substrate color">> \in A => D.color = E.color
  /\ <<"guides">> \in A => D.guides = E.guides

(* Two documents that are alike in the resources A.                            *)
Agree(D, E, A) ==
  /\ <<"stack order">> \in A => D.order = E.order /\ D.carrier = E.carrier
  /\ \A l \in Id : <<"existence", l>> \in A =>
       /\ l \in Present(D) <=> l \in Present(E)
       /\ l \in Present(D) => AlikeWithin(D.layer[l], E.layer[l], l, A)
  /\ GlobalsWithin(D, E, A)

(* A document agrees with itself.                                             *)
LEMMA AgreeIsReflexive ==
  ASSUME NEW D, NEW A
  PROVE  Agree(D, D, A)
BY DEF Agree, AlikeWithin, AlikeCells, GlobalsWithin

(* Being alike within a set of resources is transitive.                       *)
LEMMA AlikeTransitive ==
  ASSUME NEW x, NEW y, NEW z, NEW l, NEW A, AlikeWithin(x, y, l, A), AlikeWithin(y, z, l, A)
  PROVE  AlikeWithin(x, z, l, A)
BY DEF AlikeWithin, AlikeCells

(* Agreeing on a set of resources is transitive.                              *)
LEMMA AgreeIsTransitive ==
  ASSUME NEW D, NEW E, NEW F, NEW A, Agree(D, E, A), Agree(E, F, A)
  PROVE  Agree(D, F, A)
<1>1. ASSUME NEW l \in Id, <<"existence", l>> \in A
      PROVE  /\ l \in Present(D) <=> l \in Present(F)
             /\ l \in Present(D) => AlikeWithin(D.layer[l], F.layer[l], l, A)
  <2>1. l \in Present(D) <=> l \in Present(E)
    BY <1>1 DEF Agree
  <2>2. l \in Present(E) <=> l \in Present(F)
    BY <1>1 DEF Agree
  <2>3. ASSUME l \in Present(D) PROVE AlikeWithin(D.layer[l], F.layer[l], l, A)
    <3>1. AlikeWithin(D.layer[l], E.layer[l], l, A) /\ AlikeWithin(E.layer[l], F.layer[l], l, A)
      BY <1>1, <2>1, <2>3 DEF Agree
    <3>. QED
      BY <3>1, AlikeTransitive
  <2>. QED
    BY <2>1, <2>2, <2>3
<1>2. GlobalsWithin(D, F, A)
  BY DEF Agree, GlobalsWithin
<1>3. <<"stack order">> \in A => D.order = F.order /\ D.carrier = F.carrier
  BY DEF Agree
<1>. QED
  BY <1>1, <1>2, <1>3 DEF Agree

(* Whatever a step does not touch stays as it was.                             *)
LEMMA ApartAgree ==
  ASSUME NEW D, Sound(D), NEW E, NEW S, Apart(D, E, S), NEW A, S \cap A = {}
  PROVE  Agree(D, E, A)
<1>1. ASSUME NEW l \in Id, <<"existence", l>> \in A
      PROVE  /\ l \in Present(D) <=> l \in Present(E)
             /\ l \in Present(D) => AlikeWithin(D.layer[l], E.layer[l], l, A)
  <2>1. l \in Present(D) <=> l \in Present(E)
    BY <1>1 DEF Apart
  <2>2. l \in Present(D) => SameRecord(D.layer[l], E.layer[l], l, S)
    BY <2>1 DEF Apart
  <2>. QED
    BY <2>1, <2>2 DEF SameRecord, AlikeWithin, AlikeCells
<1>2. GlobalsWithin(D, E, A)
  BY DEF Apart, ApartGlobals, GlobalsWithin
<1>3. <<"stack order">> \in A => D.order = E.order /\ D.carrier = E.carrier
  BY DEF Apart
<1>. QED
  BY <1>1, <1>2, <1>3 DEF Agree

(* A record is what it was, every resource of the layer being alike.           *)
LEMMA AlikeOnEverything ==
  ASSUME NEW x, LayerSound(x), NEW y, LayerSound(y), NEW l, NEW A, AlikeWithin(x, y, l, A),
         LayerClaim({l}) \subseteq A
  PROVE  x = y
<1>1. /\ \A t \in Tile : <<"paint", l, t>> \in LayerClaim({l})
      /\ \A p \in Prop : <<"prop", l, p>> \in LayerClaim({l})
      /\ <<"run", l>> \in LayerClaim({l})
  BY DEF LayerClaim, Paint, PropClaim, LiquifyRun
<1>2. x.kind = y.kind /\ x.number = y.number /\ x.run = y.run
  BY <1>1 DEF AlikeWithin, AlikeCells
<1>3. x.tiles = y.tiles
  BY <1>1 DEF AlikeWithin, AlikeCells, LayerSound
<1>4. x.prop = y.prop
  BY <1>1 DEF AlikeWithin, AlikeCells, LayerSound
<1>. QED
  BY <1>2, <1>3, <1>4 DEF LayerSound

(* What a document is made of.                                                 *)
LEMMA SameDocument ==
  ASSUME NEW D, Shaped(D), NEW E, Sound(E), D.order = E.order, D.carrier = E.carrier,
         D.layer = [l \in Present(E) |-> D.layer[l]],
         \A l \in Present(E) : D.layer[l] = E.layer[l], SameGlobals(D, E)
  PROVE  D = E
<1>1. D.layer = E.layer
  <2>. DEFINE x == D.layer
              y == E.layer
              S == Present(E)
  <2>1. x = [l \in S |-> x[l]] /\ y = [l \in S |-> y[l]] /\ \A l \in S : x[l] = y[l]
    BY DEF Sound
  <2>. HIDE DEF x, y, S
  <2>2. x = y
    BY <2>1
  <2>. QED
    BY <2>2 DEF x, y
<1>. QED
  BY <1>1 DEF Shaped, Sound, SameGlobals

(* Layers that are gone are put back one after another.                        *)
RestoreSteps(B, taken, previous, f) ==
  /\ f[0] = B
  /\ \A i \in 1..Len(taken) :
       f[i] = RestoreLayer(f[i-1], SiteOf(previous, taken[i]), Subtree(previous, taken[i]))

(* The layers an action brought, and those it took, in composite order.        *)
Brought(writes, previous, doc) ==
  {l \in Present(doc) \ Present(previous) : <<"existence", l>> \in writes}
Lost(writes, previous, doc) ==
  {l \in Present(previous) \ Present(doc) : <<"existence", l>> \in writes}
Taken(writes, previous, doc) == Only(previous.order, Lost(writes, previous, doc))

(* The layers an undo brings back, in the order they had.                     *)
LEMMA TakenOf ==
  ASSUME NEW previous, Sound(previous), NEW writes, NEW doc
  PROVE  /\ Taken(writes, previous, doc) \in Seq(Id) /\ Len(Taken(writes, previous, doc)) \in Nat
         /\ Lost(writes, previous, doc) = {} => Len(Taken(writes, previous, doc)) = 0
<1>. DEFINE s == previous.order
            lost == Lost(writes, previous, doc)
<1>1. s \in Seq(Id)
  BY DEF Sound, OrderSound
<1>. HIDE DEF s, lost
<1>2. Only(s, lost) \in Seq(Id)
  BY <1>1, OnlyElements
<1>3. ASSUME lost = {} PROVE Len(Only(s, lost)) = 0
  <2>1. \A i \in 1..Len(s) : s[i] \notin lost
    BY <1>3
  <2>2. Only(s, lost) = <<>>
    BY <1>1, <2>1, OnlyNone
  <2>. QED
    BY <2>2
<1>4. Taken(writes, previous, doc) = Only(s, lost)
  BY DEF Taken, s, lost
<1>5. Len(Only(s, lost)) \in Nat
  BY <1>2
<1>. QED
  BY <1>2, <1>3, <1>4, <1>5 DEF lost

(* Folding from the left along a sequence is what its recursion says it is.    *)
LEMMA RestoreUnfolds ==
  ASSUME NEW writes, NEW previous, NEW doc, Len(Taken(writes, previous, doc)) \in Nat
  PROVE  \E f : /\ RestoreSteps(Without(doc, UNION {Within(doc, l) : l \in Brought(writes, previous, doc)}),
                                Taken(writes, previous, doc), previous, f)
                /\ RestoreExistence(writes, previous, doc) = f[Len(Taken(writes, previous, doc))]
<1>. DEFINE taken == Taken(writes, previous, doc)
            added == Brought(writes, previous, doc)
            B == Without(doc, UNION {Within(doc, l) : l \in added})
            step(d, i) == RestoreLayer(d, SiteOf(previous, taken[i]), Subtree(previous, taken[i]))
            Good(f, n) == f = [i \in 0..n |-> IF i = 0 THEN B ELSE step(f[i-1], i)]
            N == {n \in Nat : \E f : Good(f, n)}
<1>0. RestoreExistence(writes, previous, doc) = (CHOOSE f : Good(f, Len(taken)))[Len(taken)]
  BY DEF RestoreExistence, Taken, Brought, Lost
<1>. HIDE DEF B, step, taken, added
<1>t. Len(taken) \in Nat
  BY DEF taken
<1>1. 0 \in N
  <2>1. Good([i \in 0..0 |-> B], 0)
    OBVIOUS
  <2>. QED
    BY <2>1
<1>2. ASSUME NEW n \in Nat, n \in N PROVE n + 1 \in N
  <2>1. PICK f : Good(f, n)
    BY <1>2
  <2>. DEFINE next == [i \in 0..n+1 |-> IF i = n + 1 THEN step(f[n], n + 1) ELSE f[i]]
  <2>2. Good(next, n + 1)
    <3>1. ASSUME NEW i \in 0..n+1
          PROVE  next[i] = IF i = 0 THEN B ELSE step(next[i-1], i)
      <4>1. CASE i = n + 1
        <5>1. i - 1 = n /\ n \in 0..n+1 /\ n # n + 1 /\ i # 0
          BY <4>1
        <5>2. next[n] = f[n] /\ next[i] = step(f[n], i)
          BY <4>1, <5>1
        <5>. HIDE DEF next
        <5>. QED
          BY <4>1, <5>1, <5>2
      <4>2. CASE i \in 0..n
        <5>1. next[i] = f[i] /\ (i # 0 => i - 1 \in 0..n /\ next[i-1] = f[i-1])
          BY <4>2
        <5>. HIDE DEF next
        <5>2. f[i] = IF i = 0 THEN B ELSE step(f[i-1], i)
          BY <2>1, <4>2
        <5>. QED
          BY <5>1, <5>2
      <4>. QED
        BY <4>1, <4>2
    <3>. HIDE DEF next
    <3>2. next = [i \in 0..n+1 |-> next[i]]
      BY DEF next
    <3>. QED
      BY <3>1, <3>2
  <2>. HIDE DEF Good, next
  <2>. QED
    BY <2>2
<1>3. \E f : Good(f, Len(taken))
  <2>. HIDE DEF Good
  <2>. QED
    BY <1>t, <1>1, <1>2, Induction
<1>. DEFINE f == CHOOSE f : Good(f, Len(taken))
<1>4. Good(f, Len(taken))
  <2>. HIDE DEF Good
  <2>. QED
    BY <1>3
<1>5. RestoreExistence(writes, previous, doc) = f[Len(taken)]
  BY <1>0
<1>. HIDE DEF f
<1>6. f[0] = B
  BY <1>4
<1>7. ASSUME NEW i \in 1..Len(taken) PROVE f[i] = step(f[i-1], i)
  <2>1. i \in 0..Len(taken) /\ i # 0
    BY <1>t
  <2>. QED
    BY <1>4, <2>1
<1>8. RestoreSteps(B, taken, previous, f)
  BY <1>6, <1>7 DEF RestoreSteps, step
<1>. QED
  BY <1>5, <1>8 DEF B, taken, added

(* A subtree that is gone whole is put back with its first layer, and the      *)
(* layers after it are then there already.                                     *)
LEMMA SubtreeRestored ==
  ASSUME NEW P, Sound(P), NEW x \in Present(P), NEW B, Sound(B),
         Present(B) = Present(P) \ Within(P, x),
         NEW taken, taken = SubtreeIds(P, x), NEW f, RestoreSteps(B, taken, P, f)
  PROVE  \E c : Grafted(B, Subtree(P, x), c, f[Len(taken)])
<1>. DEFINE tree == Subtree(P, x)
            site == SiteOf(P, x)
<1>1. /\ TreeToGraft(tree) /\ Head(tree.order) = x /\ tree.order[1] = x
      /\ ToSet(tree.order) = Within(P, x) /\ Within(P, x) \subseteq Present(P) /\ x \in Within(P, x)
  BY SubtreeIsToGraft, WithinIsWhole
<1>2. /\ Len(taken) \in Nat /\ 1 \in 1..Len(taken) /\ taken[1] = x
      /\ ToSet(taken) = Within(P, x) /\ taken \in Seq(Id)
  BY SubtreeIdsOf, ToSetOf DEF Sound
<1>3. x \notin Present(B) /\ ToSet(tree.order) \cap Present(B) = {}
  BY <1>1
<1>. HIDE DEF tree
<1>4. \E c : Grafted(B, tree, c, f[1])
  <2>1. f[1] = RestoreLayer(B, site, tree)
    BY <1>2 DEF RestoreSteps, tree
  <2>. HIDE DEF site
  <2>2. PICK c, place : MayCarry(B, c) /\ RestoreLayer(B, site, tree) = Graft(B, Slot(B, c, place), tree, c)
    <3>. DEFINE c == IF MayCarry(B, site.carrier) THEN site.carrier ELSE Root
    <3>1. MayCarry(B, c)
      BY DEF MayCarry
    <3>2. \E place : RestoreLayer(B, site, tree) = Graft(B, Slot(B, c, place), tree, c)
      BY <1>1, <1>3 DEF RestoreLayer
    <3>. QED
      BY <3>1, <3>2
  <2>3. /\ Slot(B, c, place) \in 0..Len(B.order)
        /\ c # Root => \E j \in 1..Slot(B, c, place) : B.order[j] = c
    BY <2>2, SlotIsAfterCarrier DEF Sound
  <2>4. Grafted(B, tree, c, Graft(B, Slot(B, c, place), tree, c))
    BY <1>1, <1>3, <2>2, <2>3, GraftIsSound
  <2>. QED
    BY <2>1, <2>2, <2>4
<1>5. PICK c : Grafted(B, tree, c, f[1])
  BY <1>4
<1>6. Within(P, x) \subseteq Present(f[1])
  BY <1>1, <1>5 DEF Grafted
<1>7. \A i \in 1..Len(taken) : f[i] = f[1]
  <2>. DEFINE S == {n \in Nat : n + 1 \in 1..Len(taken) => f[n + 1] = f[1]}
  <2>1. 0 \in S
    OBVIOUS
  <2>2. ASSUME NEW n \in Nat, n \in S PROVE n + 1 \in S
    <3>. SUFFICES ASSUME n + 2 \in 1..Len(taken) PROVE f[n + 2] = f[1]
      OBVIOUS
    <3>1. n + 1 \in 1..Len(taken) /\ n + 2 - 1 = n + 1
      BY <1>2
    <3>2. f[n + 1] = f[1]
      BY <2>2, <3>1
    <3>. DEFINE l == taken[n + 2]
    <3>3. f[n + 2] = RestoreLayer(f[1], SiteOf(P, l), Subtree(P, l))
      BY <3>1, <3>2 DEF RestoreSteps
    <3>4. l \in ToSet(taken)
      BY <1>2, ToSetOf
    <3>. HIDE DEF l
    <3>5. l \in Present(P) /\ l \in Present(f[1])
      BY <1>1, <1>2, <1>6, <3>4
    <3>6. Head(Subtree(P, l).order) = l
      BY <3>5, SubtreeIsToGraft
    <3>. QED
      BY <3>3, <3>5, <3>6 DEF RestoreLayer
  <2>3. Nat \subseteq S
    <3>. HIDE DEF S
    <3>. QED
      BY <2>1, <2>2, Induction
  <2>4. ASSUME NEW i \in 1..Len(taken) PROVE f[i] = f[1]
    <3>1. i - 1 \in Nat /\ (i - 1) + 1 = i
      BY <1>2
    <3>2. i - 1 \in S
      BY <2>3, <3>1
    <3>. QED
      BY <3>1, <3>2
  <2>. QED
    BY <2>4
<1>. QED
  BY <1>2, <1>5, <1>7 DEF tree

(* What a is undone in: P and E are the documents it was folded from and into, *)
(* and between G, which holds its effect, and H, which never did, only what it *)
(* writes differs, while what it touches is in G as in E and in H as in P.     *)
UndoneIn(a, P, E, G, H) ==
  /\ WellFormed(a) /\ Sound(P) /\ Sound(G) /\ Sound(H)
  /\ Change(a, P, E) /\ Apart(G, H, Writes(a))
  /\ Agree(H, P, Writes(a) \cup Reads(a)) /\ Agree(G, E, Writes(a) \cup Reads(a))

(* The layers are H's, each with the record G has of it, or else P's.          *)
Restored(P, G, H, K) ==
  /\ Sound(K) /\ Present(K) = Present(H) /\ SameGlobals(K, G)
  /\ \A l \in Present(H) : K.layer[l] = IF l \in Present(G) THEN G.layer[l] ELSE P.layer[l]

(* An action that leaves the stack order alone brings and takes no layer, and *)
(* neither does its undo.                                                     *)
LEMMA NothingToRestore ==
  ASSUME NEW a, NEW P, NEW E, NEW G, NEW H, UndoneIn(a, P, E, G, H),
         <<"stack order">> \notin Writes(a)
  PROVE  RestoreExistence(Writes(a), P, G) = G /\ Restored(P, G, H, G)
<1>. DEFINE w == Writes(a)
<1>0. Sound(P) /\ Sound(G) /\ Sound(H) /\ a.kind \in Kinds /\ Apart(G, H, w)
  BY DEF UndoneIn, WellFormed
<1>1. \A l : <<"existence", l>> \notin w
  BY <1>0, ExistenceIsStructure
<1>2. G.order = H.order /\ G.carrier = H.carrier /\ Present(G) = Present(H)
  BY <1>0 DEF Apart, Present
<1>. HIDE DEF w
<1>. DEFINE added == Brought(w, P, G)
            taken == Taken(w, P, G)
<1>3. added = {} /\ Lost(w, P, G) = {}
  BY <1>1 DEF Brought, Lost
<1>4. Len(taken) = 0
  BY <1>0, <1>3, TakenOf
<1>. DEFINE gone == UNION {Within(G, l) : l \in added}
<1>5. gone = {}
  BY <1>3
<1>6. PICK f : RestoreSteps(Without(G, gone), taken, P, f) /\ RestoreExistence(w, P, G) = f[Len(taken)]
  <2>1. Len(Taken(w, P, G)) \in Nat
    BY <1>0, TakenOf
  <2>. QED
    BY <2>1, RestoreUnfolds
<1>. HIDE DEF gone, taken, added
<1>7. RestoreExistence(w, P, G) = Without(G, {})
  BY <1>4, <1>5, <1>6 DEF RestoreSteps
<1>8. RestoreExistence(w, P, G) = G
  BY <1>0, <1>7, WithoutNothing
<1>9. Restored(P, G, H, G)
  BY <1>0, <1>2 DEF Restored, SameGlobals
<1>. QED
  BY <1>8, <1>9 DEF w

(* The layers that came are whole, and go; those that went are one subtree,    *)
(* and come back.                                                              *)
LEMMA ExistenceRestored ==
  ASSUME NEW a, NEW P, NEW E, NEW G, NEW H, UndoneIn(a, P, E, G, H),
         <<"stack order">> \in Writes(a)
  PROVE  Restored(P, G, H, RestoreExistence(Writes(a), P, G))
<1>. DEFINE w == Writes(a)
            A == Writes(a) \cup Reads(a)
<1>0. /\ Sound(P) /\ Sound(G) /\ Sound(H) /\ Change(a, P, E) /\ Sound(E) /\ Apart(G, H, w)
      /\ <<"stack order">> \in A /\ Agree(H, P, A) /\ Agree(G, E, A)
  BY DEF UndoneIn, Change
<1>. HIDE DEF A
<1>1. /\ H.order = P.order /\ H.carrier = P.carrier /\ Present(H) = Present(P)
      /\ G.order = E.order /\ G.carrier = E.carrier /\ Present(G) = Present(E)
  BY <1>0 DEF Agree, Present
<1>2. Present(P) \subseteq Id /\ Present(G) \subseteq Id /\ Root \notin Id
  BY <1>0, PresentOf DEF Sound, OrderSound, Id, Root
<1>3. \A l \in (Present(G) \ Present(P)) \cup (Present(P) \ Present(G)) : <<"existence", l>> \in w
  BY <1>0, <1>1, <1>2 DEF Apart
<1>. HIDE DEF w
<1>. DEFINE added == Brought(w, P, G)
            lost == Lost(w, P, G)
            taken == Taken(w, P, G)
            gone == UNION {Within(G, l) : l \in added}
            B == Without(G, gone)
<1>4. added = Present(G) \ Present(P) /\ lost = Present(P) \ Present(G)
  BY <1>3 DEF Brought, Lost
<1>. HIDE DEF added, lost
<1>5. Whole(G, added)
  <2>. SUFFICES ASSUME NEW m \in Present(G), G.carrier[m] \in added, m \notin added PROVE FALSE
    BY DEF Whole
  <2>1. m \in Present(P) \cap Present(E)
    BY <1>1, <1>4
  <2>2. Present(E) # Present(P)
    BY <1>1, <1>4
  <2>3. G.carrier[m] = P.carrier[m]
    BY <1>0, <1>1, <2>1, <2>2 DEF Change
  <2>4. P.carrier[m] = Root \/ P.carrier[m] \in Present(P)
    BY <1>0, <2>1, CarrierOf DEF Sound
  <2>. QED
    BY <1>2, <1>4, <2>3, <2>4
<1>6. gone = added
  <2>1. ASSUME NEW l \in added PROVE l \in Within(G, l) /\ Within(G, l) \subseteq added
    <3>1. l \in Present(G)
      BY <1>4
    <3>2. Len(G.order) \in Nat /\ \A i \in 1..Len(G.order) : G.order[i] \in Present(G)
      BY <1>0, PresentOf DEF Sound, OrderSound
    <3>3. \A i \in 1..Len(G.order) : G.carrier[G.order[i]] \in added => G.order[i] \in added
      BY <1>5, <3>2 DEF Whole
    <3>4. Within(G, l) \subseteq added
      BY <3>2, <3>3, WithinIsLeast
    <3>5. l \in Within(G, l)
      BY <1>0, <3>1, WithinIsWhole
    <3>. QED
      BY <3>4, <3>5
  <2>. QED
    BY <2>1
<1>7. Kept(G, added, B)
  BY <1>0, <1>5, <1>6, WithoutWhole
<1>8. taken \in Seq(Id) /\ Len(taken) \in Nat
  BY <1>0, TakenOf
<1>9. PICK f : RestoreSteps(B, taken, P, f) /\ RestoreExistence(w, P, G) = f[Len(taken)]
  BY <1>8, RestoreUnfolds DEF added
<1>. HIDE DEF gone, B, taken
<1>10. /\ Sound(B) /\ Present(B) = Present(G) \cap Present(P) /\ SameGlobals(B, G)
       /\ \A l \in Present(B) : B.layer[l] = G.layer[l]
  BY <1>4, <1>7 DEF Kept
<1>11. CASE Present(P) \subseteq Present(E)
  <2>1. lost = {}
    BY <1>1, <1>4, <1>11
  <2>2. Len(taken) = 0
    BY <1>0, <2>1, TakenOf DEF taken, lost
  <2>3. RestoreExistence(w, P, G) = B
    BY <1>9, <2>2 DEF RestoreSteps
  <2>4. Present(B) = Present(H)
    BY <1>1, <1>10, <1>11
  <2>5. \A l \in Present(H) : B.layer[l] = IF l \in Present(G) THEN G.layer[l] ELSE P.layer[l]
    BY <1>10, <2>4
  <2>. QED
    BY <1>10, <2>3, <2>4, <2>5 DEF Restored, w
<1>12. CASE ~ (Present(P) \subseteq Present(E))
  <2>1. PICK x \in Present(P) : Present(P) \ Present(E) = Within(P, x)
    BY <1>0, <1>12 DEF Change
  <2>2. lost = Within(P, x)
    BY <1>1, <1>4, <2>1
  <2>3. taken = SubtreeIds(P, x)
    BY <2>2 DEF taken, SubtreeIds, Taken, lost
  <2>4. Present(B) = Present(P) \ Within(P, x)
    BY <1>4, <1>10, <2>2
  <2>. DEFINE K == f[Len(taken)]
              tree == Subtree(P, x)
  <2>5. PICK c : Grafted(B, tree, c, K)
    BY <1>0, <1>9, <1>10, <2>3, <2>4, SubtreeRestored
  <2>6. /\ ToSet(tree.order) = Within(P, x) /\ Within(P, x) \subseteq Present(P)
        /\ \A l \in Within(P, x) : tree.layer[l] = P.layer[l]
    BY <1>0, SubtreeIsToGraft
  <2>. HIDE DEF K, tree
  <2>7. /\ Sound(K) /\ SameGlobals(K, B) /\ Present(K) = Present(B) \cup Within(P, x)
        /\ \A l \in Present(B) : K.layer[l] = B.layer[l]
        /\ \A l \in Within(P, x) : K.layer[l] = P.layer[l]
    BY <2>5, <2>6 DEF Grafted
  <2>8. Present(K) = Present(H)
    BY <1>1, <2>4, <2>6, <2>7
  <2>9. SameGlobals(K, G)
    BY <1>10, <2>7 DEF SameGlobals
  <2>10. ASSUME NEW l \in Present(H)
         PROVE  K.layer[l] = IF l \in Present(G) THEN G.layer[l] ELSE P.layer[l]
    <3>1. CASE l \in Present(G)
      BY <1>1, <1>10, <2>7, <3>1
    <3>2. CASE l \notin Present(G)
      <4>1. l \in Within(P, x)
        BY <1>1, <2>1, <3>2
      <4>. QED
        BY <2>7, <3>2, <4>1
    <3>. QED
      BY <3>1, <3>2
  <2>11. RestoreExistence(w, P, G) = K
    BY <1>9 DEF K
  <2>. QED
    BY <2>7, <2>8, <2>9, <2>10, <2>11 DEF Restored, w
<1>. QED
  BY <1>11, <1>12

(* The resources written are put back in a layer's record.                     *)
Patched(writes, was, id, layer) ==
  [layer EXCEPT
     !.tiles = [t \in Tile |-> IF <<"paint", id, t>> \in writes THEN was.tiles[t] ELSE @[t]],
     !.run   = IF <<"run", id>> \in writes THEN was.run ELSE @,
     !.prop  = [p \in Prop |-> IF <<"prop", id, p>> \in writes THEN was.prop[p] ELSE @[p]]]

(* An undo patches each record that all three documents have.                 *)
LEMMA PatchedInSteps ==
  ASSUME NEW writes, NEW previous, NEW current, NEW doc
  PROVE  RestoreLayers(writes, previous, current, doc) =
           [doc EXCEPT !.layer = [id \in DOMAIN doc.layer |->
              IF id \in Present(previous) \cap Present(current) \cap Present(doc)
              THEN Patched(writes, previous.layer[id], id, doc.layer[id]) ELSE doc.layer[id]]]
BY DEF RestoreLayers, Patched

(* A record that differs in the resources written alone is restored by them.   *)
LEMMA PatchedIsRestored ==
  ASSUME NEW x, LayerSound(x), NEW y, LayerSound(y), NEW was, NEW id, NEW writes,
         SameRecord(x, y, id, writes), AlikeCells(y, was, id, writes)
  PROVE  Patched(writes, was, id, x) = y
<1>. DEFINE new == Patched(writes, was, id, x)
            tiles == [t \in Tile |-> IF <<"paint", id, t>> \in writes THEN was.tiles[t] ELSE x.tiles[t]]
            run == IF <<"run", id>> \in writes THEN was.run ELSE x.run
            prop == [p \in Prop |-> IF <<"prop", id, p>> \in writes THEN was.prop[p] ELSE x.prop[p]]
<1>1. new = [x EXCEPT !.tiles = tiles, !.run = run, !.prop = prop]
  BY DEF Patched
<1>2. tiles = y.tiles
  <2>1. \A t \in Tile : tiles[t] = y.tiles[t]
    BY DEF SameRecord, AlikeCells
  <2>2. tiles = [t \in Tile |-> tiles[t]] /\ y.tiles = [t \in Tile |-> y.tiles[t]]
    BY DEF LayerSound
  <2>. HIDE DEF tiles
  <2>. QED
    BY <2>1, <2>2
<1>3. prop = y.prop
  <2>1. \A p \in Prop : prop[p] = y.prop[p]
    BY DEF SameRecord, AlikeCells
  <2>2. prop = [p \in Prop |-> prop[p]] /\ y.prop = [p \in Prop |-> y.prop[p]]
    BY DEF LayerSound
  <2>. HIDE DEF prop
  <2>. QED
    BY <2>1, <2>2
<1>4. run = y.run
  BY DEF SameRecord, AlikeCells
<1>5. x.kind = y.kind /\ x.number = y.number
  BY DEF SameRecord
<1>. HIDE DEF new, tiles, run, prop
<1>6. new = [kind |-> x.kind, prop |-> prop, tiles |-> tiles, run |-> run, number |-> x.number]
  BY <1>1 DEF LayerSound
<1>. QED
  BY <1>2, <1>3, <1>4, <1>5, <1>6 DEF LayerSound, new

(* Every layer's record is H's again: P's where a wrote, the rest as it stands. *)
LEMMA LayersRestored ==
  ASSUME NEW a, NEW P, NEW E, NEW G, NEW H, UndoneIn(a, P, E, G, H), NEW K, Restored(P, G, H, K),
         NEW L, L = RestoreLayers(Writes(a), P, G, K)
  PROVE  /\ Shaped(L) /\ ShapedAlike(L, K) /\ SameGlobals(L, G)
         /\ L.layer = [l \in Present(H) |-> L.layer[l]]
         /\ \A l \in Present(H) : L.layer[l] = H.layer[l]
<1>. DEFINE w == Writes(a)
            A == Writes(a) \cup Reads(a)
            shared == Present(P) \cap Present(G) \cap Present(K)
            of(id) == IF id \in shared THEN Patched(w, P.layer[id], id, K.layer[id]) ELSE K.layer[id]
<1>0. /\ Sound(P) /\ Sound(G) /\ Sound(H) /\ Change(a, P, E) /\ Sound(E) /\ Apart(G, H, w)
      /\ Agree(H, P, A) /\ Agree(G, E, A) /\ w \subseteq A
  BY DEF UndoneIn, Change
<1>1. Closed(A)
  BY FootprintIsClosed DEF UndoneIn, WellFormed
<1>2. /\ Sound(K) /\ Present(K) = Present(H) /\ SameGlobals(K, G)
      /\ \A l \in Present(H) : K.layer[l] = IF l \in Present(G) THEN G.layer[l] ELSE P.layer[l]
  BY DEF Restored
<1>3. L = [K EXCEPT !.layer = [id \in DOMAIN K.layer |-> of(id)]]
  BY PatchedInSteps
<1>4. /\ \A l \in Present(P) : LayerSound(P.layer[l])
      /\ \A l \in Present(G) : LayerSound(G.layer[l])
      /\ \A l \in Present(H) : LayerSound(H.layer[l])
      /\ Present(H) \subseteq Id
  BY <1>0, PresentOf DEF Sound, OrderSound
<1>. HIDE DEF A, w, shared
<1>5. ASSUME NEW l \in Present(H) PROVE of(l) = H.layer[l]
  <2>0. l \in Id
    BY <1>4
  <2>1. CASE l \in Present(P) /\ l \in Present(G)
    <3>1. of(l) = Patched(w, P.layer[l], l, G.layer[l])
      BY <1>2, <2>1 DEF shared
    <3>2. SameRecord(G.layer[l], H.layer[l], l, w)
      BY <1>0, <2>1 DEF Apart
    <3>3. AlikeCells(H.layer[l], P.layer[l], l, w)
      <4>1. CASE Touches(w, l)
        <5>1. Touches(A, l)
          BY <1>0, <4>1 DEF Touches
        <5>2. <<"existence", l>> \in A
          BY <1>1, <2>0, <5>1 DEF Closed
        <5>3. AlikeWithin(H.layer[l], P.layer[l], l, A)
          BY <1>0, <2>0, <5>2 DEF Agree
        <5>. QED
          BY <1>0, <5>3 DEF AlikeWithin, AlikeCells
      <4>2. CASE ~ Touches(w, l)
        BY <4>2 DEF AlikeCells, Touches
      <4>. QED
        BY <4>1, <4>2
    <3>4. LayerSound(G.layer[l]) /\ LayerSound(H.layer[l])
      BY <1>4, <2>1
    <3>. HIDE DEF of
    <3>. QED
      BY <3>1, <3>2, <3>3, <3>4, PatchedIsRestored
  <2>2. CASE l \notin Present(P) /\ l \in Present(G)
    <3>1. of(l) = G.layer[l]
      BY <1>2, <2>2 DEF shared
    <3>2. SameRecord(G.layer[l], H.layer[l], l, w)
      BY <1>0, <2>2 DEF Apart
    <3>3. <<"existence", l>> \notin A
      BY <1>0, <2>0, <2>2 DEF Agree
    <3>4. ~ Touches(A, l)
      BY <1>1, <2>0, <3>3 DEF Closed
    <3>5. w \cap LayerClaim({l}) = {}
      <4>1. ~ Touches(w, l) /\ <<"existence", l>> \notin w
        BY <1>0, <3>3, <3>4 DEF Touches
      <4>. SUFFICES ASSUME NEW r \in w, r \in LayerClaim({l}) PROVE FALSE
        OBVIOUS
      <4>2. r \in Existence({l}) \cup Paint(l, Tile) \cup LiquifyRun(l) \cup PropClaim(l, Prop)
        BY DEF LayerClaim
      <4>3. r # <<"existence", l>> /\ r # <<"run", l>>
        BY <4>1 DEF Touches
      <4>4. (\A t : r # <<"paint", l, t>>) /\ (\A p : r # <<"prop", l, p>>)
        BY <4>1 DEF Touches
      <4>. QED
        BY <4>2, <4>3, <4>4 DEF Existence, Paint, LiquifyRun, PropClaim
    <3>6. LayerSound(G.layer[l]) /\ LayerSound(H.layer[l])
      BY <1>4, <2>2
    <3>. HIDE DEF of
    <3>. QED
      BY <3>1, <3>2, <3>5, <3>6, SameRecordOnEverything
  <2>3. CASE l \notin Present(G)
    <3>1. of(l) = P.layer[l]
      BY <1>2, <2>3 DEF shared
    <3>2. <<"existence", l>> \in w /\ <<"existence", l>> \in A
      BY <1>0, <2>0, <2>3 DEF Apart
    <3>3. l \in Present(P) /\ AlikeWithin(H.layer[l], P.layer[l], l, A)
      BY <1>0, <2>0, <3>2 DEF Agree
    <3>4. l \notin Present(E)
      BY <1>0, <2>0, <2>3, <3>2 DEF Agree
    <3>5. LayerClaim({l}) \subseteq A
      BY <1>0, <3>3, <3>4 DEF Change, A
    <3>6. LayerSound(P.layer[l]) /\ LayerSound(H.layer[l])
      BY <1>4, <3>3
    <3>. HIDE DEF of
    <3>. QED
      BY <3>1, <3>3, <3>5, <3>6, AlikeOnEverything
  <2>. QED
    BY <2>1, <2>2, <2>3
<1>. HIDE DEF of
<1>6. K.layer = [l \in Present(H) |-> K.layer[l]] /\ Shaped(K)
  BY <1>2 DEF Sound, Shaped
<1>7. DOMAIN K.layer = Present(H)
  BY <1>6
<1>8. /\ L.order = K.order /\ L.carrier = K.carrier /\ L.mask = K.mask /\ L.substrate = K.substrate
      /\ L.color = K.color /\ L.guides = K.guides /\ L.layer = [l \in Present(H) |-> of(l)] /\ Shaped(L)
  BY <1>3, <1>6, <1>7 DEF Shaped
<1>9. L.layer = [l \in Present(H) |-> L.layer[l]] /\ \A l \in Present(H) : L.layer[l] = H.layer[l]
  BY <1>5, <1>8
<1>. QED
  BY <1>2, <1>8, <1>9 DEF ShapedAlike, SameGlobals

(* The tree's shape is P's, of the layers the document holds.                  *)
LEMMA OrderRestored ==
  ASSUME NEW P, Sound(P), NEW L, L.order \in Seq(Id), Present(L) = Present(P)
  PROVE  RestoreStructure(P, L) =
           [L EXCEPT !.order = P.order,
                     !.carrier = [l \in Present(P) |-> P.carrier[l]],
                     !.layer = Restrict(L.layer, Present(P))]
<1>. DEFINE s == P.order
            n == Len(P.order)
            fits(l, t) == l \in Present(L) /\ P.carrier[l] \in ToSet(t) \cup {Root}
            Good(f) == f = [i \in 0..n |-> IF i = 0 THEN <<>>
                              ELSE IF fits(s[i], f[i-1]) THEN Append(f[i-1], s[i]) ELSE f[i-1]]
            f == CHOOSE f : Good(f)
            order == f[n] \o Only(L.order, Present(L) \ Present(P))
            carrier == [l \in ToSet(order) |-> IF l \in Present(P) THEN P.carrier[l] ELSE Root]
<1>1. RestoreStructure(P, L) = [L EXCEPT !.order = order, !.carrier = carrier,
                                         !.layer = Restrict(L.layer, ToSet(order))]
  BY DEF RestoreStructure
<1>2. s \in Seq(Id) /\ n \in Nat /\ DOMAIN s = 1..n
  BY DEF Sound, OrderSound
<1>. DEFINE prefix(i) == SubSeq(s, 1, i)
<1>3. \A i \in 0..n : prefix(i) \in Seq(Id) /\ Len(prefix(i)) = i /\ \A j \in 1..i : prefix(i)[j] = s[j]
  BY <1>2
<1>4. prefix(0) = <<>> /\ prefix(n) = s
  BY <1>2
<1>5. \A i \in 1..n : Append(prefix(i-1), s[i]) = prefix(i)
  BY <1>2
<1>6. \A i \in 1..n : fits(s[i], prefix(i-1))
  <2>1. ASSUME NEW i \in 1..n PROVE fits(s[i], prefix(i-1))
    <3>0. i - 1 \in 0..n
      BY <1>2
    <3>1. s[i] \in Present(L)
      BY <1>2, PresentOf
    <3>2. CASE P.carrier[s[i]] = Root
      BY <3>1, <3>2
    <3>3. CASE \E j \in 1..i - 1 : s[j] = P.carrier[s[i]]
      <4>1. PICK j \in 1..i - 1 : s[j] = P.carrier[s[i]]
        BY <3>3
      <4>2. prefix(i-1)[j] = s[j] /\ prefix(i-1) \in Seq(Id) /\ Len(prefix(i-1)) = i - 1
        BY <1>3, <3>0
      <4>. HIDE DEF prefix
      <4>3. s[j] \in ToSet(prefix(i-1))
        BY <4>2, ToSetOf
      <4>. QED
        BY <3>1, <4>1, <4>3
    <3>. QED
      BY <3>2, <3>3 DEF Sound, OrderSound
  <2>. QED
    BY <2>1
<1>. HIDE DEF prefix, fits, s, n
<1>7. Good([i \in 0..n |-> prefix(i)])
  <2>. DEFINE g == [i \in 0..n |-> prefix(i)]
  <2>1. ASSUME NEW i \in 0..n
        PROVE  g[i] = IF i = 0 THEN <<>>
                      ELSE IF fits(s[i], g[i-1]) THEN Append(g[i-1], s[i]) ELSE g[i-1]
    <3>1. CASE i = 0
      BY <1>4, <3>1
    <3>2. CASE i # 0
      <4>1. i \in 1..n /\ i - 1 \in 0..n /\ g[i] = prefix(i) /\ g[i-1] = prefix(i-1)
        BY <1>2, <3>2
      <4>. HIDE DEF g
      <4>. QED
        BY <1>5, <1>6, <3>2, <4>1
    <3>. QED
      BY <3>1, <3>2
  <2>. QED
    BY <2>1
<1>8. Good(f)
  <2>. HIDE DEF Good
  <2>. QED
    BY <1>7
<1>9. \A i \in 0..n : f[i] = prefix(i)
  <2>. HIDE DEF f
  <2>. DEFINE S == {i \in Nat : i \in 0..n => f[i] = prefix(i)}
  <2>1. 0 \in S
    BY <1>2, <1>4, <1>8
  <2>2. ASSUME NEW i \in Nat, i \in S PROVE i + 1 \in S
    <3>. SUFFICES ASSUME i + 1 \in 0..n PROVE f[i + 1] = prefix(i + 1)
      OBVIOUS
    <3>1. i \in 0..n /\ i + 1 \in 1..n /\ i + 1 # 0 /\ (i + 1) - 1 = i
      BY <1>2
    <3>2. f[i + 1] = IF fits(s[i + 1], f[i]) THEN Append(f[i], s[i + 1]) ELSE f[i]
      BY <1>8, <3>1
    <3>3. f[i] = prefix(i)
      BY <2>2, <3>1
    <3>. QED
      BY <1>5, <1>6, <3>1, <3>2, <3>3
  <2>. HIDE DEF S
  <2>3. Nat \subseteq S
    BY <2>1, <2>2, Induction
  <2>. QED
    BY <1>2, <2>3 DEF S
<1>. HIDE DEF f
<1>10. f[n] = s
  BY <1>2, <1>4, <1>9
<1>11. Only(L.order, Present(L) \ Present(P)) = <<>>
  <2>1. \A i \in 1..Len(L.order) : L.order[i] \notin {}
    OBVIOUS
  <2>2. Present(L) \ Present(P) = {}
    OBVIOUS
  <2>. QED
    BY <2>1, <2>2, OnlyNone
<1>12. order = s
  <2>1. s \o <<>> = s
    BY <1>2
  <2>. QED
    BY <1>10, <1>11, <2>1
<1>. HIDE DEF order
<1>13. ToSet(order) = Present(P)
  BY <1>12 DEF s, Present
<1>14. carrier = [l \in Present(P) |-> P.carrier[l]]
  BY <1>13
<1>. HIDE DEF carrier
<1>. QED
  BY <1>1, <1>12, <1>13, <1>14 DEF s

(* The parts of the document that are not its tree.                            *)
GlobalsBack(writes, previous, doc) ==
  [doc EXCEPT
     !.mask  = [x \in Actor |-> IF <<"selection", x>> \in writes THEN previous.mask[x] ELSE @[x]],
     !.substrate = IF <<"substrate">> \in writes THEN previous.substrate ELSE @,
     !.color = IF <<"substrate color">> \in writes THEN previous.color ELSE @,
     !.guides = IF <<"guides">> \in writes THEN previous.guides ELSE @]

(* An undo restores existence, then the records, then the structure, then the *)
(* globals.                                                                   *)
LEMMA UnapplyInSteps ==
  ASSUME NEW a, NEW P, NEW G, NEW L,
         L = RestoreLayers(Writes(a), P, G, RestoreExistence(Writes(a), P, G))
  PROVE  Unapply(a, P, G) = GlobalsBack(Writes(a), P, IF <<"stack order">> \in Writes(a)
                                                       THEN RestoreStructure(P, L) ELSE L)
BY DEF Unapply, GlobalsBack

(* The globals an action declares are put back, and with them the document is *)
(* whole.                                                                     *)
LEMMA GlobalsRestored ==
  ASSUME NEW a, NEW P, NEW E, NEW G, NEW H, UndoneIn(a, P, E, G, H),
         NEW T, Shaped(T), T.order = H.order, T.carrier = H.carrier,
         T.layer = [l \in Present(H) |-> T.layer[l]],
         \A l \in Present(H) : T.layer[l] = H.layer[l], SameGlobals(T, G)
  PROVE  GlobalsBack(Writes(a), P, T) = H
<1>. DEFINE w == Writes(a)
            A == Writes(a) \cup Reads(a)
            new == GlobalsBack(w, P, T)
<1>0. Sound(H) /\ GlobalsWithin(H, P, A) /\ ApartGlobals(G, H, w) /\ w \subseteq A
  BY DEF UndoneIn, Apart, Agree
<1>. HIDE DEF w, A
<1>1. /\ Shaped(new) /\ new.order = T.order /\ new.carrier = T.carrier /\ new.layer = T.layer
      /\ new.mask = [x \in Actor |-> IF <<"selection", x>> \in w THEN P.mask[x] ELSE T.mask[x]]
      /\ new.substrate = IF <<"substrate">> \in w THEN P.substrate ELSE T.substrate
      /\ new.color = IF <<"substrate color">> \in w THEN P.color ELSE T.color
      /\ new.guides = IF <<"guides">> \in w THEN P.guides ELSE T.guides
  <2>. DEFINE m == [x \in Actor |-> IF <<"selection", x>> \in w THEN P.mask[x] ELSE T.mask[x]]
              s == IF <<"substrate">> \in w THEN P.substrate ELSE T.substrate
              c == IF <<"substrate color">> \in w THEN P.color ELSE T.color
              g == IF <<"guides">> \in w THEN P.guides ELSE T.guides
  <2>1. new = [T EXCEPT !.mask = m, !.substrate = s, !.color = c, !.guides = g]
    BY DEF GlobalsBack
  <2>. HIDE DEF new, m, s, c, g
  <2>2. /\ Shaped(new) /\ new.order = T.order /\ new.carrier = T.carrier /\ new.layer = T.layer
        /\ new.mask = m /\ new.substrate = s /\ new.color = c /\ new.guides = g
    BY <2>1 DEF Shaped
  <2>. QED
    BY <2>2 DEF m, s, c, g
<1>. HIDE DEF new
<1>2. new.mask = H.mask
  <2>. DEFINE x1 == new.mask
              y1 == H.mask
  <2>1. ASSUME NEW x \in Actor PROVE x1[x] = y1[x]
    <3>1. x1[x] = IF <<"selection", x>> \in w THEN P.mask[x] ELSE T.mask[x]
      BY <1>1
    <3>2. T.mask[x] = G.mask[x]
      BY DEF SameGlobals
    <3>. HIDE DEF x1
    <3>. QED
      BY <1>0, <3>1, <3>2 DEF GlobalsWithin, ApartGlobals
  <2>2. x1 = [x \in Actor |-> x1[x]] /\ y1 = [x \in Actor |-> y1[x]]
    BY <1>0, <1>1 DEF Sound
  <2>. HIDE DEF x1, y1
  <2>3. x1 = y1
    BY <2>1, <2>2
  <2>. QED
    BY <2>3 DEF x1, y1
<1>3. new.substrate = H.substrate /\ new.color = H.color /\ new.guides = H.guides
  BY <1>0, <1>1 DEF GlobalsWithin, ApartGlobals, SameGlobals
<1>4. SameGlobals(new, H)
  BY <1>2, <1>3 DEF SameGlobals
<1>5. new = H
  BY <1>0, <1>1, <1>4, SameDocument
<1>. QED
  BY <1>5 DEF new, w

(* Undoing an action past others that commute with it leaves the document as   *)
(* it would be had it never been folded (patch.rs).                            *)
LEMMA UndoRestores ==
  ASSUME NEW a, NEW P, NEW E, NEW G, NEW H, UndoneIn(a, P, E, G, H)
  PROVE  Unapply(a, P, G) = H
<1>. DEFINE w == Writes(a)
            K == RestoreExistence(w, P, G)
            L == RestoreLayers(w, P, G, K)
            T == IF <<"stack order">> \in w THEN RestoreStructure(P, L) ELSE L
<1>1. Unapply(a, P, G) = GlobalsBack(w, P, T)
  BY UnapplyInSteps
<1>2. Restored(P, G, H, K)
  <2>1. CASE <<"stack order">> \in w
    BY <2>1, ExistenceRestored
  <2>2. CASE <<"stack order">> \notin w
    <3>1. RestoreExistence(Writes(a), P, G) = G /\ Restored(P, G, H, G)
      BY <2>2, NothingToRestore
    <3>. QED
      BY <3>1
  <2>. QED
    BY <2>1, <2>2
<1>. HIDE DEF K
<1>3. /\ Shaped(L) /\ ShapedAlike(L, K) /\ SameGlobals(L, G)
      /\ L.layer = [l \in Present(H) |-> L.layer[l]]
      /\ \A l \in Present(H) : L.layer[l] = H.layer[l]
  BY <1>2, LayersRestored
<1>. HIDE DEF L
<1>4. Sound(P) /\ Sound(H) /\ Sound(K) /\ Present(K) = Present(H)
  BY <1>2 DEF UndoneIn, Restored
<1>5. /\ Shaped(T) /\ T.order = H.order /\ T.carrier = H.carrier /\ SameGlobals(T, G)
      /\ T.layer = [l \in Present(H) |-> T.layer[l]]
      /\ \A l \in Present(H) : T.layer[l] = H.layer[l]
  <2>1. CASE <<"stack order">> \in w
    <3>1. H.order = P.order /\ H.carrier = P.carrier /\ Present(H) = Present(P)
      BY <2>1 DEF UndoneIn, Agree, Present
    <3>2. L.order \in Seq(Id) /\ Present(L) = Present(P)
      BY <1>3, <1>4, <3>1 DEF ShapedAlike, Sound, OrderSound, Present
    <3>3. RestoreStructure(P, L) =
            [L EXCEPT !.order = P.order,
                      !.carrier = [l \in Present(P) |-> P.carrier[l]],
                      !.layer = Restrict(L.layer, Present(P))]
      BY <1>4, <3>2, OrderRestored
    <3>4. Restrict(L.layer, Present(P)) = L.layer
      BY <1>3, <3>1 DEF Restrict
    <3>5. [l \in Present(P) |-> P.carrier[l]] = H.carrier
      BY <1>4, <3>1 DEF Sound
    <3>6. T = [L EXCEPT !.order = H.order, !.carrier = H.carrier, !.layer = L.layer]
      BY <2>1, <3>1, <3>3, <3>4, <3>5
    <3>. HIDE DEF T
    <3>7. /\ Shaped(T) /\ T.order = H.order /\ T.carrier = H.carrier /\ T.layer = L.layer
          /\ T.mask = L.mask /\ T.substrate = L.substrate /\ T.color = L.color /\ T.guides = L.guides
      BY <1>3, <3>6 DEF Shaped
    <3>. QED
      BY <1>3, <3>7 DEF SameGlobals
  <2>2. CASE <<"stack order">> \notin w
    <3>1. K = G
      BY <2>2, NothingToRestore DEF K
    <3>2. G.order = H.order /\ G.carrier = H.carrier
      BY <2>2 DEF UndoneIn, Apart
    <3>. QED
      BY <1>3, <2>2, <3>1, <3>2 DEF ShapedAlike
  <2>. QED
    BY <2>1, <2>2
<1>. HIDE DEF T, w
<1>6. GlobalsBack(Writes(a), P, T) = H
  BY <1>5, GlobalsRestored
<1>. QED
  BY <1>1, <1>6 DEF w

(* Undone at once, an action leaves no trace, whatever it was.                 *)
LEMMA FoldIsUndone ==
  ASSUME NEW a, WellFormed(a), NEW doc, Sound(doc)
  PROVE  Unapply(a, doc, Fold(a, doc)) = doc
<1>. DEFINE E == Fold(a, doc)
<1>1. Change(a, doc, E) /\ Sound(E) /\ Apart(E, doc, Writes(a))
  BY FoldChanges DEF Change
<1>. HIDE DEF E
<1>2. UndoneIn(a, doc, E, E, doc)
  BY <1>1, AgreeIsReflexive DEF UndoneIn
<1>3. Unapply(a, doc, E) = doc
  BY <1>2, UndoRestores
<1>. QED
  BY <1>3 DEF E

(* Folding an action that does not conflict, with the effect of a and without, *)
(* keeps the two documents what a can be undone in.                            *)
LEMMA UndonePast ==
  ASSUME NEW a, NEW P, NEW E, NEW G, NEW H, UndoneIn(a, P, E, G, H),
         NEW b, WellFormed(b), ~ Conflicts(a, b)
  PROVE  UndoneIn(a, P, E, Fold(b, G), Fold(b, H))
<1>. DEFINE w == Writes(a)
            A == Writes(a) \cup Reads(a)
            G1 == Fold(b, G)
            H1 == Fold(b, H)
<1>0. /\ Sound(G) /\ Sound(H) /\ Apart(G, H, w) /\ Agree(H, P, A) /\ Agree(G, E, A)
  BY DEF UndoneIn
<1>1. Clear(b, w) /\ Writes(b) \cap A = {}
  BY ClearOfEachOther
<1>2. /\ Sound(G1) /\ Apart(G1, G, Writes(b)) /\ Sound(H1) /\ Apart(H1, H, Writes(b))
  BY <1>0, FoldChanges DEF Change
<1>. HIDE DEF A, w
<1>3. Apart(G1, H1, w)
  BY <1>0, <1>1, FoldsAlike
<1>. HIDE DEF G1, H1
<1>4. Agree(G1, G, A) /\ Agree(H1, H, A)
  BY <1>1, <1>2, ApartAgree
<1>5. Agree(G1, E, A) /\ Agree(H1, P, A)
  BY <1>0, <1>4, AgreeIsTransitive
<1>. QED
  BY <1>2, <1>3, <1>5 DEF UndoneIn, w, A, G1, H1

(* Two documents reached from two others, by what a writes from the one and by *)
(* what b writes from the other, are the same.                                 *)
LEMMA MeetingAlike ==
  ASSUME NEW a, NEW b, ~ Conflicts(a, b), a.kind \in Kinds, b.kind \in Kinds,
         NEW X, Sound(X), NEW Y, Sound(Y), NEW M, NEW N,
         Apart(X, M, Writes(a)), Apart(Y, M, Writes(a)), Apart(X, N, Writes(b)), Apart(Y, N, Writes(b))
  PROVE  X = Y
<1>. DEFINE v == Writes(a)
            w == Writes(b)
            A == Writes(a) \cup Reads(a)
            B == Writes(b) \cup Reads(b)
<1>1. v \cap B = {} /\ w \cap A = {} /\ v \subseteq A /\ w \subseteq B
  BY DEF Conflicts
<1>2. Closed(A) /\ Closed(B)
  BY FootprintIsClosed
<1>. HIDE DEF v, w, A, B
<1>3. X.order = Y.order /\ X.carrier = Y.carrier
  <2>1. CASE <<"stack order">> \notin v
    BY <2>1 DEF Apart, v
  <2>2. CASE <<"stack order">> \notin w
    BY <2>2 DEF Apart, w
  <2>. QED
    BY <1>1, <2>1, <2>2
<1>4. Present(X) = Present(Y) /\ Present(X) \subseteq Id
  BY <1>3, PresentOf DEF Present, Sound, OrderSound
<1>5. ASSUME NEW l \in Present(X) PROVE X.layer[l] = Y.layer[l]
  <2>. DEFINE x == X.layer[l]
              y == Y.layer[l]
  <2>0. LayerSound(x) /\ LayerSound(y) /\ l \in Id /\ l \in Present(Y)
    BY <1>4 DEF Sound
  <2>1. l \in Present(M) =>
          SameRecord(x, M.layer[l], l, v) /\ SameRecord(y, M.layer[l], l, v)
    BY <2>0 DEF Apart, v
  <2>2. l \in Present(N) =>
          SameRecord(x, N.layer[l], l, w) /\ SameRecord(y, N.layer[l], l, w)
    BY <2>0 DEF Apart, w
  <2>3. <<"existence", l>> \notin v => l \in Present(M)
    BY <2>0 DEF Apart, v
  <2>4. <<"existence", l>> \notin w => l \in Present(N)
    BY <2>0 DEF Apart, w
  <2>. HIDE DEF x, y
  <2>5. l \in Present(M) => SameRecord(x, y, l, v)
    BY <2>1 DEF SameRecord
  <2>6. l \in Present(N) => SameRecord(x, y, l, w)
    BY <2>2 DEF SameRecord
  <2>7. <<"existence", l>> \in v => ~ Touches(w, l) /\ l \in Present(N)
    <3>. SUFFICES ASSUME <<"existence", l>> \in v PROVE ~ Touches(w, l) /\ l \in Present(N)
      OBVIOUS
    <3>1. <<"existence", l>> \notin B /\ <<"existence", l>> \notin w
      BY <1>1
    <3>2. ~ Touches(B, l)
      BY <1>2, <2>0, <3>1 DEF Closed
    <3>3. ~ Touches(w, l)
      BY <1>1, <3>2 DEF Touches
    <3>. QED
      BY <2>4, <3>1, <3>3
  <2>8. <<"existence", l>> \in w => ~ Touches(v, l) /\ l \in Present(M)
    <3>. SUFFICES ASSUME <<"existence", l>> \in w PROVE ~ Touches(v, l) /\ l \in Present(M)
      OBVIOUS
    <3>1. <<"existence", l>> \notin A /\ <<"existence", l>> \notin v
      BY <1>1
    <3>2. ~ Touches(A, l)
      BY <1>2, <2>0, <3>1 DEF Closed
    <3>3. ~ Touches(v, l)
      BY <1>1, <3>2 DEF Touches
    <3>. QED
      BY <2>3, <3>1, <3>3
  <2>9. SameRecord(x, y, l, {})
    <3>1. CASE <<"existence", l>> \in v
      BY <2>6, <2>7, <3>1 DEF SameRecord, Touches
    <3>2. CASE <<"existence", l>> \in w
      BY <2>5, <2>8, <3>2 DEF SameRecord, Touches
    <3>3. CASE <<"existence", l>> \notin v /\ <<"existence", l>> \notin w
      <4>1. SameRecord(x, y, l, v) /\ SameRecord(x, y, l, w)
        BY <2>3, <2>4, <2>5, <2>6, <3>3
      <4>2. v \cap w = {}
        BY <1>1
      <4>. QED
        BY <4>1, <4>2 DEF SameRecord
    <3>. QED
      BY <3>1, <3>2, <3>3
  <2>10. x = y
    BY <2>0, <2>9, SameRecordOnEverything
  <2>. QED
    BY <2>10 DEF x, y
<1>6. SameGlobals(X, Y)
  <2>1. ApartGlobals(X, M, v) /\ ApartGlobals(Y, M, v) /\ ApartGlobals(X, N, w) /\ ApartGlobals(Y, N, w)
    BY DEF Apart, v, w
  <2>2. v \cap w = {}
    BY <1>1
  <2>3. X.mask = Y.mask
    <3>. DEFINE x1 == X.mask
                y1 == Y.mask
    <3>1. \A i \in Actor : x1[i] = y1[i]
      BY <2>1, <2>2 DEF ApartGlobals
    <3>2. x1 = [i \in Actor |-> x1[i]] /\ y1 = [i \in Actor |-> y1[i]]
      BY DEF Sound
    <3>. HIDE DEF x1, y1
    <3>3. x1 = y1
      BY <3>1, <3>2
    <3>. QED
      BY <3>3 DEF x1, y1
  <2>4. X.substrate = Y.substrate /\ X.color = Y.color /\ X.guides = Y.guides
    BY <2>1, <2>2 DEF ApartGlobals
  <2>. QED
    BY <2>3, <2>4 DEF SameGlobals
<1>7. Shaped(X) /\ X.layer = [l \in Present(Y) |-> X.layer[l]]
  BY <1>4 DEF Sound, Shaped
<1>. QED
  BY <1>3, <1>4, <1>5, <1>6, <1>7, SameDocument

(* Actions that do not conflict fold alike in either order (footprint.rs).     *)
LEMMA FoldsCommute ==
  ASSUME NEW a, WellFormed(a), NEW b, WellFormed(b), ~ Conflicts(a, b), NEW doc, Sound(doc)
  PROVE  Fold(a, Fold(b, doc)) = Fold(b, Fold(a, doc))
<1>. DEFINE M == Fold(b, doc)
            N == Fold(a, doc)
            X == Fold(a, M)
            Y == Fold(b, N)
<1>1. /\ Sound(M) /\ Apart(M, doc, Writes(b)) /\ Sound(N) /\ Apart(N, doc, Writes(a))
  BY FoldChanges DEF Change
<1>2. Clear(b, Writes(a)) /\ Clear(a, Writes(b))
  BY ClearOfEachOther
<1>3. Apart(Y, M, Writes(a))
  BY <1>1, <1>2, FoldsAlike
<1>4. Apart(X, N, Writes(b))
  BY <1>1, <1>2, FoldsAlike
<1>. HIDE DEF M, N
<1>5. /\ Sound(X) /\ Apart(X, M, Writes(a)) /\ Sound(Y) /\ Apart(Y, N, Writes(b))
  BY <1>1, FoldChanges DEF Change
<1>. HIDE DEF X, Y
<1>6. X = Y
  BY <1>3, <1>4, <1>5, MeetingAlike DEF WellFormed
<1>. QED
  BY <1>6 DEF X, Y, M, N

(* What differs is what a document is apart in.                                *)
LEMMA DifferencesAreApart ==
  ASSUME NEW D, Sound(D), NEW E, Sound(E), NEW S, Apart(E, D, S)
  PROVE  Differences(D, E) \subseteq S
<1>. DEFINE b == Present(D)
            c == Present(E)
            lost == Existence((b \ c) \cup (c \ b))
            layers == UNION {LayerDifferences(D, E, id) : id \in b \cap c}
            stacks == IF D.order # E.order \/ D.carrier # E.carrier THEN StackOrder ELSE {}
            masks == UNION {Selection(x) : x \in {y \in Actor : D.mask[y] # E.mask[y]}}
            papers == IF D.substrate # E.substrate THEN Substrate ELSE {}
            colors == IF D.color # E.color THEN SubstrateColor ELSE {}
            guides == IF D.guides # E.guides THEN GuideRoster ELSE {}
<1>1. Differences(D, E) = lost \cup layers \cup stacks \cup masks \cup papers \cup colors \cup guides
  BY Zenon DEF Differences
<1>2. stacks \subseteq S
  BY DEF Apart, StackOrder
<1>3. lost \subseteq S
  <2>1. ASSUME NEW l \in (b \ c) \cup (c \ b) PROVE <<"existence", l>> \in S
    <3>1. l \in Id
      BY PresentOf DEF Sound, OrderSound
    <3>. QED
      BY <3>1 DEF Apart
  <2>. HIDE DEF b, c
  <2>. QED
    BY <2>1 DEF Existence
<1>4. layers \subseteq S
  <2>1. ASSUME NEW l \in b \cap c PROVE LayerDifferences(D, E, l) \subseteq S
    <3>. DEFINE x == D.layer[l]
                y == E.layer[l]
                paint == {<<"paint", l, t>> : t \in {u \in Tile : x.tiles[u] # y.tiles[u]}}
                props == {<<"prop", l, p>> : p \in {q \in Prop : x.prop[q] # y.prop[q]}}
                run == IF x.run # y.run THEN LiquifyRun(l) ELSE {}
    <3>1. SameRecord(y, x, l, S)
      BY DEF Apart
    <3>2. LayerDifferences(D, E, l) = paint \cup props \cup run
      BY Zenon DEF LayerDifferences
    <3>. HIDE DEF x, y
    <3>3. paint \subseteq S /\ props \subseteq S /\ run \subseteq S
      BY <3>1 DEF SameRecord, LiquifyRun
    <3>. HIDE DEF paint, props, run
    <3>. QED
      BY <3>2, <3>3
  <2>. DEFINE of(l) == LayerDifferences(D, E, l)
  <2>2. \A l \in b \cap c : of(l) \subseteq S
    BY <2>1
  <2>. HIDE DEF b, c, of
  <2>3. UNION {of(l) : l \in b \cap c} \subseteq S
    BY <2>2
  <2>. QED
    BY <2>3 DEF of
<1>5. masks \subseteq S
  <2>1. ASSUME NEW x \in Actor, D.mask[x] # E.mask[x] PROVE <<"selection", x>> \in S
    BY <2>1 DEF Apart, ApartGlobals
  <2>. QED
    BY <2>1 DEF Selection
<1>6. papers \subseteq S /\ colors \subseteq S /\ guides \subseteq S
  BY DEF Apart, ApartGlobals, Substrate, SubstrateColor, GuideRoster
<1>. HIDE DEF lost, layers, stacks, masks, papers, colors, guides
<1>. QED
  BY <1>1, <1>2, <1>3, <1>4, <1>5, <1>6

-----------------------------------------------------------------------------
(* The history                                                                 *)

IsSeq(s) == \E X : s \in Seq(X)

(* The snapshots of a replay: sound documents, each folded from the one before. *)
Folded(base, acted, r) ==
  /\ IsSeq(r) /\ Len(r) = Len(acted) + 1 /\ r[1] = base
  /\ \A i \in 1..Len(acted) : r[i + 1] = Fold(acted[i], r[i])

(* A replay folds each action over the document before it.                    *)
LEMMA ReplayFolds ==
  ASSUME NEW base, NEW acted, Len(acted) \in Nat
  PROVE  Folded(base, acted, Replay(base, acted))
<1>. DEFINE Good(at, n) == at = [i \in 0..n |-> IF i = 0 THEN base ELSE Fold(acted[i], at[i-1])]
            S == {n \in Nat : \E at : Good(at, n)}
<1>1. 0 \in S
  <2>1. Good([i \in 0..0 |-> base], 0)
    OBVIOUS
  <2>. QED
    BY <2>1
<1>2. ASSUME NEW n \in Nat, n \in S PROVE n + 1 \in S
  <2>1. PICK at : Good(at, n)
    BY <1>2
  <2>. DEFINE next == [i \in 0..n+1 |-> IF i = n + 1 THEN Fold(acted[n + 1], at[n]) ELSE at[i]]
  <2>2. Good(next, n + 1)
    <3>1. ASSUME NEW i \in 0..n+1
          PROVE  next[i] = IF i = 0 THEN base ELSE Fold(acted[i], next[i-1])
      <4>1. CASE i = n + 1
        <5>1. i - 1 = n /\ n \in 0..n+1 /\ n # n + 1 /\ i # 0
          BY <4>1
        <5>2. next[n] = at[n] /\ next[i] = Fold(acted[i], at[n])
          BY <4>1, <5>1
        <5>. HIDE DEF next
        <5>. QED
          BY <4>1, <5>1, <5>2
      <4>2. CASE i \in 0..n
        <5>1. next[i] = at[i] /\ (i # 0 => i - 1 \in 0..n /\ next[i-1] = at[i-1])
          BY <4>2
        <5>. HIDE DEF next
        <5>2. at[i] = IF i = 0 THEN base ELSE Fold(acted[i], at[i-1])
          BY <2>1, <4>2
        <5>. QED
          BY <5>1, <5>2
      <4>. QED
        BY <4>1, <4>2
    <3>. HIDE DEF next
    <3>2. next = [i \in 0..n+1 |-> next[i]]
      BY DEF next
    <3>. QED
      BY <3>1, <3>2
  <2>. HIDE DEF Good, next
  <2>. QED
    BY <2>2
<1>3. \E at : Good(at, Len(acted))
  <2>. HIDE DEF Good
  <2>. QED
    BY <1>1, <1>2, Induction
<1>. DEFINE at == CHOOSE at : Good(at, Len(acted))
<1>4. Good(at, Len(acted))
  <2>. HIDE DEF Good
  <2>. QED
    BY <1>3
<1>. DEFINE r == Replay(base, acted)
            n == Len(acted) + 1
<1>5. r = [i \in 1..n |-> at[i - 1]]
  BY DEF Replay
<1>. HIDE DEF at, r
<1>6. at[0] = base
  BY <1>4
<1>7. ASSUME NEW i \in 1..Len(acted) PROVE at[i] = Fold(acted[i], at[i - 1])
  <2>1. i \in 0..Len(acted) /\ i # 0
    OBVIOUS
  <2>. QED
    BY <1>4, <2>1
<1>8. n \in Nat /\ n = Len(acted) + 1
  OBVIOUS
<1>. HIDE DEF n
<1>9. r \in Seq({at[i - 1] : i \in 1..n}) /\ Len(r) = n
  BY <1>5, <1>8
<1>10. r[1] = base
  <2>1. 1 \in 1..n /\ 1 - 1 = 0
    BY <1>8
  <2>. QED
    BY <1>5, <1>6, <2>1
<1>11. ASSUME NEW i \in 1..Len(acted) PROVE r[i + 1] = Fold(acted[i], r[i])
  <2>1. i \in 1..n /\ i + 1 \in 1..n /\ (i + 1) - 1 = i
    BY <1>8
  <2>2. r[i] = at[i - 1] /\ r[i + 1] = at[i]
    BY <1>5, <2>1
  <2>. QED
    BY <1>7, <2>2
<1>. QED
  BY <1>8, <1>9, <1>10, <1>11 DEF Folded, IsSeq, r

(* Actions that are well formed fold sound documents into sound ones.          *)
Sane(acted) == IsSeq(acted) /\ \A i \in 1..Len(acted) : WellFormed(acted[i])
AllSound(ds) == \A i \in 1..Len(ds) : Sound(ds[i])

(* Well-formed actions fold sound documents into sound ones.                  *)
LEMMA FoldedIsSound ==
  ASSUME NEW acted, Sane(acted), NEW base, Sound(base), NEW r, Folded(base, acted, r)
  PROVE  AllSound(r)
<1>1. Len(acted) \in Nat /\ Len(r) = Len(acted) + 1
  BY DEF Sane, IsSeq, Folded
<1>. DEFINE S == {n \in Nat : n + 1 \in 1..Len(r) => Sound(r[n + 1])}
<1>2. 0 \in S
  BY DEF Folded
<1>3. ASSUME NEW n \in Nat, n \in S PROVE n + 1 \in S
  <2>. SUFFICES ASSUME n + 2 \in 1..Len(r) PROVE Sound(r[n + 2])
    OBVIOUS
  <2>1. n + 1 \in 1..Len(acted) /\ n + 1 \in 1..Len(r) /\ (n + 1) + 1 = n + 2
    BY <1>1
  <2>2. r[n + 2] = Fold(acted[n + 1], r[n + 1]) /\ WellFormed(acted[n + 1])
    BY <2>1 DEF Folded, Sane
  <2>3. Sound(r[n + 1])
    BY <1>3, <2>1
  <2>. QED
    BY <2>2, <2>3, FoldChanges DEF Change
<1>4. Nat \subseteq S
  <2>. HIDE DEF S
  <2>. QED
    BY <1>2, <1>3, Induction
<1>5. ASSUME NEW i \in 1..Len(r) PROVE Sound(r[i])
  <2>1. i - 1 \in Nat /\ (i - 1) + 1 = i
    BY <1>1
  <2>2. i - 1 \in S
    BY <1>4, <2>1
  <2>. QED
    BY <2>1, <2>2
<1>. QED
  BY <1>5 DEF AllSound

(* Parts of sequences.                                                         *)
Joined(s, t, u) ==
  /\ IsSeq(u) /\ Len(s) \in Nat /\ Len(t) \in Nat /\ Len(u) = Len(s) + Len(t)
  /\ \A i \in 1..Len(s) : u[i] = s[i]
  /\ \A i \in 1..Len(t) : u[Len(s) + i] = t[i]

(* One sequence after another.                                                *)
LEMMA JoinedOf ==
  ASSUME NEW s, IsSeq(s), NEW t, IsSeq(t)
  PROVE  Joined(s, t, s \o t)
<1>1. PICK X : s \in Seq(X)
  BY DEF IsSeq
<1>2. PICK Y : t \in Seq(Y)
  BY DEF IsSeq
<1>. DEFINE Z == X \cup Y
<1>3. s \in Seq(Z) /\ t \in Seq(Z)
  BY <1>1, <1>2
<1>. HIDE DEF Z
<1>4. s \o t \in Seq(Z)
  BY <1>3
<1>5. /\ Len(s) \in Nat /\ Len(t) \in Nat /\ Len(s \o t) = Len(s) + Len(t)
      /\ \A i \in 1..Len(s) : (s \o t)[i] = s[i]
      /\ \A i \in 1..Len(t) : (s \o t)[Len(s) + i] = t[i]
  BY <1>3
<1>. QED
  BY <1>4, <1>5 DEF IsSeq, Joined

Part(s, m, n, u) ==
  /\ IsSeq(u) /\ Len(u) = n - m + 1
  /\ \A i \in 1..n - m + 1 : u[i] = s[m + i - 1]

(* Consecutive elements of a sequence.                                        *)
LEMMA PartOf ==
  ASSUME NEW s, IsSeq(s), NEW m \in 1..Len(s) + 1, NEW n \in m - 1..Len(s)
  PROVE  Part(s, m, n, SubSeq(s, m, n))
<1>1. PICK X : s \in Seq(X)
  BY DEF IsSeq
<1>2. SubSeq(s, m, n) \in Seq(X)
  BY <1>1
<1>3. /\ Len(SubSeq(s, m, n)) = n - m + 1
      /\ \A i \in 1..n - m + 1 : SubSeq(s, m, n)[i] = s[m + i - 1]
  BY <1>1
<1>. QED
  BY <1>2, <1>3 DEF IsSeq, Part

(* What a history is: well-formed actions, sound documents, and each document  *)
(* the fold of its action over the one before.                                 *)
Recorded(acted, ds) ==
  /\ Sane(acted) /\ IsSeq(ds) /\ AllSound(ds)
  /\ Len(ds) = Len(acted) + 1
  /\ \A i \in 1..Len(acted) : ds[i + 1] = Fold(acted[i], ds[i])

(* What being a history says of each step.                                    *)
LEMMA RecordedSteps ==
  ASSUME NEW A, NEW D, Recorded(A, D)
  PROVE  /\ IsSeq(A) /\ IsSeq(D) /\ Len(A) \in Nat /\ Len(D) = Len(A) + 1
         /\ \A i \in 1..Len(A) : WellFormed(A[i]) /\ D[i + 1] = Fold(A[i], D[i])
         /\ \A i \in 1..Len(A) + 1 : Sound(D[i])
BY DEF Recorded, Sane, IsSeq, AllSound

SameStart(s, t) == s[1] = t[1]

(* A history is continued from any of its documents by other actions.          *)
LEMMA Continued ==
  ASSUME NEW A, NEW D, Recorded(A, D), NEW k \in 0..Len(A), NEW B, Sane(B),
         NEW r, Folded(D[k + 1], B, r)
  PROVE  /\ Recorded(SubSeq(A, 1, k) \o B, SubSeq(D, 1, k) \o r)
         /\ SameStart(SubSeq(D, 1, k) \o r, D)
<1>0. /\ IsSeq(A) /\ IsSeq(D) /\ Len(A) \in Nat /\ Len(D) = Len(A) + 1
      /\ \A i \in 1..Len(A) : WellFormed(A[i]) /\ D[i + 1] = Fold(A[i], D[i])
      /\ \A i \in 1..Len(A) + 1 : Sound(D[i])
  BY RecordedSteps
<1>1. /\ IsSeq(B) /\ Len(B) \in Nat /\ \A i \in 1..Len(B) : WellFormed(B[i])
      /\ IsSeq(r) /\ Len(r) = Len(B) + 1 /\ r[1] = D[k + 1]
      /\ \A i \in 1..Len(B) : r[i + 1] = Fold(B[i], r[i])
  BY DEF Sane, Folded, IsSeq
<1>2. k \in Nat /\ k <= Len(A) /\ k + 1 \in 1..Len(A) + 1 /\ Sound(D[k + 1])
  BY <1>0
<1>3. \A i \in 1..Len(r) : Sound(r[i])
  BY <1>2, FoldedIsSound DEF AllSound
<1>. DEFINE pA == SubSeq(A, 1, k)
            pD == SubSeq(D, 1, k)
            nA == pA \o B
            nD == pD \o r
<1>4. /\ IsSeq(pA) /\ Len(pA) = k /\ \A i \in 1..k : pA[i] = A[i]
      /\ IsSeq(pD) /\ Len(pD) = k /\ \A i \in 1..k : pD[i] = D[i]
  <2>1. /\ 1 \in 1..Len(A) + 1 /\ k \in 1 - 1..Len(A) /\ 1 \in 1..Len(D) + 1 /\ k \in 1 - 1..Len(D)
        /\ k - 1 + 1 = k /\ \A i \in 1..k : 1 + i - 1 = i
    BY <1>0, <1>2
  <2>2. Part(A, 1, k, pA)
    BY <1>0, <2>1, PartOf
  <2>3. Part(D, 1, k, pD)
    BY <1>0, <2>1, PartOf
  <2>. HIDE DEF pA, pD
  <2>. QED
    BY <2>1, <2>2, <2>3 DEF Part
<1>. HIDE DEF pA, pD
<1>5. /\ IsSeq(nA) /\ Len(nA) = k + Len(B) /\ \A i \in 1..k : nA[i] = A[i]
      /\ \A i \in 1..Len(B) : nA[k + i] = B[i]
  <2>1. Joined(pA, B, nA)
    BY <1>1, <1>4, JoinedOf
  <2>. HIDE DEF nA
  <2>. QED
    BY <1>4, <2>1 DEF Joined
<1>6. /\ IsSeq(nD) /\ Len(nD) = k + Len(r) /\ \A i \in 1..k : nD[i] = D[i]
      /\ \A i \in 1..Len(r) : nD[k + i] = r[i]
  <2>1. Joined(pD, r, nD)
    BY <1>1, <1>4, JoinedOf
  <2>. HIDE DEF nD
  <2>. QED
    BY <1>4, <2>1 DEF Joined
<1>. HIDE DEF nA, nD
<1>7. ASSUME NEW i \in 1..Len(nA) PROVE WellFormed(nA[i])
  <2>1. CASE i <= k
    <3>1. i \in 1..k /\ i \in 1..Len(A)
      BY <1>2, <1>5, <2>1
    <3>. QED
      BY <1>0, <1>5, <3>1
  <2>2. CASE ~ (i <= k)
    <3>1. i - k \in 1..Len(B) /\ k + (i - k) = i
      BY <1>1, <1>2, <1>5, <2>2
    <3>. QED
      BY <1>1, <1>5, <3>1
  <2>. QED
    BY <2>1, <2>2
<1>8. ASSUME NEW i \in 1..Len(nD) PROVE Sound(nD[i])
  <2>1. CASE i <= k
    <3>1. i \in 1..k /\ i \in 1..Len(A) + 1
      BY <1>2, <1>6, <2>1
    <3>. QED
      BY <1>0, <1>6, <3>1
  <2>2. CASE ~ (i <= k)
    <3>1. i - k \in 1..Len(r) /\ k + (i - k) = i
      BY <1>1, <1>2, <1>6, <2>2
    <3>. QED
      BY <1>3, <1>6, <3>1
  <2>. QED
    BY <2>1, <2>2
<1>9. ASSUME NEW i \in 1..Len(nA) PROVE nD[i + 1] = Fold(nA[i], nD[i])
  <2>1. CASE i < k
    <3>1. i \in 1..k /\ i + 1 \in 1..k /\ i \in 1..Len(A)
      BY <1>2, <1>5, <2>1
    <3>. QED
      BY <1>0, <1>5, <1>6, <3>1
  <2>2. CASE i = k
    <3>1. i \in 1..k /\ i \in 1..Len(A) /\ 1 \in 1..Len(r) /\ i + 1 = k + 1
      BY <1>1, <1>2, <1>5, <2>2
    <3>2. nD[i + 1] = D[k + 1] /\ nD[i] = D[k] /\ nA[i] = A[k]
      BY <1>1, <1>5, <1>6, <2>2, <3>1
    <3>. QED
      BY <1>0, <2>2, <3>1, <3>2
  <2>3. CASE i > k
    <3>. DEFINE j == i - k
    <3>1. j \in 1..Len(B) /\ k + j = i /\ j \in 1..Len(r) /\ j + 1 \in 1..Len(r) /\ k + (j + 1) = i + 1
      BY <1>1, <1>2, <1>5, <2>3
    <3>. HIDE DEF j
    <3>2. nD[i] = r[j] /\ nD[i + 1] = r[j + 1] /\ nA[i] = B[j]
      BY <1>5, <1>6, <3>1
    <3>. QED
      BY <1>1, <3>1, <3>2
  <2>. QED
    BY <1>2, <1>5, <2>1, <2>2, <2>3
<1>10. Len(nD) = Len(nA) + 1
  BY <1>1, <1>2, <1>5, <1>6
<1>11. Sane(nA) /\ AllSound(nD)
  BY <1>5, <1>7, <1>8 DEF Sane, AllSound
<1>12. Recorded(nA, nD)
  BY <1>6, <1>9, <1>10, <1>11 DEF Recorded
<1>13. SameStart(nD, D)
  <2>. SUFFICES nD[1] = D[1]
    BY DEF SameStart
  <2>1. CASE k = 0
    <3>1. 1 \in 1..Len(r) /\ k + 1 = 1
      BY <1>1, <2>1
    <3>2. nD[k + 1] = r[1]
      BY <1>6, <3>1
    <3>. QED
      BY <1>1, <3>1, <3>2
  <2>2. CASE k # 0
    <3>1. 1 \in 1..k
      BY <1>2, <2>2
    <3>. QED
      BY <1>6, <3>1
  <2>. QED
    BY <2>1, <2>2
<1>. QED
  BY <1>12, <1>13 DEF nA, nD, pA, pD
-----------------------------------------------------------------------------
(* Subtrees in one piece                                                       *)

(* No stretch from a carrier to what it carries crosses another: what stands   *)
(* in it is carried by the carrier or by what follows it.                      *)
Nested(o, carrier) ==
  \A i \in 1..Len(o) : \A j \in 1..i - 1 : \A k \in j + 1..i - 1 :
    carrier[o[i]] = o[j] => \E m \in j..k - 1 : carrier[o[k]] = o[m]

(* A sound document of such an order.                                          *)
Tidy(doc) == Sound(doc) /\ Nested(doc.order, doc.carrier)

(* What stands between a layer and one it carries, at any depth, it carries.   *)
LEMMA WithinIsWholeUpTo ==
  ASSUME NEW doc, OrderSound(doc), Nested(doc.order, doc.carrier), NEW id \in Present(doc),
         NEW q \in 1..Len(doc.order), doc.order[q] \in Within(doc, id),
         NEW k \in Position(doc.order, id)..q
  PROVE  doc.order[k] \in Within(doc, id)
<1>. DEFINE o == doc.order
            n == Len(o)
            W == Within(doc, id)
            p == Position(o, id)
            upTo(x) == \A h \in p..x : o[h] \in W
            S == {x \in W : \A x1 \in 1..n : o[x1] = x => upTo(x1)}
<1>1. /\ n \in Nat /\ o \in Seq(Id) /\ Distinct(o) /\ id # Root
      /\ \A x : x \in Present(doc) <=> \E i \in 1..n : o[i] = x
      /\ Present(doc) \subseteq Id /\ Root \notin Id
  BY PresentOf DEF OrderSound, Id, Root
<1>2. p \in 1..n /\ o[p] = id /\ \A i \in 1..n : o[i] = id => i = p
  BY <1>1, PositionOf DEF Present
<1>3. W \subseteq Present(doc) /\ \A i \in 1..n : o[i] \in W => p <= i
  BY WithinComesAfter
<1>4. id \in W /\ \A m \in Present(doc) : doc.carrier[m] \in W => m \in W
  BY <1>1, WithinIsClosed
<1>5. \A i \in 1..n : doc.carrier[o[i]] # Root => \E j \in 1..i - 1 : o[j] = doc.carrier[o[i]]
  BY DEF OrderSound
<1>6. \A i \in 1..n : \A j \in 1..i - 1 : \A h \in j + 1..i - 1 :
        doc.carrier[o[i]] = o[j] => \E m \in j..h - 1 : doc.carrier[o[h]] = o[m]
  BY DEF Nested
<1>. HIDE DEF o, n, W, p
<1>7. id \in S
  BY <1>2, <1>4
<1>8. ASSUME NEW i \in 1..n, doc.carrier[o[i]] \in S PROVE o[i] \in S
  <2>1. o[i] \in Present(doc) /\ doc.carrier[o[i]] \in W /\ doc.carrier[o[i]] # Root
    BY <1>1, <1>3, <1>8
  <2>2. o[i] \in W
    BY <1>4, <2>1
  <2>3. PICK j \in 1..i - 1 : o[j] = doc.carrier[o[i]]
    BY <1>5, <2>1
  <2>4. j \in 1..n /\ j < i /\ upTo(j) /\ p <= j
    BY <1>1, <1>3, <1>8, <2>1, <2>3
  <2>. DEFINE N == {h \in Nat : h <= i => upTo(h)}
  <2>5. 0 \in N
    BY <1>2
  <2>6. ASSUME NEW h \in Nat, h \in N PROVE h + 1 \in N
    <3>. SUFFICES ASSUME h + 1 <= i PROVE upTo(h + 1)
      OBVIOUS
    <3>1. upTo(h)
      BY <2>6
    <3>2. CASE h + 1 <= j
      BY <2>4, <3>2
    <3>3. CASE h + 1 = i
      BY <2>2, <3>1, <3>3
    <3>4. CASE j < h + 1 /\ h + 1 < i
      <4>1. h + 1 \in j + 1..i - 1 /\ h + 1 \in 1..n
        BY <1>1, <2>4, <3>4
      <4>2. PICK m \in j..(h + 1) - 1 : doc.carrier[o[h + 1]] = o[m]
        BY <1>6, <2>3, <4>1
      <4>3. m \in p..h
        BY <1>2, <2>4, <4>2
      <4>4. o[m] \in W /\ o[h + 1] \in Present(doc)
        BY <1>1, <3>1, <4>1, <4>3
      <4>5. o[h + 1] \in W
        BY <1>4, <4>2, <4>4
      <4>. QED
        BY <3>1, <4>5
    <3>. QED
      BY <2>4, <3>2, <3>3, <3>4
  <2>7. Nat \subseteq N
    <3>. HIDE DEF N
    <3>. QED
      BY <2>5, <2>6, Induction
  <2>8. upTo(i)
    BY <2>7
  <2>9. \A x1 \in 1..n : o[x1] = o[i] => x1 = i
    BY <1>1 DEF Distinct, n
  <2>. QED
    BY <2>2, <2>8, <2>9
<1>9. W \subseteq S
  <2>. HIDE DEF S
  <2>. QED
    BY <1>1, <1>7, <1>8, WithinIsLeast DEF W, o, n
<1>10. upTo(q)
  BY <1>9 DEF o, n, W
<1>. QED
  BY <1>10 DEF o, W, p

(* A layer's subtree is the stretch of the order from the layer to e.          *)
Spans(doc, id, e) ==
  /\ e \in Position(doc.order, id)..Len(doc.order)
  /\ \A i \in 1..Len(doc.order) :
       doc.order[i] \in Within(doc, id) <=> i \in Position(doc.order, id)..e

(* Every layer's subtree is a stretch.                                         *)
LEMMA SubtreesSpan ==
  ASSUME NEW doc, OrderSound(doc), Nested(doc.order, doc.carrier), NEW id \in Present(doc)
  PROVE  \E e : Spans(doc, id, e)
<1>. DEFINE o == doc.order
            n == Len(o)
            W == Within(doc, id)
            p == Position(o, id)
            T == {i \in Nat : p <= i /\ (i = n + 1 \/ (i \in 1..n /\ o[i] \notin W))}
<1>1. n \in Nat /\ o \in Seq(Id) /\ Distinct(o) /\ id # Root
  BY PresentOf DEF OrderSound, Id, Root
<1>2. p \in 1..n /\ o[p] = id
  BY <1>1, PositionOf DEF Present
<1>3. \A i \in 1..n : o[i] \in W => p <= i
  BY WithinComesAfter
<1>4. id \in W
  BY <1>1, WithinIsClosed
<1>5. \A i \in 1..n : o[i] \in W => \A k \in p..i : o[k] \in W
  BY WithinIsWholeUpTo
<1>. HIDE DEF o, n, W, p
<1>6. n + 1 \in T
  BY <1>1, <1>2
<1>7. PICK x \in T : \A y \in T : x <= y
  <2>1. T \in SUBSET Nat /\ T # {}
    BY <1>6
  <2>. HIDE DEF T
  <2>. QED
    BY <2>1, LeastNumber
<1>8. x \in Nat /\ p <= x /\ x <= n + 1 /\ x # p
  <2>1. p \notin T
    BY <1>1, <1>2, <1>4
  <2>2. x \in T /\ x <= n + 1
    BY <1>6, <1>7
  <2>. QED
    BY <2>1, <2>2
<1>9. ASSUME NEW i \in 1..n PROVE o[i] \in W <=> i \in p..x - 1
  <2>1. ASSUME o[i] \in W PROVE i \in p..x - 1
    <3>1. p <= i
      BY <1>3, <2>1
    <3>2. CASE x <= i
      <4>1. x \in 1..n /\ x \in p..i
        BY <1>1, <1>2, <1>8, <3>1, <3>2
      <4>2. o[x] \in W
        BY <1>5, <2>1, <4>1
      <4>. QED
        BY <1>1, <1>7, <4>1, <4>2
    <3>. QED
      BY <1>2, <1>8, <3>1, <3>2
  <2>2. ASSUME i \in p..x - 1 PROVE o[i] \in W
    <3>1. i \in Nat /\ p <= i /\ ~ (x <= i)
      BY <1>2, <1>8, <2>2
    <3>2. i \notin T
      BY <1>7, <3>1
    <3>. QED
      BY <3>1, <3>2
  <2>. QED
    BY <2>1, <2>2
<1>10. Spans(doc, id, x - 1)
  <2>1. x - 1 \in p..n
    BY <1>1, <1>2, <1>8
  <2>. QED
    BY <1>9, <2>1 DEF Spans, o, n, W, p
<1>. QED
  BY <1>10

(* What is kept of a sequence, when that is a stretch of it, is the stretch.   *)
LEMMA OnlyStretch ==
  ASSUME NEW X, NEW s \in Seq(X), NEW S, NEW p \in 1..Len(s), NEW e \in p..Len(s),
         \A i \in 1..Len(s) : s[i] \in S <=> i \in p..e
  PROVE  Only(s, S) = SubSeq(s, p, e)
<1>0. Len(s) \in Nat /\ p \in Nat /\ e \in Nat /\ p <= e /\ e <= Len(s) /\ 1 <= p
      /\ \A i \in 1..Len(s) : s[i] \in X
  BY LenProperties
<1>1. PICK f : /\ f[0] = <<>> /\ Only(s, S) = f[Len(s)]
               /\ \A i \in 1..Len(s) :
                    f[i] = IF s[i] \in S THEN Append(f[i-1], s[i]) ELSE f[i-1]
  BY <1>0, OnlyUnfolds
<1>. DEFINE length(k) == IF k < p THEN 0 ELSE IF k <= e THEN k - p + 1 ELSE e - p + 1
            Holds(k) == f[k] \in Seq(X) /\ Len(f[k]) = length(k)
                        /\ \A i \in 1..length(k) : f[k][i] = s[p + i - 1]
            N == {k \in Nat : k <= Len(s) => Holds(k)}
<1>2. 0 \in N
  <2>1. f[0] \in Seq(X) /\ Len(f[0]) = 0 /\ length(0) = 0
    BY <1>0, <1>1, EmptySeq
  <2>. QED
    BY <2>1
<1>3. ASSUME NEW k \in Nat, k \in N PROVE k + 1 \in N
  <2>. HIDE DEF Holds
  <2>. SUFFICES ASSUME k + 1 <= Len(s) PROVE Holds(k + 1)
    OBVIOUS
  <2>1. Holds(k) /\ k + 1 \in 1..Len(s) /\ (k + 1) - 1 = k
    BY <1>0, <1>3
  <2>. USE DEF Holds
  <2>2. CASE k + 1 \in p..e
    <3>1. f[k + 1] = Append(f[k], s[k + 1]) /\ s[k + 1] \in X
      BY <1>0, <1>1, <2>1, <2>2
    <3>2. length(k + 1) = length(k) + 1 /\ length(k) \in Nat /\ p + length(k + 1) - 1 = k + 1
      BY <1>0, <2>2
    <3>. HIDE DEF length
    <3>3. f[k + 1] \in Seq(X) /\ Len(f[k + 1]) = length(k) + 1 /\ f[k + 1][length(k) + 1] = s[k + 1]
          /\ \A i \in 1..length(k) : f[k + 1][i] = f[k][i]
      BY <2>1, <3>1, AppendProperties
    <3>4. ASSUME NEW i \in 1..length(k + 1) PROVE f[k + 1][i] = s[p + i - 1]
      <4>1. i \in 1..length(k) \/ i = length(k) + 1
        BY <3>2
      <4>. QED
        BY <2>1, <3>2, <3>3, <4>1
    <3>. QED
      BY <3>2, <3>3, <3>4
  <2>3. CASE k + 1 \notin p..e
    <3>1. f[k + 1] = f[k]
      BY <1>1, <2>1, <2>3
    <3>2. length(k + 1) = length(k)
      BY <1>0, <2>3
    <3>. HIDE DEF length
    <3>. QED
      BY <2>1, <3>1, <3>2
  <2>. QED
    BY <2>2, <2>3
<1>4. Nat \subseteq N
  <2>. HIDE DEF N
  <2>. QED
    BY <1>2, <1>3, Induction
<1>5. Holds(Len(s))
  <2>. HIDE DEF Holds
  <2>. QED
    BY <1>0, <1>4
<1>6. length(Len(s)) = e - p + 1
  BY <1>0
<1>7. /\ SubSeq(s, p, e) \in Seq(X) /\ Len(SubSeq(s, p, e)) = e - p + 1
      /\ \A i \in 1..e - p + 1 : SubSeq(s, p, e)[i] = s[p + i - 1]
  <2>1. \A i \in p..e : s[i] \in X
    BY <1>0
  <2>. QED
    BY <1>0, <2>1, SubSeqProperties
<1>. HIDE DEF length
<1>. QED
  BY <1>1, <1>5, <1>6, <1>7, SeqEqual

(* A subtree's ids are the stretch, and EndOf says where it ends.              *)
LEMMA SubtreeIsStretch ==
  ASSUME NEW doc, OrderSound(doc), Nested(doc.order, doc.carrier), NEW id \in Present(doc)
  PROVE  /\ Spans(doc, id, EndOf(doc, id))
         /\ SubtreeIds(doc, id) = SubSeq(doc.order, Position(doc.order, id), EndOf(doc, id))
<1>. DEFINE o == doc.order
            p == Position(o, id)
<1>1. o \in Seq(Id) /\ Distinct(o) /\ Len(o) \in Nat
  BY LenProperties DEF OrderSound
<1>2. p \in 1..Len(o)
  BY <1>1, PositionOf DEF Present
<1>3. PICK e : Spans(doc, id, e)
  BY SubtreesSpan
<1>4. e \in p..Len(o) /\ \A i \in 1..Len(o) : o[i] \in Within(doc, id) <=> i \in p..e
  BY <1>3 DEF Spans
<1>. HIDE DEF o, p
<1>5. Only(o, Within(doc, id)) = SubSeq(o, p, e)
  BY <1>1, <1>2, <1>4, OnlyStretch
<1>6. SubtreeIds(doc, id) = SubSeq(o, p, e)
  BY <1>5 DEF SubtreeIds, o
<1>7. Len(SubSeq(o, p, e)) = e - p + 1
  <2>1. \A i \in p..e : o[i] \in Id
    BY <1>1, <1>2, <1>4, LenProperties
  <2>2. p \in Int /\ e \in Int /\ p <= e
    BY <1>1, <1>2, <1>4
  <2>. QED
    BY <2>1, <2>2, SubSeqProperties
<1>8. EndOf(doc, id) = e
  <2>1. EndOf(doc, id) = p + (e - p + 1) - 1
    BY <1>6, <1>7 DEF EndOf, o, p
  <2>. QED
    BY <1>1, <1>2, <1>4, <2>1
<1>. QED
  BY <1>3, <1>6, <1>8 DEF o, p

(* Of the layers kept, those carried by one of them are nested.                *)
NestedIn(t, carrier, S) ==
  \A i \in 1..Len(t) : \A j \in 1..i - 1 : \A k \in j + 1..i - 1 :
    carrier[t[i]] = t[j] /\ carrier[t[k]] \in S \cup {Root} =>
      \E m \in j..k - 1 : carrier[t[k]] = t[m]

(* Taking layers out leaves the others nested.                                 *)
LEMMA OnlyKeepsNested ==
  ASSUME NEW doc, OrderSound(doc), Nested(doc.order, doc.carrier), NEW S
  PROVE  NestedIn(Only(doc.order, S), doc.carrier, S)
<1>. DEFINE o == doc.order
            carrier == doc.carrier
            t == Only(o, S)
<1>1. o \in Seq(Id) /\ Distinct(o) /\ Len(o) \in Nat /\ \A i \in 1..Len(o) : o[i] \in Id
  BY LenProperties DEF OrderSound
<1>2. \A i \in 1..Len(o) : \A j \in 1..i - 1 : \A k \in j + 1..i - 1 :
        carrier[o[i]] = o[j] => \E m \in j..k - 1 : carrier[o[k]] = o[m]
  BY DEF Nested
<1>3. CarriersFirst(t, carrier, S)
  BY OnlyKeepsCarriersFirst
<1>. HIDE DEF o, carrier
<1>4. t \in Seq(Id)
  BY ONLY <1>1, OnlyKeeps
<1>5. \A j, k \in 1..Len(t) : j < k =>
        \E p, q \in 1..Len(o) : p < q /\ o[p] = t[j] /\ o[q] = t[k]
  BY ONLY <1>1, OnlyKeeps
<1>. HIDE DEF t
<1>a. Len(t) \in Nat
  BY <1>4, LenProperties
<1>6. \A p, q \in 1..Len(o) : o[p] = o[q] => p = q
  BY <1>1 DEF Distinct
<1>. SUFFICES ASSUME NEW i \in 1..Len(t), NEW j \in 1..i - 1, NEW k \in j + 1..i - 1,
                     carrier[t[i]] = t[j], carrier[t[k]] \in S \cup {Root}
              PROVE  \E m \in j..k - 1 : carrier[t[k]] = t[m]
  BY DEF NestedIn, o, t, carrier
<1>7. j \in 1..Len(t) /\ k \in 1..Len(t) /\ j < k /\ k < i
  BY ONLY <1>a, i \in 1..Len(t), j \in 1..i - 1, k \in j + 1..i - 1
<1>8. PICK a \in 1..Len(o), b \in 1..Len(o) : a < b /\ o[a] = t[j] /\ o[b] = t[k]
  BY <1>5, <1>7
<1>9. PICK b1 \in 1..Len(o), d \in 1..Len(o) : b1 < d /\ o[b1] = t[k] /\ o[d] = t[i]
  BY <1>5, <1>7
<1>10. b1 = b
  BY <1>6, <1>8, <1>9
<1>11. a \in 1..d - 1 /\ b \in a + 1..d - 1 /\ carrier[o[d]] = o[a]
  BY <1>1, <1>8, <1>9, <1>10
<1>12. PICK m \in a..b - 1 : carrier[o[b]] = o[m]
  BY <1>2, <1>11
<1>13. m \in 1..Len(o) /\ carrier[t[k]] = o[m] /\ o[m] # Root
  BY <1>1, <1>8, <1>12 DEF Id, Root
<1>14. PICK h \in 1..k - 1 : t[h] = o[m]
  BY <1>3, <1>7, <1>13 DEF CarriersFirst
<1>15. CASE h < j
  <2>1. PICK p \in 1..Len(o), q \in 1..Len(o) : p < q /\ o[p] = t[h] /\ o[q] = t[j]
    <3>1. h \in 1..Len(t)
      BY <1>7, <1>14
    <3>. QED
      BY <1>5, <1>7, <1>15, <3>1
  <2>2. p = m /\ q = a
    BY <1>6, <1>8, <1>13, <1>14, <2>1
  <2>. QED
    BY <1>1, <1>12, <2>1, <2>2
<1>16. CASE ~ (h < j)
  <2>1. h \in j..k - 1
    BY <1>7, <1>14, <1>16
  <2>. QED
    BY <1>13, <1>14, <2>1
<1>. QED
  BY <1>15, <1>16

(* Layers are taken out with everything they carry: the rest stays tidy.       *)
LEMMA WithoutIsTidy ==
  ASSUME NEW doc, Tidy(doc), NEW gone,
         \A m \in Present(doc) : doc.carrier[m] \in gone => m \in gone
  PROVE  Tidy(Without(doc, gone))
<1>. DEFINE new == Without(doc, gone)
            kept == Present(doc) \ gone
            t == Only(doc.order, kept)
<1>1. /\ Sound(new) /\ new.order = t
      /\ \A l \in kept : new.carrier[l] = doc.carrier[l]
  <2>1. /\ Sound(Without(doc, gone))
        /\ Present(Without(doc, gone)) = Present(doc) \ gone
        /\ \A l \in Present(doc) \ gone : /\ Without(doc, gone).carrier[l] = doc.carrier[l]
                                          /\ Without(doc, gone).layer[l] = doc.layer[l]
        /\ Without(doc, gone).order = Only(doc.order, Present(doc) \ gone)
        /\ SameGlobals(Without(doc, gone), doc)
    BY WithoutIsSound DEF Tidy
  <2>. QED
    BY <2>1
<1>2. OrderSound(doc) /\ Nested(doc.order, doc.carrier) /\ doc.order \in Seq(Id)
  BY DEF Tidy, Sound, OrderSound
<1>3. t \in Seq(Id) /\ ToSet(t) = kept
  <2>1. t \in Seq(Id) /\ ToSet(t) = ToSet(doc.order) \cap kept
    BY <1>2, OnlyElements
  <2>. QED
    BY <2>1 DEF Present
<1>4. NestedIn(t, doc.carrier, kept)
  <2>. HIDE DEF kept
  <2>. QED
    BY <1>2, OnlyKeepsNested
<1>5. \A l \in kept : doc.carrier[l] # Root => doc.carrier[l] \in kept
  BY <1>2, CarrierOf
<1>6. \A l \in kept : doc.carrier[l] = Root \/ doc.carrier[l] \in kept
  BY <1>5
<1>. HIDE DEF new, t, kept
<1>7. ASSUME NEW i \in 1..Len(t), NEW j \in 1..i - 1, NEW k \in j + 1..i - 1,
             new.carrier[t[i]] = t[j]
      PROVE  \E m \in j..k - 1 : new.carrier[t[k]] = t[m]
  <2>1. Len(t) \in Nat /\ k \in 1..Len(t)
    BY <1>3, LenProperties
  <2>2. t[i] \in kept /\ t[k] \in kept
    BY <1>3, <2>1, ToSetOf
  <2>3. doc.carrier[t[i]] = t[j] /\ new.carrier[t[k]] = doc.carrier[t[k]]
    BY <1>1, <1>7, <2>2
  <2>. QED
    BY <1>4, <1>6, <2>2, <2>3 DEF NestedIn
<1>8. Nested(new.order, new.carrier)
  BY <1>1, <1>7 DEF Nested
<1>. QED
  BY <1>1, <1>8 DEF Tidy, new

(* Nothing crosses a slot of c but what stretches over all of c, and what       *)
(* stands between c and the slot is carried there.                             *)
SlotFits(doc, c, slot) ==
  /\ \A i \in slot + 1..Len(doc.order) : \A j \in 1..slot :
       doc.carrier[doc.order[i]] = doc.order[j] => \E m \in j..slot : doc.order[m] = c
  /\ \A j \in 1..slot : doc.order[j] = c =>
       \A k \in j + 1..slot : \E m \in j..k - 1 : doc.carrier[doc.order[k]] = doc.order[m]

(* Wherever a layer may be put, the slot fits.                                 *)
LEMMA SlotsFit ==
  ASSUME NEW doc, Tidy(doc), NEW c, MayCarry(doc, c), NEW place
  PROVE  SlotFits(doc, c, Slot(doc, c, place))
<1>. DEFINE o == doc.order
            n == Len(o)
            carrier == doc.carrier
            slot == Slot(doc, c, place)
<1>1. /\ OrderSound(doc) /\ Nested(o, carrier) /\ o \in Seq(Id) /\ Distinct(o) /\ n \in Nat
      /\ \A i \in 1..n : o[i] \in Present(doc) /\ o[i] \in Id
      /\ \A i, j \in 1..n : o[i] = o[j] => i = j
      /\ Root \notin Id
  <2>1. OrderSound(doc) /\ Nested(o, carrier) /\ o \in Seq(Id) /\ Distinct(o)
    BY DEF Tidy, Sound, OrderSound
  <2>2. /\ n \in Nat /\ \A i \in 1..n : o[i] \in Present(doc)
        /\ \A i \in 1..n : o[i] \in Id
    BY <2>1, PresentOf, LenProperties
  <2>3. Root \notin Id
    BY DEF Id, Root
  <2>. QED
    BY <2>1, <2>2, <2>3 DEF Distinct
<1>2. \A i \in 1..n : \A j \in 1..i - 1 : \A k \in j + 1..i - 1 :
        carrier[o[i]] = o[j] => \E m \in j..k - 1 : carrier[o[k]] = o[m]
  BY <1>1 DEF Nested
<1>3. \A i \in 1..n : carrier[o[i]] = Root \/ \E j \in 1..i - 1 : o[j] = carrier[o[i]]
  BY <1>1 DEF OrderSound
<1>4. ASSUME NEW id \in Present(doc)
      PROVE  \E p \in 1..n : \E e \in p..n :
               /\ o[p] = id /\ Position(o, id) = p /\ EndOf(doc, id) = e
               /\ \A i \in e + 1..n : \A j \in 1..e : carrier[o[i]] = o[j] => j < p
               /\ \A k \in p + 1..e : \E m \in p..k - 1 : carrier[o[k]] = o[m]
  <2>. DEFINE p == Position(o, id)
              e == EndOf(doc, id)
              W == Within(doc, id)
  <2>1. p \in 1..n /\ o[p] = id
    BY <1>1, PositionOf DEF Present
  <2>2. Spans(doc, id, e)
    BY <1>1, SubtreeIsStretch
  <2>3. e \in p..n /\ \A i \in 1..n : o[i] \in W <=> i \in p..e
    BY <2>2 DEF Spans
  <2>4. id # Root
    BY <1>1, <2>1
  <2>5. /\ \A m \in Present(doc) : carrier[m] \in W => m \in W
        /\ \A m \in W : m # id => carrier[m] \in W
    BY <1>1, <2>4, WithinIsClosed
  <2>. HIDE DEF o, n, carrier, p, e, W
  <2>6. ASSUME NEW i \in e + 1..n, NEW j \in 1..e, carrier[o[i]] = o[j] PROVE j < p
    <3>1. i \in 1..n /\ j \in 1..n /\ ~ (i \in p..e)
      BY <1>1, <2>1, <2>3
    <3>2. o[i] \notin W /\ o[i] \in Present(doc)
      BY <1>1, <2>3, <3>1
    <3>3. o[j] \notin W
      BY <2>5, <2>6, <3>2
    <3>4. ~ (j \in p..e)
      BY <2>3, <3>1, <3>3
    <3>. QED
      BY <2>1, <2>3, <3>1, <3>4
  <2>7. ASSUME NEW k \in p + 1..e PROVE \E m \in p..k - 1 : carrier[o[k]] = o[m]
    <3>1. k \in 1..n /\ k \in p..e /\ k # p
      BY <1>1, <2>1, <2>3
    <3>2. o[k] \in W /\ o[k] # id
      BY <1>1, <2>1, <2>3, <3>1
    <3>3. carrier[o[k]] \in W
      BY <2>5, <3>2
    <3>4. carrier[o[k]] # Root
      <4>1. W \subseteq Present(doc) /\ Present(doc) \subseteq Id
        BY <1>1, WithinComesAfter, PresentOf DEF W, o
      <4>. QED
        BY <1>1, <3>3, <4>1
    <3>5. PICK m \in 1..k - 1 : o[m] = carrier[o[k]]
      BY <1>3, <3>1, <3>4
    <3>6. m \in 1..n
      BY <1>1, <3>1, <3>5
    <3>7. m \in p..e
      BY <2>3, <3>3, <3>5, <3>6
    <3>. QED
      BY <3>1, <3>5, <3>7
  <2>. QED
    BY <2>1, <2>3, <2>6, <2>7 DEF p, e
<1>5. place \in ToSet(StackOf(doc, c)) => place \in Present(doc) /\ carrier[place] = c
  BY <1>1, StackOfElements
<1>6. /\ place \in ToSet(StackOf(doc, c)) => slot = EndOf(doc, place)
      /\ place \notin ToSet(StackOf(doc, c)) /\ c = Root => slot = IF place = Bottom THEN 0 ELSE n
      /\ place \notin ToSet(StackOf(doc, c)) /\ c # Root =>
           slot = IF place = Bottom THEN Position(o, c) ELSE EndOf(doc, c)
  BY DEF Slot
<1>7. c # Root => c \in Present(doc)
  BY DEF MayCarry
<1>. HIDE DEF o, n, carrier, slot
<1>. DEFINE Fits == /\ \A i \in slot + 1..n : \A j \in 1..slot :
                         carrier[o[i]] = o[j] => \E m \in j..slot : o[m] = c
                    /\ \A j \in 1..slot : o[j] = c =>
                         \A k \in j + 1..slot : \E m \in j..k - 1 : carrier[o[k]] = o[m]
<1>. SUFFICES Fits
  BY DEF SlotFits, o, n, carrier, slot
<1>8. CASE place \in ToSet(StackOf(doc, c))
  <2>1. PICK p \in 1..n : \E e \in p..n :
          /\ o[p] = place /\ slot = e
          /\ \A i \in e + 1..n : \A j \in 1..e : carrier[o[i]] = o[j] => j < p
          /\ \A k \in p + 1..e : \E m \in p..k - 1 : carrier[o[k]] = o[m]
    BY <1>4, <1>5, <1>6, <1>8
  <2>2. /\ o[p] = place /\ slot \in p..n /\ carrier[o[p]] = c
        /\ \A i \in slot + 1..n : \A j \in 1..slot : carrier[o[i]] = o[j] => j < p
        /\ \A k \in p + 1..slot : \E m \in p..k - 1 : carrier[o[k]] = o[m]
    BY <1>5, <1>8, <2>1
  <2>3. ASSUME NEW i \in slot + 1..n, NEW j \in 1..slot, carrier[o[i]] = o[j]
        PROVE  \E m \in j..slot : o[m] = c
    <3>1. j < p
      BY <2>2, <2>3
    <3>2. i \in 1..n /\ j \in 1..i - 1 /\ p \in j + 1..i - 1
      BY <1>1, <2>2, <3>1
    <3>3. PICK m \in j..p - 1 : carrier[o[p]] = o[m]
      BY <1>2, <2>3, <3>2
    <3>4. m \in j..slot
      BY <2>2, <3>3
    <3>. QED
      BY <2>2, <3>3, <3>4
  <2>4. ASSUME NEW j \in 1..slot, o[j] = c, NEW k \in j + 1..slot
        PROVE  \E m \in j..k - 1 : carrier[o[k]] = o[m]
    <3>1. j < p
      <4>1. c # Root /\ j \in 1..n
        BY <1>1, <2>2, <2>4
      <4>2. PICK h \in 1..p - 1 : o[h] = c
        BY <1>3, <2>2, <4>1
      <4>3. h \in 1..n
        BY <1>1, <4>2
      <4>4. h = j
        BY <1>1, <2>4, <4>1, <4>2, <4>3
      <4>. QED
        BY <4>2, <4>4
    <3>2. CASE k < p
      <4>1. p \in 1..n /\ j \in 1..p - 1 /\ k \in j + 1..p - 1 /\ carrier[o[p]] = o[j]
        BY <2>2, <2>4, <3>1, <3>2
      <4>. QED
        BY <1>2, <4>1
    <3>3. CASE k = p
      <4>1. j \in j..k - 1
        BY <3>1, <3>3
      <4>. QED
        BY <2>2, <2>4, <3>3, <4>1
    <3>4. CASE p < k
      <4>1. k \in p + 1..slot
        BY <2>2, <3>4
      <4>2. PICK m \in p..k - 1 : carrier[o[k]] = o[m]
        BY <2>2, <4>1
      <4>3. m \in j..k - 1
        BY <3>1, <4>2
      <4>. QED
        BY <4>2, <4>3
    <3>5. k < p \/ k = p \/ p < k
      OBVIOUS
    <3>. QED
      BY <3>2, <3>3, <3>4, <3>5
  <2>. QED
    BY <2>3, <2>4
<1>9. CASE place \notin ToSet(StackOf(doc, c)) /\ c = Root
  <2>1. slot = 0 \/ slot = n
    BY <1>6, <1>9
  <2>2. CASE slot = 0
    BY <2>2
  <2>3. CASE slot = n
    <3>1. \A j \in 1..slot : o[j] # c
      BY <1>1, <1>9, <2>3
    <3>2. slot + 1..n = {}
      BY <1>1, <2>3
    <3>. QED
      BY <3>1, <3>2
  <2>. QED
    BY <2>1, <2>2, <2>3
<1>10. CASE place \notin ToSet(StackOf(doc, c)) /\ c # Root
  <2>1. PICK p \in 1..n : \E e \in p..n :
          /\ o[p] = c /\ (slot = p \/ slot = e)
          /\ \A i \in e + 1..n : \A j \in 1..e : carrier[o[i]] = o[j] => j < p
          /\ \A k \in p + 1..e : \E m \in p..k - 1 : carrier[o[k]] = o[m]
    BY <1>4, <1>6, <1>7, <1>10
  <2>2. PICK e \in p..n :
          /\ o[p] = c /\ (slot = p \/ slot = e)
          /\ \A i \in e + 1..n : \A j \in 1..e : carrier[o[i]] = o[j] => j < p
          /\ \A k \in p + 1..e : \E m \in p..k - 1 : carrier[o[k]] = o[m]
    BY <2>1
  <2>3. slot \in p..n
    BY <2>2
  <2>4. ASSUME NEW i \in slot + 1..n, NEW j \in 1..slot, carrier[o[i]] = o[j]
        PROVE  \E m \in j..slot : o[m] = c
    <3>1. j <= p
      <4>1. CASE slot = p
        BY <4>1
      <4>2. CASE slot = e
        BY <2>2, <2>4, <4>2
      <4>. QED
        BY <2>2, <4>1, <4>2
    <3>2. p \in j..slot
      BY <2>3, <3>1
    <3>. QED
      BY <2>2, <3>2
  <2>5. ASSUME NEW j \in 1..slot, o[j] = c, NEW k \in j + 1..slot
        PROVE  \E m \in j..k - 1 : carrier[o[k]] = o[m]
    <3>1. j = p
      BY <1>1, <2>2, <2>3, <2>5
    <3>2. slot = e
      BY <2>2, <2>3, <3>1
    <3>. QED
      BY <2>2, <3>1, <3>2
  <2>. QED
    BY <2>4, <2>5
<1>. HIDE DEF Fits
<1>. QED
  BY <1>8, <1>9, <1>10

(* A nested subtree put into a slot that fits leaves the document tidy.        *)
LEMMA GraftIsTidy ==
  ASSUME NEW doc, Tidy(doc), NEW tree, TreeToGraft(tree), Nested(tree.order, tree.carrier),
         NEW c, MayCarry(doc, c), ToSet(tree.order) \cap Present(doc) = {},
         NEW slot \in 0..Len(doc.order), c # Root => \E j \in 1..slot : doc.order[j] = c,
         SlotFits(doc, c, slot)
  PROVE  Tidy(Graft(doc, slot, tree, c))
<1>. DEFINE new == Graft(doc, slot, tree, c)
            o == doc.order
            t == tree.order
            n == Len(o)
            k == Len(t)
            s == new.order
            carrier == doc.carrier
            within == tree.carrier
            now == new.carrier
<1>1. Grafted(doc, tree, c, new)
  BY GraftIsSound DEF Tidy
<1>2. /\ o \in Seq(Id) /\ n \in Nat /\ Nested(o, carrier) /\ OrderSound(doc)
      /\ \A i \in 1..n : o[i] \in Present(doc)
      /\ \A i \in 1..n : carrier[o[i]] = Root \/ \E j \in 1..i - 1 : o[j] = carrier[o[i]]
  <2>1. o \in Seq(Id) /\ Nested(o, carrier) /\ OrderSound(doc)
    BY DEF Tidy, Sound, OrderSound
  <2>2. n \in Nat /\ \A i \in 1..n : o[i] \in Present(doc)
    BY <2>1, PresentOf
  <2>. QED
    BY <2>1, <2>2 DEF OrderSound
<1>3. /\ t \in Seq(Id) /\ k \in Nat /\ k >= 1
      /\ \A i \in 1..k : t[i] \in ToSet(t) /\ t[i] # Root
      /\ \A i \in 2..k : \E j \in 1..i - 1 : t[j] = within[t[i]]
  <2>1. t \in Seq(Id) /\ k >= 1
    BY DEF TreeToGraft
  <2>2. k \in Nat /\ \A i \in 1..k : t[i] \in ToSet(t) /\ t[i] \in Id
    BY <2>1, ToSetOf, LenProperties
  <2>3. Root \notin Id
    BY DEF Id, Root
  <2>. QED
    BY <2>1, <2>2, <2>3 DEF TreeToGraft
<1>4. slot \in Nat /\ slot <= n
  BY <1>2
<1>5. Spliced(o, slot, t, s)
  <2>1. Spliced(o, slot, t, SubSeq(o, 1, slot) \o t \o SubSeq(o, slot + 1, n))
    BY <1>2, <1>3, SplicedOf
  <2>2. s = SubSeq(o, 1, slot) \o t \o SubSeq(o, slot + 1, n)
    <3>1. Shaped(doc)
      BY DEF Tidy, Sound, Shaped
    <3>. QED
      BY <3>1 DEF Graft, Shaped
  <2>. QED
    BY <2>1, <2>2
<1>6. /\ \A i \in 1..n : now[o[i]] = carrier[o[i]]
      /\ now[t[1]] = c /\ \A i \in 2..k : now[t[i]] = within[t[i]]
  BY <1>1, <1>2 DEF Grafted
<1>7. \A i \in 1..n, j \in 1..k : o[i] # t[j]
  BY <1>2, <1>3
<1>8. \A i \in 1..n : \A j \in 1..i - 1 : \A h \in j + 1..i - 1 :
        carrier[o[i]] = o[j] => \E m \in j..h - 1 : carrier[o[h]] = o[m]
  BY <1>2 DEF Nested
<1>9. \A i \in 1..k : \A j \in 1..i - 1 : \A h \in j + 1..i - 1 :
        within[t[i]] = t[j] => \E m \in j..h - 1 : within[t[h]] = t[m]
  BY DEF Nested
<1>10. /\ \A i \in slot + 1..n : \A j \in 1..slot :
            carrier[o[i]] = o[j] => \E m \in j..slot : o[m] = c
       /\ \A j \in 1..slot : o[j] = c =>
            \A h \in j + 1..slot : \E m \in j..h - 1 : carrier[o[h]] = o[m]
  BY DEF SlotFits
<1>. HIDE DEF new, o, t, n, k, s, carrier, within, now
<1>11. /\ s \in Seq(Id) /\ Len(s) = n + k
       /\ \A i \in 1..slot : s[i] = o[i]
       /\ \A i \in 1..k : s[slot + i] = t[i]
       /\ \A i \in slot + 1..n : s[i + k] = o[i]
  <2>1. /\ s \in Seq(Id) /\ Len(s) = n + k
        /\ \A i \in 1..n + k : s[i] = IF i <= slot THEN o[i]
                                      ELSE IF i <= slot + k THEN t[i - slot] ELSE o[i - k]
    BY <1>5 DEF Spliced, n, k
  <2>2. \A i \in 1..slot : i \in 1..n + k /\ i <= slot
    BY <1>2, <1>3, <1>4
  <2>3. \A i \in 1..k : slot + i \in 1..n + k /\ ~ (slot + i <= slot) /\ slot + i <= slot + k /\ slot + i - slot = i
    BY <1>2, <1>3, <1>4
  <2>4. \A i \in slot + 1..n : i + k \in 1..n + k /\ ~ (i + k <= slot) /\ ~ (i + k <= slot + k) /\ i + k - k = i
    BY <1>2, <1>3, <1>4
  <2>5. ASSUME NEW i \in 1..slot PROVE s[i] = o[i]
    BY <2>1, <2>2
  <2>6. ASSUME NEW i \in 1..k PROVE s[slot + i] = t[i]
    BY <2>1, <2>3
  <2>7. ASSUME NEW i \in slot + 1..n PROVE s[i + k] = o[i]
    <3>. DEFINE x == i + k
    <3>2. x \in 1..n + k /\ ~ (x <= slot) /\ ~ (x <= slot + k) /\ x - k = i
      BY ONLY <1>2, <1>3, <1>4, i \in slot + 1..n
    <3>. HIDE DEF x
    <3>3. s[x] = o[x - k]
      BY <2>1, <3>2
    <3>4. s[x] = o[i]
      BY ONLY <3>2, <3>3
    <3>. QED
      BY <3>4 DEF x
  <2>. QED
    BY <2>1, <2>5, <2>6, <2>7
<1>. DEFINE Goal(j, h) == \E m \in j..h - 1 : now[s[h]] = s[m]
<1>12. ASSUME NEW i \in 1..n + k, NEW j \in 1..i - 1, NEW h \in j + 1..i - 1, now[s[i]] = s[j]
       PROVE  Goal(j, h)
  <2>0. i \in Nat /\ j \in Nat /\ h \in Nat /\ 1 <= j /\ j < h /\ h < i /\ i <= n + k
    BY ONLY <1>2, <1>3, i \in 1..n + k, j \in 1..i - 1, h \in j + 1..i - 1
  <2>. HIDE DEF Goal
  \* A layer of the tree but its head, below what it carries there.
  <2>1. ASSUME NEW x \in 2..k, h = slot + x, j <= slot + 1 PROVE Goal(j, h)
    <3>1. PICK y \in 1..x - 1 : t[y] = within[t[x]]
      BY <1>3, <2>1
    <3>2. now[t[x]] = within[t[x]] /\ s[slot + x] = t[x] /\ s[slot + y] = t[y]
      BY <1>3, <1>6, <1>11, <2>1, <3>1
    <3>3. slot + y \in j..h - 1
      <4>1. y \in Nat /\ 1 <= y /\ y < x /\ x \in Nat
        BY ONLY <1>3, x \in 2..k, <3>1
      <4>. QED
        BY ONLY <1>4, <2>0, <2>1, <4>1
    <3>. QED
      BY <2>1, <3>1, <3>2, <3>3 DEF Goal
  <2>2. CASE i <= slot
    <3>1. i \in 1..n /\ j \in 1..i - 1 /\ h \in j + 1..i - 1 /\ i \in 1..slot /\ j \in 1..slot /\ h \in 1..slot /\ h \in 1..n
      BY <1>2, <1>4, <2>0, <2>2
    <3>2. s[i] = o[i] /\ s[j] = o[j] /\ s[h] = o[h] /\ now[o[i]] = carrier[o[i]] /\ now[o[h]] = carrier[o[h]]
      BY <1>6, <1>11, <3>1
    <3>3. carrier[o[i]] = o[j]
      BY <1>12, <3>2
    <3>4. PICK m \in j..h - 1 : carrier[o[h]] = o[m]
      BY <1>8, <3>1, <3>3
    <3>5. m \in 1..slot
      BY <2>0, <3>1
    <3>6. s[m] = o[m]
      BY <1>11, <3>5
    <3>. QED
      BY <3>2, <3>4, <3>6 DEF Goal
  <2>3. CASE i = slot + 1
    <3>1. h \in j + 1..slot /\ j \in 1..slot /\ h \in 1..slot /\ h \in 1..n /\ 1 \in 1..k
      BY <1>2, <1>3, <1>4, <2>0, <2>3
    <3>2. s[i] = t[1] /\ s[j] = o[j] /\ s[h] = o[h] /\ now[o[h]] = carrier[o[h]] /\ now[t[1]] = c
      BY <1>6, <1>11, <2>3, <3>1
    <3>3. o[j] = c
      BY <1>12, <3>2
    <3>4. PICK m \in j..h - 1 : carrier[o[h]] = o[m]
      BY <1>10, <3>1, <3>3
    <3>5. m \in 1..slot
      BY <2>0, <3>1
    <3>6. s[m] = o[m]
      BY <1>11, <3>5
    <3>. QED
      BY <3>2, <3>4, <3>6 DEF Goal
  <2>4. CASE slot + 1 < i /\ i <= slot + k
    <3>. DEFINE x == i - slot
    <3>1. x \in 2..k /\ i = slot + x /\ x \in 1..k
      BY <1>3, <1>4, <2>0, <2>4
    <3>. HIDE DEF x
    <3>2. now[t[x]] = within[t[x]] /\ s[i] = t[x]
      BY <1>6, <1>11, <3>1
    <3>3. PICK y \in 1..x - 1 : t[y] = within[t[x]]
      BY <1>3, <3>1
    <3>4. y \in 1..k /\ s[j] = t[y]
      <4>1. y \in 1..k
        BY ONLY <1>3, <3>1, <3>3
      <4>2. s[j] = t[y]
        BY <1>12, <3>2, <3>3
      <4>. QED
        BY <4>1, <4>2
    <3>5. ~ (j <= slot)
      <4>. SUFFICES ASSUME j <= slot PROVE FALSE
        OBVIOUS
      <4>1. j \in 1..slot /\ j \in 1..n
        BY <1>2, <1>4, <2>0
      <4>. QED
        BY <1>7, <1>11, <3>4, <4>1
    <3>. DEFINE j1 == j - slot
                h1 == h - slot
    <3>6. /\ j = slot + j1 /\ h = slot + h1 /\ j1 \in 1..x - 1 /\ h1 \in j1 + 1..x - 1
          /\ j1 \in 1..k /\ h1 \in 2..k /\ h1 \in 1..k
      BY <1>3, <1>4, <2>0, <3>1, <3>5
    <3>. HIDE DEF j1, h1
    <3>7. s[j] = t[j1] /\ s[h] = t[h1] /\ now[t[h1]] = within[t[h1]]
      BY <1>6, <1>11, <3>6
    <3>8. within[t[x]] = t[j1]
      BY <1>12, <3>2, <3>7
    <3>9. PICK m \in j1..h1 - 1 : within[t[h1]] = t[m]
      BY <1>9, <3>1, <3>6, <3>8
    <3>10. m \in 1..k /\ slot + m \in j..h - 1
      <4>1. j1 \in Nat /\ h1 \in Nat /\ 1 <= j1 /\ h1 <= k
        BY ONLY <1>3, <3>1, <3>6
      <4>2. m \in Nat /\ j1 <= m /\ m < h1
        BY ONLY <4>1, m \in j1..h1 - 1
      <4>. QED
        BY ONLY <1>3, <1>4, <3>6, <4>1, <4>2
    <3>11. s[slot + m] = t[m]
      BY <1>11, <3>10
    <3>. QED
      BY <3>7, <3>9, <3>10, <3>11 DEF Goal
  <2>5. CASE slot + k < i
    <3>. DEFINE x == i - k
    <3>1. x \in slot + 1..n /\ i = x + k /\ x \in 1..n
      BY <1>2, <1>3, <1>4, <2>0, <2>5
    <3>. HIDE DEF x
    <3>2. now[o[x]] = carrier[o[x]] /\ s[i] = o[x] /\ carrier[o[x]] = s[j]
      BY <1>6, <1>11, <1>12, <3>1
    <3>3. ASSUME NEW y \in 1..k PROVE s[j] # t[y]
      <4>. SUFFICES ASSUME s[j] = t[y] PROVE FALSE
        OBVIOUS
      <4>1. carrier[o[x]] = t[y] /\ t[y] # Root
        BY <1>3, <3>2
      <4>2. PICK z \in 1..x - 1 : o[z] = carrier[o[x]]
        BY <1>2, <3>1, <4>1
      <4>3. z \in 1..n
        BY <1>2, <3>1, <4>2
      <4>. QED
        BY <1>7, <4>1, <4>2, <4>3
    <3>4. j <= slot \/ slot + k < j
      <4>. SUFFICES ASSUME ~ (j <= slot), ~ (slot + k < j) PROVE FALSE
        OBVIOUS
      <4>1. j - slot \in 1..k /\ slot + (j - slot) = j
        BY <1>3, <1>4, <2>0
      <4>2. s[j] = t[j - slot]
        BY <1>11, <4>1
      <4>. QED
        BY <3>3, <4>1, <4>2
    <3>5. PICK y \in 1..x - 1 : s[j] = o[y] /\ (y <= slot => j = y) /\ (~ (y <= slot) => j = y + k)
      <4>1. CASE j <= slot
        <5>1. j \in 1..slot /\ j \in 1..x - 1
          BY <1>4, <2>0, <3>1, <4>1
        <5>. QED
          BY <1>11, <4>1, <5>1
      <4>2. CASE slot + k < j
        <5>1. j - k \in slot + 1..n /\ (j - k) + k = j /\ j - k \in 1..x - 1 /\ ~ (j - k <= slot)
          BY <1>2, <1>3, <1>4, <2>0, <3>1, <4>2
        <5>2. s[j] = o[j - k]
          BY <1>11, <5>1
        <5>. QED
          BY <5>1, <5>2
      <4>. QED
        BY <3>4, <4>1, <4>2
    <3>6. carrier[o[x]] = o[y]
      BY <3>2, <3>5
    <3>7. ASSUME NEW z \in y + 1..x - 1, s[h] = o[z], (z <= slot => h = z), (~ (z <= slot) => h = z + k)
          PROVE  Goal(j, h)
      <4>1. PICK m \in y..z - 1 : carrier[o[z]] = o[m]
        BY <1>8, <3>1, <3>6
      <4>2. z \in 1..n /\ m \in 1..n
        BY <1>2, <3>1, <3>5, <4>1
      <4>3. now[s[h]] = o[m]
        BY <1>6, <3>7, <4>1, <4>2
      <4>4. CASE m <= slot
        <5>1. m \in j..h - 1 /\ m \in 1..slot
          BY <1>3, <1>4, <3>5, <3>7, <4>1, <4>2, <4>4
        <5>2. s[m] = o[m]
          BY <1>11, <5>1
        <5>. QED
          BY <4>3, <5>1, <5>2 DEF Goal
      <4>5. CASE ~ (m <= slot)
        <5>1. m + k \in j..h - 1 /\ m \in slot + 1..n
          BY <1>3, <1>4, <2>0, <3>5, <3>7, <4>1, <4>2, <4>5
        <5>2. s[m + k] = o[m]
          BY <1>11, <5>1
        <5>. QED
          BY <4>3, <5>1, <5>2 DEF Goal
      <4>. QED
        BY <4>4, <4>5
    <3>8. CASE h <= slot
      <4>1. h \in 1..slot /\ j <= slot
        BY <2>0, <3>8
      <4>2. y = j
        BY <1>3, <1>4, <2>0, <3>5, <4>1
      <4>3. h \in y + 1..x - 1 /\ s[h] = o[h]
        BY <1>11, <2>0, <3>1, <4>1, <4>2
      <4>. QED
        BY <3>7, <3>8, <4>3
    <3>9. CASE h = slot + 1
      <4>1. j \in 1..slot /\ y = j /\ 1 \in 1..k
        BY <1>3, <1>4, <2>0, <3>5, <3>9
      <4>2. PICK m \in j..slot : o[m] = c
        BY <1>10, <3>1, <3>6, <4>1
      <4>3. s[h] = t[1] /\ now[t[1]] = c /\ m \in 1..slot /\ m \in j..h - 1
        BY <1>6, <1>11, <3>9, <4>1, <4>2
      <4>4. s[m] = o[m]
        BY <1>11, <4>3
      <4>. QED
        BY <4>2, <4>3, <4>4 DEF Goal
    <3>10. CASE slot + 1 < h /\ h <= slot + k
      <4>1. h - slot \in 2..k /\ h = slot + (h - slot) /\ j <= slot
        BY <1>3, <1>4, <2>0, <3>4, <3>10
      <4>2. j <= slot + 1
        BY <1>4, <2>0, <4>1
      <4>. QED
        BY <2>1, <4>1, <4>2
    <3>11. CASE slot + k < h
      <4>1. h - k \in slot + 1..n /\ (h - k) + k = h /\ h - k \in y + 1..x - 1 /\ ~ (h - k <= slot)
        BY <1>2, <1>3, <1>4, <2>0, <3>1, <3>5, <3>11
      <4>2. s[h] = o[h - k]
        BY <1>11, <4>1
      <4>. QED
        BY <3>7, <4>1, <4>2
    <3>12. h <= slot \/ h = slot + 1 \/ (slot + 1 < h /\ h <= slot + k) \/ slot + k < h
      BY <1>3, <1>4, <2>0
    <3>. QED
      BY <3>8, <3>9, <3>10, <3>11, <3>12
  <2>6. i <= slot \/ i = slot + 1 \/ (slot + 1 < i /\ i <= slot + k) \/ slot + k < i
    BY <1>3, <1>4, <2>0
  <2>. QED
    BY <2>2, <2>3, <2>4, <2>5, <2>6
<1>13. Nested(s, now)
  BY <1>11, <1>12 DEF Nested
<1>14. Sound(new)
  BY <1>1 DEF Grafted
<1>. QED
  BY <1>13, <1>14 DEF Tidy, s, now, new

(* Only the order and the carriers say whether a document is tidy.             *)
LEMMA SameTreeIsTidy ==
  ASSUME NEW doc, Tidy(doc), NEW new, Sound(new),
         new.order = doc.order, new.carrier = doc.carrier
  PROVE  Tidy(new)
BY DEF Tidy

(* A subtree's ids are nested as they are in the document.                     *)
LEMMA SubtreeIdsAreNested ==
  ASSUME NEW doc, Tidy(doc), NEW id \in Present(doc)
  PROVE  Nested(SubtreeIds(doc, id), doc.carrier)
<1>. DEFINE t == SubtreeIds(doc, id)
            W == Within(doc, id)
            carrier == doc.carrier
<1>1. Sound(doc) /\ OrderSound(doc) /\ Nested(doc.order, doc.carrier)
  BY DEF Tidy, Sound
<1>2. NestedIn(Only(doc.order, W), carrier, W)
  <2>. HIDE DEF W
  <2>. QED
    BY <1>1, OnlyKeepsNested
<1>3. t = Only(doc.order, W)
  BY DEF SubtreeIds
<1>4. t \in Seq(Id) /\ Distinct(t) /\ Len(t) \in Nat /\ Len(t) >= 1 /\ t[1] = id /\ ToSet(t) = W
  BY <1>1, SubtreeIdsOf
<1>5. \A m \in W : m # id => carrier[m] \in W
  <2>1. id # Root
    BY <1>1, WithinIsWhole
  <2>. QED
    BY <1>1, <2>1, WithinComesAfter, WithinIsClosed
<1>. HIDE DEF t, W, carrier
<1>6. ASSUME NEW k \in 2..Len(t) PROVE carrier[t[k]] \in W
  <2>1. k \in 1..Len(t) /\ 1 \in 1..Len(t) /\ k # 1
    BY <1>4
  <2>2. t[k] # id
    BY <1>4, <2>1 DEF Distinct
  <2>3. t[k] \in W
    BY <1>4, <2>1, ToSetOf
  <2>. QED
    BY <1>5, <2>2, <2>3
<1>7. ASSUME NEW i \in 1..Len(t), NEW j \in 1..i - 1, NEW k \in j + 1..i - 1, carrier[t[i]] = t[j]
      PROVE  \E m \in j..k - 1 : carrier[t[k]] = t[m]
  <2>1. k \in 2..Len(t)
    BY ONLY <1>4, i \in 1..Len(t), j \in 1..i - 1, k \in j + 1..i - 1
  <2>2. carrier[t[k]] \in W
    BY <1>6, <2>1
  <2>. QED
    BY <1>2, <1>3, <1>7, <2>2 DEF NestedIn
<1>. QED
  BY <1>7 DEF Nested, t, carrier

(* And so is the subtree cut out with its records.                             *)
LEMMA SubtreeIsNested ==
  ASSUME NEW doc, Tidy(doc), NEW id \in Present(doc)
  PROVE  Nested(Subtree(doc, id).order, Subtree(doc, id).carrier)
<1>. DEFINE t == SubtreeIds(doc, id)
            W == Within(doc, id)
            tree == Subtree(doc, id)
<1>1. Nested(t, doc.carrier)
  BY SubtreeIdsAreNested
<1>2. /\ tree.order = t /\ TreeToGraft(tree) /\ ToSet(tree.order) = W
      /\ \A l \in W : tree.carrier[l] = doc.carrier[l]
  BY SubtreeIsToGraft DEF Tidy
<1>. HIDE DEF t, W, tree
<1>3. \A i \in 1..Len(t) : tree.carrier[t[i]] = doc.carrier[t[i]]
  BY <1>2, ToSetOf DEF TreeToGraft
<1>4. ASSUME NEW i \in 1..Len(t), NEW j \in 1..i - 1, NEW k \in j + 1..i - 1,
             tree.carrier[t[i]] = t[j]
      PROVE  \E m \in j..k - 1 : tree.carrier[t[k]] = t[m]
  <2>1. Len(t) \in Nat
    BY <1>2, LenProperties DEF TreeToGraft
  <2>2. k \in 1..Len(t)
    BY ONLY <2>1, i \in 1..Len(t), j \in 1..i - 1, k \in j + 1..i - 1
  <2>3. doc.carrier[t[i]] = t[j] /\ tree.carrier[t[k]] = doc.carrier[t[k]]
    BY <1>3, <1>4, <2>2
  <2>. QED
    BY <1>1, <2>3 DEF Nested
<1>. QED
  BY <1>2, <1>4 DEF Nested, tree

(* One layer alone is nested.                                                  *)
LEMMA LeafIsNested ==
  ASSUME NEW id \in Id, NEW r
  PROVE  Nested(Leaf(id, r).order, Leaf(id, r).carrier)
<1>1. Leaf(id, r).order = <<id>> /\ Len(<<id>>) = 1
  BY DEF Leaf
<1>. QED
  BY <1>1 DEF Nested

(* And so is a copied subtree: the copies stand as what they are copies of.    *)
LEMMA CopiedIsNested ==
  ASSUME NEW doc, Tidy(doc), NEW ids \in Seq(Id \X Id), ~ Declined(doc, ids), NEW number,
         NEW was, was = SubtreeIds(doc, ids[1][1])
  PROVE  Nested(Copied(doc, ids, was, number).order, Copied(doc, ids, was, number).carrier)
<1>. DEFINE tree == Copied(doc, ids, was, number)
            source == ids[1][1]
            t == tree.order
            copy(l) == CopyOf(ids, l)
<1>1. source \in Present(doc) /\ Sound(doc) /\ OrderSound(doc)
  BY DEF Declined, Tidy, Sound
<1>2. /\ was \in Seq(Id) /\ Distinct(was) /\ Len(was) \in Nat /\ Len(was) >= 1 /\ was[1] = source
      /\ ToSet(was) = Within(doc, source) /\ DOMAIN was = 1..Len(was)
  <2>1. was \in Seq(Id) /\ Distinct(was) /\ was[1] = source /\ ToSet(was) = Within(doc, source)
        /\ Len(was) \in 1..Len(doc.order) - Position(doc.order, source) + 1
    BY <1>1, SubtreeIdsOf
  <2>. QED
    BY <2>1
<1>3. /\ \A l, m \in ToSet(was) : copy(l) = copy(m) => l = m
      /\ \A l \in ToSet(was) : CopiedFrom(ids, was, copy(l)) = l
  BY <1>1, CopiesAreNew
<1>4. /\ t = [i \in 1..Len(was) |-> copy(was[i])]
      /\ \A id \in {copy(l) : l \in ToSet(was) \ {source}} :
           tree.carrier[id] = copy(doc.carrier[CopiedFrom(ids, was, id)])
  BY <1>2 DEF Copied
<1>5. Nested(was, doc.carrier)
  BY <1>1, SubtreeIdsAreNested
<1>6. CarriersFirst(was, doc.carrier, ToSet(was))
  BY <1>1, <1>2, OnlyKeepsCarriersFirst DEF SubtreeIds
<1>7. \A m \in ToSet(was) : m # source => doc.carrier[m] \in ToSet(was)
  <2>1. source # Root
    BY <1>1, WithinIsWhole
  <2>. QED
    BY <1>1, <1>2, <2>1, WithinComesAfter, WithinIsClosed
<1>. HIDE DEF tree, source, copy
<1>8. ASSUME NEW i \in 2..Len(was)
      PROVE  /\ doc.carrier[was[i]] \in ToSet(was)
             /\ tree.carrier[copy(was[i])] = copy(doc.carrier[was[i]])
  <2>1. i \in 1..Len(was) /\ 1 \in 1..Len(was) /\ i # 1
    BY <1>2
  <2>2. was[i] # source
    BY <1>2, <2>1 DEF Distinct
  <2>3. was[i] \in ToSet(was)
    BY <1>2, <2>1, ToSetOf
  <2>. QED
    BY <1>3, <1>4, <1>7, <2>2, <2>3
<1>9. \A i \in 1..Len(was) : t[i] = copy(was[i]) /\ was[i] \in ToSet(was)
  BY <1>2, <1>4, ToSetOf
<1>10. Len(t) = Len(was)
  BY <1>2, <1>4
<1>. HIDE DEF t
<1>11. ASSUME NEW i \in 1..Len(t), NEW j \in 1..i - 1, NEW k \in j + 1..i - 1,
              tree.carrier[t[i]] = t[j]
       PROVE  \E m \in j..k - 1 : tree.carrier[t[k]] = t[m]
  <2>1. i \in 2..Len(was) /\ j \in 1..Len(was) /\ k \in 2..Len(was) /\ i \in 1..Len(was) /\ k \in 1..Len(was)
    BY ONLY <1>2, <1>10, i \in 1..Len(t), j \in 1..i - 1, k \in j + 1..i - 1
  <2>2. copy(doc.carrier[was[i]]) = copy(was[j])
    BY <1>8, <1>9, <1>11, <2>1
  <2>3. doc.carrier[was[i]] = was[j]
    BY <1>3, <1>8, <1>9, <2>1, <2>2
  <2>4. PICK m \in j..k - 1 : doc.carrier[was[k]] = was[m]
    BY <1>5, <2>1, <2>3 DEF Nested
  <2>5. m \in 1..Len(was)
    BY ONLY <1>2, <2>1, m \in j..k - 1
  <2>6. tree.carrier[t[k]] = t[m]
    BY <1>8, <1>9, <2>1, <2>4, <2>5
  <2>. QED
    BY <2>6
<1>. QED
  BY <1>11 DEF Nested, tree, t

(* Inserting a nested subtree keeps the document tidy.                         *)
LEMMA InsertIsTidy ==
  ASSUME NEW doc, Tidy(doc), NEW tree, TreeToGraft(tree), Nested(tree.order, tree.carrier),
         NEW c, NEW place, ToSet(tree.order) \cap Present(doc) = {}
  PROVE  Tidy(Insert(doc, tree, c, place))
<1>1. Head(tree.order) = tree.order[1] /\ tree.order[1] \in ToSet(tree.order)
  BY ToSetOf DEF TreeToGraft
<1>2. CASE MayCarry(doc, c)
  <2>1. Insert(doc, tree, c, place) = Graft(doc, Slot(doc, c, place), tree, c)
    BY <1>1, <1>2 DEF Insert
  <2>2. /\ Slot(doc, c, place) \in 0..Len(doc.order)
        /\ c # Root => \E j \in 1..Slot(doc, c, place) : doc.order[j] = c
    BY <1>2, SlotIsAfterCarrier DEF Tidy, Sound
  <2>3. SlotFits(doc, c, Slot(doc, c, place))
    BY <1>2, SlotsFit
  <2>. QED
    BY <1>2, <2>1, <2>2, <2>3, GraftIsTidy
<1>. QED
  BY <1>2 DEF Insert

(* A layer is removed with all it carries.                                     *)
LEMMA RemoveLayerIsTidy ==
  ASSUME NEW doc, Tidy(doc), NEW id
  PROVE  Tidy(RemoveLayer(doc, id))
<1>1. CASE id \in Present(doc)
  <2>. DEFINE gone == Within(doc, id)
  <2>1. \A m \in Present(doc) : doc.carrier[m] \in gone => m \in gone
    BY <1>1, WithinIsWhole DEF Whole, Tidy
  <2>. HIDE DEF gone
  <2>2. Tidy(Without(doc, gone))
    BY <2>1, WithoutIsTidy
  <2>. QED
    BY <1>1, <2>2 DEF RemoveLayer, gone
<1>. QED
  BY <1>1 DEF RemoveLayer

(* A layer is moved with all it carries.                                       *)
LEMMA MoveLayerIsTidy ==
  ASSUME NEW doc, Tidy(doc), NEW id, NEW c, NEW place
  PROVE  Tidy(MoveLayer(doc, id, c, place))
<1>. DEFINE gone == Within(doc, id)
            rest == Without(doc, gone)
            tree == Subtree(doc, id)
            new == MoveLayer(doc, id, c, place)
<1>1. CASE id \notin Present(doc) \/ ~ MayCarry(doc, c) \/ c \in Within(doc, id)
  BY <1>1 DEF MoveLayer
<1>2. CASE id \in Present(doc) /\ MayCarry(doc, c) /\ c \notin Within(doc, id)
  <2>1. new = Graft(rest, Slot(rest, c, place), tree, c)
    BY <1>2 DEF MoveLayer, RemoveLayer
  <2>2. Sound(doc) /\ Whole(doc, gone)
    BY <1>2, WithinIsWhole DEF Tidy
  <2>3. /\ TreeToGraft(tree) /\ Nested(tree.order, tree.carrier) /\ ToSet(tree.order) = gone
        /\ gone \subseteq Present(doc)
    BY <1>2, <2>2, SubtreeIsToGraft, SubtreeIsNested
  <2>4. c \notin gone
    BY <1>2
  <2>. HIDE DEF gone
  <2>5. Tidy(rest)
    BY <2>2, WithoutIsTidy DEF Whole
  <2>6. Kept(doc, gone, rest)
    BY <2>2, WithoutWhole
  <2>. HIDE DEF rest, tree, new
  <2>7. /\ Present(rest) = Present(doc) \ gone
        /\ \A l \in Present(doc) \ gone : rest.layer[l] = doc.layer[l]
    BY <2>6 DEF Kept
  <2>8. MayCarry(rest, c)
    BY <1>2, <2>4, <2>7 DEF MayCarry
  <2>9. /\ Slot(rest, c, place) \in 0..Len(rest.order)
        /\ c # Root => \E j \in 1..Slot(rest, c, place) : rest.order[j] = c
    <3>1. OrderSound(rest)
      BY <2>5 DEF Tidy, Sound
    <3>. QED
      BY <2>8, <3>1, SlotIsAfterCarrier
  <2>10. SlotFits(rest, c, Slot(rest, c, place))
    BY <2>5, <2>8, SlotsFit
  <2>11. ToSet(tree.order) \cap Present(rest) = {}
    BY <2>3, <2>7
  <2>12. Tidy(new)
    BY <2>1, <2>3, <2>5, <2>8, <2>9, <2>10, <2>11, GraftIsTidy
  <2>. QED
    BY <2>12 DEF new
<1>. QED
  BY <1>1, <1>2

(* The actions that paint or set properties do not claim the order.            *)
Reordering == {"AddLayer", "PlaceImage", "FloatSelection", "DuplicateLayer", "RemoveLayer",
               "MoveLayer", "MergeLayerDown"}
OrderIn(S) == <<"stack order">> \in S

(* Only the actions on the tree claim the order (document/footprint.rs).       *)
LEMMA OthersClaimNoOrder ==
  ASSUME NEW a, a.kind \in Kinds \ Reordering
  PROVE  ~ OrderIn(Writes(a))
<1>. DEFINE free(S) == ~ OrderIn(S)
<1>1. /\ \A id, tiles : free(Paint(id, tiles))
      /\ \A id : free(LiquifyRun(id))
      /\ \A x : free(Selection(x))
      /\ \A id, ps : free(PropClaim(id, ps))
      /\ free(Substrate) /\ free(SubstrateColor) /\ free(GuideRoster)
  BY DEF OrderIn, Paint, LiquifyRun, Selection, PropClaim, Substrate, SubstrateColor, GuideRoster
<1>2. /\ \A S, T : free(S) /\ free(T) => free(S \cup T)
      /\ \A F : (\A S \in F : free(S)) => free(UNION F)
  <2>1. ASSUME NEW S, NEW T, ~ OrderIn(S), ~ OrderIn(T) PROVE ~ OrderIn(S \cup T)
    BY <2>1, Zenon DEF OrderIn
  <2>2. ASSUME NEW F, \A S \in F : ~ OrderIn(S) PROVE ~ OrderIn(UNION F)
    BY <2>2, Zenon DEF OrderIn
  <2>. QED
    BY <2>1, <2>2
<1>. SUFFICES free(Writes(a))
  OBVIOUS
<1>. HIDE DEF free
<1>4. CASE a.kind \in {"CommitStroke", "Liquify", "Fill", "Transform", "Select"}
  <2>1. \/ Writes(a) = Paint(a.layer, a.tiles)
        \/ Writes(a) = Paint(a.layer, a.tiles) \cup LiquifyRun(a.layer)
        \/ Writes(a) = Paint(a.layer, a.tiles) \cup Selection(a.actor)
        \/ Writes(a) = Selection(a.actor)
    BY <1>4, PaintClaims
  <2>. QED
    BY <1>1, <1>2, <2>1
<1>5. CASE a.kind = "TranslateLayers"
  <2>. DEFINE each == {PropClaim(id, {"translation"}) : id \in DOMAIN a.moves}
  <2>1. Writes(a) = UNION each
    BY <1>5, PropertyClaims
  <2>2. \A S \in each : free(S)
    BY <1>1
  <2>. HIDE DEF each
  <2>. QED
    BY <1>2, <2>1, <2>2
<1>6. CASE a.kind \in {"SetProp", "SetMatte"}
  <2>1. \E ps : Writes(a) = PropClaim(a.layer, ps)
    BY <1>6, PropertyClaims
  <2>. QED
    BY <1>1, <2>1
<1>7. CASE a.kind \in {"SetSubstrate", "SetSubstrateColor", "Guides"}
  <2>1. Writes(a) = Substrate \/ Writes(a) = SubstrateColor \/ Writes(a) = GuideRoster
    BY <1>7, PropertyClaims
  <2>. QED
    BY <1>1, <2>1
<1>. QED
  BY <1>4, <1>5, <1>6, <1>7 DEF Kinds, Reordering

(* Without that claim the tree keeps its shape.                                *)
LEMMA ShapeStands ==
  ASSUME NEW a, ~ OrderIn(Writes(a)), NEW doc, NEW new, Change(a, doc, new)
  PROVE  Sound(new) /\ new.order = doc.order /\ new.carrier = doc.carrier
<1>. DEFINE W == Writes(a)
<1>1. Sound(new) /\ Apart(new, doc, W) /\ ~ OrderIn(W)
  BY DEF Change
<1>. HIDE DEF W
<1>. QED
  BY <1>1, Zenon DEF Apart, OrderIn

(* A layer added leaves the document tidy.                                     *)
LEMMA AddLayerIsTidy ==
  ASSUME NEW a, a.layer \in Id, NEW doc, Tidy(doc)
  PROVE  Tidy(FoldAddLayer(a, doc))
<1>. DEFINE r == NewLayer(a.content[1], a.content[2], a.number)
            tree == Leaf(a.layer, r)
<1>1. FoldAddLayer(a, doc) = Insert(doc, tree, a.carrier, a.place)
  BY DEF FoldAddLayer
<1>2. LayerSound(r)
  BY NewLayerIsSound
<1>. HIDE DEF r
<1>3. /\ TreeToGraft(tree) /\ ToSet(tree.order) = {a.layer} /\ Head(tree.order) = a.layer
      /\ Nested(tree.order, tree.carrier)
  BY ONLY <1>2, a.layer \in Id, LeafIsToGraft, LeafIsNested
<1>. HIDE DEF tree
<1>4. CASE a.layer \in Present(doc)
  BY <1>1, <1>3, <1>4 DEF Insert
<1>5. CASE a.layer \notin Present(doc)
  <2>1. ToSet(tree.order) \cap Present(doc) = {}
    BY <1>3, <1>5
  <2>2. Tidy(Insert(doc, tree, a.carrier, a.place))
    BY <1>3, <2>1, InsertIsTidy
  <2>. QED
    BY <1>1, <2>2
<1>. QED
  BY <1>4, <1>5

(* So does a picture placed on one.                                            *)
LEMMA PlaceImageIsTidy ==
  ASSUME NEW a, WellFormed(a), a.kind = "PlaceImage", NEW doc, Tidy(doc)
  PROVE  Tidy(FoldPlaceImage(a, doc))
<1>. DEFINE added == FoldAddLayer(a, doc)
            named == SetProp(added, a.layer, "name", a.name)
            tiles == [t \in a.tiles |-> <<"image", a.n>>]
            placed == WithTiles(named, a.layer, tiles)
<1>1. CASE a.layer \in Present(doc) \/ a.layer \notin Present(added)
  BY <1>1 DEF FoldPlaceImage
<1>2. CASE a.layer \notin Present(doc) /\ a.layer \in Present(added)
  <2>1. FoldPlaceImage(a, doc) = placed
    BY <1>2 DEF FoldPlaceImage
  <2>2. a.layer \in Id /\ DOMAIN tiles \subseteq Tile
    BY DEF WellFormed
  <2>3. Tidy(added)
    BY <2>2, AddLayerIsTidy
  <2>. HIDE DEF added, tiles
  <2>. DEFINE x == added.layer[a.layer]
              r == WithProp(x, "name", a.name)
  <2>4. named = Put(added, a.layer, r)
    BY <1>2 DEF SetProp, Put
  <2>5. Sound(added) /\ LayerSound(x)
    BY <1>2, <2>3 DEF Tidy, Sound
  <2>. HIDE DEF x
  <2>6. LayerSound(r) /\ r.kind = x.kind
    BY <2>5, WithPropIsSound
  <2>. HIDE DEF r
  <2>7. /\ Sound(named) /\ Present(named) = Present(added)
        /\ named.order = added.order /\ named.carrier = added.carrier
    BY <1>2, <2>4, <2>5, <2>6, PutIsSound DEF x
  <2>. HIDE DEF named
  <2>8. Sound(placed) /\ placed.order = named.order /\ placed.carrier = named.carrier
    BY <1>2, <2>2, <2>7, WithTilesIsSound
  <2>. HIDE DEF placed
  <2>9. Tidy(placed)
    BY <2>3, <2>7, <2>8, SameTreeIsTidy
  <2>. QED
    BY <2>1, <2>9
<1>. QED
  BY <1>1, <1>2

(* So does a floated selection.                                                *)
LEMMA FloatIsTidy ==
  ASSUME NEW a, WellFormed(a), a.kind = "FloatSelection", NEW doc, Tidy(doc)
  PROVE  Tidy(FoldFloat(a, doc))
<1>1. CASE a.layer \in Present(doc) \/ ~ FloatOffered(a, doc)
  <2>1. FoldFloat(a, doc) = doc
    BY <1>1, Zenon DEF FoldFloat
  <2>. QED
    BY <2>1
<1>2. CASE a.layer \notin Present(doc) /\ FloatOffered(a, doc)
  <2>. DEFINE was == doc.layer[a.source].tiles
              mask == Mask(a, doc)
              rest == RestTiles(a, was, mask)
              r == Lifted(a, was, mask)
              mid == WithTiles(doc, a.source, rest)
              tree == Leaf(a.layer, r)
              new == Insert(mid, tree, a.source, Bottom)
  <2>1. FoldFloat(a, doc) = Masked(new, a.actor, Universal)
    BY <1>2, FloatInSteps DEF Floated
  <2>2. LayerSound(r) /\ DOMAIN rest \subseteq Tile
    BY LiftedIsSound
  <2>3. a.source \in Present(doc) /\ Sound(doc) /\ a.layer \in Id /\ a.actor \in Actor
    BY <1>2 DEF FloatOffered, Paintable, Tidy, WellFormed
  <2>. HIDE DEF r, rest
  <2>4. /\ mid.order = doc.order /\ mid.carrier = doc.carrier /\ Present(mid) = Present(doc)
        /\ Sound(mid)
    BY <2>2, <2>3, WithTilesIsSound
  <2>5. TreeToGraft(tree) /\ ToSet(tree.order) = {a.layer} /\ Nested(tree.order, tree.carrier)
    BY ONLY <2>2, <2>3, LeafIsToGraft, LeafIsNested
  <2>. HIDE DEF mid, tree
  <2>6. Tidy(mid) /\ ToSet(tree.order) \cap Present(mid) = {}
    BY <1>2, <2>4, <2>5, SameTreeIsTidy
  <2>7. Tidy(new)
    BY <2>5, <2>6, InsertIsTidy
  <2>. HIDE DEF new
  <2>. DEFINE masked == Masked(new, a.actor, Universal)
  <2>8. Sound(masked) /\ masked.order = new.order /\ masked.carrier = new.carrier
    BY <2>3, <2>7, MaskedIsSound DEF Tidy
  <2>. HIDE DEF masked
  <2>9. Tidy(masked)
    BY <2>7, <2>8, SameTreeIsTidy
  <2>. QED
    BY <2>1, <2>9 DEF masked
<1>. QED
  BY <1>1, <1>2

(* So does a duplication.                                                      *)
LEMMA DuplicateIsTidy ==
  ASSUME NEW a, WellFormed(a), a.kind = "DuplicateLayer", NEW doc, Tidy(doc)
  PROVE  Tidy(DuplicateLayer(doc, a.ids, a.number))
<1>. DEFINE ids == a.ids
            source == ids[1][1]
            was == SubtreeIds(doc, source)
            tree == Copied(doc, ids, was, a.number)
            c == doc.carrier[source]
<1>0. ids \in Seq(Id \X Id) /\ Sound(doc)
  BY DEF WellFormed, Tidy
<1>1. CASE Declined(doc, ids)
  BY <1>1, DuplicateInSteps
<1>2. CASE ~ Declined(doc, ids)
  <2>1. DuplicateLayer(doc, ids, a.number) = Insert(doc, tree, c, source)
    BY <1>2, DuplicateInSteps
  <2>2. /\ TreeToGraft(tree) /\ ToSet(tree.order) \cap Present(doc) = {}
        /\ Nested(tree.order, tree.carrier)
    BY <1>0, <1>2, CopiedIsToGraft, CopiedIsNested
  <2>. HIDE DEF tree, c
  <2>3. Tidy(Insert(doc, tree, c, source))
    BY <2>2, InsertIsTidy
  <2>. QED
    BY <2>1, <2>3
<1>. QED
  BY <1>1, <1>2

(* So does a merge.                                                            *)
LEMMA MergeIsTidy ==
  ASSUME NEW a, NEW doc, Tidy(doc)
  PROVE  Tidy(FoldMergeDown(a, doc))
<1>. DEFINE s == a.source
            d == a.dest
<1>1. CASE ~ MergeOffered(doc, s, d)
  BY <1>1 DEF FoldMergeDown
<1>2. CASE MergeOffered(doc, s, d)
  <2>. DEFINE r == Merged(doc, s, d)
              mid == Put(doc, d, r)
  <2>1. FoldMergeDown(a, doc) = RemoveLayer(mid, s)
    BY <1>2, MergeInSteps
  <2>2. d \in Present(doc) /\ Sound(doc)
    BY <1>2, MergeOfferedOf DEF Tidy
  <2>3. LayerSound(r) /\ r.kind = doc.layer[d].kind
    BY <2>2, MergedIsSound
  <2>. HIDE DEF r
  <2>4. Sound(mid) /\ mid.order = doc.order /\ mid.carrier = doc.carrier
    BY <2>2, <2>3, PutIsSound
  <2>. HIDE DEF mid
  <2>5. Tidy(mid)
    BY <2>4, SameTreeIsTidy
  <2>. QED
    BY <2>1, <2>5, RemoveLayerIsTidy
<1>. QED
  BY <1>1, <1>2

(* Every fold leaves a tidy document tidy.                                     *)
LEMMA FoldIsTidy ==
  ASSUME NEW a, WellFormed(a), NEW doc, Tidy(doc)
  PROVE  Tidy(Fold(a, doc))
<1>0. a.kind \in Kinds /\ Sound(doc)
  BY DEF WellFormed, Tidy
<1>1. CASE a.kind \in Kinds \ Reordering
  <2>1. ~ OrderIn(Writes(a))
    BY <1>1, OthersClaimNoOrder
  <2>2. Change(a, doc, Fold(a, doc))
    BY <1>0, FoldChanges
  <2>. DEFINE new == Fold(a, doc)
  <2>. HIDE DEF new
  <2>3. Sound(new) /\ new.order = doc.order /\ new.carrier = doc.carrier
    BY <2>1, <2>2, ShapeStands DEF new
  <2>4. Tidy(new)
    BY <2>3, SameTreeIsTidy
  <2>. QED
    BY <2>4 DEF new
<1>2. CASE a.kind \in {"AddLayer", "PlaceImage"}
  <2>1. a.layer \in Id
    BY <1>2 DEF WellFormed
  <2>. QED
    BY <1>2, <2>1, FoldByKind, AddLayerIsTidy, PlaceImageIsTidy
<1>3. CASE a.kind \in {"FloatSelection", "DuplicateLayer"}
  BY <1>3, FoldByKind, FloatIsTidy, DuplicateIsTidy
<1>4. CASE a.kind \in {"MoveLayer", "MergeLayerDown"}
  BY <1>4, FoldByKind, MoveLayerIsTidy, MergeIsTidy
<1>5. CASE a.kind = "RemoveLayer"
  <2>1. Fold(a, doc) = doc \/ Fold(a, doc) = RemoveLayer(doc, a.layer)
    BY <1>5, FoldByKind DEF FoldRemoveLayer
  <2>. QED
    BY <2>1, RemoveLayerIsTidy
<1>. QED
  BY <1>0, <1>1, <1>2, <1>3, <1>4, <1>5 DEF Reordering

(* What a history holds beside soundness: every document of it is tidy.        *)
AllTidy(ds) == \A i \in 1..Len(ds) : Tidy(ds[i])

(* Well-formed actions fold tidy documents into tidy ones.                     *)
LEMMA FoldedIsTidy ==
  ASSUME NEW acted, Sane(acted), NEW base, Tidy(base), NEW r, Folded(base, acted, r)
  PROVE  AllTidy(r)
<1>1. Len(acted) \in Nat /\ Len(r) = Len(acted) + 1
  BY DEF Sane, IsSeq, Folded
<1>. DEFINE S == {n \in Nat : n + 1 \in 1..Len(r) => Tidy(r[n + 1])}
<1>2. 0 \in S
  BY DEF Folded
<1>3. ASSUME NEW n \in Nat, n \in S PROVE n + 1 \in S
  <2>. SUFFICES ASSUME n + 2 \in 1..Len(r) PROVE Tidy(r[n + 2])
    OBVIOUS
  <2>1. n + 1 \in 1..Len(acted) /\ n + 1 \in 1..Len(r) /\ (n + 1) + 1 = n + 2
    BY <1>1
  <2>2. r[n + 2] = Fold(acted[n + 1], r[n + 1]) /\ WellFormed(acted[n + 1])
    BY <2>1 DEF Folded, Sane
  <2>3. Tidy(r[n + 1])
    BY <1>3, <2>1
  <2>. QED
    BY <2>2, <2>3, FoldIsTidy
<1>4. Nat \subseteq S
  <2>. HIDE DEF S
  <2>. QED
    BY <1>2, <1>3, Induction
<1>5. ASSUME NEW i \in 1..Len(r) PROVE Tidy(r[i])
  <2>1. i - 1 \in Nat /\ (i - 1) + 1 = i
    BY <1>1
  <2>2. i - 1 \in S
    BY <1>4, <2>1
  <2>. QED
    BY <2>1, <2>2
<1>. QED
  BY <1>5 DEF AllTidy

(* A tidy document is the tree its type says: what a layer carries stands      *)
(* directly after it.                                                          *)
LEMMA TidyIsTree ==
  ASSUME NEW doc, Tidy(doc)
  PROVE  TreeSound(doc)
<1>. DEFINE o == doc.order
            carrier == doc.carrier
<1>1. /\ OrderSound(doc) /\ Nested(o, carrier) /\ o \in Seq(Id) /\ Distinct(o)
      /\ \A l \in Present(doc) : carrier[l] # Root => doc.layer[carrier[l]].kind # "filter"
  BY DEF Tidy, Sound, OrderSound
<1>2. DOMAIN carrier = Present(doc) /\ DOMAIN doc.layer = Present(doc)
  BY DEF Tidy, Sound
<1>3. DOMAIN o = 1..Len(o) /\ \A i \in 1..Len(o) : o[i] \in Present(doc)
  BY <1>1, PresentOf
<1>4. IsInjective(o)
  BY <1>1, <1>3 DEF IsInjective, Distinct
<1>5. ASSUME NEW i \in 1..Len(o)
      PROVE  /\ carrier[o[i]] = Root \/ \E j \in 1..i - 1 : o[j] = carrier[o[i]]
             /\ carrier[o[i]] # Root => doc.layer[carrier[o[i]]].kind # "filter"
             /\ SubSeq(o, i, EndOf(doc, o[i])) = SubtreeIds(doc, o[i])
  <2>1. o[i] \in Present(doc)
    BY <1>3
  <2>2. Position(o, o[i]) = i
    BY <1>1, <2>1, PositionOf DEF Present
  <2>3. SubtreeIds(doc, o[i]) = SubSeq(o, Position(o, o[i]), EndOf(doc, o[i]))
    BY <1>1, <2>1, SubtreeIsStretch
  <2>. QED
    BY <1>1, <2>1, <2>2, <2>3 DEF OrderSound
<1>. QED
  BY <1>2, <1>3, <1>4, <1>5 DEF TreeSound

-----------------------------------------------------------------------------
(* The steps of the history                                                    *)

(* A sequence of one.                                                         *)
LEMMA SinglePart ==
  ASSUME NEW x
  PROVE  IsSeq(<<x>>) /\ Len(<<x>>) = 1 /\ <<x>>[1] = x
<1>1. <<x>> \in Seq({x})
  OBVIOUS
<1>. QED
  BY <1>1 DEF IsSeq

(* The document every author begins with.                                      *)
LEMMA EmptyIsSound == Sound(EmptyDocument(LayerIdOf(0, 0)))
<1>. DEFINE first == LayerIdOf(0, 0)
            r == NewLayer("paint", <<>>, 1)
            doc == EmptyDocument(first)
            m == [a \in Actor |-> Universal]
<1>0. first \in Id
  BY DEF LayerIdOf, MaxCopies, Id
<1>1. LayerSound(r)
  BY NewLayerIsSound
<1>2. doc = [order |-> <<first>>, carrier |-> [l \in {first} |-> Root],
             layer |-> [l \in {first} |-> r], mask |-> m,
             substrate |-> <<>>, color |-> <<>>, guides |-> <<>>]
  BY DEF EmptyDocument
<1>. HIDE DEF first, r, doc
<1>3. /\ doc.order = <<first>> /\ doc.carrier = [l \in {first} |-> Root]
      /\ doc.layer = [l \in {first} |-> r] /\ doc.mask = m
      /\ doc = [order |-> doc.order, carrier |-> doc.carrier, layer |-> doc.layer,
                mask |-> doc.mask, substrate |-> doc.substrate, color |-> doc.color,
                guides |-> doc.guides]
  BY <1>2
<1>4. doc.order \in Seq(Id) /\ Len(doc.order) = 1 /\ doc.order[1] = first
  BY <1>0, <1>3
<1>5. Present(doc) = {first}
  BY <1>4, PresentOf
<1>6. OrderSound(doc)
  BY <1>3, <1>4 DEF OrderSound, Distinct
<1>7. /\ doc.carrier = [l \in Present(doc) |-> doc.carrier[l]]
      /\ doc.layer = [l \in Present(doc) |-> doc.layer[l]]
      /\ \A l \in Present(doc) : doc.layer[l] = r /\ doc.carrier[l] = Root
  BY <1>3, <1>5
<1>8. doc.mask = [x \in Actor |-> doc.mask[x]]
  BY <1>3
<1>9. \A l \in Present(doc) : LayerSound(doc.layer[l])
  BY <1>1, <1>7
<1>10. \A l \in Present(doc) : doc.carrier[l] # Root => doc.layer[doc.carrier[l]].kind # "filter"
  BY <1>7
<1>11. Sound(doc)
  BY <1>3, <1>6, <1>7, <1>8, <1>9, <1>10 DEF Sound
<1>. QED
  BY <1>11 DEF doc, first

(* The document every author begins with is tidy.                              *)
LEMMA EmptyIsTidy == Tidy(EmptyDocument(LayerIdOf(0, 0)))
<1>. DEFINE doc == EmptyDocument(LayerIdOf(0, 0))
<1>1. Len(doc.order) = 1
  BY DEF EmptyDocument
<1>2. Nested(doc.order, doc.carrier)
  BY <1>1 DEF Nested
<1>. QED
  BY <1>2, EmptyIsSound DEF Tidy

(* The fields of a record laid over another's.                                 *)
LEMMA OverOf ==
  ASSUME NEW f, NEW g
  PROVE  /\ DOMAIN Over(f, g) = DOMAIN f \cup DOMAIN g
         /\ \A x \in DOMAIN f : Over(f, g)[x] = f[x]
         /\ \A x \in DOMAIN g \ DOMAIN f : Over(f, g)[x] = g[x]
BY DEF Over

(* What the commands mint is well formed (engine/input.rs mints from what the *)
(* document shows).                                                           *)
LEMMA MintedIsWellFormed ==
  ASSUME scene \in Scene, NEW doc, Sound(doc), NEW n \in Nat, NEW a \in Mintable(doc, n)
  PROVE  WellFormed(a)
<1>. DEFINE made(kind) == {Over([kind |-> kind, n |-> n, actor |-> actor], p) :
                           actor \in scene.authors, p \in Payloads(kind, doc, n)}
<1>d. Mintable(doc, n) = {x \in UNION {made(kind) : kind \in scene.alphabet} : Offered(x, doc)}
  BY DEF Mintable
<1>a. a \in UNION {made(kind) : kind \in scene.alphabet}
  <2>. HIDE DEF made
  <2>. QED
    BY <1>d
<1>c. PICK kind \in scene.alphabet : a \in made(kind)
  <2>. HIDE DEF made
  <2>. QED
    BY <1>a
<1>0. \E actor \in scene.authors : \E p \in Payloads(kind, doc, n) :
        a = Over([kind |-> kind, n |-> n, actor |-> actor], p)
  BY <1>c
<1>. HIDE DEF made
<1>1. PICK actor \in scene.authors : \E p \in Payloads(kind, doc, n) :
        a = Over([kind |-> kind, n |-> n, actor |-> actor], p)
  BY <1>0
<1>b. PICK p \in Payloads(kind, doc, n) : a = Over([kind |-> kind, n |-> n, actor |-> actor], p)
  BY <1>1
<1>2. /\ kind \in Kinds /\ actor \in Actor
      /\ scene.strokes \subseteq SUBSET Tile /\ scene.reaches \subseteq SUBSET Tile
  BY SceneAssumption
<1>3. /\ a.kind = kind /\ a.actor = actor
      /\ \A x \in DOMAIN p \ {"kind", "n", "actor"} : a[x] = p[x]
  <2>. DEFINE f == [kind |-> kind, n |-> n, actor |-> actor]
  <2>1. DOMAIN f = {"kind", "n", "actor"} /\ f.kind = kind /\ f.actor = actor
    OBVIOUS
  <2>. HIDE DEF f
  <2>2. a = Over(f, p)
    BY <1>b DEF f
  <2>3. /\ DOMAIN Over(f, p) = DOMAIN f \cup DOMAIN p
        /\ \A x \in DOMAIN f : Over(f, p)[x] = f[x]
        /\ \A x \in DOMAIN p \ DOMAIN f : Over(f, p)[x] = p[x]
    BY OverOf
  <2>4. a.kind = f.kind /\ a.actor = f.actor
    BY <2>1, <2>2, <2>3
  <2>. QED
    BY <2>1, <2>2, <2>3, <2>4
<1>4. \A k \in Nat : LayerIdOf(n, k) \in Id
  BY DEF LayerIdOf, MaxCopies, Id
<1>5. kind \in {"CommitStroke", "Fill", "Transform"} => a.tiles \subseteq Tile
  <2>. SUFFICES ASSUME kind \in {"CommitStroke", "Fill", "Transform"} PROVE a.tiles \subseteq Tile
    OBVIOUS
  <2>1. PICK l \in Present(doc), t \in scene.strokes : p = [layer |-> l, tiles |-> t]
    BY <1>b DEF Payloads
  <2>2. a.tiles = t
    BY <1>3, <2>1
  <2>. QED
    BY <1>2, <2>2
<1>6. kind = "Liquify" => a.tiles \subseteq Tile /\ a.reach \subseteq Tile
  <2>. SUFFICES ASSUME kind = "Liquify" PROVE a.tiles \subseteq Tile /\ a.reach \subseteq Tile
    OBVIOUS
  <2>1. PICK l \in Present(doc), t \in scene.strokes, r \in scene.reaches :
          p = [layer |-> l, tiles |-> t, reach |-> t \cup r]
    BY <1>b DEF Payloads
  <2>2. a.tiles = t /\ a.reach = t \cup r
    BY <1>3, <2>1
  <2>. QED
    BY <1>2, <2>2
<1>7. kind = "PlaceImage" => a.tiles \subseteq Tile /\ a.layer \in Id
  <2>. SUFFICES ASSUME kind = "PlaceImage" PROVE a.tiles \subseteq Tile /\ a.layer \in Id
    OBVIOUS
  <2>1. PICK s \in Sites(doc) :
          p = [layer |-> LayerIdOf(n, 0), carrier |-> s[1], place |-> s[2],
               content |-> <<"paint", <<>>>>, number |-> NextLayerNumber(doc),
               name |-> "picture", tiles |-> Tile]
    BY <1>b DEF Payloads
  <2>2. a.tiles = Tile /\ a.layer = LayerIdOf(n, 0)
    BY <1>3, <2>1
  <2>. QED
    BY <1>4, <2>2
<1>8. kind = "AddLayer" => a.layer \in Id
  <2>. SUFFICES ASSUME kind = "AddLayer" PROVE a.layer \in Id
    OBVIOUS
  <2>1. PICK s \in Sites(doc), x \in scene.contents :
          p = [layer |-> LayerIdOf(n, 0), carrier |-> s[1], place |-> s[2], content |-> x,
               number |-> IF x[1] = "paint" THEN NextLayerNumber(doc) ELSE 0]
    BY <1>b DEF Payloads
  <2>2. a.layer = LayerIdOf(n, 0)
    BY <1>3, <2>1
  <2>. QED
    BY <1>4, <2>2
<1>9. kind = "FloatSelection" => a.layer \in Id
  <2>. SUFFICES ASSUME kind = "FloatSelection" PROVE a.layer \in Id
    OBVIOUS
  <2>1. PICK l \in Present(doc) :
          p = [source |-> l, layer |-> LayerIdOf(n, 0), number |-> NextLayerNumber(doc),
               frame |-> doc.layer[l].prop["translation"]]
    BY <1>b DEF Payloads
  <2>2. a.layer = LayerIdOf(n, 0)
    BY <1>3, <2>1
  <2>. QED
    BY <1>4, <2>2
<1>10. kind = "DuplicateLayer" => a.ids \in Seq(Id \X Id) /\ Len(a.ids) >= 1
  <2>. SUFFICES ASSUME kind = "DuplicateLayer" PROVE a.ids \in Seq(Id \X Id) /\ Len(a.ids) >= 1
    OBVIOUS
  <2>1. PICK l \in Present(doc) :
          p = [ids |-> Paired(n, SubtreeIds(doc, l)), number |-> NextLayerNumber(doc)]
    BY <1>b DEF Payloads
  <2>. DEFINE was == SubtreeIds(doc, l)
  <2>2. was \in Seq(Id) /\ Len(was) \in Nat /\ Len(was) >= 1
    <3>1. OrderSound(doc) /\ doc.order \in Seq(Id)
      BY DEF Sound, OrderSound
    <3>2. was \in Seq(Id) /\ Len(was) \in 1..Len(doc.order) - Position(doc.order, l) + 1
      BY <3>1, SubtreeIdsOf
    <3>3. Len(was) \in Nat
      BY <3>2, LenProperties
    <3>. QED
      BY <3>2, <3>3
  <2>3. a.ids = Paired(n, was)
    BY <1>3, <2>1
  <2>. HIDE DEF was
  <2>4. \A k \in 1..Len(was) : <<was[k], LayerIdOf(n, k - 1)>> \in Id \X Id
    BY <1>4, <2>2
  <2>5. Paired(n, was) = [k \in 1..Len(was) |-> <<was[k], LayerIdOf(n, k - 1)>>]
    BY <2>2 DEF Paired
  <2>6. Paired(n, was) \in Seq(Id \X Id) /\ Len(Paired(n, was)) = Len(was)
    BY <2>2, <2>4, <2>5
  <2>. QED
    BY <2>2, <2>3, <2>6
<1>. QED
  BY <1>2, <1>3, <1>5, <1>6, <1>7, <1>8, <1>9, <1>10 DEF WellFormed

(* The history begins at a document that its seed built.                       *)
LEMMA InitIsRecorded ==
  ASSUME Init
  PROVE  /\ Recorded(acts, docs) /\ Tidy(docs[1])
         /\ Sane(withdrawn) /\ minted \in Nat /\ scene \in Scene
<1>. DEFINE base == EmptyDocument(LayerIdOf(0, 0))
            seed == scene.seed
            r == Replay(base, seed)
<1>0. scene \in Scene /\ acts = <<>> /\ minted = 0 /\ withdrawn = <<>> /\ docs = <<Last(r)>>
  BY DEF Init
<1>1. Sane(seed) /\ Len(seed) \in Nat
  <2>1. seed \in Seq(ToSet(seed)) /\ \A i \in DOMAIN seed : WellFormed(seed[i])
    BY <1>0, SceneAssumption
  <2>. HIDE DEF seed
  <2>2. DOMAIN seed = 1..Len(seed) /\ Len(seed) \in Nat
    BY <2>1
  <2>. QED
    BY <2>1, <2>2 DEF Sane, IsSeq
<1>2. Sound(base) /\ Tidy(base)
  BY EmptyIsTidy DEF Tidy
<1>. HIDE DEF base, seed
<1>3. Folded(base, seed, r)
  BY <1>1, ReplayFolds
<1>. HIDE DEF r
<1>4. AllTidy(r) /\ Len(r) = Len(seed) + 1
  BY <1>1, <1>2, <1>3, FoldedIsTidy DEF Folded
<1>5. Sound(Last(r)) /\ Tidy(Last(r))
  <2>1. Len(r) \in 1..Len(r)
    BY <1>1, <1>4
  <2>. QED
    BY <1>4, <2>1 DEF Last, AllTidy, Tidy
<1>6. IsSeq(<<>>) /\ Len(<<>>) = 0
  <2>1. <<>> \in Seq({})
    OBVIOUS
  <2>. QED
    BY <2>1 DEF IsSeq
<1>7. IsSeq(docs) /\ Len(docs) = 1 /\ docs[1] = Last(r)
  BY <1>0, SinglePart
<1>8. AllSound(docs)
  BY <1>5, <1>7 DEF AllSound
<1>9. Sane(acts) /\ Sane(withdrawn)
  BY <1>0, <1>6 DEF Sane
<1>10. Len(docs) = Len(acts) + 1 /\ \A i \in 1..Len(acts) : docs[i + 1] = Fold(acts[i], docs[i])
  BY <1>0, <1>6, <1>7
<1>. QED
  BY <1>0, <1>5, <1>7, <1>8, <1>9, <1>10 DEF Recorded

(* An action is inserted anywhere.                                             *)
LEMMA InsertIsRecorded ==
  ASSUME Recorded(acts, docs), NEW a, WellFormed(a), NEW before \in 0..Len(acts),
         InsertAction(a, before)
  PROVE  Recorded(acts', docs') /\ docs'[1] = docs[1]
<1>. DEFINE rest == SubSeq(acts, before + 1, Len(acts))
            later == <<a>> \o rest
            r == Replay(docs[before + 1], later)
<1>0. /\ IsSeq(acts) /\ Len(acts) \in Nat /\ before \in Nat /\ before <= Len(acts)
      /\ \A i \in 1..Len(acts) : WellFormed(acts[i])
  BY RecordedSteps
<1>1. IsSeq(rest) /\ Len(rest) = Len(acts) - before /\ \A i \in 1..Len(rest) : rest[i] = acts[before + i]
  <2>1. before + 1 \in 1..Len(acts) + 1 /\ Len(acts) \in (before + 1) - 1..Len(acts)
    BY <1>0
  <2>2. Part(acts, before + 1, Len(acts), rest)
    BY <1>0, <2>1, PartOf
  <2>3. Len(acts) - (before + 1) + 1 = Len(acts) - before /\ \A i \in Int : (before + 1) + i - 1 = before + i
    BY <1>0
  <2>. HIDE DEF rest
  <2>. QED
    BY <1>0, <2>2, <2>3 DEF Part
<1>. HIDE DEF rest
<1>2. Sane(later) /\ Len(later) \in Nat
  <2>. DEFINE one == <<a>>
  <2>1. IsSeq(one) /\ Len(one) = 1 /\ one[1] = a
    BY SinglePart
  <2>. HIDE DEF one
  <2>2. Joined(one, rest, one \o rest)
    BY <1>1, <2>1, JoinedOf
  <2>3. later = one \o rest
    BY DEF one
  <2>. HIDE DEF later
  <2>4. /\ IsSeq(later) /\ Len(rest) \in Nat /\ Len(later) = 1 + Len(rest) /\ later[1] = a
        /\ \A i \in 1..Len(rest) : later[1 + i] = rest[i]
    BY <2>1, <2>2, <2>3 DEF Joined
  <2>5. ASSUME NEW i \in 1..Len(later) PROVE WellFormed(later[i])
    <3>1. CASE i = 1
      BY <2>4, <3>1
    <3>2. CASE i # 1
      <4>1. i - 1 \in 1..Len(rest) /\ 1 + (i - 1) = i
        BY <2>4, <3>2
      <4>2. later[i] = rest[i - 1]
        BY <2>4, <4>1
      <4>3. rest[i - 1] = acts[before + (i - 1)]
        BY <1>1, <4>1
      <4>4. before + (i - 1) \in 1..Len(acts)
        BY <1>0, <1>1, <4>1
      <4>. QED
        BY <1>0, <4>2, <4>3, <4>4
    <3>. QED
      BY <3>1, <3>2
  <2>. QED
    BY <2>4, <2>5 DEF Sane
<1>3. acts' = SubSeq(acts, 1, before) \o later /\ docs' = SubSeq(docs, 1, before) \o r
  BY DEF InsertAction, rest
<1>. HIDE DEF later
<1>4. Folded(docs[before + 1], later, r)
  BY <1>2, ReplayFolds
<1>. HIDE DEF r
<1>5. Recorded(SubSeq(acts, 1, before) \o later, SubSeq(docs, 1, before) \o r)
  BY <1>2, <1>4, Continued
<1>6. SameStart(SubSeq(docs, 1, before) \o r, docs)
  BY <1>2, <1>4, Continued
<1>. QED
  BY <1>3, <1>5, <1>6 DEF SameStart

(* The actions an undone one is shifted past do not conflict with it.          *)
LEMMA CommutingRunOf ==
  ASSUME Recorded(acts, docs), NEW i \in 1..Len(acts)
  PROVE  /\ CommutingRun(i) \in 0..Len(acts) - i
         /\ \A k \in 1..CommutingRun(i) : ~ Conflicts(acts[i], acts[i + k])
<1>. DEFINE n == Len(acts)
            stops == {j \in i + 1 .. n : Conflicts(acts[i], acts[j])}
            stop == IF stops = {} THEN n + 1 ELSE Min(stops)
<1>0. n \in Nat
  BY RecordedSteps
<1>1. CommutingRun(i) = stop - i - 1
  BY DEF CommutingRun
<1>2. stop \in i + 1 .. n + 1 /\ \A j \in stops : stop <= j
  <2>1. CASE stops = {}
    BY <1>0, <2>1
  <2>2. CASE stops # {}
    <3>1. \E x \in stops : \A y \in stops : x <= y
      <4>1. stops \in SUBSET Nat
        BY <1>0
      <4>. HIDE DEF stops
      <4>. QED
        BY <2>2, <4>1, LeastNumber
    <3>2. Min(stops) \in stops /\ \A y \in stops : Min(stops) <= y
      <4>. HIDE DEF stops
      <4>. QED
        BY <3>1 DEF Min
    <3>. QED
      BY <1>0, <2>2, <3>2
  <2>. QED
    BY <2>1, <2>2
<1>3. ASSUME NEW k \in 1..stop - i - 1 PROVE ~ Conflicts(acts[i], acts[i + k])
  <2>1. i + k \in i + 1 .. n /\ i + k < stop
    BY <1>0, <1>2
  <2>2. i + k \notin stops
    <3>. HIDE DEF stop, stops
    <3>. QED
      BY <1>0, <1>2, <2>1
  <2>. QED
    BY <2>1, <2>2
<1>. HIDE DEF stop
<1>. QED
  BY <1>0, <1>1, <1>2, <1>3

(* The documents of that run with the action taken out of each: the run's fold *)
(* onto the document before it (history's remove_action_with and patch.rs).    *)
LEMMA PatchesAreFolds ==
  ASSUME Recorded(acts, docs), NEW i \in 1..Len(acts)
  PROVE  /\ Unapply(acts[i], docs[i], docs[i + 1]) = docs[i]
         /\ \A k \in 1..CommutingRun(i) :
              Unapply(acts[i], docs[i], docs[i + 1 + k])
                = Fold(acts[i + k], Unapply(acts[i], docs[i], docs[i + k]))
<1>. DEFINE a == acts[i]
            P == docs[i]
            E == docs[i + 1]
            run == CommutingRun(i)
            U(k) == Unapply(a, P, docs[i + 1 + k])
            S == {k \in Nat : k \in 0..run => UndoneIn(a, P, E, docs[i + 1 + k], U(k))}
<1>0. /\ Len(acts) \in Nat /\ Len(docs) = Len(acts) + 1
      /\ \A j \in 1..Len(acts) : WellFormed(acts[j]) /\ docs[j + 1] = Fold(acts[j], docs[j])
      /\ \A j \in 1..Len(acts) + 1 : Sound(docs[j])
  BY RecordedSteps
<1>1. run \in 0..Len(acts) - i /\ \A k \in 1..run : ~ Conflicts(a, acts[i + k])
  BY CommutingRunOf
<1>. HIDE DEF run
<1>2. WellFormed(a) /\ Sound(P) /\ E = Fold(a, P) /\ i + 1 + 0 = i + 1
  BY <1>0
<1>3. Unapply(a, P, E) = P
  BY <1>2, FoldIsUndone
<1>4. UndoneIn(a, P, E, E, P)
  <2>. HIDE DEF a, P, E
  <2>1. Change(a, P, E) /\ Sound(E) /\ Apart(E, P, Writes(a))
    BY <1>2, FoldChanges DEF Change
  <2>. QED
    BY <1>2, <2>1, AgreeIsReflexive DEF UndoneIn
<1>5. 0 \in S
  <2>1. docs[i + 1 + 0] = E
    BY <1>2
  <2>2. U(0) = P
    BY <1>3, <2>1
  <2>. HIDE DEF U, a, P, E
  <2>3. UndoneIn(a, P, E, docs[i + 1 + 0], U(0))
    BY <1>4, <2>1, <2>2
  <2>. QED
    BY <2>3
<1>6. ASSUME NEW k \in 0..run - 1, UndoneIn(a, P, E, docs[i + 1 + k], U(k))
      PROVE  /\ U(k + 1) = Fold(acts[i + (k + 1)], U(k))
             /\ UndoneIn(a, P, E, docs[i + 1 + (k + 1)], U(k + 1))
  <2>. DEFINE b == acts[i + (k + 1)]
              G == docs[i + 1 + k]
  <2>0. run \in Nat /\ run <= Len(acts) - i /\ k \in Nat /\ k + 1 <= run
    BY <1>0, <1>1
  <2>1. k + 1 \in 1..run /\ i + (k + 1) \in 1..Len(acts) /\ i + (k + 1) = i + 1 + k
        /\ i + (k + 1) + 1 = i + 1 + (k + 1)
    BY <1>0, <2>0
  <2>2. WellFormed(b) /\ ~ Conflicts(a, b) /\ docs[i + 1 + (k + 1)] = Fold(b, G)
    BY <1>0, <1>1, <2>1
  <2>. DEFINE H == U(k)
  <2>3. UndoneIn(a, P, E, G, H)
    BY <1>6
  <2>4. U(k + 1) = Unapply(a, P, Fold(b, G))
    BY <2>2
  <2>. HIDE DEF H, G, b, a, P, E, U
  <2>5. UndoneIn(a, P, E, Fold(b, G), Fold(b, H))
    BY <2>2, <2>3, UndonePast
  <2>6. Unapply(a, P, Fold(b, G)) = Fold(b, H)
    BY <2>5, UndoRestores
  <2>. QED
    BY <2>2, <2>4, <2>5, <2>6 DEF b, H
<1>7. ASSUME NEW k \in Nat, k \in S PROVE k + 1 \in S
  <2>. SUFFICES ASSUME k + 1 \in 0..run PROVE UndoneIn(a, P, E, docs[i + 1 + (k + 1)], U(k + 1))
    OBVIOUS
  <2>1. k \in 0..run - 1 /\ k \in 0..run
    BY <1>0, <1>1
  <2>2. UndoneIn(a, P, E, docs[i + 1 + k], U(k))
    BY <1>7, <2>1
  <2>. QED
    BY <1>6, <2>1, <2>2
<1>8. Nat \subseteq S
  <2>. HIDE DEF S
  <2>. QED
    BY <1>5, <1>7, Induction
<1>9. ASSUME NEW k \in 1..run
      PROVE  Unapply(a, P, docs[i + 1 + k]) = Fold(acts[i + k], Unapply(a, P, docs[i + k]))
  <2>1. run \in Nat /\ k - 1 \in 0..run - 1 /\ k - 1 \in 0..run /\ k - 1 \in Nat /\ (k - 1) + 1 = k
        /\ i + 1 + (k - 1) = i + k
    BY <1>0, <1>1
  <2>2. k - 1 \in S
    BY <1>8, <2>1
  <2>3. UndoneIn(a, P, E, docs[i + 1 + (k - 1)], U(k - 1))
    BY <2>1, <2>2
  <2>4. U((k - 1) + 1) = Fold(acts[i + ((k - 1) + 1)], U(k - 1))
    BY <1>6, <2>1, <2>3
  <2>. QED
    BY <2>1, <2>4
<1>. QED
  BY <1>3, <1>9 DEF run

(* An action is undone anywhere.                                               *)
LEMMA UndoIsRecorded ==
  ASSUME Recorded(acts, docs), NEW i \in 1..Len(acts), Undo(i)
  PROVE  Recorded(acts', docs') /\ docs'[1] = docs[1]
<1>. DEFINE n == Len(acts)
            run == CommutingRun(i)
            U(k) == Unapply(acts[i], docs[i], docs[i + 1 + k])
            patched == [k \in 1..run |-> U(k)]
            below == SubSeq(docs, 1, i)
            kept == below \o patched
            rest == SubSeq(acts, i + run + 1, n)
            front == Front(kept)
            R == Replay(Last(kept), rest)
            under == SubSeq(acts, 1, i - 1)
            over == SubSeq(acts, i + 1, n)
<1>0. /\ n \in Nat /\ Len(docs) = n + 1 /\ IsSeq(acts) /\ IsSeq(docs)
      /\ \A j \in 1..n : WellFormed(acts[j]) /\ docs[j + 1] = Fold(acts[j], docs[j])
      /\ \A j \in 1..n + 1 : Sound(docs[j])
  BY RecordedSteps
<1>1. acts' = under \o over /\ docs' = front \o R
  BY DEF Undo
<1>2. run \in Nat /\ i + run <= n /\ i \in Nat /\ i >= 1
  BY <1>0, CommutingRunOf
<1>3. /\ U(0) = docs[i]
      /\ \A k \in 1..run : U(k) = Fold(acts[i + k], U(k - 1))
  <2>1. U(0) = docs[i]
    BY <1>2, PatchesAreFolds
  <2>2. ASSUME NEW k \in 1..run PROVE U(k) = Fold(acts[i + k], U(k - 1))
    <3>1. i + k = i + 1 + (k - 1)
      BY <1>2
    <3>2. U(k) = Fold(acts[i + k], Unapply(acts[i], docs[i], docs[i + k]))
      BY PatchesAreFolds
    <3>. QED
      BY <3>1, <3>2
  <2>. QED
    BY <2>1, <2>2
<1>4. IsSeq(patched) /\ Len(patched) = run /\ \A k \in 1..run : patched[k] = U(k)
  <2>1. patched \in Seq({U(k) : k \in 1..run}) /\ Len(patched) = run
    <3>. HIDE DEF U, run
    <3>. QED
      BY <1>2
  <2>. QED
    BY <2>1 DEF IsSeq
<1>. HIDE DEF U, run, patched
<1>5. IsSeq(below) /\ Len(below) = i /\ \A j \in 1..i : below[j] = docs[j]
  <2>1. 1 \in 1..Len(docs) + 1 /\ i \in 1 - 1..Len(docs) /\ i - 1 + 1 = i /\ \A j \in Int : 1 + j - 1 = j
    BY <1>0, <1>2
  <2>2. Part(docs, 1, i, below)
    BY <1>0, <2>1, PartOf
  <2>. HIDE DEF below
  <2>. QED
    BY <1>2, <2>1, <2>2 DEF Part
<1>. HIDE DEF below
<1>6. /\ IsSeq(kept) /\ Len(kept) = i + run
      /\ \A j \in 1..i : kept[j] = docs[j]
      /\ \A k \in 0..run : kept[i + k] = U(k)
  <2>1. Joined(below, patched, kept)
    BY <1>4, <1>5, JoinedOf
  <2>. HIDE DEF kept
  <2>2. /\ IsSeq(kept) /\ Len(kept) = i + run /\ \A j \in 1..i : kept[j] = docs[j]
        /\ \A k \in 1..run : kept[i + k] = U(k)
    BY <1>4, <1>5, <2>1 DEF Joined
  <2>3. kept[i + 0] = U(0)
    BY <1>2, <1>3, <2>2
  <2>4. ASSUME NEW k \in 0..run PROVE kept[i + k] = U(k)
    BY <1>2, <2>2, <2>3, <2>4
  <2>. QED
    BY <2>2, <2>4
<1>. HIDE DEF kept
<1>7. IsSeq(front) /\ Len(front) = i + run - 1 /\ \A j \in 1..i + run - 1 : front[j] = kept[j]
  <2>1. /\ 1 \in 1..Len(kept) + 1 /\ i + run - 1 \in 1 - 1..Len(kept)
        /\ i + run - 1 - 1 + 1 = i + run - 1 /\ \A j \in Int : 1 + j - 1 = j
    BY <1>2, <1>6
  <2>2. front = SubSeq(kept, 1, i + run - 1)
    <3>1. Len(kept) - 1 = i + run - 1
      BY <1>2, <1>6
    <3>2. front = SubSeq(kept, 1, Len(kept) - 1)
      BY DEF Front
    <3>. QED
      BY <3>1, <3>2
  <2>3. Part(kept, 1, i + run - 1, SubSeq(kept, 1, i + run - 1))
    BY <1>6, <2>1, PartOf
  <2>. HIDE DEF front
  <2>. QED
    BY <2>1, <2>2, <2>3 DEF Part
<1>8. IsSeq(rest) /\ Len(rest) = n - i - run /\ \A m \in 1..n - i - run : rest[m] = acts[i + run + m]
  <2>1. /\ i + run + 1 \in 1..Len(acts) + 1 /\ n \in (i + run + 1) - 1..Len(acts)
        /\ n - (i + run + 1) + 1 = n - i - run /\ \A m \in Int : (i + run + 1) + m - 1 = i + run + m
    BY <1>0, <1>2
  <2>2. Part(acts, i + run + 1, n, rest)
    BY <1>0, <2>1, PartOf
  <2>. HIDE DEF rest, n
  <2>3. /\ IsSeq(rest) /\ Len(rest) = n - (i + run + 1) + 1
        /\ \A m \in 1..n - (i + run + 1) + 1 : rest[m] = acts[(i + run + 1) + m - 1]
    BY <2>2 DEF Part
  <2>4. ASSUME NEW m \in 1..n - i - run PROVE rest[m] = acts[i + run + m]
    <3>1. m \in Int
      OBVIOUS
    <3>2. (i + run + 1) + m - 1 = i + run + m /\ m \in 1..n - (i + run + 1) + 1
      BY <2>1, <3>1
    <3>. QED
      BY <2>3, <3>2
  <2>. QED
    BY <2>1, <2>3, <2>4
<1>. HIDE DEF front, rest
<1>9. Last(kept) = kept[i + run]
  BY <1>6 DEF Last
<1>10. /\ IsSeq(R) /\ Len(R) = n - i - run + 1 /\ R[1] = kept[i + run]
       /\ \A m \in 1..n - i - run : R[m + 1] = Fold(acts[i + run + m], R[m])
  <2>1. Len(rest) \in Nat
    BY <1>0, <1>2, <1>8
  <2>2. Folded(Last(kept), rest, R)
    BY <2>1, ReplayFolds
  <2>. HIDE DEF R
  <2>. QED
    BY <1>8, <1>9, <2>2 DEF Folded
<1>. HIDE DEF R
<1>11. /\ IsSeq(acts') /\ Len(acts') = n - 1
       /\ \A j \in 1..i - 1 : acts'[j] = acts[j]
       /\ \A j \in i..n - 1 : acts'[j] = acts[j + 1]
  <2>1. /\ 1 \in 1..Len(acts) + 1 /\ i - 1 \in 1 - 1..Len(acts) /\ i - 1 - 1 + 1 = i - 1
        /\ i + 1 \in 1..Len(acts) + 1 /\ n \in (i + 1) - 1..Len(acts) /\ n - (i + 1) + 1 = n - i
        /\ \A j \in Int : 1 + j - 1 = j /\ (i + 1) + j - 1 = i + j
    BY <1>0, <1>2
  <2>2. Part(acts, 1, i - 1, under)
    BY <1>0, <2>1, PartOf
  <2>3. Part(acts, i + 1, n, over)
    BY <1>0, <2>1, PartOf
  <2>. HIDE DEF under, over
  <2>4. /\ IsSeq(under) /\ Len(under) = i - 1 /\ \A j \in 1..i - 1 : under[j] = acts[j]
        /\ IsSeq(over) /\ Len(over) = n - i /\ \A j \in 1..n - i : over[j] = acts[i + j]
    BY <2>1, <2>2, <2>3 DEF Part
  <2>5. Joined(under, over, acts')
    BY <1>1, <2>4, JoinedOf
  <2>6. /\ IsSeq(acts') /\ Len(acts') = (i - 1) + (n - i) /\ \A j \in 1..i - 1 : acts'[j] = acts[j]
        /\ \A j \in 1..n - i : acts'[(i - 1) + j] = acts[i + j]
    BY <2>4, <2>5 DEF Joined
  <2>7. ASSUME NEW j \in i..n - 1 PROVE acts'[j] = acts[j + 1]
    <3>1. j - i + 1 \in 1..n - i /\ (i - 1) + (j - i + 1) = j /\ i + (j - i + 1) = j + 1
      BY <1>0, <1>2
    <3>. QED
      BY <2>6, <3>1
  <2>8. (i - 1) + (n - i) = n - 1
    BY <1>0, <1>2
  <2>. QED
    BY <2>6, <2>7, <2>8
<1>12. /\ IsSeq(docs') /\ Len(docs') = n
       /\ \A j \in 1..i + run : docs'[j] = kept[j]
       /\ \A m \in 1..n - i - run + 1 : docs'[i + run - 1 + m] = R[m]
  <2>1. Joined(front, R, docs')
    BY <1>1, <1>7, <1>10, JoinedOf
  <2>2. /\ IsSeq(docs') /\ Len(docs') = (i + run - 1) + (n - i - run + 1)
        /\ \A j \in 1..i + run - 1 : docs'[j] = kept[j]
        /\ \A m \in 1..n - i - run + 1 : docs'[i + run - 1 + m] = R[m]
    BY <1>7, <1>10, <2>1 DEF Joined
  <2>3. docs'[i + run] = kept[i + run]
    <3>1. 1 \in 1..n - i - run + 1 /\ i + run - 1 + 1 = i + run
      BY <1>0, <1>2
    <3>2. docs'[i + run - 1 + 1] = R[1]
      BY <2>2, <3>1
    <3>. QED
      BY <1>10, <3>1, <3>2
  <2>4. ASSUME NEW j \in 1..i + run PROVE docs'[j] = kept[j]
    <3>1. j = i + run \/ j \in 1..i + run - 1
      BY <1>2
    <3>. QED
      BY <2>2, <2>3, <3>1
  <2>5. (i + run - 1) + (n - i - run + 1) = n
    BY <1>0, <1>2
  <2>. QED
    BY <2>2, <2>4, <2>5
<1>13. ASSUME NEW j \in 1..n - 1 PROVE WellFormed(acts'[j]) /\ docs'[j + 1] = Fold(acts'[j], docs'[j])
  <2>0. j \in Nat /\ j + 1 \in 1..n /\ j \in 1..n
    BY <1>0
  <2>1. CASE j < i
    <3>1. j \in 1..i - 1 /\ j \in 1..i /\ j + 1 \in 1..i /\ j \in 1..i + run /\ j + 1 \in 1..i + run
      BY <1>2, <2>0, <2>1
    <3>2. acts'[j] = acts[j] /\ docs'[j] = docs[j] /\ docs'[j + 1] = docs[j + 1]
      BY <1>6, <1>11, <1>12, <3>1
    <3>. QED
      BY <1>0, <2>0, <3>2
  <2>2. CASE j >= i /\ j < i + run
    <3>. DEFINE k == j - i + 1
    <3>1. /\ k \in 1..run /\ k \in 0..run /\ k - 1 \in 0..run /\ i + k = j + 1 /\ i + (k - 1) = j
          /\ j \in i..n - 1 /\ j \in 1..i + run /\ j + 1 \in 1..i + run
      BY <1>0, <1>2, <2>0, <2>2
    <3>. HIDE DEF k
    <3>2. acts'[j] = acts[i + k]
      BY <1>11, <3>1
    <3>3. docs'[j] = U(k - 1) /\ docs'[j + 1] = U(k)
      BY <1>6, <1>12, <3>1
    <3>4. WellFormed(acts[j + 1])
      BY <1>0, <2>0
    <3>. QED
      BY <1>3, <3>1, <3>2, <3>3, <3>4
  <2>3. CASE j >= i + run
    <3>. DEFINE m == j - (i + run) + 1
    <3>1. /\ m \in 1..n - i - run /\ m \in 1..n - i - run + 1 /\ m + 1 \in 1..n - i - run + 1
          /\ i + run + m = j + 1 /\ i + run - 1 + m = j /\ i + run - 1 + (m + 1) = j + 1 /\ j \in i..n - 1
      BY <1>0, <1>2, <2>0, <2>3
    <3>. HIDE DEF m
    <3>2. acts'[j] = acts[i + run + m]
      BY <1>11, <3>1
    <3>3. docs'[j] = R[m] /\ docs'[j + 1] = R[m + 1]
      BY <1>12, <3>1
    <3>4. WellFormed(acts[j + 1])
      BY <1>0, <2>0
    <3>. QED
      BY <1>10, <3>1, <3>2, <3>3, <3>4
  <2>. QED
    BY <1>2, <2>0, <2>1, <2>2, <2>3
<1>14. Sane(acts') /\ Len(docs') = Len(acts') + 1 /\ \A j \in 1..Len(acts') : docs'[j + 1] = Fold(acts'[j], docs'[j])
  BY <1>0, <1>11, <1>12, <1>13 DEF Sane
<1>15. docs'[1] = docs[1]
  BY <1>2, <1>6, <1>12
<1>16. Folded(docs[1], acts', docs')
  BY <1>12, <1>14, <1>15 DEF Folded
<1>17. AllSound(docs')
  BY <1>0, <1>14, <1>16, FoldedIsSound
<1>. QED
  BY <1>12, <1>14, <1>15, <1>17 DEF Recorded

(* The inductive invariant.                                                    *)
HistoryInv ==
  /\ Recorded(acts, docs) /\ Tidy(docs[1])
  /\ Sane(withdrawn) /\ minted \in Nat /\ scene \in Scene

(* A step keeps the invariant, and the document the history began at.          *)
InvKept == HistoryInv' /\ docs'[1] = docs[1] /\ scene' = scene

(* Commits and undos of any kind keep both.                                  *)
LEMMA StepsKeepHistory ==
  ASSUME HistoryInv, [Next]_vars
  PROVE  InvKept
<1>0. /\ Recorded(acts, docs) /\ Tidy(docs[1])
      /\ Sane(withdrawn) /\ minted \in Nat /\ scene \in Scene
  BY DEF HistoryInv
<1>. DEFINE w == withdrawn
<1>1. IsSeq(w) /\ Len(w) \in Nat /\ \A i \in 1..Len(w) : WellFormed(w[i])
  BY <1>0 DEF Sane, IsSeq
<1>2. CASE UNCHANGED vars
  BY <1>0, <1>2 DEF HistoryInv, Sane, vars, InvKept
<1>3. ASSUME NEW held \in 0..Len(acts), NEW before \in held..Len(acts), Commit(held, before),
             UNCHANGED scene
      PROVE  InvKept
  <2>. DEFINE number == SeedNumber + minted + 1
  <2>1. PICK a \in Mintable(docs[held + 1], number) :
          InsertAction(a, before) /\ minted' = minted + 1 /\ UNCHANGED withdrawn
    BY <1>3 DEF Commit
  <2>2. Len(acts) \in Nat /\ Sound(docs[held + 1])
    BY <1>0, RecordedSteps
  <2>3. number \in Nat
    <3>1. scene.seed \in Seq(ToSet(scene.seed))
      BY <1>0, SceneAssumption
    <3>2. Len(scene.seed) \in Nat
      BY <3>1
    <3>. QED
      BY <1>0, <3>2 DEF SeedNumber
  <2>. HIDE DEF number
  <2>4. WellFormed(a)
    BY <1>0, <2>2, <2>3, MintedIsWellFormed
  <2>5. before \in 0..Len(acts)
    BY <2>2
  <2>6. Recorded(acts', docs') /\ docs'[1] = docs[1]
    BY <1>0, <2>1, <2>4, <2>5, InsertIsRecorded
  <2>. QED
    BY <1>0, <1>3, <2>1, <2>6 DEF HistoryInv, Sane, InvKept
<1>4. ASSUME NEW i \in 1..Len(acts), Undo(i), UNCHANGED scene PROVE InvKept
  <2>1. Recorded(acts', docs') /\ docs'[1] = docs[1]
    BY <1>0, <1>4, UndoIsRecorded
  <2>2. withdrawn' = Append(w, acts[i]) /\ minted' = minted
    BY <1>4 DEF Undo
  <2>3. WellFormed(acts[i])
    BY <1>0, RecordedSteps
  <2>4. Sane(Append(w, acts[i]))
    <3>1. PICK X : w \in Seq(X)
      BY <1>1 DEF IsSeq
    <3>. DEFINE Y == X \cup {acts[i]}
                new == Append(w, acts[i])
                a == acts[i]
    <3>2. w \in Seq(Y) /\ a \in Y
      BY <3>1
    <3>. HIDE DEF Y, w, a
    <3>3. Append(w, a) \in Seq(Y) /\ Len(Append(w, a)) = Len(w) + 1
          /\ \A j \in 1..Len(w) : Append(w, a)[j] = w[j]
      BY <3>2
    <3>4. Append(w, a)[Len(w) + 1] = a
      BY <3>2
    <3>5. \A j \in 1..Len(w) + 1 : WellFormed(Append(w, a)[j])
      BY <1>1, <2>3, <3>3, <3>4 DEF a
    <3>. QED
      BY <3>3, <3>5 DEF Sane, IsSeq, a
  <2>5. (Sane(withdrawn))'
    BY <2>2, <2>4 DEF Sane
  <2>. QED
    BY <1>0, <1>4, <2>1, <2>2, <2>5 DEF HistoryInv, InvKept
<1>5. ASSUME withdrawn # <<>>, Redo, UNCHANGED scene PROVE InvKept
  <2>1. /\ InsertAction(Last(w), Len(acts)) /\ withdrawn' = Front(w) /\ minted' = minted
    BY <1>5 DEF Redo
  <2>2. Len(w) # 0
    <3>1. PICK X : w \in Seq(X)
      BY <1>1 DEF IsSeq
    <3>. QED
      BY <1>5, <3>1
  <2>. HIDE DEF w
  <2>3. WellFormed(Last(w))
    <3>1. Len(w) \in 1..Len(w)
      BY <1>1, <2>2
    <3>. QED
      BY <1>1, <3>1 DEF Last
  <2>4. Recorded(acts', docs') /\ docs'[1] = docs[1]
    <3>1. Len(acts) \in 0..Len(acts)
      BY <1>0, RecordedSteps
    <3>. QED
      BY <1>0, <2>1, <2>3, <3>1, InsertIsRecorded
  <2>5. Sane(Front(w))
    <3>1. 1 \in 1..Len(w) + 1 /\ Len(w) - 1 \in 1 - 1..Len(w)
      BY <1>1, <2>2
    <3>2. Part(w, 1, Len(w) - 1, SubSeq(w, 1, Len(w) - 1))
      BY <1>1, <3>1, PartOf
    <3>. DEFINE new == SubSeq(w, 1, Len(w) - 1)
    <3>. HIDE DEF new
    <3>3. IsSeq(new) /\ Len(new) = Len(w) - 1 /\ \A j \in 1..Len(w) - 1 : new[j] = w[j]
      <4>1. Len(w) - 1 - 1 + 1 = Len(w) - 1 /\ \A j \in Int : 1 + j - 1 = j
        BY <1>1
      <4>. QED
        BY <3>2, <4>1 DEF Part, new
    <3>4. \A j \in 1..Len(new) : WellFormed(new[j])
      BY <1>1, <3>3
    <3>5. Front(w) = new
      BY DEF Front, new
    <3>. QED
      BY <3>3, <3>4, <3>5 DEF Sane
  <2>6. (Sane(withdrawn))'
    BY <2>1, <2>5 DEF Sane
  <2>. QED
    BY <1>0, <1>5, <2>1, <2>4, <2>6 DEF HistoryInv, InvKept
<1>. QED
  BY <1>2, <1>3, <1>4, <1>5 DEF Next

(* Every history reached is one: it begins at a tidy document, its snapshots   *)
(* are sound and each is the fold of its action.                               *)
LEMMA HistoryInvHolds == Spec => []HistoryInv
<1>1. Init => HistoryInv
  BY InitIsRecorded DEF HistoryInv
<1>2. HistoryInv /\ [Next]_vars => HistoryInv'
  BY StepsKeepHistory DEF InvKept
<1>. QED
  BY <1>1, <1>2, PTL DEF Spec

-----------------------------------------------------------------------------
(* The theorems                                                                *)

(* In every history reached, each snapshot is the fold of its action over the  *)
(* one before it: an undo that patches the run it commutes with, out of order  *)
(* and whatever was committed meanwhile, leaves what a replay of the remaining *)
(* log would (history's remove_action_with over stark-model's fold/patch.rs).  *)
THEOREM UndoIsReplay == Spec => []SnapshotsAreReplays
<1>1. HistoryInv => SnapshotsAreReplays
  <2>. SUFFICES ASSUME HistoryInv PROVE SnapshotsAreReplays
    OBVIOUS
  <2>1. Recorded(acts, docs)
    BY DEF HistoryInv
  <2>2. /\ IsSeq(acts) /\ Len(docs) = Len(acts) + 1
        /\ \A i \in 1..Len(acts) : docs[i + 1] = Fold(acts[i], docs[i])
    BY <2>1, RecordedSteps
  <2>3. DOMAIN acts = 1..Len(acts)
    BY <2>2 DEF IsSeq
  <2>. QED
    BY <2>2, <2>3 DEF SnapshotsAreReplays
<1>. QED
  BY <1>1, HistoryInvHolds, PTL

(* No fold changes a part of the document its footprint does not declare, so   *)
(* what two replicas agree on, two actions may commute on (fold/audit.rs).     *)
THEOREM FootprintsCover == Spec => []FoldsStayInFootprint
<1>1. HistoryInv => FoldsStayInFootprint
  <2>. SUFFICES ASSUME HistoryInv PROVE FoldsStayInFootprint
    OBVIOUS
  <2>1. Recorded(acts, docs)
    BY DEF HistoryInv
  <2>2. /\ IsSeq(acts) /\ Len(acts) \in Nat
        /\ \A i \in 1..Len(acts) : WellFormed(acts[i]) /\ docs[i + 1] = Fold(acts[i], docs[i])
        /\ \A i \in 1..Len(acts) + 1 : Sound(docs[i])
    BY <2>1, RecordedSteps
  <2>3. DOMAIN acts = 1..Len(acts)
    BY <2>2 DEF IsSeq
  <2>4. ASSUME NEW i \in 1..Len(acts)
        PROVE  Differences(docs[i], docs[i + 1]) \subseteq Writes(acts[i])
    <3>1. WellFormed(acts[i]) /\ docs[i + 1] = Fold(acts[i], docs[i]) /\ Sound(docs[i])
      BY <2>2
    <3>. DEFINE a == acts[i]
                D == docs[i]
                E == docs[i + 1]
    <3>. HIDE DEF a, D, E
    <3>2. Change(a, D, E)
      BY <3>1, FoldChanges DEF a, D, E
    <3>3. Sound(D) /\ Sound(E) /\ Apart(E, D, Writes(a))
      BY <3>1, <3>2 DEF Change, D
    <3>4. Differences(D, E) \subseteq Writes(a)
      BY <3>3, DifferencesAreApart
    <3>. QED
      BY <3>4 DEF a, D, E
  <2>. QED
    BY <2>3, <2>4 DEF FoldsStayInFootprint
<1>. QED
  BY <1>1, HistoryInvHolds, PTL

(* Undoing the action just folded restores the document exactly, whatever the  *)
(* action and the document (fold/patch.rs unapply).                            *)
THEOREM UndoIsExact == Spec => []InverseIsExact
<1>1. HistoryInv => InverseIsExact
  <2>. SUFFICES ASSUME HistoryInv PROVE InverseIsExact
    OBVIOUS
  <2>1. Recorded(acts, docs)
    BY DEF HistoryInv
  <2>2. IsSeq(acts)
    BY <2>1, RecordedSteps
  <2>3. DOMAIN acts = 1..Len(acts)
    BY <2>2 DEF IsSeq
  <2>4. \A i \in 1..Len(acts) : Unapply(acts[i], docs[i], docs[i + 1]) = docs[i]
    BY <2>1, PatchesAreFolds
  <2>. QED
    BY <2>3, <2>4 DEF InverseIsExact
<1>. QED
  BY <1>1, HistoryInvHolds, PTL

(* Two neighbours of a history whose footprints do not conflict fold alike in  *)
(* either order: Footprint::commutes_with promises no more than it keeps.      *)
THEOREM FootprintsCommute == Spec => []NeighboursCommute
<1>1. HistoryInv => NeighboursCommute
  <2>. SUFFICES ASSUME HistoryInv PROVE NeighboursCommute
    OBVIOUS
  <2>1. Recorded(acts, docs)
    BY DEF HistoryInv
  <2>2. /\ Len(acts) \in Nat
        /\ \A i \in 1..Len(acts) : WellFormed(acts[i]) /\ docs[i + 1] = Fold(acts[i], docs[i])
        /\ \A i \in 1..Len(acts) + 1 : Sound(docs[i])
    BY <2>1, RecordedSteps
  <2>3. ASSUME NEW i \in 1..Len(acts) - 1, ~ Conflicts(acts[i], acts[i + 1])
        PROVE  Fold(acts[i], Fold(acts[i + 1], docs[i])) = docs[i + 2]
    <3>1. i \in 1..Len(acts) /\ i + 1 \in 1..Len(acts) /\ i \in 1..Len(acts) + 1 /\ (i + 1) + 1 = i + 2
      BY <2>2
    <3>2. /\ WellFormed(acts[i]) /\ WellFormed(acts[i + 1]) /\ Sound(docs[i])
          /\ docs[i + 1] = Fold(acts[i], docs[i]) /\ docs[i + 2] = Fold(acts[i + 1], docs[i + 1])
      BY <2>2, <3>1
    <3>3. Fold(acts[i + 1], Fold(acts[i], docs[i])) = Fold(acts[i], Fold(acts[i + 1], docs[i]))
      BY <2>3, <3>2, FoldsCommute
    <3>. QED
      BY <3>2, <3>3
  <2>. QED
    BY <2>3 DEF NeighboursCommute
<1>. QED
  BY <1>1, HistoryInvHolds, PTL

(* Every snapshot is a tree: each layer once, carried by none or by a layer    *)
(* before it that is no filter, with what it carries directly after it         *)
(* (state.rs: ids are refused rather than doubled, cycles declined).           *)
THEOREM SubtreesStayWhole == Spec => []TypeOK
<1>1. HistoryInv => TypeOK
  <2>. SUFFICES ASSUME HistoryInv PROVE TypeOK
    OBVIOUS
  <2>1. /\ Sane(acts) /\ Tidy(docs[1]) /\ IsSeq(docs) /\ Len(docs) = Len(acts) + 1
        /\ \A i \in 1..Len(acts) : docs[i + 1] = Fold(acts[i], docs[i])
    BY DEF HistoryInv, Recorded
  <2>2. Folded(docs[1], acts, docs)
    BY <2>1 DEF Folded
  <2>3. AllTidy(docs)
    BY <2>1, <2>2, FoldedIsTidy
  <2>4. DOMAIN docs = 1..Len(docs)
    BY <2>1 DEF IsSeq
  <2>. QED
    BY <2>3, <2>4, TidyIsTree DEF TypeOK, AllTidy
<1>. QED
  BY <1>1, HistoryInvHolds, PTL

===============================================================================
