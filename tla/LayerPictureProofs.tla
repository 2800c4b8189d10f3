-------------------------- MODULE LayerPictureProofs --------------------------
(* For any scene of well-formed actions, however its authors commit and undo:  *)
(* no merge changes the picture.  In the order of the proof: laying pictures,  *)
(* the depth of merges, stacks with a layer less, and the merge itself.        *)
EXTENDS LayerHistoryProofs, LayerPicture

-----------------------------------------------------------------------------
(* Pictures                                                                    *)

(* Sequences alike in length and at every place are equal.                    *)
LEMMA SamePlaces ==
  ASSUME NEW s, IsSeq(s), NEW t, IsSeq(t), Len(s) = Len(t), \A i \in 1..Len(s) : s[i] = t[i]
  PROVE  s = t
<1>1. PICK X : s \in Seq(X)
  BY DEF IsSeq
<1>2. PICK Y : t \in Seq(Y)
  BY DEF IsSeq
<1>3. Len(s) \in Nat /\ s = [i \in 1..Len(s) |-> s[i]] /\ t = [i \in 1..Len(t) |-> t[i]]
  BY <1>1, <1>2
<1>. QED
  BY <1>3

(* An element of the draw list, with all its settings.                         *)
IsPiece(e) == e = [what |-> e.what, blend |-> e.blend, clip |-> e.clip, sliders |-> e.sliders]

(* A picture: whatever it is, a filter has something beneath it.               *)
IsPicture(pic) ==
  /\ IsSeq(pic) /\ Len(pic) \in Nat
  /\ \A i \in 1..Len(pic) : IsPiece(pic[i])
  /\ Len(pic) # 0 => ~ IsFilter(pic[1])

(* Nothing drawn is a picture, and the only one of no elements.                *)
LEMMA EmptyPicture ==
  /\ IsPicture(<<>>) /\ Len(<<>>) = 0
  /\ \A pic : IsPicture(pic) /\ pic # <<>> => Len(pic) >= 1
<1>1. Len(<<>>) = 0 /\ <<>> \in Seq({})
  OBVIOUS
<1>2. IsPicture(<<>>)
  BY <1>1 DEF IsPicture, IsSeq
<1>3. ASSUME NEW pic, IsPicture(pic), pic # <<>> PROVE Len(pic) >= 1
  <2>1. CASE Len(pic) = 0
    <3>1. pic = <<>>
      BY <1>1, <1>2, <1>3, <2>1, SamePlaces DEF IsPicture
    <3>. QED
      BY <1>3, <3>1
  <2>. QED
    BY <1>3, <2>1 DEF IsPicture
<1>. QED
  BY <1>1, <1>2, <1>3

(* The last stuck place, or the foot.                                          *)
LEMMA CoreOf ==
  ASSUME NEW n \in Nat, n >= 1, NEW stuck \in SUBSET (1..n)
  PROVE  /\ Core(stuck) \in 1..n /\ Core(stuck) \in {1} \cup stuck
         /\ \A i \in stuck : i <= Core(stuck)
<1>. DEFINE S == {1} \cup stuck
            T == {m \in Nat : \A i \in S : i <= m}
<1>1. n \in T /\ T \in SUBSET Nat /\ T # {}
  OBVIOUS
<1>2. PICK k \in T : \A m \in T : k <= m
  BY <1>1, LeastNumber
<1>3. k \in S
  <2>. SUFFICES ASSUME k \notin S PROVE FALSE
    OBVIOUS
  <2>1. \A i \in S : i \in Nat /\ i <= k /\ i # k
    BY <1>2
  <2>2. 1 \in S /\ k \in Nat
    BY <1>2
  <2>3. k - 1 \in T
    BY <2>1, <2>2
  <2>. QED
    BY <1>2, <2>2, <2>3
<1>4. \A i \in S : k >= i
  BY <1>2
<1>. HIDE DEF T
<1>. DEFINE c == Core(stuck)
<1>5. c = CHOOSE x \in S : \A y \in S : x >= y
  BY DEF Core, Max
<1>. HIDE DEF c
<1>6. c \in S /\ \A i \in S : c >= i
  BY <1>3, <1>4, <1>5
<1>7. c \in 1..n /\ c \in {1} \cup stuck /\ \A i \in stuck : i <= c
  BY <1>6
<1>. QED
  BY <1>7 DEF c

(* A core is known by being one of its places, past which none is stuck.       *)
LEMMA OnlyCore ==
  ASSUME NEW n \in Nat, n >= 1, NEW stuck \in SUBSET (1..n), NEW k \in {1} \cup stuck,
         \A i \in stuck : i <= k
  PROVE  k = Core(stuck)
<1>1. Core(stuck) \in 1..n /\ Core(stuck) \in {1} \cup stuck /\ \A i \in stuck : i <= Core(stuck)
  BY CoreOf
<1>2. k \in 1..n
  OBVIOUS
<1>3. k <= Core(stuck) /\ Core(stuck) <= k
  BY <1>1, <1>2
<1>. QED
  BY <1>1, <1>2, <1>3

(* A picture with e in the stead of its first k elements.                      *)
CrownedIs(e, pic, k, u) ==
  /\ IsSeq(u) /\ Len(u) = Len(pic) - k + 1 /\ u[1] = e
  /\ \A i \in 2..Len(u) : u[i] = pic[k + i - 1]

(* That is what crowning makes.                                                *)
LEMMA CrownedOf ==
  ASSUME NEW pic, IsSeq(pic), Len(pic) \in Nat, NEW k \in 1..Len(pic), NEW e
  PROVE  CrownedIs(e, pic, k, Crowned(e, pic, k))
<1>. DEFINE top == SubSeq(pic, k + 1, Len(pic))
            u == <<e>> \o top
<1>1. k + 1 \in 1..Len(pic) + 1 /\ Len(pic) \in k + 1 - 1..Len(pic)
  OBVIOUS
<1>2. Part(pic, k + 1, Len(pic), top)
  BY <1>1, PartOf
<1>3. IsSeq(<<e>>) /\ Len(<<e>>) = 1 /\ <<e>>[1] = e
  BY SinglePart
<1>4. Joined(<<e>>, top, u)
  BY <1>2, <1>3, JoinedOf DEF Part
<1>. HIDE DEF top, u
<1>5. Len(top) = Len(pic) - k /\ \A i \in 1..Len(pic) - k : top[i] = pic[k + i]
  BY <1>2 DEF Part
<1>6. IsSeq(u) /\ Len(u) = Len(pic) - k + 1 /\ u[1] = e
  BY <1>3, <1>4, <1>5 DEF Joined
<1>7. ASSUME NEW i \in 2..Len(u) PROVE u[i] = pic[k + i - 1]
  <2>1. i - 1 \in 1..Len(top) /\ i - 1 \in 1..Len(pic) - k
    BY <1>5, <1>6
  <2>2. u[Len(<<e>>) + (i - 1)] = top[i - 1]
    BY <1>4, <2>1 DEF Joined
  <2>3. Len(<<e>>) + (i - 1) = i /\ k + (i - 1) = k + i - 1
    BY <1>3
  <2>. QED
    BY <1>5, <2>1, <2>2, <2>3
<1>. QED
  BY <1>6, <1>7 DEF CrownedIs, Crowned, u, top

(* The first elements of a picture made one are an element, and no filter.     *)
LEMMA IsolatedIsPiece ==
  ASSUME NEW pic, IsPicture(pic), NEW k \in 1..Len(pic)
  PROVE  IsPiece(Isolated(pic, k)) /\ ~ IsFilter(Isolated(pic, k))
<1>1. CASE k = 1
  BY <1>1 DEF IsPicture, Isolated
<1>2. CASE k # 1
  <2>1. Isolated(pic, k) = [what |-> <<"group", SubSeq(pic, 1, k)>>, blend |-> "any",
                            clip |-> FALSE, sliders |-> <<>>]
    BY <1>2 DEF Isolated, Piece
  <2>2. <<"group", SubSeq(pic, 1, k)>>[1] = "group" /\ "group" # "pass"
    OBVIOUS
  <2>. QED
    BY <2>1, <2>2 DEF IsPiece, IsFilter
<1>. QED
  BY <1>1, <1>2

(* A picture with its first elements replaced by one that is no filter.        *)
LEMMA CrownedIsPicture ==
  ASSUME NEW pic, IsPicture(pic), NEW k \in 1..Len(pic), NEW e, IsPiece(e), ~ IsFilter(e)
  PROVE  /\ IsPicture(Crowned(e, pic, k)) /\ Len(Crowned(e, pic, k)) >= 1
         /\ Crowned(e, pic, k) # <<>>
<1>. DEFINE u == Crowned(e, pic, k)
<1>1. CrownedIs(e, pic, k, u)
  BY CrownedOf DEF IsPicture
<1>. HIDE DEF u
<1>2. Len(pic) \in Nat /\ IsSeq(u) /\ Len(u) = Len(pic) - k + 1 /\ u[1] = e
  BY <1>1 DEF CrownedIs, IsPicture
<1>3. ASSUME NEW i \in 1..Len(u) PROVE IsPiece(u[i])
  <2>1. CASE i = 1
    BY <1>2, <2>1
  <2>2. CASE i # 1
    <3>1. i \in 2..Len(u) /\ k + i - 1 \in 1..Len(pic)
      BY <1>2, <2>2
    <3>. QED
      BY <1>1, <3>1 DEF CrownedIs, IsPicture
  <2>. QED
    BY <2>1, <2>2
<1>4. IsPicture(u) /\ Len(u) >= 1
  BY <1>2, <1>3 DEF IsPicture
<1>5. u # <<>>
  BY <1>4, EmptyPicture
<1>. QED
  BY <1>4, <1>5 DEF u

(* One picture on another.                                                     *)
LEMMA JoinedPictures ==
  ASSUME NEW below, IsPicture(below), Len(below) >= 1, NEW above, IsSeq(above), Len(above) \in Nat,
         \A i \in 1..Len(above) : IsPiece(above[i])
  PROVE  IsPicture(below \o above) /\ Len(below \o above) >= 1 /\ below \o above # <<>>
<1>. DEFINE u == below \o above
<1>1. Joined(below, above, u)
  BY JoinedOf DEF IsPicture
<1>. HIDE DEF u
<1>2. IsSeq(u) /\ Len(u) = Len(below) + Len(above) /\ Len(below) \in Nat
  BY <1>1 DEF Joined, IsPicture
<1>3. ASSUME NEW i \in 1..Len(u) PROVE IsPiece(u[i])
  <2>1. CASE i <= Len(below)
    <3>1. i \in 1..Len(below)
      BY <1>2, <2>1
    <3>. QED
      BY <1>1, <3>1 DEF Joined, IsPicture
  <2>2. CASE ~ (i <= Len(below))
    <3>1. i - Len(below) \in 1..Len(above) /\ Len(below) + (i - Len(below)) = i
      BY <1>2, <2>2
    <3>. QED
      BY <1>1, <3>1 DEF Joined
  <2>. QED
    BY <2>1, <2>2
<1>4. u[1] = below[1]
  BY <1>1, <1>2 DEF Joined
<1>5. IsPicture(u) /\ Len(u) >= 1
  BY <1>2, <1>3, <1>4 DEF IsPicture
<1>6. u # <<>>
  BY <1>5, EmptyPicture
<1>. QED
  BY <1>5, <1>6 DEF u

(* An element under one more slider.                                           *)
Slid(e, o) == [e EXCEPT !.sliders = Append(@, o)]

(* An element stays one where it is laid.                                      *)
LEMMA LaidIsPiece ==
  ASSUME NEW e, IsPiece(e), ~ IsFilter(e), NEW b, NEW c
  PROVE  /\ IsPiece(Laid(e, b, c)) /\ ~ IsFilter(Laid(e, b, c))
         /\ Laid(e, b, c).blend = b /\ Laid(e, b, c).clip = c
<1>1. PICK w, b0, c0, s0 : e = [what |-> w, blend |-> b0, clip |-> c0, sliders |-> s0]
  BY Zenon DEF IsPiece
<1>2. e.what = w
  BY <1>1
<1>3. Laid(e, b, c) = [what |-> w, blend |-> b, clip |-> c, sliders |-> s0]
  BY <1>1 DEF Laid
<1>. QED
  BY <1>2, <1>3 DEF IsPiece, IsFilter

(* And under a slider.                                                         *)
LEMMA SlidIsPiece ==
  ASSUME NEW e, IsPiece(e), ~ IsFilter(e), NEW o
  PROVE  IsPiece(Slid(e, o)) /\ ~ IsFilter(Slid(e, o))
<1>1. PICK w, b0, c0, s0 : e = [what |-> w, blend |-> b0, clip |-> c0, sliders |-> s0]
  BY Zenon DEF IsPiece
<1>2. e.what = w
  BY <1>1
<1>. DEFINE s == Append(e.sliders, o)
<1>4. Slid(e, o) = [e EXCEPT !.sliders = s]
  BY Zenon DEF Slid
<1>. HIDE DEF s
<1>5. Slid(e, o) = [what |-> w, blend |-> b0, clip |-> c0, sliders |-> s]
  BY <1>1, <1>4
<1>. QED
  BY <1>2, <1>5 DEF IsPiece, IsFilter

(* Where a slider stops.                                                       *)
Unscaled(pic) == {i \in DOMAIN pic : ~(IsFilter(pic[i]) /\ pic[i].what[2] \notin Resampling)}

(* A picture under a slider.                                                   *)
LEMMA ScaledIs ==
  ASSUME NEW pic, NEW o
  PROVE  /\ pic = <<>> \/ o = "full" => Scaled(pic, o) = pic
         /\ pic # <<>> /\ o # "full" =>
              Scaled(pic, o) = Crowned(Slid(Isolated(pic, Core(Unscaled(pic))), o), pic,
                                       Core(Unscaled(pic)))
BY DEF Scaled, Slid, Unscaled

(* A picture under a slider is a picture, and empty only if it was.          *)
LEMMA ScaledIsPicture ==
  ASSUME NEW pic, IsPicture(pic), NEW o
  PROVE  /\ IsPicture(Scaled(pic, o))
         /\ Scaled(pic, o) = <<>> <=> pic = <<>>
<1>1. CASE pic = <<>> \/ o = "full"
  BY <1>1, ScaledIs
<1>2. CASE pic # <<>> /\ o # "full"
  <2>. DEFINE k == Core(Unscaled(pic))
              e == Slid(Isolated(pic, k), o)
  <2>1. Len(pic) >= 1 /\ Len(pic) \in Nat /\ DOMAIN pic = 1..Len(pic)
    BY <1>2, EmptyPicture DEF IsPicture, IsSeq
  <2>2. Unscaled(pic) \in SUBSET (1..Len(pic))
    BY <2>1 DEF Unscaled
  <2>3. k \in 1..Len(pic)
    BY <2>1, <2>2, CoreOf
  <2>4. Scaled(pic, o) = Crowned(e, pic, k)
    BY <1>2, ScaledIs
  <2>. HIDE DEF k
  <2>5. IsPiece(Isolated(pic, k)) /\ ~ IsFilter(Isolated(pic, k))
    BY <2>3, IsolatedIsPiece
  <2>6. IsPiece(e) /\ ~ IsFilter(e)
    BY <2>5, SlidIsPiece
  <2>. HIDE DEF e
  <2>7. IsPicture(Crowned(e, pic, k)) /\ Crowned(e, pic, k) # <<>>
    BY <2>3, <2>6, CrownedIsPicture
  <2>. QED
    BY <1>2, <2>4, <2>7
<1>. QED
  BY <1>1, <1>2

(* What a run adds to a backdrop it is laid on in the mode b, unclipped.       *)
OnTop(run, b) == LET k == Core(Foreign(run, b))
                 IN  Crowned(Laid(Isolated(run, k), b, FALSE), run, k)

(* A run laid on a backdrop in the mode b, unclipped.                          *)
LaidOn(backdrop, b, run) ==
  IF run = <<>> THEN backdrop ELSE IF backdrop = <<>> THEN run
  ELSE backdrop \o OnTop(run, b)

(* And one clipped to it.                                                      *)
ClippedTo(backdrop, b, run) ==
  IF run = <<>> \/ backdrop = <<>> THEN backdrop
  ELSE backdrop \o Crowned(Laid(Isolated(run, Len(run)), b, TRUE), run, Len(run))

(* Laying is one or the other, by the clip.                                  *)
LEMMA LayIs ==
  ASSUME NEW backdrop, NEW p, NEW pic
  PROVE  /\ ~ p.clip => Lay(backdrop, p, pic) = LaidOn(backdrop, p.blend, Scaled(pic, p.opacity))
         /\ p.clip => Lay(backdrop, p, pic) = ClippedTo(backdrop, p.blend, Scaled(pic, p.opacity))
<1>. DEFINE run == Scaled(pic, p.opacity)
<1>. HIDE DEF run
<1>1. CASE ~ p.clip
  <2>1. Lay(backdrop, p, pic)
          = IF run = <<>> THEN backdrop ELSE IF backdrop = <<>> THEN run
            ELSE backdrop \o Crowned(Laid(Isolated(run, Core(Foreign(run, p.blend))), p.blend, FALSE),
                                     run, Core(Foreign(run, p.blend)))
    BY <1>1, Zenon DEF Lay, run
  <2>. QED
    BY <1>1, <2>1, Zenon DEF LaidOn, OnTop, run
<1>2. CASE p.clip
  <2>1. Lay(backdrop, p, pic)
          = IF run = <<>> \/ backdrop = <<>> THEN backdrop
            ELSE backdrop \o Crowned(Laid(Isolated(run, Len(run)), p.blend, TRUE), run, Len(run))
    BY <1>2, Zenon DEF Lay, run
  <2>. QED
    BY <1>2, <2>1, Zenon DEF ClippedTo, Laid, run
<1>. QED
  BY <1>1, <1>2

(* Sequences one after another, whichever way they are bracketed.              *)
LEMMA JoinedThrice ==
  ASSUME NEW s, IsSeq(s), NEW t, IsSeq(t), NEW u, IsSeq(u)
  PROVE  (s \o t) \o u = s \o (t \o u)
<1>. DEFINE a == s \o t
            b == t \o u
            l == a \o u
            r == s \o b
<1>1. Joined(s, t, a) /\ Joined(t, u, b)
  BY JoinedOf
<1>. HIDE DEF a, b
<1>0. IsSeq(a) /\ IsSeq(b)
  BY <1>1 DEF Joined
<1>2. Joined(a, u, l) /\ Joined(s, b, r)
  BY <1>0, JoinedOf
<1>. HIDE DEF l, r
<1>3. /\ Len(s) \in Nat /\ Len(t) \in Nat /\ Len(u) \in Nat
      /\ Len(a) = Len(s) + Len(t) /\ Len(b) = Len(t) + Len(u)
      /\ Len(l) = Len(a) + Len(u) /\ Len(r) = Len(s) + Len(b) /\ Len(l) = Len(r)
  BY <1>1, <1>2 DEF Joined
<1>4. ASSUME NEW i \in 1..Len(l) PROVE l[i] = r[i]
  <2>1. CASE i <= Len(s)
    <3>1. i \in 1..Len(s) /\ i \in 1..Len(a)
      BY <1>3, <2>1
    <3>. QED
      BY <1>1, <1>2, <3>1 DEF Joined
  <2>2. CASE ~ (i <= Len(s)) /\ i <= Len(a)
    <3>. DEFINE j == i - Len(s)
    <3>1. j \in 1..Len(t) /\ j \in 1..Len(b) /\ i \in 1..Len(a) /\ Len(s) + j = i
      BY <1>3, <2>2
    <3>. HIDE DEF j
    <3>2. l[i] = a[i] /\ a[Len(s) + j] = t[j] /\ r[Len(s) + j] = b[j] /\ b[j] = t[j]
      BY <1>1, <1>2, <3>1 DEF Joined
    <3>. QED
      BY <3>1, <3>2
  <2>3. CASE ~ (i <= Len(a))
    <3>. DEFINE j == i - Len(a)
    <3>1. /\ j \in 1..Len(u) /\ Len(t) + j \in 1..Len(b)
          /\ Len(a) + j = i /\ Len(s) + (Len(t) + j) = i
      BY <1>3, <2>3
    <3>. HIDE DEF j
    <3>2. /\ l[Len(a) + j] = u[j] /\ r[Len(s) + (Len(t) + j)] = b[Len(t) + j]
          /\ b[Len(t) + j] = u[j]
      BY <1>1, <1>2, <3>1 DEF Joined
    <3>. QED
      BY <3>1, <3>2
  <2>. QED
    BY <2>1, <2>2, <2>3
<1>5. IsSeq(l) /\ IsSeq(r)
  BY <1>2 DEF Joined
<1>6. l = r
  BY <1>3, <1>4, <1>5, SamePlaces
<1>. QED
  BY <1>6, Zenon DEF l, r, a, b

(* What is on top of the crowned elements stays there.                         *)
LEMMA CrownedUnder ==
  ASSUME NEW s, IsSeq(s), NEW t, IsSeq(t), NEW k \in 1..Len(s), NEW e
  PROVE  /\ Crowned(e, s \o t, k) = Crowned(e, s, k) \o t
         /\ SubSeq(s \o t, 1, k) = SubSeq(s, 1, k)
         /\ Isolated(s \o t, k) = Isolated(s, k)
<1>. DEFINE u == s \o t
            l == Crowned(e, u, k)
            c == Crowned(e, s, k)
            r == c \o t
            f == SubSeq(u, 1, k)
            g == SubSeq(s, 1, k)
<1>1. Joined(s, t, u)
  BY JoinedOf
<1>. HIDE DEF u
<1>2. Len(s) \in Nat /\ Len(t) \in Nat /\ Len(u) = Len(s) + Len(t) /\ IsSeq(u) /\ k \in 1..Len(u)
      /\ Len(u) \in Nat
  BY <1>1 DEF Joined
<1>3. CrownedIs(e, u, k, l) /\ CrownedIs(e, s, k, c)
  BY <1>2, CrownedOf
<1>. HIDE DEF l, c
<1>4. Joined(c, t, r)
  BY <1>3, JoinedOf DEF CrownedIs
<1>. HIDE DEF r
<1>5. /\ Len(l) = Len(u) - k + 1 /\ Len(c) = Len(s) - k + 1 /\ Len(r) = Len(c) + Len(t)
      /\ Len(l) = Len(r) /\ IsSeq(l) /\ IsSeq(r) /\ l[1] = e /\ c[1] = e
  BY <1>2, <1>3, <1>4 DEF CrownedIs, Joined
<1>6. ASSUME NEW i \in 1..Len(l) PROVE l[i] = r[i]
  <2>1. CASE i = 1
    <3>1. 1 \in 1..Len(c)
      BY <1>2, <1>5
    <3>. QED
      BY <1>4, <1>5, <2>1, <3>1 DEF Joined
  <2>2. CASE i # 1 /\ i <= Len(c)
    <3>0. i \in Nat /\ i >= 2 /\ k \in Nat /\ k >= 1 /\ k <= Len(s) /\ Len(c) \in Nat /\ Len(l) \in Nat
      BY <1>2, <1>5, <2>2
    <3>1. i \in 2..Len(l) /\ i \in 2..Len(c) /\ i \in 1..Len(c) /\ k + i - 1 \in 1..Len(s)
      BY <3>0, <1>2, <1>5, <2>2
    <3>2. l[i] = u[k + i - 1] /\ c[i] = s[k + i - 1] /\ r[i] = c[i] /\ u[k + i - 1] = s[k + i - 1]
      BY <1>1, <1>3, <1>4, <3>1 DEF CrownedIs, Joined
    <3>. QED
      BY <3>2
  <2>3. CASE ~ (i <= Len(c))
    <3>. DEFINE j == i - Len(c)
    <3>1. /\ j \in 1..Len(t) /\ i \in 2..Len(l) /\ Len(c) + j = i /\ k + i - 1 = Len(s) + j
      BY <1>2, <1>5, <2>3
    <3>. HIDE DEF j
    <3>2. l[i] = u[k + i - 1] /\ u[Len(s) + j] = t[j] /\ r[Len(c) + j] = t[j]
      BY <1>1, <1>3, <1>4, <3>1 DEF CrownedIs, Joined
    <3>. QED
      BY <3>1, <3>2
  <2>. QED
    BY <2>1, <2>2, <2>3, <1>5
<1>7. l = r
  BY <1>5, <1>6, SamePlaces
<1>8. f = g
  <2>1. Part(u, 1, k, f) /\ Part(s, 1, k, g)
    BY <1>2, PartOf
  <2>. HIDE DEF f, g
  <2>2. IsSeq(f) /\ IsSeq(g) /\ Len(f) = k - 1 + 1 /\ Len(g) = k - 1 + 1
    BY <2>1 DEF Part
  <2>3. ASSUME NEW i \in 1..Len(f) PROVE f[i] = g[i]
    <3>1. i \in 1..k - 1 + 1 /\ i \in 1..Len(s) /\ 1 + i - 1 = i
      BY <1>2, <2>2
    <3>2. f[i] = u[1 + i - 1] /\ g[i] = s[1 + i - 1] /\ u[i] = s[i]
      BY <1>1, <2>1, <3>1 DEF Part, Joined
    <3>. QED
      BY <3>1, <3>2
  <2>. QED
    BY <2>2, <2>3, SamePlaces
<1>9. u[1] = s[1]
  BY <1>1, <1>2 DEF Joined
<1>10. Isolated(u, k) = Isolated(s, k)
  BY <1>8, <1>9, Zenon DEF Isolated, f, g
<1>. QED
  BY <1>7, <1>8, <1>10, Zenon DEF l, c, r, f, g, u

(* The elements above the core of a run are laid as they are, in its mode.     *)
LEMMA LaidAbove ==
  ASSUME NEW run, IsPicture(run), run # <<>>, NEW b
  PROVE  /\ Core(Foreign(run, b)) \in 1..Len(run)
         /\ Foreign(run, b) \in SUBSET (1..Len(run))
         /\ IsPicture(OnTop(run, b)) /\ OnTop(run, b) # <<>> /\ Len(OnTop(run, b)) >= 1
         /\ \A i \in 1..Len(OnTop(run, b)) :
              ~ (\/ IsFilter(OnTop(run, b)[i]) \/ OnTop(run, b)[i].clip
                 \/ OnTop(run, b)[i].blend # b)
<1>. DEFINE k == Core(Foreign(run, b))
            no == FALSE
            e == Laid(Isolated(run, k), b, no)
            c == Crowned(e, run, k)
<1>1. Len(run) >= 1 /\ Len(run) \in Nat /\ DOMAIN run = 1..Len(run) /\ IsSeq(run)
  BY EmptyPicture DEF IsPicture, IsSeq
<1>2. Foreign(run, b) \in SUBSET (1..Len(run))
  BY <1>1 DEF Foreign
<1>3. k \in 1..Len(run) /\ \A i \in Foreign(run, b) : i <= k
  BY <1>1, <1>2, CoreOf
<1>. HIDE DEF k
<1>4. IsPiece(Isolated(run, k)) /\ ~ IsFilter(Isolated(run, k))
  BY <1>3, IsolatedIsPiece
<1>. DEFINE i1 == Isolated(run, k)
<1>. HIDE DEF no, i1
<1>5. IsPiece(e) /\ ~ IsFilter(e) /\ e.blend = b /\ e.clip = no
  BY <1>4, LaidIsPiece DEF i1
<1>5a. ~ e.clip
  BY <1>5 DEF no
<1>. HIDE DEF e
<1>6. IsPicture(c) /\ c # <<>> /\ Len(c) >= 1
  BY <1>3, <1>5, CrownedIsPicture
<1>7. CrownedIs(e, run, k, c)
  BY <1>1, <1>3, CrownedOf
<1>. HIDE DEF c
<1>8. ASSUME NEW i \in 1..Len(c) PROVE ~ (IsFilter(c[i]) \/ c[i].clip \/ c[i].blend # b)
  <2>1. CASE i = 1
    BY <1>5, <1>5a, <1>7, <2>1 DEF CrownedIs
  <2>2. CASE i # 1
    <3>. DEFINE j == k + i - 1
    <3>1. i \in 2..Len(c) /\ j \in 1..Len(run) /\ ~ (j <= k)
      BY <1>1, <1>3, <1>7, <2>2 DEF CrownedIs
    <3>. HIDE DEF j
    <3>2. c[i] = run[j]
      BY <1>7, <3>1 DEF CrownedIs, j
    <3>3. j \notin Foreign(run, b) /\ j \in DOMAIN run
      BY <1>1, <1>3, <3>1
    <3>. QED
      BY <3>2, <3>3 DEF Foreign
  <2>. QED
    BY <2>1, <2>2
<1>9. /\ k \in 1..Len(run) /\ IsPicture(c) /\ c # <<>> /\ Len(c) >= 1
      /\ Foreign(run, b) \in SUBSET (1..Len(run))
      /\ \A i \in 1..Len(c) : ~ (IsFilter(c[i]) \/ c[i].clip \/ c[i].blend # b)
  BY <1>2, <1>3, <1>6, <1>8
<1>. QED
  <2>1. OnTop(run, b) = c /\ Core(Foreign(run, b)) = k
    BY Zenon DEF c, e, k, no, OnTop
  <2>. QED
    BY <1>9, <2>1

(* A run laid unclipped makes a picture, of nothing only where both are.       *)
LEMMA LaidOnIsPicture ==
  ASSUME NEW p, IsPicture(p), NEW run, IsPicture(run), NEW b
  PROVE  IsPicture(LaidOn(p, b, run))
<1>1. CASE run = <<>> \/ p = <<>>
  BY <1>1, Zenon DEF LaidOn
<1>2. CASE run # <<>> /\ p # <<>>
  <2>. DEFINE c == OnTop(run, b)
  <2>1. LaidOn(p, b, run) = p \o c
    BY <1>2, Zenon DEF LaidOn
  <2>2. IsPicture(c)
    BY <1>2, LaidAbove
  <2>. HIDE DEF c
  <2>3. Len(p) >= 1
    BY <1>2, EmptyPicture
  <2>4. IsPicture(p \o c)
    BY <2>2, <2>3, JoinedPictures DEF IsPicture
  <2>. QED
    BY <2>1, <2>4
<1>. QED
  BY <1>1, <1>2

(* Clipped as well.                                                            *)
LEMMA ClippedToIsPicture ==
  ASSUME NEW p, IsPicture(p), NEW run, IsPicture(run), NEW b
  PROVE  IsPicture(ClippedTo(p, b, run))
<1>1. CASE run = <<>> \/ p = <<>>
  BY <1>1, Zenon DEF ClippedTo
<1>2. CASE run # <<>> /\ p # <<>>
  <2>. DEFINE k == Len(run)
              yes == TRUE
              i1 == Isolated(run, k)
              e == Laid(i1, b, yes)
              c == Crowned(e, run, k)
  <2>1. ClippedTo(p, b, run) = p \o c
    BY <1>2, Zenon DEF ClippedTo
  <2>2. k \in 1..Len(run)
    BY <1>2, EmptyPicture DEF IsPicture
  <2>. HIDE DEF k, yes
  <2>3. IsPiece(i1) /\ ~ IsFilter(i1)
    BY <2>2, IsolatedIsPiece
  <2>. HIDE DEF i1
  <2>4. IsPiece(e) /\ ~ IsFilter(e)
    BY <2>3, LaidIsPiece
  <2>. HIDE DEF e
  <2>5. IsPicture(c)
    BY <2>2, <2>4, CrownedIsPicture
  <2>. HIDE DEF c
  <2>6. Len(p) >= 1
    BY <1>2, EmptyPicture
  <2>7. IsPicture(p \o c)
    BY <2>5, <2>6, JoinedPictures DEF IsPicture
  <2>. QED
    BY <2>1, <2>7
<1>. QED
  BY <1>1, <1>2

(* Laying a picture on a picture makes one.                                    *)
LEMMA LayIsPicture ==
  ASSUME NEW p, IsPicture(p), NEW params, NEW pic, IsPicture(pic)
  PROVE  IsPicture(Lay(p, params, pic))
<1>. DEFINE run == Scaled(pic, params.opacity)
<1>1. IsPicture(run)
  BY ScaledIsPicture
<1>. HIDE DEF run
<1>2. CASE params.clip
  <2>1. Lay(p, params, pic) = ClippedTo(p, params.blend, run)
    BY <1>2, LayIs DEF run
  <2>. QED
    BY <1>1, <2>1, ClippedToIsPicture
<1>3. CASE ~ params.clip
  <2>1. Lay(p, params, pic) = LaidOn(p, params.blend, run)
    BY <1>3, LayIs DEF run
  <2>. QED
    BY <1>1, <2>1, LaidOnIsPicture
<1>. QED
  BY <1>2, <1>3

(* What a filter's pass adds.                                                  *)
Pass(filter, opacity) == [Piece(<<"pass", filter>>) EXCEPT
                            !.sliders = IF opacity = "full" THEN <<>> ELSE <<opacity>>]

(* A pass is an element.                                                       *)
LEMMA PassIsPiece ==
  ASSUME NEW g, NEW o
  PROVE  IsPiece(Pass(g, o)) /\ Pass(g, o).what = <<"pass", g>>
<1>. DEFINE s == IF o = "full" THEN <<>> ELSE <<o>>
            w == <<"pass", g>>
            b0 == "any"
            c0 == FALSE
            s0 == <<>>
<1>1. Pass(g, o) = [[what |-> w, blend |-> b0, clip |-> c0, sliders |-> s0] EXCEPT !.sliders = s]
  BY Zenon DEF Pass, Piece
<1>. HIDE DEF s, w, b0, c0, s0
<1>2. Pass(g, o) = [what |-> w, blend |-> b0, clip |-> c0, sliders |-> s]
  BY <1>1
<1>3. IsPiece(Pass(g, o)) /\ Pass(g, o).what = w
  BY <1>2 DEF IsPiece
<1>. QED
  BY <1>3 DEF w

(* Filtering is adding a pass, where there is something to pass over.          *)
LEMMA FilteredIs ==
  ASSUME NEW p, NEW g, NEW o
  PROVE  /\ p = <<>> \/ g \in Neutral => Filtered(p, g, o) = p
         /\ ~ (p = <<>> \/ g \in Neutral) => Filtered(p, g, o) = Append(p, Pass(g, o))
BY Zenon DEF Filtered, Pass

(* One more element on top is another run of one.                              *)
LEMMA AppendedIsJoined ==
  ASSUME NEW s, IsSeq(s), NEW e
  PROVE  Append(s, e) = s \o <<e>> /\ IsSeq(<<e>>) /\ Len(<<e>>) = 1 /\ <<e>>[1] = e
<1>1. PICK X : s \in Seq(X)
  BY DEF IsSeq
<1>. DEFINE Z == X \cup {e}
<1>2. s \in Seq(Z) /\ e \in Z
  BY <1>1
<1>. HIDE DEF Z
<1>3. Append(s, e) = s \o <<e>>
  BY <1>2
<1>. QED
  BY <1>3, SinglePart

(* A filter run over a picture makes a picture.                                *)
LEMMA FilteredIsPicture ==
  ASSUME NEW p, IsPicture(p), NEW g, NEW o
  PROVE  IsPicture(Filtered(p, g, o))
<1>1. CASE p = <<>> \/ g \in Neutral
  BY <1>1, FilteredIs
<1>2. CASE ~ (p = <<>> \/ g \in Neutral)
  <2>. DEFINE e == Pass(g, o)
              s == <<e>>
  <2>1. IsPiece(e)
    BY PassIsPiece
  <2>2. Filtered(p, g, o) = Append(p, e)
    BY <1>2, FilteredIs
  <2>. HIDE DEF e
  <2>3. Append(p, e) = p \o s /\ IsSeq(s) /\ Len(s) = 1 /\ s[1] = e
    BY AppendedIsJoined DEF IsPicture
  <2>. HIDE DEF s
  <2>4. \A i \in 1..Len(s) : IsPiece(s[i])
    BY <2>1, <2>3
  <2>5. Len(p) >= 1
    BY <1>2, EmptyPicture
  <2>6. IsPicture(p \o s)
    BY <2>3, <2>4, <2>5, JoinedPictures
  <2>. QED
    BY <2>2, <2>3, <2>6
<1>. QED
  BY <1>1, <1>2

(* What is laid in one mode, unclipped, is laid alike one after another or all *)
(* at once.                                                                    *)
LEMMA LayingIsAssociative ==
  ASSUME NEW p, IsPicture(p), NEW lower, IsPicture(lower), NEW upper, IsPicture(upper), NEW b
  PROVE  LaidOn(LaidOn(p, b, lower), b, upper) = LaidOn(p, b, LaidOn(lower, b, upper))
<1>1. CASE upper = <<>>
  BY <1>1, Zenon DEF LaidOn
<1>2. CASE lower = <<>>
  BY <1>2, Zenon DEF LaidOn
<1>3. CASE p = <<>>
  <2>1. LaidOn(p, b, lower) = lower
    BY <1>3, Zenon DEF LaidOn
  <2>2. LaidOn(p, b, LaidOn(lower, b, upper)) = LaidOn(lower, b, upper)
    BY <1>3, Zenon DEF LaidOn
  <2>. QED
    BY <2>1, <2>2
<1>4. CASE upper # <<>> /\ lower # <<>> /\ p # <<>>
  <2>. DEFINE u == OnTop(upper, b)
              k == Core(Foreign(lower, b))
              e == Laid(Isolated(lower, k), b, FALSE)
              l == OnTop(lower, b)
              both == lower \o u
              kb == Core(Foreign(both, b))
  <2>1. /\ IsPicture(u) /\ u # <<>> /\ Len(u) >= 1
        /\ \A i \in 1..Len(u) : ~ (IsFilter(u[i]) \/ u[i].clip \/ u[i].blend # b)
    BY <1>4, LaidAbove
  <2>2. /\ k \in 1..Len(lower) /\ IsPicture(l) /\ l # <<>>
        /\ Foreign(lower, b) \in SUBSET (1..Len(lower))
    BY <1>4, LaidAbove
  <2>3. LaidOn(lower, b, upper) = both
    BY <1>4, Zenon DEF LaidOn
  <2>4. LaidOn(p, b, lower) = p \o l
    BY <1>4, Zenon DEF LaidOn
  <2>5. p \o l # <<>>
    BY <1>4, <2>2, EmptyPicture, JoinedPictures DEF IsPicture
  <2>6. LaidOn(p \o l, b, upper) = (p \o l) \o u
    BY <1>4, <2>5, Zenon DEF LaidOn
  <2>. HIDE DEF u
  <2>7. IsPicture(both) /\ both # <<>>
    BY <1>4, <2>1, EmptyPicture, JoinedPictures DEF IsPicture
  <2>8. LaidOn(p, b, both) = p \o Crowned(Laid(Isolated(both, kb), b, FALSE), both, kb)
    BY <1>4, <2>7, Zenon DEF LaidOn, OnTop
  <2>9. Joined(lower, u, both)
    BY <2>1, JoinedOf DEF IsPicture
  <2>10. Foreign(both, b) = Foreign(lower, b)
    <3>. HIDE DEF both
    <3>1. /\ DOMAIN both = 1..Len(both) /\ Len(both) = Len(lower) + Len(u)
          /\ DOMAIN lower = 1..Len(lower) /\ Len(lower) \in Nat /\ Len(u) \in Nat
      BY <2>9 DEF Joined, IsSeq, IsPicture
    <3>2. ASSUME NEW i \in 1..Len(lower) PROVE i \in Foreign(both, b) <=> i \in Foreign(lower, b)
      <4>1. both[i] = lower[i] /\ i \in DOMAIN both /\ i \in DOMAIN lower
        BY <2>9, <3>1 DEF Joined
      <4>. QED
        BY <4>1 DEF Foreign
    <3>3. ASSUME NEW i \in DOMAIN both, i \notin 1..Len(lower) PROVE i \notin Foreign(both, b)
      <4>. DEFINE j == i - Len(lower)
      <4>1. j \in 1..Len(u) /\ Len(lower) + j = i
        BY <3>1, <3>3
      <4>. HIDE DEF j
      <4>2. both[i] = u[j]
        BY <2>9, <4>1 DEF Joined
      <4>. QED
        BY <2>1, <4>1, <4>2 DEF Foreign
    <3>4. Foreign(both, b) \subseteq DOMAIN both
      BY DEF Foreign
    <3>. QED
      BY <2>2, <3>2, <3>3, <3>4
  <2>11. kb = k
    BY <2>10, Zenon
  <2>. HIDE DEF k, kb
  <2>12. /\ Isolated(both, k) = Isolated(lower, k)
         /\ \A x : Crowned(x, both, k) = Crowned(x, lower, k) \o u
    BY <2>1, <2>2, CrownedUnder DEF IsPicture
  <2>13. Crowned(Laid(Isolated(both, k), b, FALSE), both, k) = l \o u
    BY <2>12, Zenon DEF e, l, k, OnTop
  <2>. HIDE DEF l, both, e
  <2>14. (p \o l) \o u = p \o (l \o u)
    <3>1. IsSeq(p) /\ IsSeq(l) /\ IsSeq(u)
      BY <2>1, <2>2 DEF IsPicture
    <3>. QED
      BY <3>1, JoinedThrice
  <2>. QED
    BY <2>3, <2>4, <2>6, <2>8, <2>11, <2>13, <2>14, Zenon
<1>. QED
  BY <1>1, <1>2, <1>3, <1>4

(* A pointwise filter commutes with the slider of what it is run over.         *)
LEMMA SliderUnderFilter ==
  ASSUME NEW pic, IsPicture(pic), NEW g, g \notin Resampling, NEW o, NEW s
  PROVE  Scaled(Filtered(pic, g, o), s) = Filtered(Scaled(pic, s), g, o)
<1>1. CASE pic = <<>> \/ g \in Neutral
  <2>1. Filtered(pic, g, o) = pic
    BY <1>1, FilteredIs
  <2>2. Scaled(pic, s) = <<>> \/ g \in Neutral
    BY <1>1, ScaledIsPicture
  <2>3. Filtered(Scaled(pic, s), g, o) = Scaled(pic, s)
    BY <2>2, FilteredIs
  <2>. QED
    BY <2>1, <2>3
<1>2. CASE s = "full"
  <2>1. Scaled(pic, s) = pic /\ Scaled(Filtered(pic, g, o), s) = Filtered(pic, g, o)
    BY <1>2, ScaledIs
  <2>. QED
    BY <2>1
<1>3. CASE ~ (pic = <<>> \/ g \in Neutral) /\ s # "full"
  <2>. DEFINE e == Pass(g, o)
              t == <<e>>
              over == Append(pic, e)
              k == Core(Unscaled(pic))
              x == Slid(Isolated(pic, k), s)
              c == Crowned(x, pic, k)
  <2>1. IsPiece(e) /\ e.what = <<"pass", g>>
    BY PassIsPiece
  <2>2. IsFilter(e) /\ e.what[2] = g
    BY <2>1 DEF IsFilter
  <2>3. Filtered(pic, g, o) = over
    BY <1>3, FilteredIs
  <2>. HIDE DEF e
  <2>4. over = pic \o t /\ IsSeq(t) /\ Len(t) = 1 /\ t[1] = e
    BY AppendedIsJoined DEF IsPicture
  <2>. HIDE DEF t
  <2>5. Joined(pic, t, over)
    BY <2>4, JoinedOf DEF IsPicture
  <2>6. IsPicture(over) /\ over # <<>>
    <3>1. IsPicture(over)
      BY <2>3, FilteredIsPicture
    <3>. HIDE DEF over
    <3>2. Len(over) = Len(pic) + 1 /\ Len(pic) \in Nat
      BY <2>4, <2>5 DEF Joined
    <3>. QED
      BY <3>1, <3>2, EmptyPicture
  <2>. HIDE DEF over
  <2>7. Len(pic) >= 1 /\ Len(pic) \in Nat /\ DOMAIN pic = 1..Len(pic) /\ IsSeq(pic)
    BY <1>3, EmptyPicture DEF IsPicture, IsSeq
  <2>8. DOMAIN over = 1..Len(pic) + 1 /\ over[Len(pic) + 1] = e
    BY <2>4, <2>5, <2>6, <2>7 DEF Joined, IsPicture, IsSeq
  <2>9. Unscaled(pic) \in SUBSET (1..Len(pic))
    BY <2>7 DEF Unscaled
  <2>10. Unscaled(over) = Unscaled(pic)
    <3>1. ASSUME NEW i \in 1..Len(pic) PROVE i \in Unscaled(over) <=> i \in Unscaled(pic)
      <4>1. over[i] = pic[i] /\ i \in DOMAIN over /\ i \in DOMAIN pic
        BY <2>5, <2>7, <2>8 DEF Joined
      <4>. QED
        BY <4>1 DEF Unscaled
    <3>2. Len(pic) + 1 \notin Unscaled(over)
      BY <2>2, <2>8 DEF Unscaled
    <3>3. Unscaled(over) \subseteq DOMAIN over
      BY DEF Unscaled
    <3>4. \A i \in DOMAIN over : i \in 1..Len(pic) \/ i = Len(pic) + 1
      BY <2>7, <2>8
    <3>. QED
      BY <2>9, <3>1, <3>2, <3>3, <3>4
  <2>11. k \in 1..Len(pic)
    BY <2>7, <2>9, CoreOf
  <2>12. Scaled(pic, s) = c
    BY <1>3, ScaledIs
  <2>13. Scaled(over, s) = Crowned(Slid(Isolated(over, k), s), over, k)
    <3>1. Scaled(over, s) = Crowned(Slid(Isolated(over, Core(Unscaled(over))), s), over,
                                    Core(Unscaled(over)))
      BY <1>3, <2>6, ScaledIs
    <3>. QED
      BY <2>10, <3>1, Zenon
  <2>. HIDE DEF k
  <2>14. Isolated(over, k) = Isolated(pic, k) /\ Crowned(x, over, k) = c \o t
    BY <2>4, <2>7, <2>11, CrownedUnder
  <2>15. IsPiece(Isolated(pic, k)) /\ ~ IsFilter(Isolated(pic, k))
    BY <2>11, IsolatedIsPiece
  <2>16. IsPiece(x) /\ ~ IsFilter(x)
    BY <2>15, SlidIsPiece
  <2>17. Scaled(over, s) = c \o t
    BY <2>13, <2>14, Zenon DEF x
  <2>. HIDE DEF x
  <2>18. IsPicture(c) /\ c # <<>>
    BY <2>11, <2>16, CrownedIsPicture
  <2>. HIDE DEF c
  <2>19. Append(c, e) = c \o t
    BY <2>18, AppendedIsJoined DEF IsPicture, t
  <2>20. Filtered(c, g, o) = Append(c, e)
    BY <1>3, <2>18, FilteredIs DEF e
  <2>. QED
    BY <2>3, <2>12, <2>17, <2>19, <2>20
<1>. QED
  BY <1>1, <1>2, <1>3

-----------------------------------------------------------------------------
(* What a tile's value draws                                                   *)

(* The values a value was merged from, one after another down to n merges.     *)
PartsUpTo(v, n, at) ==
  at = [i \in 0..n |-> IF i = 0 THEN {v} ELSE UNION {Inner(w) : w \in at[i - 1]}]

(* There is one such list of them, and only one.                               *)
LEMMA PartsUnfold ==
  ASSUME NEW v, NEW n \in Nat
  PROVE  /\ \E at : PartsUpTo(v, n, at)
         /\ \A at, bt : PartsUpTo(v, n, at) /\ PartsUpTo(v, n, bt) => at = bt
         /\ \A at : PartsUpTo(v, n, at) => PartsAt(v, n) = at[n]
<1>. DEFINE S == {m \in Nat : \E at : PartsUpTo(v, m, at)}
<1>1. 0 \in S
  <2>1. PartsUpTo(v, 0, [i \in 0..0 |-> {v}])
    BY DEF PartsUpTo
  <2>. QED
    BY <2>1
<1>2. ASSUME NEW m \in Nat, m \in S PROVE m + 1 \in S
  <2>1. PICK at : PartsUpTo(v, m, at)
    BY <1>2
  <2>. DEFINE last == UNION {Inner(w) : w \in at[m]}
              next == [i \in 0..m + 1 |-> IF i = m + 1 THEN last ELSE at[i]]
  <2>2. PartsUpTo(v, m + 1, next)
    <3>1. ASSUME NEW i \in 0..m + 1
          PROVE  next[i] = IF i = 0 THEN {v} ELSE UNION {Inner(w) : w \in next[i - 1]}
      <4>1. CASE i = m + 1
        <5>1. i - 1 = m /\ m \in 0..m + 1 /\ m # m + 1 /\ i # 0
          BY <4>1
        <5>2. next[m] = at[m] /\ next[i] = last
          BY <4>1, <5>1
        <5>. HIDE DEF next
        <5>. QED
          BY <4>1, <5>1, <5>2
      <4>2. CASE i \in 0..m
        <5>1. next[i] = at[i] /\ (i # 0 => i - 1 \in 0..m /\ next[i - 1] = at[i - 1])
          BY <4>2
        <5>. HIDE DEF next
        <5>2. at[i] = IF i = 0 THEN {v} ELSE UNION {Inner(w) : w \in at[i - 1]}
          BY <2>1, <4>2 DEF PartsUpTo
        <5>. QED
          BY <5>1, <5>2
      <4>. QED
        BY <4>1, <4>2
    <3>. HIDE DEF next
    <3>2. next = [i \in 0..m + 1 |-> next[i]]
      BY DEF next
    <3>. QED
      BY <3>1, <3>2 DEF PartsUpTo
  <2>. HIDE DEF next
  <2>. QED
    BY <2>2
<1>3. \E at : PartsUpTo(v, n, at)
  BY <1>1, <1>2, Induction
<1>4. ASSUME NEW at, NEW bt, PartsUpTo(v, n, at), PartsUpTo(v, n, bt) PROVE at = bt
  <2>. DEFINE T == {m \in Nat : m \in 0..n => at[m] = bt[m]}
  <2>1. 0 \in T
    BY <1>4 DEF PartsUpTo
  <2>2. ASSUME NEW m \in Nat, m \in T PROVE m + 1 \in T
    <3>. SUFFICES ASSUME m + 1 \in 0..n PROVE at[m + 1] = bt[m + 1]
      OBVIOUS
    <3>1. m \in 0..n /\ m + 1 # 0 /\ (m + 1) - 1 = m
      OBVIOUS
    <3>2. at[m] = bt[m]
      BY <2>2, <3>1
    <3>3. /\ at[m + 1] = UNION {Inner(w) : w \in at[m]}
          /\ bt[m + 1] = UNION {Inner(w) : w \in bt[m]}
      BY <1>4, <3>1 DEF PartsUpTo
    <3>. QED
      BY <3>2, <3>3
  <2>3. Nat \subseteq T
    <3>. HIDE DEF T
    <3>. QED
      BY <2>1, <2>2, Induction
  <2>4. \A m \in 0..n : at[m] = bt[m]
    BY <2>3
  <2>5. at = [m \in 0..n |-> at[m]] /\ bt = [m \in 0..n |-> bt[m]]
    BY <1>4 DEF PartsUpTo
  <2>. QED
    BY <2>4, <2>5
<1>. DEFINE c == CHOOSE at : PartsUpTo(v, n, at)
<1>5. PartsAt(v, n) = c[n]
  BY DEF PartsAt, PartsUpTo
<1>6. PartsUpTo(v, n, c)
  BY <1>3
<1>. HIDE DEF c
<1>. QED
  BY <1>3, <1>4, <1>5, <1>6

(* One merge more is the inner values of the values before.                    *)
LEMMA PartsAtIs ==
  ASSUME NEW v
  PROVE  /\ PartsAt(v, 0) = {v}
         /\ \A n \in Nat : PartsAt(v, n + 1) = UNION {Inner(w) : w \in PartsAt(v, n)}
<1>1. PartsAt(v, 0) = {v}
  <2>1. PICK at : PartsUpTo(v, 0, at) /\ PartsAt(v, 0) = at[0]
    BY PartsUnfold
  <2>. QED
    BY <2>1 DEF PartsUpTo
<1>2. ASSUME NEW n \in Nat PROVE PartsAt(v, n + 1) = UNION {Inner(w) : w \in PartsAt(v, n)}
  <2>1. PICK at : PartsUpTo(v, n + 1, at) /\ PartsAt(v, n + 1) = at[n + 1]
    BY PartsUnfold
  <2>. DEFINE bt == [i \in 0..n |-> at[i]]
  <2>2. PartsUpTo(v, n, bt)
    <3>1. ASSUME NEW i \in 0..n
          PROVE  bt[i] = IF i = 0 THEN {v} ELSE UNION {Inner(w) : w \in bt[i - 1]}
      <4>1. bt[i] = at[i] /\ (i # 0 => bt[i - 1] = at[i - 1]) /\ i \in 0..n + 1
        OBVIOUS
      <4>. HIDE DEF bt
      <4>2. at[i] = IF i = 0 THEN {v} ELSE UNION {Inner(w) : w \in at[i - 1]}
        BY <2>1, <4>1 DEF PartsUpTo
      <4>. QED
        BY <4>1, <4>2
    <3>. HIDE DEF bt
    <3>2. bt = [i \in 0..n |-> bt[i]]
      BY DEF bt
    <3>. QED
      BY <3>1, <3>2 DEF PartsUpTo
  <2>3. bt[n] = at[n] /\ n + 1 \in 0..n + 1 /\ n + 1 # 0 /\ (n + 1) - 1 = n
    OBVIOUS
  <2>. HIDE DEF bt
  <2>4. PartsAt(v, n) = at[n]
    BY <2>2, <2>3, PartsUnfold
  <2>5. at[n + 1] = UNION {Inner(w) : w \in at[n]}
    BY <2>1, <2>3 DEF PartsUpTo
  <2>. QED
    BY <2>1, <2>4, <2>5
<1>. QED
  BY <1>1, <1>2

(* A value has no merge more than n deep in it.                                *)
Shallow(v, n) == PartsAt(v, n + 1) = {}

(* The values n + 1 merges within one are those n merges within its inner ones. *)
LEMMA PartsOfInner ==
  ASSUME NEW v, NEW n \in Nat
  PROVE  PartsAt(v, n + 1) = UNION {PartsAt(w, n) : w \in Inner(v)}
<1>. DEFINE S == {m \in Nat : PartsAt(v, m + 1) = UNION {PartsAt(w, m) : w \in Inner(v)}}
<1>1. 0 \in S
  <2>1. PartsAt(v, 0 + 1) = UNION {Inner(w) : w \in {v}}
    BY PartsAtIs
  <2>2. UNION {Inner(w) : w \in {v}} = Inner(v)
    OBVIOUS
  <2>3. \A w : PartsAt(w, 0) = {w}
    BY PartsAtIs
  <2>4. UNION {PartsAt(w, 0) : w \in Inner(v)} = Inner(v)
    BY <2>3
  <2>. QED
    BY <2>1, <2>2, <2>4
<1>2. ASSUME NEW m \in Nat, m \in S PROVE m + 1 \in S
  <2>1. PartsAt(v, (m + 1) + 1) = UNION {Inner(x) : x \in PartsAt(v, m + 1)}
    BY PartsAtIs
  <2>2. PartsAt(v, m + 1) = UNION {PartsAt(w, m) : w \in Inner(v)}
    BY <1>2
  <2>3. \A w : PartsAt(w, m + 1) = UNION {Inner(x) : x \in PartsAt(w, m)}
    BY PartsAtIs
  <2>4. ASSUME NEW y PROVE y \in PartsAt(v, (m + 1) + 1)
                             <=> y \in (UNION {PartsAt(w, m + 1) : w \in Inner(v)})
    <3>1. y \in PartsAt(v, (m + 1) + 1) <=> \E x : x \in PartsAt(v, m + 1) /\ y \in Inner(x)
      BY <2>1, Zenon
    <3>2. \A x : x \in PartsAt(v, m + 1) <=> \E w \in Inner(v) : x \in PartsAt(w, m)
      BY <2>2, Zenon
    <3>3. \A w : y \in PartsAt(w, m + 1) <=> \E x : x \in PartsAt(w, m) /\ y \in Inner(x)
      BY <2>3
    <3>4. y \in (UNION {PartsAt(w, m + 1) : w \in Inner(v)})
            <=> \E w \in Inner(v) : y \in PartsAt(w, m + 1)
      BY Zenon
    <3>. QED
      BY <3>1, <3>2, <3>3, <3>4, Zenon
  <2>. QED
    BY <2>4
<1>3. Nat \subseteq S
  <2>. HIDE DEF S
  <2>. QED
    BY <1>1, <1>2, Induction
<1>. QED
  BY <1>3

(* How deep a value is follows from its inner values, and is no exact number.  *)
LEMMA ShallowIs ==
  ASSUME NEW v
  PROVE  /\ Shallow(v, 0) <=> Inner(v) = {}
         /\ \A n \in Nat : Shallow(v, n + 1) <=> \A w \in Inner(v) : Shallow(w, n)
         /\ \A n \in Nat : Shallow(v, n) => Shallow(v, n + 1)
<1>1. Shallow(v, 0) <=> Inner(v) = {}
  <2>1. PartsAt(v, 0 + 1) = UNION {Inner(w) : w \in {v}}
    BY PartsAtIs
  <2>2. UNION {Inner(w) : w \in {v}} = Inner(v)
    OBVIOUS
  <2>. QED
    BY <2>1, <2>2 DEF Shallow
<1>2. ASSUME NEW n \in Nat PROVE Shallow(v, n + 1) <=> \A w \in Inner(v) : Shallow(w, n)
  <2>1. PartsAt(v, (n + 1) + 1) = UNION {PartsAt(w, n + 1) : w \in Inner(v)}
    BY PartsOfInner
  <2>. QED
    BY <2>1 DEF Shallow
<1>3. ASSUME NEW n \in Nat, Shallow(v, n) PROVE Shallow(v, n + 1)
  <2>1. PartsAt(v, (n + 1) + 1) = UNION {Inner(w) : w \in PartsAt(v, n + 1)}
    BY PartsAtIs
  <2>. QED
    BY <1>3, <2>1 DEF Shallow
<1>. QED
  BY <1>1, <1>2, <1>3

(* What a value draws depends on what its inner values do.                     *)
LEMMA LaidFromInner ==
  ASSUME NEW v, NEW f, NEW g, \A w \in Inner(v) : f[w] = g[w]
  PROVE  LaidFrom(v, f) = LaidFrom(v, g)
<1>1. CASE v = Bare
  BY <1>1, Zenon DEF LaidFrom
<1>2. CASE v # Bare /\ v[1] = "merge"
  <2>1. Inner(v) = {v[2], v[6]}
    BY <1>2 DEF Inner
  <2>2. f[v[2]] = g[v[2]] /\ f[v[6]] = g[v[6]]
    BY <2>1
  <2>3. /\ LaidFrom(v, f) = Lay(Lay(<<>>, [Identity EXCEPT !.opacity = v[7]], f[v[6]]),
                                [blend |-> v[4], clip |-> v[5], opacity |-> v[3]], f[v[2]])
        /\ LaidFrom(v, g) = Lay(Lay(<<>>, [Identity EXCEPT !.opacity = v[7]], g[v[6]]),
                                [blend |-> v[4], clip |-> v[5], opacity |-> v[3]], g[v[2]])
    BY <1>2 DEF LaidFrom
  <2>. QED
    BY <2>2, <2>3, Zenon
<1>3. CASE v # Bare /\ v[1] = "filter"
  <2>1. Inner(v) = {v[4]}
    BY <1>3 DEF Inner
  <2>2. f[v[4]] = g[v[4]]
    BY <2>1
  <2>3. LaidFrom(v, f) = Filtered(f[v[4]], v[2], v[3]) /\ LaidFrom(v, g) = Filtered(g[v[4]], v[2], v[3])
    BY <1>3 DEF LaidFrom
  <2>. QED
    BY <2>2, <2>3, Zenon
<1>4. CASE v # Bare /\ v[1] # "merge" /\ v[1] # "filter"
  BY <1>4 DEF LaidFrom
<1>. QED
  BY <1>1, <1>2, <1>3, <1>4

(* A value draws a picture when its inner values do.                           *)
LEMMA LaidFromIsPicture ==
  ASSUME NEW v, NEW f, \A w \in Inner(v) : IsPicture(f[w])
  PROVE  IsPicture(LaidFrom(v, f))
<1>1. CASE v = Bare
  BY <1>1, EmptyPicture, Zenon DEF LaidFrom
<1>2. CASE v # Bare /\ v[1] = "merge"
  <2>. DEFINE p == [Identity EXCEPT !.opacity = v[7]]
              q == [blend |-> v[4], clip |-> v[5], opacity |-> v[3]]
              under == f[v[6]]
              over == f[v[2]]
              base == Lay(<<>>, p, under)
  <2>1. Inner(v) = {v[2], v[6]}
    BY <1>2 DEF Inner
  <2>2. IsPicture(under) /\ IsPicture(over) /\ IsPicture(<<>>)
    BY <2>1, EmptyPicture
  <2>3. LaidFrom(v, f) = Lay(base, q, over)
    BY <1>2 DEF LaidFrom
  <2>. HIDE DEF p, q, under, over
  <2>4. IsPicture(base)
    BY <2>2, LayIsPicture
  <2>. HIDE DEF base
  <2>5. IsPicture(Lay(base, q, over))
    BY <2>2, <2>4, LayIsPicture
  <2>. QED
    BY <2>3, <2>5
<1>3. CASE v # Bare /\ v[1] = "filter"
  <2>1. Inner(v) = {v[4]}
    BY <1>3 DEF Inner
  <2>2. IsPicture(f[v[4]])
    BY <2>1
  <2>3. LaidFrom(v, f) = Filtered(f[v[4]], v[2], v[3])
    BY <1>3 DEF LaidFrom
  <2>. QED
    BY <2>2, <2>3, FilteredIsPicture
<1>4. CASE v # Bare /\ v[1] # "merge" /\ v[1] # "filter"
  <2>. DEFINE e == Piece(<<"tile", v>>)
              s == <<e>>
  <2>1. LaidFrom(v, f) = s
    BY <1>4 DEF LaidFrom
  <2>2. IsPiece(e) /\ e.what = <<"tile", v>>
    BY DEF IsPiece, Piece
  <2>3. ~ IsFilter(e)
    BY <2>2 DEF IsFilter
  <2>. HIDE DEF e
  <2>4. IsSeq(s) /\ Len(s) = 1 /\ s[1] = e
    BY SinglePart
  <2>. HIDE DEF s
  <2>5. IsPicture(s)
    BY <2>2, <2>3, <2>4 DEF IsPicture
  <2>. QED
    BY <2>1, <2>5
<1>. QED
  BY <1>1, <1>2, <1>3, <1>4

(* What the parts of v draw, innermost first.                                  *)
DrawnUpTo(v, n, m, f) ==
  f = [i \in 0..m |->
        [w \in PartsAt(v, n - i) |-> LaidFrom(w, IF i = 0 THEN <<>> ELSE f[i - 1])]]

(* There is such a list of drawings, and it ends with what v draws.            *)
LEMMA ContentUnfolds ==
  ASSUME NEW v, NEW n \in Nat
  PROVE  \E f : DrawnUpTo(v, n, n, f) /\ Content(v, n) = f[n][v]
<1>. DEFINE S == {m \in Nat : \E f : DrawnUpTo(v, n, m, f)}
            At(i, g) == [w \in PartsAt(v, n - i) |-> LaidFrom(w, g)]
<1>1. 0 \in S
  <2>. DEFINE f == [i \in 0..0 |-> At(i, <<>>)]
  <2>1. ASSUME NEW i \in 0..0
        PROVE  f[i] = [w \in PartsAt(v, n - i) |-> LaidFrom(w, IF i = 0 THEN <<>> ELSE f[i - 1])]
    <3>1. i = 0 /\ f[i] = At(i, <<>>)
      OBVIOUS
    <3>. QED
      BY <3>1, Zenon
  <2>. HIDE DEF At
  <2>2. f = [i \in 0..0 |-> f[i]]
    OBVIOUS
  <2>. HIDE DEF f
  <2>3. DrawnUpTo(v, n, 0, f)
    BY <2>1, <2>2, Zenon DEF DrawnUpTo
  <2>. QED
    BY <2>3
<1>2. ASSUME NEW m \in Nat, m \in S PROVE m + 1 \in S
  <2>1. PICK at : DrawnUpTo(v, n, m, at)
    BY <1>2
  <2>. DEFINE last == At(m + 1, at[m])
              next == [i \in 0..m + 1 |-> IF i = m + 1 THEN last ELSE at[i]]
  <2>2. ASSUME NEW i \in 0..m + 1
        PROVE  next[i] = [w \in PartsAt(v, n - i) |->
                            LaidFrom(w, IF i = 0 THEN <<>> ELSE next[i - 1])]
    <3>1. CASE i = m + 1
      <4>. HIDE DEF At, last
      <4>1. i - 1 = m /\ m \in 0..m + 1 /\ m # m + 1 /\ i # 0
        BY <3>1
      <4>2. next[m] = at[m] /\ next[i] = last
        BY <3>1, <4>1
      <4>. HIDE DEF next
      <4>3. last = At(i, at[m])
        BY <3>1, Zenon DEF last
      <4>4. next[i - 1] = at[m]
        BY <4>1, <4>2
      <4>. QED
        BY <4>1, <4>2, <4>3, <4>4, Zenon DEF At
    <3>2. CASE i \in 0..m
      <4>. HIDE DEF At, last
      <4>1. next[i] = at[i] /\ (i # 0 => i - 1 \in 0..m /\ next[i - 1] = at[i - 1])
        BY <3>2
      <4>. HIDE DEF next
      <4>2. at[i] = [w \in PartsAt(v, n - i) |-> LaidFrom(w, IF i = 0 THEN <<>> ELSE at[i - 1])]
        BY <2>1, <3>2, Zenon DEF DrawnUpTo
      <4>. QED
        BY <4>1, <4>2, Zenon
    <3>. QED
      BY <3>1, <3>2
  <2>. HIDE DEF last, At
  <2>3. next = [i \in 0..m + 1 |-> next[i]]
    OBVIOUS
  <2>. HIDE DEF next
  <2>4. DrawnUpTo(v, n, m + 1, next)
    BY <2>2, <2>3, Zenon DEF DrawnUpTo
  <2>. QED
    BY <2>4
<1>3. \E f : DrawnUpTo(v, n, n, f)
  <2>. HIDE DEF S
  <2>1. Nat \subseteq S
    BY <1>1, <1>2, Induction
  <2>. QED
    BY <2>1 DEF S
<1>. DEFINE f == CHOOSE f : DrawnUpTo(v, n, n, f)
<1>4. Content(v, n) = f[n][v]
  BY Zenon DEF Content, DrawnUpTo
<1>5. DrawnUpTo(v, n, n, f)
  BY <1>3, Zenon
<1>. HIDE DEF f
<1>. QED
  BY <1>4, <1>5

(* One drawing is laid from the drawing before it.                             *)
LEMMA DrawnStep ==
  ASSUME NEW i \in Nat, NEW v, NEW n \in Nat, NEW f, i <= n, DrawnUpTo(v, n, n, f),
         NEW k, k = n - i, NEW w \in PartsAt(v, k)
  PROVE  /\ i = 0 => f[i][w] = LaidFrom(w, <<>>)
         /\ \A h : h = i - 1 /\ i # 0 => f[i][w] = LaidFrom(w, f[h])
<1>1. i \in 0..n
  OBVIOUS
<1>2. f[i] = [x \in PartsAt(v, n - i) |-> LaidFrom(x, IF i = 0 THEN <<>> ELSE f[i - 1])]
  BY <1>1, Zenon DEF DrawnUpTo
<1>3. f[i][w] = LaidFrom(w, IF i = 0 THEN <<>> ELSE f[i - 1])
  BY <1>2, Zenon
<1>. QED
  BY <1>3, Zenon

(* What a part of v draws is what it draws by itself.                          *)
DrawnAlike(m) ==
  \A v : \A n \in Nat : \A f : \A k :
    (m <= n /\ DrawnUpTo(v, n, n, f) /\ k = n - m) => \A w \in PartsAt(v, k) : f[m][w] = Content(w, m)

(* At every depth of the computation of a value.                             *)
LEMMA DrawnIsContent ==
  ASSUME NEW m \in Nat
  PROVE  DrawnAlike(m)
<1>. DEFINE S == {i \in Nat : DrawnAlike(i)}
<1>1. 0 \in S
  <2>1. ASSUME NEW v, NEW n \in Nat, NEW f, NEW k, 0 <= n, DrawnUpTo(v, n, n, f), k = n - 0,
               NEW w \in PartsAt(v, k)
        PROVE f[0][w] = Content(w, 0)
    <3>1. PICK g : DrawnUpTo(w, 0, 0, g) /\ Content(w, 0) = g[0][w]
      BY ContentUnfolds
    <3>2. w \in PartsAt(w, 0) /\ 0 = 0 - 0 /\ 0 <= 0 /\ 0 \in Nat
      BY PartsAtIs
    <3>3. g[0][w] = LaidFrom(w, <<>>)
      BY <3>1, <3>2, DrawnStep
    <3>4. f[0][w] = LaidFrom(w, <<>>)
      BY <2>1, <3>2, DrawnStep
    <3>. QED
      BY <3>1, <3>3, <3>4
  <2>2. DrawnAlike(0)
    BY <2>1 DEF DrawnAlike
  <2>. QED
    BY <2>2
<1>2. ASSUME NEW i \in Nat, i \in S PROVE i + 1 \in S
  <2>1. ASSUME NEW v, NEW n \in Nat, NEW f, NEW k, i + 1 <= n, DrawnUpTo(v, n, n, f), k = n - (i + 1),
               NEW w \in PartsAt(v, k)
        PROVE  f[i + 1][w] = Content(w, i + 1)
    <3>. DEFINE j == i + 1
                a == n - i
    <3>1. PICK g : DrawnUpTo(w, j, j, g) /\ Content(w, j) = g[j][w]
      BY ContentUnfolds
    <3>2. /\ j # 0 /\ j \in Nat /\ i = j - 1 /\ j <= n /\ k = n - j /\ k \in Nat /\ j <= j
          /\ 0 = j - j /\ a = n - i /\ a = k + 1 /\ 0 + 1 = j - i /\ i <= n /\ i <= j
      BY <2>1
    <3>0. DrawnUpTo(v, n, n, f) /\ n \in Nat /\ w \in PartsAt(v, k) /\ i \in Nat
      BY <2>1
    <3>. HIDE DEF j, a
    <3>3. w \in PartsAt(w, 0)
      BY PartsAtIs
    <3>4. g[j][w] = LaidFrom(w, g[i])
      BY <3>1, <3>2, <3>3, DrawnStep
    <3>5. f[j][w] = LaidFrom(w, f[i])
      BY ONLY <3>0, <3>2, DrawnStep
    <3>6. \A x \in Inner(w) : x \in PartsAt(v, a) /\ x \in PartsAt(w, 0 + 1)
      <4>1. w \in PartsAt(v, k)
        BY <2>1
      <4>2. PartsAt(v, k + 1) = UNION {Inner(y) : y \in PartsAt(v, k)}
        BY <3>2, PartsAtIs
      <4>3. PartsAt(w, 0 + 1) = UNION {Inner(y) : y \in PartsAt(w, 0)} /\ PartsAt(w, 0) = {w}
        BY PartsAtIs
      <4>. QED
        BY <3>2, <4>1, <4>2, <4>3
    <3>7. DrawnAlike(i)
      BY <1>2
    <3>8. \A x \in PartsAt(v, a) : f[i][x] = Content(x, i)
      <4>1. n \in Nat /\ i <= n /\ DrawnUpTo(v, n, n, f) /\ a = n - i
        BY <3>0, <3>2
      <4>. QED
        BY ONLY <3>7, <4>1 DEF DrawnAlike
    <3>9. \A x \in PartsAt(w, 0 + 1) : g[i][x] = Content(x, i)
      BY <3>1, <3>2, <3>7 DEF DrawnAlike
    <3>10. \A x \in Inner(w) : g[i][x] = f[i][x]
      BY <3>6, <3>8, <3>9, Zenon
    <3>11. LaidFrom(w, g[i]) = LaidFrom(w, f[i])
      BY <3>10, LaidFromInner
    <3>12. f[j][w] = Content(w, j)
      BY <3>1, <3>4, <3>5, <3>11
    <3>. QED
      BY <3>12 DEF j
  <2>2. DrawnAlike(i + 1)
    BY <2>1 DEF DrawnAlike
  <2>. QED
    BY <2>2
<1>3. Nat \subseteq S
  <2>. HIDE DEF S
  <2>. QED
    BY <1>1, <1>2, Induction
<1>. QED
  BY <1>3

(* What a value draws, merge by merge.                                         *)
LEMMA ContentIs ==
  ASSUME NEW v
  PROVE  /\ Content(v, 0) = LaidFrom(v, <<>>)
         /\ \A n \in Nat : Content(v, n + 1) = LaidFrom(v, [w \in Inner(v) |-> Content(w, n)])
<1>1. Content(v, 0) = LaidFrom(v, <<>>)
  <2>1. PICK f : DrawnUpTo(v, 0, 0, f) /\ Content(v, 0) = f[0][v]
    BY ContentUnfolds
  <2>2. f[0] = [w \in PartsAt(v, 0 - 0) |-> LaidFrom(w, IF 0 = 0 THEN <<>> ELSE f[0 - 1])]
    BY <2>1 DEF DrawnUpTo
  <2>3. v \in PartsAt(v, 0 - 0)
    BY PartsAtIs
  <2>. QED
    BY <2>1, <2>2, <2>3
<1>2. ASSUME NEW n \in Nat PROVE Content(v, n + 1) = LaidFrom(v, [w \in Inner(v) |-> Content(w, n)])
  <2>. DEFINE m == n + 1
              g == [w \in Inner(v) |-> Content(w, n)]
  <2>1. PICK f : DrawnUpTo(v, m, m, f) /\ Content(v, m) = f[m][v]
    BY ContentUnfolds
  <2>2. m \in Nat /\ m \in 0..m /\ m # 0 /\ m - 1 = n /\ m - m = 0 /\ n <= m /\ m - n = 0 + 1
    OBVIOUS
  <2>. HIDE DEF m
  <2>3. f[m] = [w \in PartsAt(v, m - m) |-> LaidFrom(w, IF m = 0 THEN <<>> ELSE f[m - 1])]
    BY <2>1, <2>2, Zenon DEF DrawnUpTo
  <2>4. v \in PartsAt(v, m - m)
    BY <2>2, PartsAtIs
  <2>5. f[m][v] = LaidFrom(v, f[n])
    BY <2>2, <2>3, <2>4
  <2>6. PartsAt(v, m - n) = Inner(v)
    <3>1. PartsAt(v, 0 + 1) = UNION {Inner(y) : y \in PartsAt(v, 0)} /\ PartsAt(v, 0) = {v}
      BY PartsAtIs
    <3>. QED
      BY <2>2, <3>1
  <2>7. \A w \in Inner(v) : f[n][w] = Content(w, n)
    <3>1. DrawnAlike(n)
      BY DrawnIsContent
    <3>2. \A w \in PartsAt(v, m - n) : f[n][w] = Content(w, n)
      BY <2>1, <2>2, <3>1 DEF DrawnAlike
    <3>. QED
      BY <2>6, <3>2, Zenon
  <2>8. \A w \in Inner(v) : f[n][w] = g[w]
    BY <2>7
  <2>. HIDE DEF g
  <2>9. LaidFrom(v, f[n]) = LaidFrom(v, g)
    BY <2>8, LaidFromInner
  <2>. QED
    BY <2>1, <2>5, <2>9 DEF m, g
<1>. QED
  BY <1>1, <1>2

(* Past the depth of a value, what it draws is settled, and it is a picture.    *)
LEMMA ContentSettles ==
  ASSUME NEW n \in Nat
  PROVE  \A v : Shallow(v, n) => Content(v, n + 1) = Content(v, n) /\ IsPicture(Content(v, n))
<1>. DEFINE Says(i) == \A v : Shallow(v, i) => /\ Content(v, i + 1) = Content(v, i)
                                               /\ IsPicture(Content(v, i))
            S == {i \in Nat : Says(i)}
<1>1. 0 \in S
  <2>1. ASSUME NEW v, Shallow(v, 0)
        PROVE  Content(v, 0 + 1) = Content(v, 0) /\ IsPicture(Content(v, 0))
    <3>. DEFINE g == [w \in Inner(v) |-> Content(w, 0)]
    <3>1. Content(v, 0) = LaidFrom(v, <<>>) /\ Content(v, 0 + 1) = LaidFrom(v, g)
      BY ContentIs
    <3>. HIDE DEF g
    <3>2. Inner(v) = {}
      BY <2>1, ShallowIs
    <3>3. LaidFrom(v, <<>>) = LaidFrom(v, g)
      BY <3>2, LaidFromInner, Zenon
    <3>4. IsPicture(LaidFrom(v, g))
      BY <3>2, LaidFromIsPicture
    <3>. QED
      BY <3>1, <3>3, <3>4
  <2>. QED
    BY <2>1
<1>2. ASSUME NEW i \in Nat, i \in S PROVE i + 1 \in S
  <2>1. ASSUME NEW v, Shallow(v, i + 1)
        PROVE  /\ Content(v, (i + 1) + 1) = Content(v, i + 1)
               /\ IsPicture(Content(v, i + 1))
    <3>. DEFINE f == [w \in Inner(v) |-> Content(w, i)]
                g == [w \in Inner(v) |-> Content(w, i + 1)]
    <3>1. Content(v, i + 1) = LaidFrom(v, f) /\ Content(v, (i + 1) + 1) = LaidFrom(v, g)
      BY ContentIs
    <3>2. \A w \in Inner(v) : Shallow(w, i)
      BY <2>1, ShallowIs
    <3>3. \A w \in Inner(v) : Content(w, i + 1) = Content(w, i) /\ IsPicture(Content(w, i))
      BY <1>2, <3>2
    <3>4. \A w \in Inner(v) : f[w] = g[w] /\ IsPicture(f[w])
      BY <3>3
    <3>. HIDE DEF f, g
    <3>5. LaidFrom(v, f) = LaidFrom(v, g)
      BY <3>4, LaidFromInner
    <3>6. IsPicture(LaidFrom(v, f))
      BY <3>4, LaidFromIsPicture
    <3>. QED
      BY <3>1, <3>5, <3>6
  <2>. QED
    BY <2>1
<1>3. Nat \subseteq S
  <2>. HIDE DEF S
  <2>. QED
    BY <1>1, <1>2, Induction
<1>. QED
  BY <1>3

-----------------------------------------------------------------------------
(* How deep the merges of a document are                                       *)

(* A tile drawn anew, or one of the document's own.                            *)
Kin(v, doc) == \/ Inner(v) = {}
               \/ \E m \in Present(doc) : \E u \in Tile : v = doc.layer[m].tiles[u]
Painted(new, doc) == \A l \in Present(new) : \A t \in Tile : Kin(new.layer[l].tiles[t], doc)

(* No tile of the document has a merge more than n deep in it.                 *)
ShallowDoc(doc, n) == \A l \in Present(doc) : \A t \in Tile : Shallow(doc.layer[l].tiles[t], n)

(* Only a merge makes values of others.                                        *)
LEMMA InnerOf ==
  ASSUME NEW w, NEW x, NEW y, NEW z
  PROVE  /\ Inner(Bare) = {}
         /\ w \notin {"merge", "filter"} => Inner(<<w, x>>) = {} /\ Inner(<<w, x, y>>) = {}
                                            /\ Inner(<<w, x, y, z>>) = {}
<1>1. Inner(Bare) = {}
  BY DEF Inner
<1>2. ASSUME NEW v, v # Bare, v[1] \notin {"merge", "filter"} PROVE Inner(v) = {}
  BY <1>2 DEF Inner
<1>3. /\ <<w, x>> # Bare /\ <<w, x, y>> # Bare /\ <<w, x, y, z>> # Bare
  BY DEF Bare
<1>4. /\ <<w, x>>[1] = w /\ <<w, x, y>>[1] = w /\ <<w, x, y, z>>[1] = w
  OBVIOUS
<1>5. w \notin {"merge", "filter"} => Inner(<<w, x>>) = {} /\ Inner(<<w, x, y>>) = {}
                                      /\ Inner(<<w, x, y, z>>) = {}
  BY <1>2, <1>3, <1>4
<1>. QED
  BY <1>1, <1>5

(* In the form most of them are drawn in.                                      *)
LEMMA DrawnInner ==
  ASSUME NEW w, w # "merge", w # "filter", NEW x, NEW y, NEW z
  PROVE  Inner(<<w, x, y, z>>) = {}
BY InnerOf

(* Being painted is a matter of the layers, and passes on.                     *)
LEMMA PaintedOn ==
  ASSUME NEW doc
  PROVE  /\ Painted(doc, doc)
         /\ \A mid, new : Painted(mid, doc) /\ Painted(new, mid) => Painted(new, doc)
         /\ \A new, other : /\ Painted(new, doc) /\ Present(other) \subseteq Present(new)
                            /\ \A l \in Present(other) : other.layer[l] = new.layer[l]
                            => Painted(other, doc)
<1>1. Painted(doc, doc)
  BY DEF Painted, Kin
<1>2. ASSUME NEW mid, NEW new, Painted(mid, doc), Painted(new, mid) PROVE Painted(new, doc)
  <2>1. ASSUME NEW l \in Present(new), NEW t \in Tile PROVE Kin(new.layer[l].tiles[t], doc)
    <3>1. Kin(new.layer[l].tiles[t], mid)
      BY <1>2 DEF Painted
    <3>. DEFINE v == new.layer[l].tiles[t]
    <3>. HIDE DEF v
    <3>2. Kin(v, mid)
      BY <3>1 DEF v
    <3>3. CASE Inner(v) = {}
      <4>1. Kin(v, doc)
        BY <3>3 DEF Kin
      <4>. QED
        BY <4>1 DEF v
    <3>4. CASE \E m \in Present(mid) : \E u \in Tile : v = mid.layer[m].tiles[u]
      <4>1. Kin(v, doc)
        BY <1>2, <3>4 DEF Painted
      <4>. QED
        BY <4>1 DEF v
    <3>. QED
      BY <3>2, <3>3, <3>4 DEF Kin
  <2>. QED
    BY <2>1 DEF Painted
<1>3. ASSUME NEW new, NEW other, Painted(new, doc), Present(other) \subseteq Present(new),
             \A l \in Present(other) : other.layer[l] = new.layer[l]
      PROVE  Painted(other, doc)
  BY <1>3 DEF Painted
<1>. QED
  BY <1>1, <1>2, <1>3

(* Tiles drawn anew on a layer.                                                *)
LEMMA WithTilesIsPainted ==
  ASSUME NEW doc, Sound(doc), NEW id \in Present(doc), NEW tiles, DOMAIN tiles \subseteq Tile,
         \A t \in DOMAIN tiles : Kin(tiles[t], doc)
  PROVE  Painted(WithTiles(doc, id, tiles), doc)
<1>. DEFINE layer == doc.layer[id]
            r == Tiled(layer, tiles)
            new == WithTiles(doc, id, tiles)
<1>1. LayerSound(layer)
  BY DEF Sound
<1>2. new = Put(doc, id, r)
  BY WithTilesIsPut
<1>. HIDE DEF layer, new
<1>3. /\ LayerSound(r) /\ r.kind = layer.kind
      /\ \A t \in Tile : r.tiles[t] = IF t \in DOMAIN tiles THEN tiles[t] ELSE layer.tiles[t]
  BY <1>1, TiledIsSound
<1>. HIDE DEF r
<1>4. /\ Present(new) = Present(doc) /\ new.layer[id] = r
      /\ \A l \in Present(doc) : l # id => new.layer[l] = doc.layer[l]
  BY <1>2, <1>3, PutIsSound DEF layer
<1>5. ASSUME NEW l \in Present(doc), NEW t \in Tile PROVE Kin(new.layer[l].tiles[t], doc)
  <2>1. CASE l = id /\ t \in DOMAIN tiles
    BY <1>3, <1>4, <2>1
  <2>2. CASE l # id
    <3>1. new.layer[l].tiles[t] = doc.layer[l].tiles[t]
      BY <1>4, <2>2
    <3>. QED
      BY <3>1 DEF Kin
  <2>3. CASE l = id /\ t \notin DOMAIN tiles
    <3>1. new.layer[l].tiles[t] = doc.layer[l].tiles[t]
      BY <1>3, <1>4, <2>3 DEF layer
    <3>. QED
      BY <3>1 DEF Kin
  <2>. QED
    BY <2>1, <2>2, <2>3
<1>6. Painted(new, doc)
  BY <1>4, <1>5 DEF Painted
<1>. QED
  BY <1>6 DEF new

(* A tree of such layers grafted in.                                           *)
LEMMA GraftIsPainted ==
  ASSUME NEW doc, NEW tree, NEW c, NEW new, Grafted(doc, tree, c, new),
         \A l \in ToSet(tree.order) : \A t \in Tile : Kin(tree.layer[l].tiles[t], doc)
  PROVE  Painted(new, doc)
<1>1. ASSUME NEW l \in Present(new), NEW t \in Tile PROVE Kin(new.layer[l].tiles[t], doc)
  <2>1. CASE l \in ToSet(tree.order)
    BY <2>1 DEF Grafted
  <2>2. CASE l \in Present(doc)
    <3>1. new.layer[l].tiles[t] = doc.layer[l].tiles[t]
      BY <2>2 DEF Grafted
    <3>. QED
      BY <2>2, <3>1 DEF Kin
  <2>. QED
    BY <2>1, <2>2 DEF Grafted
<1>. QED
  BY <1>1 DEF Painted

(* Claims on no layer's paint and no layer's existence.                        *)
Unpainted(S) == /\ \A l : <<"existence", l>> \notin S
                /\ \A l : \A t : <<"paint", l, t>> \notin S

(* What an action does not claim is painted as it was.                         *)
LEMMA UnclaimedIsPainted ==
  ASSUME NEW a, NEW doc, NEW new, Change(a, doc, new), Sound(doc),
         Unpainted(Writes(a))
  PROVE  Painted(new, doc)
<1>. DEFINE W == Writes(a)
<1>0. Apart(new, doc, W) /\ Sound(new)
  BY DEF Change
<1>0a. (\A l : <<"existence", l>> \notin W) /\ \A l : \A t : <<"paint", l, t>> \notin W
  BY DEF Unpainted
<1>. HIDE DEF W
<1>0b. \A l \in Id : <<"existence", l>> \notin W => (l \in Present(new) <=> l \in Present(doc))
  BY <1>0, Zenon DEF Apart
<1>0c. \A l \in Present(new) \cap Present(doc) : SameRecord(new.layer[l], doc.layer[l], l, W)
  BY <1>0, Zenon DEF Apart
<1>1. Present(new) = Present(doc)
  <2>1. Present(new) \subseteq Id /\ Present(doc) \subseteq Id
    BY <1>0, PresentOf DEF Sound, OrderSound
  <2>. QED
    BY <2>1, <1>0a, <1>0b
<1>2. ASSUME NEW l \in Present(new), NEW t \in Tile PROVE Kin(new.layer[l].tiles[t], doc)
  <2>1. new.layer[l].tiles[t] = doc.layer[l].tiles[t]
    BY <1>0a, <1>0c, <1>1 DEF SameRecord
  <2>. QED
    BY <1>1, <2>1 DEF Kin
<1>. QED
  BY <1>2 DEF Painted

(* What a paint action draws is new.                                           *)
LEMMA PaintsArePainted ==
  ASSUME NEW a, WellFormed(a), a.kind \in {"CommitStroke", "Fill", "Transform", "Liquify"},
         NEW doc, Sound(doc)
  PROVE  Painted(Fold(a, doc), doc)
<1>. DEFINE D(w) == [t \in a.tiles |-> w]
<1>0. a.actor \in Actor /\ a.tiles \subseteq Tile
  BY DEF WellFormed
<1>1. CASE ~ Paintable(doc, a.layer)
  <2>1. /\ FoldStroke(a, doc) = doc /\ FoldFill(a, doc) = doc
        /\ FoldTransform(a, doc) = doc /\ FoldLiquify(a, doc) = doc
    BY <1>1, Zenon DEF FoldStroke, FoldFill, FoldTransform, FoldLiquify
  <2>2. Fold(a, doc) = doc
    BY <2>1, FoldByKind
  <2>. QED
    BY <2>2, PaintedOn
<1>2. CASE Paintable(doc, a.layer) /\ a.kind = "CommitStroke"
  <2>. DEFINE reads == <<TilesOf(doc, a.layer, a.tiles), doc.substrate>>
              tiles == [t \in a.tiles |-> Drawn(a, doc, "stroke", reads)]
  <2>1. Fold(a, doc) = WithTiles(doc, a.layer, tiles)
    BY <1>2, FoldByKind DEF FoldStroke
  <2>. HIDE DEF reads
  <2>2. DOMAIN tiles \subseteq Tile /\ \A t \in DOMAIN tiles : Kin(tiles[t], doc)
    BY <1>0, InnerOf DEF Kin, Drawn
  <2>. HIDE DEF tiles
  <2>. QED
    BY <1>2, <2>1, <2>2, WithTilesIsPainted DEF Paintable
<1>3. CASE Paintable(doc, a.layer) /\ a.kind = "Fill"
  <2>. DEFINE R(t) == TilesOf(doc, a.layer, {t})
              tiles == [t \in a.tiles |-> Drawn(a, doc, "fill", R(t))]
  <2>1. Fold(a, doc) = WithTiles(doc, a.layer, tiles)
    BY <1>3, FoldByKind DEF FoldFill
  <2>. HIDE DEF R
  <2>2. DOMAIN tiles \subseteq Tile /\ \A t \in DOMAIN tiles : Kin(tiles[t], doc)
    BY <1>0, InnerOf DEF Kin, Drawn
  <2>. HIDE DEF tiles
  <2>. QED
    BY <1>3, <2>1, <2>2, WithTilesIsPainted DEF Paintable
<1>4. CASE Paintable(doc, a.layer) /\ a.kind = "Transform"
  <2>. DEFINE reads == TilesOf(doc, a.layer, a.tiles)
              tiles == [t \in a.tiles |-> Drawn(a, doc, "transform", reads)]
              new == WithTiles(doc, a.layer, tiles)
              was == new.mask[a.actor]
              m == IF was = Universal THEN was ELSE <<"transform", a.n, was>>
  <2>1. Fold(a, doc) = Masked(new, a.actor, m)
    BY <1>4, FoldByKind DEF FoldTransform, Masked
  <2>. HIDE DEF reads
  <2>2. DOMAIN tiles \subseteq Tile /\ \A t \in DOMAIN tiles : Kin(tiles[t], doc)
    BY <1>0, InnerOf DEF Kin, Drawn
  <2>. HIDE DEF tiles
  <2>3. Painted(new, doc) /\ Sound(new)
    BY <1>4, <2>2, WithTilesIsPainted, WithTilesIsSound DEF Paintable
  <2>. HIDE DEF new, m
  <2>4. Masked(new, a.actor, m).layer = new.layer /\ Masked(new, a.actor, m).order = new.order
    BY <1>0, <2>3, MaskedIsSound
  <2>. QED
    BY <2>1, <2>3, <2>4, PaintedOn DEF Present
<1>5. CASE Paintable(doc, a.layer) /\ a.kind = "Liquify"
  <2>. DEFINE layer == doc.layer[a.layer]
              reach == TilesOf(doc, a.layer, a.reach)
              run   == IF Fresh(layer.run, layer.tiles, a.reach) THEN layer.run ELSE NoRun
              reads == <<reach, run.field, doc.substrate>>
              drawn == [t \in a.tiles |-> Drawn(a, doc, "liquify", reads)]
              left  == [expects |-> Over(Over(drawn, run.expects), reach), field |-> <<a.n, reads>>]
              r     == Ran(Tiled(layer, drawn), left)
  <2>1. Fold(a, doc) = [WithTiles(doc, a.layer, drawn) EXCEPT !.layer[a.layer].run = left]
    <3>1. FoldLiquify(a, doc) = [WithTiles(doc, a.layer, drawn) EXCEPT !.layer[a.layer].run = left]
      BY <1>5 DEF FoldLiquify
    <3>2. Fold(a, doc) = FoldLiquify(a, doc)
      BY <1>5, FoldByKind
    <3>. QED
      BY <3>1, <3>2, Zenon
  <2>2. a.layer \in Present(doc)
    BY <1>5 DEF Paintable
  <2>3. LayerSound(layer)
    BY <2>2 DEF Sound
  <2>. HIDE DEF reads
  <2>4. DOMAIN drawn \subseteq Tile /\ \A t \in DOMAIN drawn : Inner(drawn[t]) = {}
    BY <1>0, InnerOf DEF Drawn
  <2>. HIDE DEF drawn, left
  <2>5. Fold(a, doc) = Put(doc, a.layer, r)
    BY <2>1, <2>2, LiquifyIsPut
  <2>. HIDE DEF layer
  <2>6. /\ LayerSound(Tiled(layer, drawn))
        /\ Tiled(layer, drawn).kind = layer.kind
        /\ \A t \in Tile : Tiled(layer, drawn).tiles[t] = IF t \in DOMAIN drawn THEN drawn[t] ELSE layer.tiles[t]
    BY <2>3, <2>4, TiledIsSound
  <2>7. /\ LayerSound(r) /\ r.kind = layer.kind
        /\ \A t \in Tile : r.tiles[t] = IF t \in DOMAIN drawn THEN drawn[t] ELSE layer.tiles[t]
    BY <2>6, RanIsSound
  <2>. HIDE DEF r
  <2>. DEFINE new == Put(doc, a.layer, r)
  <2>8. /\ Present(new) = Present(doc) /\ new.layer[a.layer] = r
        /\ \A l \in Present(doc) : l # a.layer => new.layer[l] = doc.layer[l]
    BY <2>2, <2>7, PutIsSound DEF layer
  <2>. HIDE DEF new
  <2>9. ASSUME NEW l \in Present(doc), NEW t \in Tile PROVE Kin(new.layer[l].tiles[t], doc)
    <3>1. CASE l = a.layer /\ t \in DOMAIN drawn
      BY <2>4, <2>7, <2>8, <3>1 DEF Kin
    <3>2. CASE l # a.layer
      <4>1. new.layer[l].tiles[t] = doc.layer[l].tiles[t]
        BY <2>8, <3>2
      <4>. QED
        BY <4>1 DEF Kin
    <3>3. CASE l = a.layer /\ t \notin DOMAIN drawn
      <4>1. new.layer[l].tiles[t] = doc.layer[l].tiles[t]
        BY <2>7, <2>8, <3>3 DEF layer
      <4>. QED
        BY <4>1 DEF Kin
    <3>. QED
      BY <3>1, <3>2, <3>3
  <2>10. Painted(new, doc)
    BY <2>8, <2>9 DEF Painted
  <2>. QED
    BY <2>5, <2>10 DEF new
<1>. QED
  BY <1>1, <1>2, <1>3, <1>4, <1>5

(* A new layer is bare.                                                        *)
LEMMA NewLayerIsBare ==
  ASSUME NEW kind, NEW content, NEW number, NEW t \in Tile
  PROVE  Inner(NewLayer(kind, content, number).tiles[t]) = {}
<1>1. NewLayer(kind, content, number).tiles = [u \in Tile |-> Bare]
  BY Zenon DEF NewLayer
<1>2. NewLayer(kind, content, number).tiles[t] = Bare
  BY <1>1
<1>3. Inner(Bare) = {}
  BY DEF Inner
<1>. QED
  BY <1>2, <1>3

(* A layer added is painted with nothing.                                      *)
LEMMA AddLayerIsPainted ==
  ASSUME NEW a, WellFormed(a), a.kind \in {"AddLayer", "PlaceImage"}, NEW doc, Sound(doc)
  PROVE  Painted(FoldAddLayer(a, doc), doc)
<1>. DEFINE r == NewLayer(a.content[1], a.content[2], a.number)
            tree == Leaf(a.layer, r)
            new == Insert(doc, tree, a.carrier, a.place)
<1>0. FoldAddLayer(a, doc) = new
  BY DEF FoldAddLayer
<1>1. a.layer \in Id /\ LayerSound(r) /\ \A t \in Tile : Inner(r.tiles[t]) = {}
  BY NewLayerIsSound, NewLayerIsBare DEF WellFormed
<1>. HIDE DEF r, new
<1>2. TreeToGraft(tree) /\ ToSet(tree.order) = {a.layer} /\ Head(tree.order) = a.layer
      /\ tree.layer[a.layer] = r
  BY ONLY <1>1, LeafIsToGraft
<1>. HIDE DEF tree
<1>3. CASE a.layer \in Present(doc)
  BY <1>0, <1>2, <1>3, PaintedOn DEF Insert, new
<1>4. CASE a.layer \notin Present(doc) /\ ~ MayCarry(doc, a.carrier)
  BY <1>0, <1>4, PaintedOn DEF Insert, new
<1>5. CASE a.layer \notin Present(doc) /\ MayCarry(doc, a.carrier)
  <2>1. ToSet(tree.order) \cap Present(doc) = {}
    BY <1>2, <1>5
  <2>2. Grafted(doc, tree, a.carrier, new)
    BY <1>2, <1>5, <2>1, InsertIsSound DEF new
  <2>3. \A l \in ToSet(tree.order) : \A t \in Tile : Kin(tree.layer[l].tiles[t], doc)
    BY <1>1, <1>2 DEF Kin
  <2>. QED
    BY <1>0, <2>2, <2>3, GraftIsPainted
<1>. QED
  BY <1>3, <1>4, <1>5

(* A placed image with its own tiles.                                          *)
LEMMA PlaceImageIsPainted ==
  ASSUME NEW a, WellFormed(a), a.kind = "PlaceImage", NEW doc, Sound(doc)
  PROVE  Painted(FoldPlaceImage(a, doc), doc)
<1>. DEFINE added == FoldAddLayer(a, doc)
            named == SetProp(added, a.layer, "name", a.name)
            tiles == [t \in a.tiles |-> <<"image", a.n>>]
            placed == WithTiles(named, a.layer, tiles)
<1>1. CASE a.layer \in Present(doc) \/ a.layer \notin Present(added)
  BY <1>1, PaintedOn DEF FoldPlaceImage
<1>2. CASE a.layer \notin Present(doc) /\ a.layer \in Present(added)
  <2>1. FoldPlaceImage(a, doc) = placed
    BY <1>2 DEF FoldPlaceImage
  <2>2. Painted(added, doc) /\ Sound(added)
    BY AddLayerIsPainted, AddLayerChanges DEF Change
  <2>. HIDE DEF added
  <2>. DEFINE x == added.layer[a.layer]
              r == WithProp(x, "name", a.name)
  <2>3. named = Put(added, a.layer, r)
    BY <1>2 DEF SetProp, Put
  <2>4. LayerSound(x)
    BY <1>2, <2>2 DEF Sound
  <2>. HIDE DEF x
  <2>5. LayerSound(r) /\ r.kind = x.kind /\ r.tiles = x.tiles
    BY <2>4, WithPropIsSound
  <2>. HIDE DEF r
  <2>6. /\ Sound(named) /\ Present(named) = Present(added) /\ named.layer[a.layer] = r
        /\ \A l \in Present(added) : l # a.layer => named.layer[l] = added.layer[l]
    BY <1>2, <2>2, <2>3, <2>5, PutIsSound DEF x
  <2>. HIDE DEF named
  <2>7. Painted(named, added)
    <3>1. \A l \in Present(named) : \A t \in Tile : named.layer[l].tiles[t] = added.layer[l].tiles[t]
      BY <2>5, <2>6 DEF x
    <3>. QED
      BY <2>6, <3>1 DEF Painted, Kin
  <2>8. DOMAIN tiles \subseteq Tile /\ \A t \in DOMAIN tiles : Kin(tiles[t], named)
    BY InnerOf DEF WellFormed, Kin
  <2>. HIDE DEF tiles
  <2>9. Painted(placed, named)
    BY <1>2, <2>6, <2>8, WithTilesIsPainted
  <2>. QED
    BY <2>1, <2>2, <2>7, <2>9, PaintedOn
<1>. QED
  BY <1>1, <1>2

(* A float's new layer and what is left beneath it.                            *)
LEMMA FloatIsPainted ==
  ASSUME NEW a, WellFormed(a), a.kind = "FloatSelection", NEW doc, Sound(doc)
  PROVE  Painted(FoldFloat(a, doc), doc)
<1>1. CASE a.layer \in Present(doc) \/ ~ FloatOffered(a, doc)
  <2>1. FoldFloat(a, doc) = doc
    BY <1>1, Zenon DEF FoldFloat
  <2>. QED
    BY <2>1, PaintedOn
<1>2. CASE a.layer \notin Present(doc) /\ FloatOffered(a, doc)
  <2>. DEFINE was == doc.layer[a.source].tiles
              mask == Mask(a, doc)
              rest == RestTiles(a, was, mask)
              cut == CutTiles(a, was, mask)
              blank == NewLayer("paint", <<>>, a.number)
              base == WithProp(blank, "translation", a.frame)
              r == Lifted(a, was, mask)
              mid == WithTiles(doc, a.source, rest)
              tree == Leaf(a.layer, r)
              new == Insert(mid, tree, a.source, Bottom)
  <2>1. FoldFloat(a, doc) = Masked(new, a.actor, Universal)
    BY <1>2, FloatInSteps DEF Floated
  <2>2. LayerSound(r) /\ DOMAIN rest \subseteq Tile /\ DOMAIN cut \subseteq Tile
    BY LiftedIsSound
  <2>3. a.source \in Present(doc) /\ doc.layer[a.source].kind = "paint"
    BY <1>2 DEF FloatOffered, Paintable
  <2>4. a.layer \in Id /\ a.actor \in Actor
    BY DEF WellFormed
  <2>5. \A t \in DOMAIN rest : Inner(rest[t]) = {}
    <3>1. \A t \in DOMAIN rest : rest[t] = <<"cut", a.n, was[t], mask>>
      BY DEF RestTiles
    <3>. QED
      BY <3>1, DrawnInner
  <2>6. \A t \in DOMAIN cut : Inner(cut[t]) = {}
    <3>1. \A t \in DOMAIN cut : cut[t] = <<"float", a.n, was[t], mask>>
      BY DEF CutTiles
    <3>. QED
      BY <3>1, DrawnInner
  <2>7. LayerSound(blank) /\ \A t \in Tile : Inner(blank.tiles[t]) = {}
    BY NewLayerIsSound, NewLayerIsBare
  <2>8. r = Tiled(base, cut)
    BY Zenon DEF Lifted
  <2>. HIDE DEF blank, cut
  <2>9. LayerSound(base) /\ base.tiles = blank.tiles
    BY <2>7, WithPropIsSound
  <2>. HIDE DEF base, r, rest
  <2>10. \A t \in Tile : Inner(r.tiles[t]) = {}
    <3>1. \A t \in Tile : r.tiles[t] = IF t \in DOMAIN cut THEN cut[t] ELSE base.tiles[t]
      BY <2>2, <2>8, <2>9, TiledIsSound
    <3>. QED
      BY <2>6, <2>7, <2>9, <3>1
  <2>11. Painted(mid, doc)
    BY <2>2, <2>3, <2>5, WithTilesIsPainted DEF Kin
  <2>12. TreeToGraft(tree) /\ ToSet(tree.order) = {a.layer} /\ tree.layer[a.layer] = r
    BY ONLY <2>2, <2>4, LeafIsToGraft
  <2>13. /\ Present(mid) = Present(doc) /\ MayCarry(mid, a.source) /\ Sound(mid)
    BY <2>2, <2>3, WithTilesIsSound DEF MayCarry
  <2>. HIDE DEF mid, tree
  <2>14. ToSet(tree.order) \cap Present(mid) = {}
    BY <1>2, <2>12, <2>13
  <2>15. Grafted(mid, tree, a.source, new)
    BY <2>12, <2>13, <2>14, InsertIsSound
  <2>. HIDE DEF new
  <2>16. \A l \in ToSet(tree.order) : \A t \in Tile : Kin(tree.layer[l].tiles[t], mid)
    BY <2>10, <2>12 DEF Kin
  <2>17. Painted(new, mid) /\ Sound(new)
    BY <2>15, <2>16, GraftIsPainted DEF Grafted
  <2>18. Masked(new, a.actor, Universal).layer = new.layer /\ Masked(new, a.actor, Universal).order = new.order
    BY <2>4, <2>17, MaskedIsSound
  <2>. QED
    BY <2>1, <2>11, <2>17, <2>18, PaintedOn DEF Present
<1>. QED
  BY <1>1, <1>2

(* A duplicate is painted as what it copies.                                   *)
LEMMA DuplicateIsPainted ==
  ASSUME NEW a, WellFormed(a), a.kind = "DuplicateLayer", NEW doc, Sound(doc)
  PROVE  Painted(DuplicateLayer(doc, a.ids, a.number), doc)
<1>. DEFINE ids == a.ids
            source == ids[1][1]
            was == SubtreeIds(doc, source)
            tree == Copied(doc, ids, was, a.number)
            c == doc.carrier[source]
            new == Insert(doc, tree, c, source)
<1>0. ids \in Seq(Id \X Id)
  BY DEF WellFormed
<1>1. CASE Declined(doc, ids)
  BY <1>1, DuplicateInSteps, PaintedOn
<1>2. CASE ~ Declined(doc, ids)
  <2>1. DuplicateLayer(doc, ids, a.number) = new
    BY <1>2, DuplicateInSteps
  <2>2. TreeToGraft(tree) /\ ToSet(tree.order) \cap Present(doc) = {}
    BY <1>0, <1>2, CopiedIsToGraft
  <2>3. source \in Present(doc)
    BY <1>2 DEF Declined
  <2>4. ToSet(was) \subseteq Present(doc)
    <3>1. ToSet(was) = Within(doc, source)
      BY <2>3, SubtreeIdsOf DEF Sound
    <3>. QED
      BY <2>3, <3>1, WithinIsWhole
  <2>5. ASSUME NEW l \in ToSet(tree.order), NEW t \in Tile
        PROVE  Kin(tree.layer[l].tiles[t], doc)
    <3>. DEFINE S == {CopyOf(ids, m) : m \in ToSet(was)}
                from == CopiedFrom(ids, was, l)
                num(id) == a.number + PairOf(ids, CopiedFrom(ids, was, id)) - 1
    <3>2. tree.layer = [id \in S |-> CopiedRecord(doc.layer[CopiedFrom(ids, was, id)], num(id))]
      BY DEF Copied
    <3>. HIDE DEF num, tree
    <3>1. DOMAIN tree.layer = ToSet(tree.order)
      BY <2>2 DEF TreeToGraft
    <3>3. l \in S
      BY <3>1, <3>2
    <3>4. tree.layer[l] = CopiedRecord(doc.layer[from], num(l))
      BY <3>2, <3>3
    <3>5. from \in ToSet(was)
      BY <3>3 DEF CopiedFrom
    <3>6. from \in Present(doc)
      BY <2>4, <3>5
    <3>. HIDE DEF from
    <3>7. LayerSound(doc.layer[from])
      BY <3>6 DEF Sound
    <3>8. CopiedRecord(doc.layer[from], num(l)).tiles = doc.layer[from].tiles
      <4>. DEFINE y == doc.layer[from]
                  n == num(l)
      <4>1. y = [kind |-> y.kind, prop |-> y.prop, tiles |-> y.tiles, run |-> y.run, number |-> y.number]
        BY <3>7 DEF LayerSound
      <4>. HIDE DEF y, n
      <4>2. CopiedRecord(y, n).tiles = y.tiles
        BY <4>1 DEF CopiedRecord
      <4>. QED
        BY <4>2 DEF y, n
    <3>. QED
      BY <3>4, <3>6, <3>8 DEF Kin
  <2>. HIDE DEF tree, c
  <2>6. CASE ~ MayCarry(doc, c)
    BY <2>1, <2>2, <2>6, InsertIsSound, PaintedOn
  <2>7. CASE MayCarry(doc, c)
    <3>1. Grafted(doc, tree, c, new)
      BY <2>2, <2>7, InsertIsSound
    <3>. HIDE DEF new
    <3>2. Painted(new, doc)
      BY <2>5, <3>1, GraftIsPainted
    <3>. QED
      BY <2>1, <3>2
  <2>. QED
    BY <2>6, <2>7
<1>. QED
  BY <1>1, <1>2

(* What stays when layers go is painted as it was.                             *)
LEMMA RemoveLayerIsPainted ==
  ASSUME NEW doc, Sound(doc), NEW id
  PROVE  Painted(RemoveLayer(doc, id), doc)
<1>1. CASE id \notin Present(doc)
  BY <1>1, PaintedOn DEF RemoveLayer
<1>2. CASE id \in Present(doc)
  <2>. DEFINE gone == Within(doc, id)
              new == Without(doc, gone)
  <2>1. RemoveLayer(doc, id) = new
    BY <1>2 DEF RemoveLayer
  <2>2. Whole(doc, gone)
    BY <1>2, WithinIsWhole
  <2>. HIDE DEF gone
  <2>3. Kept(doc, gone, new)
    BY <2>2, WithoutWhole
  <2>. HIDE DEF new
  <2>4. Painted(new, doc)
    BY <2>3, PaintedOn DEF Kept
  <2>. QED
    BY <2>1, <2>4
<1>. QED
  BY <1>1, <1>2

(* The actions that draw nothing and bring and take no layer claim no such.     *)
LEMMA ClaimsOfTheRest ==
  ASSUME NEW a, a.kind \in {"Select", "SetProp", "SetMatte", "TranslateLayers", "SetSubstrate",
                            "SetSubstrateColor", "Guides"}
  PROVE  Unpainted(Writes(a))
<1>1. /\ \A x : Unpainted(Selection(x))
      /\ \A id, ps : Unpainted(PropClaim(id, ps))
      /\ Unpainted(Substrate) /\ Unpainted(SubstrateColor) /\ Unpainted(GuideRoster)
  BY DEF Unpainted, Selection, PropClaim, Substrate, SubstrateColor, GuideRoster
<1>2. ASSUME NEW F, \A S \in F : Unpainted(S) PROVE Unpainted(UNION F)
  BY <1>2, Zenon DEF Unpainted
<1>3. CASE a.kind = "Select"
  <2>1. Writes(a) = Selection(a.actor)
    BY <1>3, PaintClaims
  <2>. QED
    BY <1>1, <2>1
<1>4. CASE a.kind = "TranslateLayers"
  <2>. DEFINE each == {PropClaim(id, {"translation"}) : id \in DOMAIN a.moves}
  <2>1. Writes(a) = UNION each
    BY <1>4, PropertyClaims
  <2>2. \A S \in each : Unpainted(S)
    BY <1>1
  <2>. HIDE DEF each
  <2>. QED
    BY <1>2, <2>1, <2>2
<1>5. CASE a.kind \in {"SetProp", "SetMatte"}
  <2>1. \E ps : Writes(a) = PropClaim(a.layer, ps)
    BY <1>5, PropertyClaims
  <2>. QED
    BY <1>1, <2>1
<1>6. CASE a.kind \in {"SetSubstrate", "SetSubstrateColor", "Guides"}
  <2>1. Writes(a) = Substrate \/ Writes(a) = SubstrateColor \/ Writes(a) = GuideRoster
    BY <1>6, PropertyClaims
  <2>. QED
    BY <1>1, <2>1
<1>. QED
  BY <1>3, <1>4, <1>5, <1>6

(* No action but a merge draws with what is drawn already.                     *)
LEMMA FoldIsPainted ==
  ASSUME NEW a, WellFormed(a), a.kind # "MergeLayerDown", NEW doc, Sound(doc)
  PROVE  Painted(Fold(a, doc), doc)
<1>0. a.kind \in Kinds
  BY DEF WellFormed
<1>1. CASE a.kind \in {"CommitStroke", "Fill", "Transform", "Liquify"}
  BY <1>1, PaintsArePainted
<1>2. CASE a.kind = "AddLayer"
  BY <1>2, FoldByKind, AddLayerIsPainted
<1>3. CASE a.kind = "PlaceImage"
  BY <1>3, FoldByKind, PlaceImageIsPainted
<1>4. CASE a.kind = "FloatSelection"
  BY <1>4, FoldByKind, FloatIsPainted
<1>5. CASE a.kind = "DuplicateLayer"
  BY <1>5, FoldByKind, DuplicateIsPainted
<1>6. CASE a.kind = "RemoveLayer"
  <2>1. Fold(a, doc) = doc \/ Fold(a, doc) = RemoveLayer(doc, a.layer)
    BY <1>6, FoldByKind DEF FoldRemoveLayer
  <2>. QED
    BY <2>1, RemoveLayerIsPainted, PaintedOn
<1>7. CASE a.kind = "MoveLayer"
  <2>. DEFINE new == MoveLayer(doc, a.layer, a.carrier, a.place)
  <2>1. Fold(a, doc) = new
    BY <1>7, FoldByKind
  <2>2. Present(new) = Present(doc) /\ \A l \in Present(doc) : new.layer[l] = doc.layer[l]
    BY MoveLayerIsSound
  <2>. HIDE DEF new
  <2>3. Painted(doc, doc)
    BY PaintedOn
  <2>4. Painted(new, doc)
    BY <2>2, <2>3, PaintedOn
  <2>. QED
    BY <2>1, <2>4
<1>8. CASE a.kind \in {"Select", "SetProp", "SetMatte", "TranslateLayers", "SetSubstrate",
                       "SetSubstrateColor", "Guides"}
  <2>1. Unpainted(Writes(a))
    BY <1>8, ClaimsOfTheRest
  <2>2. Change(a, doc, Fold(a, doc))
    BY FoldChanges
  <2>. QED
    BY <2>1, <2>2, UnclaimedIsPainted
<1>. QED
  BY <1>0, <1>1, <1>2, <1>3, <1>4, <1>5, <1>6, <1>7, <1>8 DEF Kinds

(* What is kin to a document's tiles is no deeper than they are.               *)
LEMMA KinIsShallow ==
  ASSUME NEW doc, NEW n \in Nat, ShallowDoc(doc, n), NEW v, Kin(v, doc)
  PROVE  Shallow(v, n)
<1>1. CASE Inner(v) = {}
  <2>. DEFINE S == {i \in Nat : Shallow(v, i)}
  <2>1. 0 \in S
    BY <1>1, ShallowIs
  <2>2. \A i \in Nat : i \in S => i + 1 \in S
    BY ShallowIs
  <2>. HIDE DEF S
  <2>3. Nat \subseteq S
    BY <2>1, <2>2, Induction
  <2>4. n \in S
    BY <2>3
  <2>. QED
    BY <2>4 DEF S
<1>2. CASE \E m \in Present(doc) : \E u \in Tile : v = doc.layer[m].tiles[u]
  BY <1>2 DEF ShallowDoc
<1>. QED
  BY <1>1, <1>2 DEF Kin

(* A filtered value, and a merged one.                                         *)
LEMMA FilterInner ==
  ASSUME NEW x, NEW y, NEW z
  PROVE  Inner(<<"filter", x, y, z>>) = {z}
<1>. DEFINE v == <<"filter", x, y, z>>
<1>1. v # Bare /\ v[1] = "filter" /\ v[4] = z
  BY DEF Bare
<1>. HIDE DEF v
<1>2. Inner(v) = {v[4]}
  BY <1>1 DEF Inner
<1>. QED
  BY <1>1, <1>2 DEF v

(* A stacked value was computed from the two it stacks.                      *)
LEMMA MergeInner ==
  ASSUME NEW x, NEW y, NEW z, NEW p, NEW q, NEW r
  PROVE  Inner(<<"merge", x, y, z, p, q, r>>) = {x, q}
<1>. DEFINE v == <<"merge", x, y, z, p, q, r>>
<1>1. v # Bare /\ v[1] = "merge" /\ v[2] = x /\ v[6] = q
  BY DEF Bare
<1>. HIDE DEF v
<1>2. Inner(v) = {v[2], v[6]}
  BY <1>1 DEF Inner
<1>. QED
  BY <1>1, <1>2 DEF v

(* A merged tile is one of the document's or made of such.                     *)
LEMMA MergedTileIsKin ==
  ASSUME NEW doc, NEW s \in Present(doc), NEW d \in Present(doc), NEW t \in Tile
  PROVE  Kin(MergedTiles(doc, s, d)[t], doc) \/ \A w \in Inner(MergedTiles(doc, s, d)[t]) : Kin(w, doc)
<1>. DEFINE up == doc.layer[s]
            down == doc.layer[d]
            shift == up.prop["translation"] - down.prop["translation"]
            aligned == up.prop["translation"] = down.prop["translation"]
            upper == IF aligned \/ \A u \in Tile : up.tiles[u] = Bare THEN up.tiles[t]
                     ELSE <<"shift", shift, up.tiles>>
            grade == up.prop["filter"]
            slider == IF doc.carrier[s] = d THEN "full" ELSE down.prop["opacity"]
            v == MergedTiles(doc, s, d)[t]
<1>1. v = IF up.kind = "filter"
          THEN IF grade \in Neutral \/ down.tiles[t] = Bare THEN down.tiles[t]
               ELSE <<"filter", grade, up.prop["opacity"], down.tiles[t]>>
          ELSE IF down.tiles[t] = Bare /\ upper = Bare THEN Bare
               ELSE <<"merge", upper, up.prop["opacity"], up.prop["blend"],
                      up.prop["clip"], down.tiles[t], slider>>
  BY DEF MergedTiles
<1>2. Kin(up.tiles[t], doc) /\ Kin(down.tiles[t], doc)
  BY DEF Kin
<1>3. Inner(<<"shift", shift, up.tiles>>) = {}
  BY InnerOf
<1>4. Kin(upper, doc)
  <2>1. CASE aligned \/ \A u \in Tile : up.tiles[u] = Bare
    BY <1>2, <2>1, Zenon
  <2>2. CASE ~ (aligned \/ \A u \in Tile : up.tiles[u] = Bare)
    <3>1. upper = <<"shift", shift, up.tiles>>
      BY <2>2, Zenon
    <3>. QED
      BY <1>3, <3>1 DEF Kin
  <2>. QED
    BY <2>1, <2>2
<1>. DEFINE x == down.tiles[t]
            o == up.prop["opacity"]
            b == up.prop["blend"]
            c == up.prop["clip"]
<1>5. Inner(<<"filter", grade, o, x>>) = {x} /\ Inner(Bare) = {}
      /\ Inner(<<"merge", upper, o, b, c, x, slider>>) = {upper, x}
  <2>. HIDE DEF upper, slider, x, o, b, c, grade
  <2>1. Inner(<<"filter", grade, o, x>>) = {x}
    BY FilterInner
  <2>2. Inner(<<"merge", upper, o, b, c, x, slider>>) = {upper, x}
    BY MergeInner
  <2>3. Inner(Bare) = {}
    BY DEF Inner
  <2>. QED
    BY <2>1, <2>2, <2>3
<1>6. \/ v = x \/ v = Bare \/ v = <<"filter", grade, o, x>>
      \/ v = <<"merge", upper, o, b, c, x, slider>>
  BY <1>1, Zenon
<1>7. Kin(x, doc)
  BY <1>2
<1>. HIDE DEF v, upper, slider, x, o, b, c, grade
<1>8. Kin(v, doc) \/ \A w \in Inner(v) : Kin(w, doc)
  <2>1. CASE v = x
    BY <1>7, <2>1
  <2>2. CASE v = Bare
    BY <1>5, <2>2
  <2>3. CASE v = <<"filter", grade, o, x>>
    BY <1>5, <1>7, <2>3
  <2>4. CASE v = <<"merge", upper, o, b, c, x, slider>>
    BY <1>4, <1>5, <1>7, <2>4
  <2>. QED
    BY <1>6, <2>1, <2>2, <2>3, <2>4
<1>. QED
  BY <1>8 DEF v

(* What is left of the lower layer's record, and the merged one in its stead.  *)
LEMMA SurvivorIsSound ==
  ASSUME NEW doc, Sound(doc), NEW s, NEW d \in Present(doc)
  PROVE  /\ LayerSound(Survivor(doc, s, d)) /\ Survivor(doc, s, d).kind = doc.layer[d].kind
         /\ doc.layer[s].kind = "filter" \/ doc.carrier[s] = d => Survivor(doc, s, d) = doc.layer[d]
         /\ ~ (doc.layer[s].kind = "filter" \/ doc.carrier[s] = d) =>
              /\ Survivor(doc, s, d).prop["opacity"] = "full"
              /\ ~ Survivor(doc, s, d).prop["clip"]
              /\ \A p \in Prop \ {"opacity", "clip"} :
                   Survivor(doc, s, d).prop[p] = doc.layer[d].prop[p]
<1>. DEFINE down == doc.layer[d]
            kept == Survivor(doc, s, d)
<1>1. LayerSound(down)
  BY DEF Sound
<1>2. CASE doc.layer[s].kind = "filter" \/ doc.carrier[s] = d
  <2>1. kept = down
    BY <1>2 DEF Survivor
  <2>. QED
    BY <1>1, <1>2, <2>1
<1>3. CASE ~ (doc.layer[s].kind = "filter" \/ doc.carrier[s] = d)
  <2>. DEFINE no == FALSE
              x == Propped(down, "clip", no)
              y == Propped(x, "opacity", "full")
  <2>1. kept = [down EXCEPT !.prop["clip"] = FALSE, !.prop["opacity"] = "full"]
    BY <1>3 DEF Survivor
  <2>2. [down EXCEPT !.prop["clip"] = FALSE, !.prop["opacity"] = "full"] = y
    BY DEF Propped
  <2>. HIDE DEF down, kept, no
  <2>3. /\ LayerSound(x) /\ x.kind = down.kind
        /\ \A p \in Prop : x.prop[p] = IF p = "clip" THEN no ELSE down.prop[p]
    BY <1>1, ProppedIsSound
  <2>. HIDE DEF x
  <2>4. /\ LayerSound(y) /\ y.kind = x.kind
        /\ \A p \in Prop : y.prop[p] = IF p = "opacity" THEN "full" ELSE x.prop[p]
    BY <2>3, ProppedIsSound
  <2>. HIDE DEF y
  <2>5. LayerSound(kept) /\ kept.kind = down.kind
    BY <2>1, <2>2, <2>3, <2>4
  <2>6. {"opacity", "clip"} \subseteq Prop
    BY DEF Prop
  <2>7. /\ kept.prop["opacity"] = "full" /\ kept.prop["clip"] = no
        /\ \A p \in Prop \ {"opacity", "clip"} : kept.prop[p] = down.prop[p]
    BY <2>1, <2>2, <2>3, <2>4, <2>6
  <2>8. ~ no
    BY DEF no
  <2>. QED
    BY <1>3, <2>5, <2>7, <2>8 DEF kept, down
<1>. QED
  BY <1>2, <1>3

(* What a merge leaves of the document: the lower layer anew, the upper gone.   *)
Lowered(doc, s, d, new) ==
  /\ Sound(new) /\ Present(new) = Present(doc) \ {s} /\ s \in Present(doc) /\ d \in Present(doc)
  /\ s # d
  /\ \A l \in Present(new) : new.carrier[l] = doc.carrier[l]
  /\ new.order = Only(doc.order, Present(doc) \ {s})
  /\ new.layer[d] = Merged(doc, s, d)
  /\ \A l \in Present(new) : l # d => new.layer[l] = doc.layer[l]
  /\ \A l \in Present(doc) : doc.carrier[l] # s

(* A layer is not beneath itself.                                              *)
LEMMA BelowIsAnother ==
  ASSUME NEW doc, Sound(doc), NEW s \in Present(doc)
  PROVE  doc.carrier[s] # s
<1>1. PICK i \in 1..Len(doc.order) : doc.order[i] = s
  BY PresentOf DEF Sound, OrderSound
<1>2. Distinct(doc.order) /\ Len(doc.order) \in Nat
  BY PresentOf DEF Sound, OrderSound
<1>3. s \in Id /\ s # Root
  BY WithinIsWhole
<1>4. doc.carrier[s] = Root \/ \E j \in 1..i - 1 : doc.order[j] = doc.carrier[s]
  BY <1>1 DEF Sound, OrderSound
<1>. QED
  BY <1>1, <1>2, <1>3, <1>4 DEF Distinct

(* A merge down in full.                                                       *)
LEMMA MergeLowers ==
  ASSUME NEW a, NEW doc, Sound(doc), MergeOffered(doc, a.source, a.dest)
  PROVE  Lowered(doc, a.source, a.dest, FoldMergeDown(a, doc))
<1>. DEFINE s == a.source
            d == a.dest
            r == Merged(doc, s, d)
            mid == Put(doc, d, r)
            new == RemoveLayer(mid, s)
<1>1. FoldMergeDown(a, doc) = new
  BY MergeInSteps
<1>2. s \in Present(doc) /\ d \in Present(doc) /\ Within(doc, s) = {s}
  BY MergeOfferedOf
<1>3. s # d
  <2>. DEFINE stack == StackOf(doc, doc.carrier[s])
              i == Position(stack, s)
  <2>1. d = IF i = 1 THEN doc.carrier[s] ELSE stack[i - 1]
    BY DEF MergeOffered, Below
  <2>2. s \in ToSet(stack) /\ stack \in Seq(Id)
    BY <1>2, StackOfElements DEF Sound, OrderSound
  <2>3. doc.carrier[s] # s
    BY <1>2, BelowIsAnother
  <2>4. Distinct(stack)
    BY OnlyDistinct DEF StackOf, Sound, OrderSound
  <2>. HIDE DEF stack
  <2>5. i \in 1..Len(stack) /\ \A j \in 1..Len(stack) : stack[j] = s => j = i
    BY <2>2, <2>4, PositionOf
  <2>. HIDE DEF i
  <2>6. Len(stack) \in Nat
    BY <2>2
  <2>7. i # 1 => i - 1 \in 1..Len(stack) /\ i - 1 # i
    BY <2>5, <2>6
  <2>. QED
    BY <2>1, <2>3, <2>5, <2>7
<1>4. LayerSound(r) /\ r.kind = doc.layer[d].kind
  BY <1>2, MergedIsSound
<1>. HIDE DEF r
<1>5. /\ Sound(mid) /\ Present(mid) = Present(doc) /\ mid.order = doc.order /\ mid.carrier = doc.carrier
      /\ mid.layer[d] = r /\ \A l \in Present(doc) : l # d => mid.layer[l] = doc.layer[l]
  BY <1>2, <1>4, PutIsSound
<1>. HIDE DEF mid
<1>6. Within(mid, s) = {s}
  <2>1. Within(mid, s) = Within(doc, s)
    BY <1>5, Zenon DEF Within
  <2>. QED
    BY <1>2, <2>1
<1>7. new = Without(mid, {s})
  BY <1>2, <1>5, <1>6 DEF RemoveLayer
<1>8. Whole(mid, {s})
  BY <1>2, <1>5, <1>6, WithinIsWhole
<1>. HIDE DEF new
<1>9. Kept(mid, {s}, new)
  BY <1>5, <1>7, <1>8, WithoutWhole
<1>10. \A l \in Present(doc) : doc.carrier[l] # s
  <2>1. doc.carrier[s] # s
    BY <1>2, BelowIsAnother
  <2>. QED
    BY <1>5, <1>8, <2>1 DEF Whole
<1>11. Lowered(doc, s, d, new)
  BY <1>2, <1>3, <1>5, <1>9, <1>10 DEF Kept, Lowered, r
<1>. QED
  BY <1>1, <1>11

(* A merge makes values one merge deeper at most, no other action deeper ones. *)
LEMMA FoldDeepens ==
  ASSUME NEW a, WellFormed(a), NEW doc, Sound(doc), NEW n \in Nat, ShallowDoc(doc, n)
  PROVE  ShallowDoc(Fold(a, doc), n + 1)
<1>0. \A v : Kin(v, doc) => Shallow(v, n) /\ Shallow(v, n + 1)
  BY KinIsShallow, ShallowIs
<1>1. CASE a.kind # "MergeLayerDown"
  <2>1. Painted(Fold(a, doc), doc)
    BY <1>1, FoldIsPainted
  <2>. DEFINE new == Fold(a, doc)
  <2>. HIDE DEF new
  <2>2. \A l \in Present(new) : \A t \in Tile : Kin(new.layer[l].tiles[t], doc)
    BY <2>1 DEF Painted, new
  <2>3. ShallowDoc(new, n + 1)
    BY <1>0, <2>2 DEF ShallowDoc
  <2>. QED
    BY <2>3 DEF new
<1>2. CASE a.kind = "MergeLayerDown" /\ ~ MergeOffered(doc, a.source, a.dest)
  <2>1. Fold(a, doc) = doc
    BY <1>2, FoldByKind DEF FoldMergeDown
  <2>2. Painted(doc, doc)
    BY PaintedOn
  <2>3. ShallowDoc(doc, n + 1)
    BY <1>0, <2>2 DEF ShallowDoc, Painted
  <2>. QED
    BY <2>1, <2>3
<1>3. CASE a.kind = "MergeLayerDown" /\ MergeOffered(doc, a.source, a.dest)
  <2>. DEFINE s == a.source
              d == a.dest
              new == FoldMergeDown(a, doc)
  <2>1. Fold(a, doc) = new
    BY <1>3, FoldByKind
  <2>2. Lowered(doc, s, d, new)
    BY <1>3, MergeLowers
  <2>. HIDE DEF new
  <2>3. ASSUME NEW l \in Present(new), NEW t \in Tile PROVE Shallow(new.layer[l].tiles[t], n + 1)
    <3>. DEFINE v == MergedTiles(doc, s, d)[t]
    <3>1. CASE l = d
      <4>1. s \in Present(doc) /\ d \in Present(doc) /\ new.layer[d] = Merged(doc, s, d)
        BY <2>2 DEF Lowered
      <4>2. Kin(v, doc) \/ \A w \in Inner(v) : Kin(w, doc)
        BY <4>1, MergedTileIsKin
      <4>3. Merged(doc, s, d).tiles[t] = v
        <5>1. LayerSound(Survivor(doc, s, d))
          BY <4>1, MergedIsSound, SurvivorIsSound
        <5>2. Merged(doc, s, d).tiles = MergedTiles(doc, s, d)
          BY <5>1 DEF Merged, LayerSound
        <5>. QED
          BY <5>2
      <4>. HIDE DEF v
      <4>4. Shallow(v, n + 1)
        BY <1>0, <4>2, ShallowIs
      <4>. QED
        BY <3>1, <4>1, <4>3, <4>4
    <3>2. CASE l # d
      <4>1. new.layer[l] = doc.layer[l] /\ l \in Present(doc)
        BY <2>2, <3>2 DEF Lowered
      <4>2. Kin(doc.layer[l].tiles[t], doc)
        BY <4>1 DEF Kin
      <4>. QED
        BY <1>0, <4>1, <4>2
    <3>. QED
      BY <3>1, <3>2
  <2>4. ShallowDoc(new, n + 1)
    BY <2>3 DEF ShallowDoc
  <2>. QED
    BY <2>1, <2>4
<1>. QED
  BY <1>1, <1>2, <1>3

(* The document a history begins at is no deeper than its seed is long.        *)
LEMMA EmptyIsShallow ==
  ShallowDoc(EmptyDocument(LayerIdOf(0, 0)), 0)
<1>. DEFINE first == LayerIdOf(0, 0)
            doc == EmptyDocument(first)
            one == <<first>>
            r == NewLayer("paint", <<>>, 1)
<1>1. doc.order = one /\ doc.layer = [l \in {first} |-> r]
  BY DEF EmptyDocument
<1>2. ToSet(one) = {first}
  BY DEF ToSet
<1>. HIDE DEF doc, one, r, first
<1>3. \A t \in Tile : Inner(r.tiles[t]) = {}
  BY NewLayerIsBare DEF r
<1>4. \A l \in Present(doc) : doc.layer[l] = r
  BY <1>1, <1>2 DEF Present
<1>5. ShallowDoc(doc, 0)
  BY <1>3, <1>4, ShallowIs DEF ShallowDoc
<1>. QED
  BY <1>5 DEF doc, first

(* Each action deepens by one at most.                                         *)
LEMMA FoldedDeepens ==
  ASSUME NEW acted, Sane(acted), NEW base, Sound(base), NEW n \in Nat, ShallowDoc(base, n),
         NEW r, Folded(base, acted, r)
  PROVE  \A i \in 0..Len(acted) : Sound(r[i + 1]) /\ ShallowDoc(r[i + 1], n + i)
<1>1. Len(acted) \in Nat /\ Len(r) = Len(acted) + 1
  BY DEF Sane, IsSeq, Folded
<1>. DEFINE Says(i) == Sound(r[i + 1]) /\ ShallowDoc(r[i + 1], n + i)
            S == {i \in Nat : i \in 0..Len(acted) => Says(i)}
<1>2. 0 \in S
  <2>1. r[0 + 1] = base /\ n + 0 = n
    BY DEF Folded
  <2>. QED
    BY <2>1
<1>3. ASSUME NEW i \in Nat, i \in S PROVE i + 1 \in S
  <2>. SUFFICES ASSUME i + 1 \in 0..Len(acted) PROVE Says(i + 1)
    OBVIOUS
  <2>1. i + 1 \in 1..Len(acted) /\ i \in 0..Len(acted) /\ n + i \in Nat /\ n + (i + 1) = (n + i) + 1
    BY <1>1
  <2>2. r[(i + 1) + 1] = Fold(acted[i + 1], r[i + 1]) /\ WellFormed(acted[i + 1])
    BY <2>1 DEF Folded, Sane
  <2>3. Says(i)
    BY <1>3, <2>1
  <2>. DEFINE doc == r[i + 1]
              a == acted[i + 1]
              m == n + i
  <2>4. Sound(doc) /\ ShallowDoc(doc, m) /\ WellFormed(a) /\ m \in Nat
    BY <2>1, <2>2, <2>3
  <2>. HIDE DEF doc, a, m
  <2>5. Sound(Fold(a, doc)) /\ ShallowDoc(Fold(a, doc), m + 1)
    BY <2>4, FoldDeepens, FoldChanges DEF Change
  <2>. QED
    BY <2>1, <2>2, <2>5 DEF doc, a, m
<1>4. Nat \subseteq S
  <2>. HIDE DEF S
  <2>. QED
    BY <1>2, <1>3, Induction
<1>5. ASSUME NEW i \in 0..Len(acted) PROVE Says(i)
  <2>1. i \in Nat /\ i \in S
    BY <1>1, <1>4
  <2>. QED
    BY <2>1
<1>. QED
  BY <1>5

(* What is painted already when a history begins is merged from no deeper than *)
(* its actions are numbered.                                                   *)
SeedShallow == SeedNumber \in Nat /\ ShallowDoc(docs[1], SeedNumber)

(* The document a history begins at is seeded once and never changes.        *)
LEMMA SeedStaysShallow == Spec => []SeedShallow
<1>1. Init => SeedShallow
  <2>. SUFFICES ASSUME Init PROVE SeedShallow
    OBVIOUS
  <2>. DEFINE base == EmptyDocument(LayerIdOf(0, 0))
              seed == scene.seed
              r == Replay(base, seed)
  <2>0. scene \in Scene /\ docs = <<Last(r)>>
    BY DEF Init
  <2>1. Sane(seed) /\ Len(seed) \in Nat
    <3>1. seed \in Seq(ToSet(seed)) /\ \A i \in DOMAIN seed : WellFormed(seed[i])
      BY <2>0, SceneAssumption
    <3>. HIDE DEF seed
    <3>2. DOMAIN seed = 1..Len(seed) /\ Len(seed) \in Nat
      BY <3>1
    <3>. QED
      BY <3>1, <3>2 DEF Sane, IsSeq
  <2>2. Sound(base) /\ ShallowDoc(base, 0)
    BY EmptyIsSound, EmptyIsShallow
  <2>3. SeedNumber = Len(seed)
    BY DEF SeedNumber
  <2>. HIDE DEF base, seed
  <2>4. Folded(base, seed, r)
    BY <2>1, ReplayFolds
  <2>. HIDE DEF r
  <2>5. ShallowDoc(r[Len(seed) + 1], 0 + Len(seed))
    <3>1. Len(seed) \in 0..Len(seed) /\ 0 \in Nat
      BY <2>1
    <3>. QED
      BY <2>1, <2>2, <2>4, <3>1, FoldedDeepens
  <2>6. Last(r) = r[Len(seed) + 1]
    BY <2>4 DEF Last, Folded
  <2>7. docs[1] = Last(r)
    BY <2>0, SinglePart
  <2>. QED
    BY <2>1, <2>3, <2>5, <2>6, <2>7 DEF SeedShallow
<1>2. SeedShallow /\ HistoryInv /\ [Next]_vars => SeedShallow'
  <2>. SUFFICES ASSUME SeedShallow, HistoryInv, [Next]_vars PROVE SeedShallow'
    OBVIOUS
  <2>1. docs'[1] = docs[1] /\ scene' = scene
    BY StepsKeepHistory DEF InvKept
  <2>2. SeedNumber' = SeedNumber
    BY <2>1 DEF SeedNumber
  <2>. QED
    BY <2>1, <2>2 DEF SeedShallow, ShallowDoc, Present
<1>. QED
  BY <1>1, <1>2, HistoryInvHolds, PTL DEF Spec

(* Depth is a bound, and stays one when raised.                                *)
LEMMA ShallowOnwards ==
  ASSUME NEW doc, NEW m \in Nat, ShallowDoc(doc, m), NEW k \in Nat
  PROVE  ShallowDoc(doc, m + k)
<1>. DEFINE S == {j \in Nat : ShallowDoc(doc, m + j)}
<1>1. 0 \in S
  <2>1. m + 0 = m
    OBVIOUS
  <2>. QED
    BY <2>1
<1>2. ASSUME NEW j \in Nat, j \in S PROVE j + 1 \in S
  <2>. DEFINE n == m + j
  <2>1. n \in Nat /\ m + (j + 1) = n + 1 /\ ShallowDoc(doc, n)
    BY <1>2
  <2>. HIDE DEF n
  <2>2. ShallowDoc(doc, n + 1)
    BY <2>1, ShallowIs DEF ShallowDoc
  <2>. QED
    BY <2>1, <2>2
<1>3. Nat \subseteq S
  <2>. HIDE DEF S
  <2>. QED
    BY <1>1, <1>2, Induction
<1>. QED
  BY <1>3

(* Every tile of a history is drawn within the depth MergeDepth allows.        *)
LEMMA DocsAreShallow ==
  ASSUME HistoryInv, SeedShallow, NEW i \in 1..Len(acts)
  PROVE  /\ Sound(docs[i]) /\ docs[i + 1] = Fold(acts[i], docs[i]) /\ WellFormed(acts[i])
         /\ \E n \in Nat : n + 1 = MergeDepth /\ ShallowDoc(docs[i], n)
<1>1. Recorded(acts, docs) /\ SeedNumber \in Nat
  BY DEF HistoryInv, SeedShallow
<1>2. /\ Sane(acts) /\ IsSeq(docs) /\ Len(docs) = Len(acts) + 1 /\ Len(acts) \in Nat
      /\ \A j \in 1..Len(acts) : WellFormed(acts[j]) /\ docs[j + 1] = Fold(acts[j], docs[j])
      /\ \A j \in 1..Len(acts) + 1 : Sound(docs[j])
  BY <1>1, RecordedSteps DEF Recorded
<1>3. Folded(docs[1], acts, docs)
  BY <1>2 DEF Folded
<1>4. \A j \in 0..Len(acts) : ShallowDoc(docs[j + 1], SeedNumber + j)
  <2>1. 1 \in 1..Len(acts) + 1
    BY <1>2
  <2>2. Sound(docs[1]) /\ ShallowDoc(docs[1], SeedNumber)
    BY <1>2, <2>1 DEF SeedShallow
  <2>. QED
    BY <1>1, <1>2, <1>3, <2>2, FoldedDeepens
<1>5. i - 1 \in 0..Len(acts) /\ (i - 1) + 1 = i
  BY <1>2
<1>6. ShallowDoc(docs[i], SeedNumber + (i - 1))
  BY <1>4, <1>5
<1>. DEFINE m == SeedNumber + (i - 1)
            k == Len(acts) - i
            n == m + k
<1>7. m \in Nat /\ k \in Nat /\ n \in Nat /\ n + 1 = MergeDepth
  BY <1>1, <1>2 DEF MergeDepth
<1>8. ShallowDoc(docs[i], m)
  BY <1>6
<1>. HIDE DEF m, k
<1>9. ShallowDoc(docs[i], n)
  BY <1>7, <1>8, ShallowOnwards
<1>10. Sound(docs[i]) /\ docs[i + 1] = Fold(acts[i], docs[i]) /\ WellFormed(acts[i])
  <2>1. i \in 1..Len(acts) + 1
    BY <1>2
  <2>. QED
    BY <1>2, <2>1
<1>. HIDE DEF n
<1>. QED
  BY <1>7, <1>9, <1>10

-----------------------------------------------------------------------------
(* Stacks with a layer less                                                    *)

(* One more at the end.                                                        *)
LEMMA OnlyAppend ==
  ASSUME NEW X, NEW s \in Seq(X), NEW x \in X, NEW B
  PROVE  Only(Append(s, x), B) = IF x \in B THEN Append(Only(s, B), x) ELSE Only(s, B)
<1>. DEFINE u == Append(s, x)
            n == Len(s)
<1>1. n \in Nat /\ Len(u) = n + 1 /\ u[n + 1] = x /\ \A i \in 1..n : u[i] = s[i]
  OBVIOUS
<1>. HIDE DEF u
<1>2. PICK f : /\ f[0] = <<>> /\ Only(s, B) = f[n]
               /\ \A i \in 1..n : f[i] = IF s[i] \in B THEN Append(f[i-1], s[i]) ELSE f[i-1]
  BY <1>1, OnlyUnfolds
<1>3. PICK g : /\ g[0] = <<>> /\ Only(u, B) = g[Len(u)]
               /\ \A i \in 1..Len(u) : g[i] = IF u[i] \in B THEN Append(g[i-1], u[i]) ELSE g[i-1]
  BY <1>1, OnlyUnfolds
<1>. HIDE DEF n
<1>4. f[n] = g[n]
  <2>. DEFINE S == {i \in Nat : i \in 0..n => f[i] = g[i]}
  <2>1. 0 \in S
    BY <1>2, <1>3
  <2>2. ASSUME NEW i \in Nat, i \in S PROVE i + 1 \in S
    <3>. SUFFICES ASSUME i + 1 \in 0..n PROVE f[i + 1] = g[i + 1]
      OBVIOUS
    <3>1. i + 1 \in 1..n /\ i + 1 \in 1..Len(u) /\ i \in 0..n /\ (i + 1) - 1 = i
      BY <1>1
    <3>. DEFINE j == i + 1
    <3>2. f[j] = IF s[j] \in B THEN Append(f[i], s[j]) ELSE f[i]
      BY <1>2, <3>1
    <3>3. g[j] = IF u[j] \in B THEN Append(g[i], u[j]) ELSE g[i]
      BY <1>3, <3>1
    <3>4. u[j] = s[j] /\ f[i] = g[i]
      BY <1>1, <2>2, <3>1
    <3>. HIDE DEF j
    <3>5. f[j] = g[j]
      <4>1. CASE s[j] \in B
        <5>1. f[j] = Append(f[i], s[j]) /\ g[j] = Append(g[i], u[j])
          BY <3>2, <3>3, <3>4, <4>1
        <5>. QED
          BY <3>4, <5>1
      <4>2. CASE s[j] \notin B
        <5>1. f[j] = f[i] /\ g[j] = g[i]
          BY <3>2, <3>3, <3>4, <4>2
        <5>. QED
          BY <3>4, <5>1
      <4>. QED
        BY <4>1, <4>2
    <3>. QED
      BY <3>5 DEF j
  <2>. HIDE DEF S
  <2>3. Nat \subseteq S
    BY <2>1, <2>2, Induction
  <2>. QED
    BY <1>1, <2>3 DEF S
<1>5. g[n + 1] = IF x \in B THEN Append(g[n], x) ELSE g[n]
  <2>1. n + 1 \in 1..Len(u) /\ (n + 1) - 1 = n
    BY <1>1
  <2>. QED
    BY <1>1, <1>3, <2>1
<1>. QED
  BY <1>1, <1>2, <1>3, <1>4, <1>5, Zenon DEF u

(* What is in one set, of what is in another.                                  *)
LEMMA OnlyOnly ==
  ASSUME NEW X, NEW s \in Seq(X), NEW A, NEW B
  PROVE  Only(Only(s, A), B) = Only(s, A \cap B)
<1>. DEFINE n == Len(s)
            C == A \cap B
<1>1. n \in Nat /\ \A i \in 1..n : s[i] \in X
  OBVIOUS
<1>2. PICK f : /\ f[0] = <<>> /\ Only(s, A) = f[n]
               /\ \A i \in 1..n : f[i] = IF s[i] \in A THEN Append(f[i-1], s[i]) ELSE f[i-1]
  BY <1>1, OnlyUnfolds
<1>. HIDE DEF C
<1>3. PICK g : /\ g[0] = <<>> /\ Only(s, C) = g[n]
               /\ \A i \in 1..n : g[i] = IF s[i] \in C THEN Append(g[i-1], s[i]) ELSE g[i-1]
  BY <1>1, OnlyUnfolds
<1>. HIDE DEF n
<1>. DEFINE S == {i \in Nat : i \in 0..n => f[i] \in Seq(X) /\ Only(f[i], B) = g[i]}
<1>4. 0 \in S
  <2>. DEFINE e == <<>>
  <2>1. e \in Seq(X) /\ \A i \in 1..Len(e) : e[i] \notin B
    OBVIOUS
  <2>. HIDE DEF e
  <2>2. Only(e, B) = <<>>
    BY <2>1, OnlyNone
  <2>. QED
    BY <1>2, <1>3, <2>1, <2>2 DEF e
<1>5. ASSUME NEW i \in Nat, i \in S PROVE i + 1 \in S
  <2>. SUFFICES ASSUME i + 1 \in 0..n PROVE f[i + 1] \in Seq(X) /\ Only(f[i + 1], B) = g[i + 1]
    OBVIOUS
  <2>. DEFINE j == i + 1
              x == s[j]
  <2>1. j \in 1..n /\ j - 1 = i /\ i \in 0..n
    BY <1>1
  <2>2. /\ f[j] = IF x \in A THEN Append(f[i], x) ELSE f[i]
        /\ g[j] = IF x \in C THEN Append(g[i], x) ELSE g[i]
    BY <1>2, <1>3, <2>1
  <2>3. f[i] \in Seq(X) /\ Only(f[i], B) = g[i] /\ x \in X
    BY <1>1, <1>5, <2>1
  <2>. HIDE DEF x, j
  <2>4. CASE x \in A
    <3>1. f[j] = Append(f[i], x) /\ f[j] \in Seq(X)
      BY <2>2, <2>3, <2>4
    <3>2. Only(Append(f[i], x), B) = IF x \in B THEN Append(Only(f[i], B), x) ELSE Only(f[i], B)
      BY <2>3, OnlyAppend
    <3>3. g[j] = IF x \in B THEN Append(g[i], x) ELSE g[i]
      BY <2>2, <2>4 DEF C
    <3>4. Only(f[j], B) = g[j]
      BY <2>3, <3>1, <3>2, <3>3, Zenon
    <3>. QED
      BY <3>1, <3>4 DEF j
  <2>5. CASE x \notin A
    <3>1. f[j] = f[i] /\ g[j] = g[i]
      BY <2>2, <2>5 DEF C
    <3>. QED
      BY <2>3, <3>1 DEF j
  <2>. QED
    BY <2>4, <2>5
<1>6. n \in S
  <2>. HIDE DEF S
  <2>1. Nat \subseteq S
    BY <1>4, <1>5, Induction
  <2>. QED
    BY <1>1, <2>1
<1>7. Only(f[n], B) = g[n]
  BY <1>1, <1>6
<1>. QED
  BY <1>2, <1>3, <1>7, Zenon DEF C

(* All but the p-th.                                                           *)
Skip(p, i) == IF i < p THEN i ELSE i + 1

(* A sequence with one element left out, place by place.                     *)
LEMMA OnlyButOne ==
  ASSUME NEW X, NEW s \in Seq(X), NEW p \in 1..Len(s), NEW S,
         \A i \in 1..Len(s) : s[i] \in S <=> i # p
  PROVE  /\ Only(s, S) \in Seq(X) /\ Len(Only(s, S)) = Len(s) - 1
         /\ \A i \in 1..Len(s) - 1 : Only(s, S)[i] = s[Skip(p, i)]
<1>. DEFINE n == Len(s)
<1>1. n \in Nat /\ p \in 1..n /\ \A i \in 1..n : s[i] \in X
  OBVIOUS
<1>2. PICK f : /\ f[0] = <<>> /\ Only(s, S) = f[n]
               /\ \A i \in 1..n : f[i] = IF s[i] \in S THEN Append(f[i-1], s[i]) ELSE f[i-1]
  BY <1>1, OnlyUnfolds
<1>3. \A i \in 1..n : s[i] \in S <=> i # p
  OBVIOUS
<1>. HIDE DEF n
<1>. DEFINE size(j) == IF j < p THEN j ELSE j - 1
            Says(j) == /\ f[j] \in Seq(X) /\ Len(f[j]) = size(j)
                       /\ \A i \in 1..size(j) : f[j][i] = s[Skip(p, i)]
            T == {j \in Nat : j \in 0..n => Says(j)}
<1>4. 0 \in T
  <2>. DEFINE e == <<>>
  <2>1. e \in Seq(X) /\ Len(e) = 0
    OBVIOUS
  <2>. HIDE DEF e
  <2>2. f[0] = e
    BY <1>2 DEF e
  <2>3. size(0) = 0
    BY <1>1
  <2>4. f[0] \in Seq(X) /\ Len(f[0]) = 0
    BY <2>1, <2>2
  <2>. HIDE DEF size
  <2>5. Says(0)
    BY <2>3, <2>4
  <2>. HIDE DEF Says
  <2>. QED
    BY <2>5
<1>5. ASSUME NEW i \in Nat, i \in T PROVE i + 1 \in T
  <2>. SUFFICES ASSUME i + 1 \in 0..n PROVE Says(i + 1)
    OBVIOUS
  <2>. DEFINE j == i + 1
              x == s[j]
  <2>1. j \in 1..n /\ j - 1 = i /\ i \in 0..n /\ j \in Nat
    BY <1>1
  <2>2. f[j] = IF x \in S THEN Append(f[i], x) ELSE f[i]
    BY <1>2, <2>1
  <2>3. Says(i) /\ x \in X /\ (x \in S <=> j # p)
    BY <1>1, <1>3, <1>5, <2>1
  <2>4. CASE j = p
    <3>1. f[j] = f[i] /\ size(j) = i /\ size(i) = i
      BY <1>1, <2>1, <2>2, <2>3, <2>4
    <3>. HIDE DEF size, x, j
    <3>2. Says(j)
      BY <2>3, <3>1
    <3>. QED
      BY <3>2 DEF j
  <2>5. CASE j # p
    <3>1. f[j] = Append(f[i], x)
      BY <2>2, <2>3, <2>5
    <3>2. size(j) = size(i) + 1 /\ size(i) \in Nat /\ Skip(p, size(j)) = j
      BY <1>1, <2>1, <2>5 DEF Skip
    <3>. DEFINE m == size(i)
                w == f[i]
    <3>3. w \in Seq(X) /\ Len(w) = m /\ x \in X /\ m \in Nat
      BY <2>3, <3>2
    <3>. HIDE DEF w, m, x
    <3>4. /\ Append(w, x) \in Seq(X) /\ Len(Append(w, x)) = m + 1 /\ Append(w, x)[m + 1] = x
          /\ \A k \in 1..m : Append(w, x)[k] = w[k]
      BY <3>3
    <3>. HIDE DEF size, j
    <3>5. ASSUME NEW k \in 1..size(j) PROVE f[j][k] = s[Skip(p, k)]
      <4>1. CASE k \in 1..m
        BY <2>3, <3>1, <3>4, <4>1 DEF m, w
      <4>2. CASE k = m + 1
        <5>1. k = size(j)
          BY <3>2, <4>2 DEF m
        <5>. QED
          BY <3>1, <3>2, <3>4, <4>2, <5>1 DEF x, w
      <4>3. size(j) = m + 1
        BY <3>2 DEF m
      <4>. QED
        BY <3>3, <4>1, <4>2, <4>3
    <3>6. Says(j)
      BY <3>1, <3>2, <3>4, <3>5 DEF m, w
    <3>. QED
      BY <3>6 DEF j
  <2>. QED
    BY <2>4, <2>5
<1>6. n \in T
  <2>. HIDE DEF T
  <2>1. Nat \subseteq T
    BY <1>4, <1>5, Induction
  <2>. QED
    BY <1>1, <2>1
<1>7. size(n) = n - 1
  BY <1>1
<1>8. Says(n)
  <2>. HIDE DEF Says
  <2>. QED
    BY <1>1, <1>6
<1>. HIDE DEF size
<1>9. /\ f[n] \in Seq(X) /\ Len(f[n]) = n - 1
      /\ \A i \in 1..n - 1 : f[n][i] = s[Skip(p, i)]
  BY <1>7, <1>8
<1>. QED
  BY <1>2, <1>9 DEF n

(* A stack without the layer merged away.                                      *)
StackLost(before, after, x) ==
  \E p \in 1..Len(before) :
    /\ before[p] = x /\ Len(after) = Len(before) - 1
    /\ \A i \in 1..Len(before) - 1 : after[i] = before[Skip(p, i)]

(* A merge takes the upper layer from its stack and leaves the others.       *)
LEMMA StackLowered ==
  ASSUME NEW doc, Sound(doc), NEW s, NEW d, NEW new, Lowered(doc, s, d, new), NEW c
  PROVE  /\ c # doc.carrier[s] => StackOf(new, c) = StackOf(doc, c)
         /\ c = doc.carrier[s] => StackLost(StackOf(doc, c), StackOf(new, c), s)
<1>. DEFINE P == Present(doc)
            others == P \ {s}
            T == {l \in P : doc.carrier[l] = c}
            Tnew == {l \in Present(new) : new.carrier[l] = c}
            stack == StackOf(doc, c)
<1>1. /\ Present(new) = others /\ new.order = Only(doc.order, others) /\ s \in P
      /\ \A l \in others : new.carrier[l] = doc.carrier[l]
  BY DEF Lowered
<1>2. doc.order \in Seq(Id) /\ Distinct(doc.order)
  BY DEF Sound, OrderSound
<1>3. stack = Only(doc.order, T) /\ StackOf(new, c) = Only(new.order, Tnew)
  BY DEF StackOf
<1>4. others \cap Tnew = Tnew /\ Tnew = T \ {s} /\ T \cap others = Tnew
  BY <1>1
<1>5. stack \in Seq(Id) /\ \A l : l \in ToSet(stack) <=> l \in P /\ doc.carrier[l] = c
  BY <1>2, StackOfElements
<1>6. s \in T <=> c = doc.carrier[s]
  BY <1>1
<1>. HIDE DEF T, Tnew, others, P, stack
<1>7. StackOf(new, c) = Only(doc.order, Tnew)
  <2>1. Only(Only(doc.order, others), Tnew) = Only(doc.order, others \cap Tnew)
    BY <1>2, OnlyOnly
  <2>. QED
    BY <1>1, <1>3, <1>4, <2>1
<1>8. c # doc.carrier[s] => StackOf(new, c) = stack
  BY <1>3, <1>4, <1>6, <1>7
<1>9. ASSUME c = doc.carrier[s] PROVE StackLost(stack, StackOf(new, c), s)
  <2>1. StackOf(new, c) = Only(stack, others)
    <3>1. Only(Only(doc.order, T), others) = Only(doc.order, T \cap others)
      BY <1>2, OnlyOnly
    <3>. QED
      BY <1>3, <1>4, <1>7, <3>1
  <2>2. Distinct(stack)
    BY <1>2, <1>3, OnlyDistinct
  <2>3. s \in ToSet(stack) /\ \A i \in 1..Len(stack) : stack[i] \in P
    <3>1. \A i \in 1..Len(stack) : stack[i] \in ToSet(stack)
      BY <1>5, ToSetOf
    <3>. QED
      BY <1>1, <1>5, <1>9, <3>1 DEF P
  <2>4. PICK p \in 1..Len(stack) : stack[p] = s
    BY <1>5, <2>3, ToSetOf
  <2>5. \A i \in 1..Len(stack) : stack[i] \in others <=> i # p
    BY <2>2, <2>3, <2>4 DEF Distinct, others
  <2>. DEFINE after == Only(stack, others)
  <2>6. Len(after) = Len(stack) - 1 /\ \A i \in 1..Len(stack) - 1 : after[i] = stack[Skip(p, i)]
    BY <1>5, <2>5, OnlyButOne
  <2>. QED
    BY <2>1, <2>4, <2>6 DEF StackLost
<1>. QED
  BY <1>8, <1>9 DEF stack

(* What a layer carries comes after it.                                        *)
LEMMA CarriedLater ==
  ASSUME NEW doc, OrderSound(doc), NEW i \in 1..Len(doc.order), NEW j \in 1..Len(doc.order),
         doc.carrier[doc.order[j]] = doc.order[i]
  PROVE  i < j
<1>1. doc.order[i] # Root
  <2>1. doc.order[i] \in Id
    BY DEF OrderSound
  <2>. QED
    BY <2>1 DEF Id, Root
<1>2. PICK k \in 1..j - 1 : doc.order[k] = doc.order[i]
  BY <1>1 DEF OrderSound
<1>3. Len(doc.order) \in Nat
  BY PresentOf DEF OrderSound
<1>4. k \in 1..Len(doc.order)
  BY <1>3
<1>5. k = i
  BY <1>2, <1>4 DEF OrderSound, Distinct
<1>. QED
  BY <1>3, <1>5

(* What every layer has when all it carries has it, every layer has.           *)
LEMMA Downwards ==
  ASSUME NEW doc, OrderSound(doc), NEW S,
         \A l \in Present(doc) : (\A m \in Present(doc) : doc.carrier[m] = l => m \in S) => l \in S
  PROVE  Present(doc) \subseteq S
<1>. DEFINE n == Len(doc.order)
            T == {k \in Nat : \A i \in 1..n : i + k > n => doc.order[i] \in S}
<1>1. n \in Nat /\ \A x : x \in Present(doc) <=> \E i \in 1..n : doc.order[i] = x
  BY PresentOf DEF OrderSound
<1>2. 0 \in T
  BY <1>1
<1>3. ASSUME NEW k \in Nat, k \in T PROVE k + 1 \in T
  <2>1. ASSUME NEW i \in 1..n, i + (k + 1) > n PROVE doc.order[i] \in S
    <3>1. doc.order[i] \in Present(doc)
      BY <1>1
    <3>2. ASSUME NEW m \in Present(doc), doc.carrier[m] = doc.order[i] PROVE m \in S
      <4>1. PICK j \in 1..n : doc.order[j] = m
        BY <1>1
      <4>2. i < j
        BY <3>2, <4>1, CarriedLater
      <4>3. j + k > n
        BY <1>1, <2>1, <4>2
      <4>. QED
        BY <1>3, <4>1, <4>3
    <3>. QED
      BY <3>1, <3>2
  <2>. QED
    BY <2>1
<1>4. n \in T
  <2>. HIDE DEF T
  <2>1. Nat \subseteq T
    BY <1>2, <1>3, Induction
  <2>. QED
    BY <1>1, <2>1
<1>5. \A i \in 1..n : doc.order[i] \in S
  BY <1>1, <1>4
<1>. QED
  BY <1>1, <1>5

-----------------------------------------------------------------------------
(* What a stack draws                                                          *)

Base(doc, c, t) == IF c = Root THEN <<>> ELSE Items(doc.layer[c], t)

LaidNext(doc, c, own, i, pic) == Stacked(pic, doc.layer[StackOf(doc, c)[i]], own[StackOf(doc, c)[i]])

(* A stack laid layer by layer as far as the m-th.                             *)
TowerUpTo(doc, c, t, own, m, f) ==
  f = [i \in 0..m |-> IF i = 0 THEN IF c = Root THEN <<>> ELSE Items(doc.layer[c], t)
                      ELSE Stacked(f[i - 1], doc.layer[StackOf(doc, c)[i]],
                                   own[StackOf(doc, c)[i]])]

Tower(doc, c, t, own, f) ==
  /\ f[0] = Base(doc, c, t)
  /\ \A i \in 1..Len(StackOf(doc, c)) : f[i] = LaidNext(doc, c, own, i, f[i - 1])
  /\ StackPicture(doc, c, t, own) = f[Len(StackOf(doc, c))]

(* There is such a laying.                                                     *)
LEMMA TowerStands ==
  ASSUME NEW doc, NEW c, Len(StackOf(doc, c)) \in Nat, NEW t, NEW own
  PROVE  \E f : Tower(doc, c, t, own, f)
<1>. DEFINE n == Len(StackOf(doc, c))
            base == IF c = Root THEN <<>> ELSE Items(doc.layer[c], t)
            At(i, pic) == Stacked(pic, doc.layer[StackOf(doc, c)[i]], own[StackOf(doc, c)[i]])
            S == {m \in Nat : \E f : TowerUpTo(doc, c, t, own, m, f)}
<1>1. 0 \in S
  <2>. DEFINE f == [i \in 0..0 |-> base]
  <2>. HIDE DEF base, At
  <2>1. ASSUME NEW i \in 0..0 PROVE f[i] = IF i = 0 THEN base ELSE At(i, f[i - 1])
    <3>1. i = 0 /\ f[i] = base
      OBVIOUS
    <3>. QED
      BY <3>1, Zenon
  <2>2. f = [i \in 0..0 |-> f[i]]
    OBVIOUS
  <2>. HIDE DEF f
  <2>3. f = [i \in 0..0 |-> IF i = 0 THEN base ELSE At(i, f[i - 1])]
    BY <2>1, <2>2, Zenon
  <2>4. TowerUpTo(doc, c, t, own, 0, f)
    BY <2>3, Zenon DEF TowerUpTo, base, At
  <2>. QED
    BY <2>4
<1>2. ASSUME NEW m \in Nat, m \in S PROVE m + 1 \in S
  <2>1. PICK at : TowerUpTo(doc, c, t, own, m, at)
    BY <1>2
  <2>2. at = [i \in 0..m |-> IF i = 0 THEN base ELSE At(i, at[i - 1])]
    BY <2>1, Zenon DEF TowerUpTo
  <2>. HIDE DEF base, At
  <2>. DEFINE last == At(m + 1, at[m])
              next == [i \in 0..m + 1 |-> IF i = m + 1 THEN last ELSE at[i]]
  <2>3. ASSUME NEW i \in 0..m + 1 PROVE next[i] = IF i = 0 THEN base ELSE At(i, next[i - 1])
    <3>1. CASE i = m + 1
      <4>. HIDE DEF last
      <4>1. i - 1 = m /\ m \in 0..m + 1 /\ m # m + 1 /\ i # 0
        BY <3>1
      <4>2. next[m] = at[m] /\ next[i] = last
        BY <3>1, <4>1
      <4>. HIDE DEF next
      <4>3. last = At(i, at[m])
        BY <3>1, Zenon DEF last
      <4>4. next[i - 1] = at[m]
        BY <4>1, <4>2
      <4>. QED
        BY <4>1, <4>2, <4>3, <4>4, Zenon
    <3>2. CASE i \in 0..m
      <4>. HIDE DEF last
      <4>1. next[i] = at[i] /\ (i # 0 => i - 1 \in 0..m /\ next[i - 1] = at[i - 1])
        BY <3>2
      <4>. HIDE DEF next
      <4>2. at[i] = IF i = 0 THEN base ELSE At(i, at[i - 1])
        BY <2>2, <3>2, Zenon
      <4>. QED
        BY <4>1, <4>2, Zenon
    <3>. QED
      BY <3>1, <3>2
  <2>. HIDE DEF last
  <2>4. next = [i \in 0..m + 1 |-> next[i]]
    OBVIOUS
  <2>. HIDE DEF next
  <2>5. next = [i \in 0..m + 1 |-> IF i = 0 THEN base ELSE At(i, next[i - 1])]
    BY <2>3, <2>4, Zenon
  <2>6. TowerUpTo(doc, c, t, own, m + 1, next)
    BY <2>5, Zenon DEF TowerUpTo, base, At
  <2>. QED
    BY <2>6
<1>3. \E f : TowerUpTo(doc, c, t, own, n, f)
  <2>. HIDE DEF S
  <2>1. Nat \subseteq S
    BY <1>1, <1>2, Induction
  <2>. QED
    BY <2>1 DEF S
<1>. DEFINE f == CHOOSE f : TowerUpTo(doc, c, t, own, n, f)
<1>4. StackPicture(doc, c, t, own) = f[n]
  BY Zenon DEF StackPicture, TowerUpTo
<1>5. TowerUpTo(doc, c, t, own, n, f)
  BY <1>3, Zenon
<1>. HIDE DEF f
<1>6. f = [i \in 0..n |-> IF i = 0 THEN base ELSE At(i, f[i - 1])]
  BY <1>5, Zenon DEF TowerUpTo
<1>7. n \in Nat
  OBVIOUS
<1>. HIDE DEF n, base, At
<1>8. f[0] = base
  BY <1>6, <1>7
<1>9. \A i \in 1..n : f[i] = At(i, f[i - 1])
  BY <1>6, <1>7
<1>. QED
  BY <1>4, <1>8, <1>9, Zenon DEF Tower, Base, LaidNext, n, base, At

(* Two layings that agree at some height and lay alike above it.               *)
Meets(doc, new, c, t, own, other, f, g, i, j) ==
  /\ Tower(doc, c, t, own, f) /\ Tower(new, c, t, other, g)
  /\ Len(StackOf(doc, c)) \in Nat /\ i \in 0..Len(StackOf(doc, c)) /\ j \in Nat
  /\ Len(StackOf(new, c)) = j + (Len(StackOf(doc, c)) - i)
  /\ f[i] = g[j]
  /\ \A k \in 1..Len(StackOf(doc, c)) - i :
       \A pic : LaidNext(doc, c, own, i + k, pic) = LaidNext(new, c, other, j + k, pic)

(* Such layings end alike.                                                   *)
LEMMA TowersMeet ==
  ASSUME NEW doc, NEW new, NEW c, NEW t, NEW own, NEW other, NEW f, NEW g, NEW i, NEW j,
         Meets(doc, new, c, t, own, other, f, g, i, j)
  PROVE  StackPicture(doc, c, t, own) = StackPicture(new, c, t, other)
<1>. DEFINE n == Len(StackOf(doc, c))
            h == n - i
            A(k, pic) == LaidNext(doc, c, own, k, pic)
            B(k, pic) == LaidNext(new, c, other, k, pic)
            S == {k \in Nat : k \in 0..h => f[i + k] = g[j + k]}
<1>1. /\ n \in Nat /\ i \in 0..n /\ j \in Nat /\ h \in Nat /\ Len(StackOf(new, c)) = j + h /\ i + h = n
      /\ f[i] = g[j]
  BY DEF Meets
<1>2. /\ StackPicture(doc, c, t, own) = f[n] /\ StackPicture(new, c, t, other) = g[j + h]
      /\ \A k \in 1..n : f[k] = A(k, f[k - 1])
      /\ \A k \in 1..j + h : g[k] = B(k, g[k - 1])
  BY <1>1 DEF Meets, Tower
<1>3. \A k \in 1..h : \A pic : A(i + k, pic) = B(j + k, pic)
  BY DEF Meets
<1>. HIDE DEF n, h, A, B
<1>4. 0 \in S
  BY <1>1
<1>5. ASSUME NEW k \in Nat, k \in S PROVE k + 1 \in S
  <2>. SUFFICES ASSUME k + 1 \in 0..h PROVE f[i + (k + 1)] = g[j + (k + 1)]
    OBVIOUS
  <2>1. /\ k + 1 \in 1..h /\ k \in 0..h /\ i + (k + 1) \in 1..n /\ j + (k + 1) \in 1..j + h
        /\ (i + (k + 1)) - 1 = i + k /\ (j + (k + 1)) - 1 = j + k
    BY <1>1
  <2>2. f[i + k] = g[j + k]
    BY <1>5, <2>1
  <2>3. f[i + (k + 1)] = A(i + (k + 1), f[i + k])
    BY <1>2, <2>1
  <2>4. g[j + (k + 1)] = B(j + (k + 1), g[j + k])
    BY <1>2, <2>1
  <2>5. A(i + (k + 1), f[i + k]) = B(j + (k + 1), f[i + k])
    BY <1>3, <2>1
  <2>. QED
    BY <2>2, <2>3, <2>4, <2>5
<1>6. h \in S
  <2>. HIDE DEF S
  <2>1. Nat \subseteq S
    BY <1>4, <1>5, Induction
  <2>. QED
    BY <1>1, <2>1
<1>7. f[i + h] = g[j + h]
  BY <1>1, <1>6
<1>. QED
  BY <1>1, <1>2, <1>7

(* Two layings alike from their feet as far as the m-th layer.                 *)
Shares(doc, new, c, t, own, other, f, g, m) ==
  /\ Tower(doc, c, t, own, f) /\ Tower(new, c, t, other, g)
  /\ m \in Nat /\ m \in 0..Len(StackOf(doc, c)) /\ m \in 0..Len(StackOf(new, c))
  /\ Base(doc, c, t) = Base(new, c, t)
  /\ \A k \in 1..m : \A pic : LaidNext(doc, c, own, k, pic) = LaidNext(new, c, other, k, pic)

(* Such layings are alike at that layer.                                     *)
LEMMA TowersShare ==
  ASSUME NEW doc, NEW new, NEW c, NEW t, NEW own, NEW other, NEW f, NEW g, NEW m,
         Shares(doc, new, c, t, own, other, f, g, m)
  PROVE  f[m] = g[m]
<1>. DEFINE n == Len(StackOf(doc, c))
            o == Len(StackOf(new, c))
            A(k, pic) == LaidNext(doc, c, own, k, pic)
            B(k, pic) == LaidNext(new, c, other, k, pic)
            S == {k \in Nat : k \in 0..m => f[k] = g[k]}
<1>1. m \in Nat /\ (m = 0 \/ (m \in 1..n /\ m \in 1..o)) /\ f[0] = g[0]
  BY DEF Shares, Tower
<1>2. (\A k \in 1..n : f[k] = A(k, f[k - 1])) /\ \A k \in 1..o : g[k] = B(k, g[k - 1])
  BY DEF Shares, Tower
<1>3. \A k \in 1..m : \A pic : A(k, pic) = B(k, pic)
  BY DEF Shares
<1>9. \A k \in 1..m : k \in 1..n /\ k \in 1..o
  BY DEF Shares
<1>. HIDE DEF n, o, A, B
<1>4. 0 \in S
  BY <1>1
<1>5. ASSUME NEW k \in Nat, k \in S PROVE k + 1 \in S
  <2>. SUFFICES ASSUME k + 1 \in 0..m PROVE f[k + 1] = g[k + 1]
    OBVIOUS
  <2>1. k + 1 \in 1..m /\ k \in 0..m /\ k + 1 \in 1..n /\ k + 1 \in 1..o /\ (k + 1) - 1 = k
    BY <1>1, <1>9
  <2>2. f[k] = g[k]
    BY <1>5, <2>1
  <2>3. f[k + 1] = A(k + 1, f[k]) /\ g[k + 1] = B(k + 1, g[k])
    BY <1>2, <2>1
  <2>4. A(k + 1, f[k]) = B(k + 1, f[k])
    BY <1>3, <2>1
  <2>. QED
    BY <2>2, <2>3, <2>4
<1>6. m \in S
  <2>. HIDE DEF S
  <2>1. Nat \subseteq S
    BY <1>4, <1>5, Induction
  <2>. QED
    BY <1>1, <2>1
<1>. QED
  BY <1>1, <1>6

(* A stack draws what its layers do.                                           *)
LEMMA StackDrawnAlike ==
  ASSUME NEW doc, doc.order \in Seq(Id), NEW c, NEW t, NEW own, NEW other,
         \A l \in ToSet(StackOf(doc, c)) : own[l] = other[l]
  PROVE  StackPicture(doc, c, t, own) = StackPicture(doc, c, t, other)
<1>. DEFINE stack == StackOf(doc, c)
            n == Len(stack)
<1>1. stack \in Seq(Id)
  BY StackOfElements
<1>2. n \in Nat /\ \A k \in 1..n : stack[k] \in ToSet(stack)
  BY <1>1, ToSetOf
<1>3. PICK f : Tower(doc, c, t, own, f)
  BY <1>2, TowerStands
<1>4. PICK g : Tower(doc, c, t, other, g)
  BY <1>2, TowerStands
<1>5. ASSUME NEW k \in 1..n - 0, NEW pic
      PROVE  LaidNext(doc, c, own, 0 + k, pic) = LaidNext(doc, c, other, 0 + k, pic)
  <2>1. 0 + k = k /\ k \in 1..n
    BY <1>2
  <2>2. own[stack[k]] = other[stack[k]]
    BY <1>2, <2>1
  <2>. QED
    BY <2>1, <2>2, Zenon DEF LaidNext
<1>6. f[0] = g[0]
  BY <1>3, <1>4 DEF Tower
<1>7. 0 \in 0..n /\ 0 \in Nat /\ n = 0 + (n - 0)
  BY <1>2
<1>8. Meets(doc, doc, c, t, own, other, f, g, 0, 0)
  BY <1>2, <1>3, <1>4, <1>5, <1>6, <1>7, Zenon DEF Meets
<1>. QED
  BY <1>8, TowersMeet

(* A layer laid on a picture gives a picture.                                  *)
LEMMA StackedIsPicture ==
  ASSUME NEW pic, IsPicture(pic), NEW layer, NEW own, IsPicture(own)
  PROVE  IsPicture(Stacked(pic, layer, own))
<1>. DEFINE params == Params(layer)
<1>1. IsPicture(Lay(pic, params, own))
  <2>. HIDE DEF params
  <2>. QED
    BY LayIsPicture
<1>2. IsPicture(Filtered(pic, layer.prop["filter"], layer.prop["opacity"]))
  BY FilteredIsPicture
<1>. QED
  BY <1>1, <1>2 DEF Stacked

(* So does a whole stack.                                                      *)
LEMMA TowerIsPicture ==
  ASSUME NEW doc, doc.order \in Seq(Id), NEW c, NEW t, NEW own, NEW f, Tower(doc, c, t, own, f),
         IsPicture(Base(doc, c, t)), \A l \in ToSet(StackOf(doc, c)) : IsPicture(own[l])
  PROVE  \A i \in 0..Len(StackOf(doc, c)) : IsPicture(f[i])
<1>. DEFINE stack == StackOf(doc, c)
            n == Len(stack)
            S == {i \in Nat : i \in 0..n => IsPicture(f[i])}
<1>1. stack \in Seq(Id)
  BY StackOfElements
<1>2. n \in Nat /\ \A k \in 1..n : stack[k] \in ToSet(stack)
  BY <1>1, ToSetOf
<1>3. 0 \in S
  BY DEF Tower
<1>4. ASSUME NEW i \in Nat, i \in S PROVE i + 1 \in S
  <2>. SUFFICES ASSUME i + 1 \in 0..n PROVE IsPicture(f[i + 1])
    OBVIOUS
  <2>1. i + 1 \in 1..n /\ i \in 0..n /\ (i + 1) - 1 = i
    BY <1>2
  <2>2. f[i + 1] = Stacked(f[i], doc.layer[stack[i + 1]], own[stack[i + 1]])
    BY <2>1 DEF Tower, LaidNext
  <2>3. IsPicture(f[i]) /\ IsPicture(own[stack[i + 1]])
    BY <1>2, <1>4, <2>1
  <2>. QED
    BY <2>2, <2>3, StackedIsPicture
<1>5. Nat \subseteq S
  <2>. HIDE DEF S
  <2>. QED
    BY <1>3, <1>4, Induction
<1>. QED
  BY <1>2, <1>5

-----------------------------------------------------------------------------
(* What the groups draw                                                        *)

Latest(doc, i) == doc.order[Len(doc.order) + 1 - i]

(* The last layer's group first, as far as the m-th last.                      *)
GroupsUpTo(doc, t, m, f) ==
  f = [i \in 0..m |->
        IF i = 0 THEN <<>>
        ELSE Over([l \in {Latest(doc, i)} |-> StackPicture(doc, Latest(doc, i), t, f[i - 1])],
                  f[i - 1])]

(* The groups are the last of such a sequence.                               *)
LEMMA GroupsUnfold ==
  ASSUME NEW doc, Len(doc.order) \in Nat, NEW t
  PROVE  \E f : GroupsUpTo(doc, t, Len(doc.order), f) /\ Groups(doc, t) = f[Len(doc.order)]
<1>. DEFINE n == Len(doc.order)
            At(i, g) == Over([l \in {Latest(doc, i)} |-> StackPicture(doc, Latest(doc, i), t, g)], g)
            S == {m \in Nat : \E f : GroupsUpTo(doc, t, m, f)}
<1>1. 0 \in S
  <2>. DEFINE f == [i \in 0..0 |-> <<>>]
  <2>. HIDE DEF At
  <2>1. ASSUME NEW i \in 0..0 PROVE f[i] = IF i = 0 THEN <<>> ELSE At(i, f[i - 1])
    <3>1. i = 0 /\ f[i] = <<>>
      OBVIOUS
    <3>. QED
      BY <3>1, Zenon
  <2>2. f = [i \in 0..0 |-> f[i]]
    OBVIOUS
  <2>. HIDE DEF f
  <2>3. f = [i \in 0..0 |-> IF i = 0 THEN <<>> ELSE At(i, f[i - 1])]
    BY <2>1, <2>2, Zenon
  <2>4. GroupsUpTo(doc, t, 0, f)
    BY <2>3, Zenon DEF GroupsUpTo, At
  <2>. QED
    BY <2>4
<1>2. ASSUME NEW m \in Nat, m \in S PROVE m + 1 \in S
  <2>1. PICK at : GroupsUpTo(doc, t, m, at)
    BY <1>2
  <2>2. at = [i \in 0..m |-> IF i = 0 THEN <<>> ELSE At(i, at[i - 1])]
    BY <2>1, Zenon DEF GroupsUpTo
  <2>. HIDE DEF At
  <2>. DEFINE last == At(m + 1, at[m])
              next == [i \in 0..m + 1 |-> IF i = m + 1 THEN last ELSE at[i]]
  <2>3. ASSUME NEW i \in 0..m + 1 PROVE next[i] = IF i = 0 THEN <<>> ELSE At(i, next[i - 1])
    <3>1. CASE i = m + 1
      <4>. HIDE DEF last
      <4>1. i - 1 = m /\ m \in 0..m + 1 /\ m # m + 1 /\ i # 0
        BY <3>1
      <4>2. next[m] = at[m] /\ next[i] = last
        BY <3>1, <4>1
      <4>. HIDE DEF next
      <4>3. last = At(i, at[m])
        BY <3>1, Zenon DEF last
      <4>4. next[i - 1] = at[m]
        BY <4>1, <4>2
      <4>. QED
        BY <4>1, <4>2, <4>3, <4>4, Zenon
    <3>2. CASE i \in 0..m
      <4>. HIDE DEF last
      <4>1. next[i] = at[i] /\ (i # 0 => i - 1 \in 0..m /\ next[i - 1] = at[i - 1])
        BY <3>2
      <4>. HIDE DEF next
      <4>2. at[i] = IF i = 0 THEN <<>> ELSE At(i, at[i - 1])
        BY <2>2, <3>2, Zenon
      <4>. QED
        BY <4>1, <4>2, Zenon
    <3>. QED
      BY <3>1, <3>2
  <2>. HIDE DEF last
  <2>4. next = [i \in 0..m + 1 |-> next[i]]
    OBVIOUS
  <2>. HIDE DEF next
  <2>5. next = [i \in 0..m + 1 |-> IF i = 0 THEN <<>> ELSE At(i, next[i - 1])]
    BY <2>3, <2>4, Zenon
  <2>6. GroupsUpTo(doc, t, m + 1, next)
    BY <2>5, Zenon DEF GroupsUpTo, At
  <2>. QED
    BY <2>6
<1>3. \E f : GroupsUpTo(doc, t, n, f)
  <2>. HIDE DEF S
  <2>1. Nat \subseteq S
    BY <1>1, <1>2, Induction
  <2>. QED
    BY <2>1 DEF S
<1>. DEFINE f == CHOOSE f : GroupsUpTo(doc, t, n, f)
<1>4. Groups(doc, t) = f[n]
  BY Zenon DEF Groups, GroupsUpTo, Latest
<1>5. GroupsUpTo(doc, t, n, f)
  BY <1>3, Zenon
<1>. HIDE DEF f
<1>. QED
  BY <1>4, <1>5

(* Every layer that has been reached is drawn from those reached before.       *)
Grouped(doc, t, f, i) ==
  \A j \in 1..i : /\ Latest(doc, j) \in DOMAIN f[i]
                  /\ f[i][Latest(doc, j)] = StackPicture(doc, Latest(doc, j), t, f[j - 1])

(* At every length of it, for the layers reached by then.                    *)
LEMMA GroupsGrow ==
  ASSUME NEW doc, OrderSound(doc), NEW t, NEW f, GroupsUpTo(doc, t, Len(doc.order), f)
  PROVE  \A i \in 0..Len(doc.order) : Grouped(doc, t, f, i)
<1>. DEFINE n == Len(doc.order)
            S == {i \in Nat : i \in 0..n => Grouped(doc, t, f, i)}
<1>1. n \in Nat
  BY PresentOf DEF OrderSound
<1>2. \A i, j \in 1..n : Latest(doc, i) = Latest(doc, j) => i = j
  <2>1. ASSUME NEW i \in 1..n, NEW j \in 1..n, Latest(doc, i) = Latest(doc, j) PROVE i = j
    <3>1. n + 1 - i \in 1..n /\ n + 1 - j \in 1..n
      BY <1>1
    <3>2. n + 1 - i = n + 1 - j
      BY <2>1, <3>1 DEF OrderSound, Distinct, Latest
    <3>. QED
      BY <1>1, <3>2
  <2>. QED
    BY <2>1
<1>. HIDE DEF n
<1>3. 0 \in S
  BY DEF Grouped
<1>4. ASSUME NEW i \in Nat, i \in S PROVE i + 1 \in S
  <2>. SUFFICES ASSUME i + 1 \in 0..n PROVE Grouped(doc, t, f, i + 1)
    OBVIOUS
  <2>. DEFINE k == i + 1
              x == Latest(doc, k)
              pic == StackPicture(doc, x, t, f[i])
              one == [l \in {x} |-> pic]
  <2>1. k \in 1..n /\ k \in 0..n /\ k # 0 /\ k - 1 = i /\ i \in 0..n /\ k \in Nat
    BY <1>1
  <2>2. f[k] = Over(one, f[i])
    <3>. DEFINE D(j, g) == Over([l \in {Latest(doc, j)} |-> StackPicture(doc, Latest(doc, j), t, g)], g)
    <3>1. f = [j \in 0..n |-> IF j = 0 THEN <<>> ELSE D(j, f[j - 1])]
      BY Zenon DEF GroupsUpTo, n
    <3>. HIDE DEF D, k
    <3>2. f[k] = D(k, f[k - 1])
      BY <2>1, <3>1
    <3>. QED
      BY <2>1, <3>2, Zenon DEF D
  <2>3. DOMAIN one = {x} /\ one[x] = pic
    <3>. HIDE DEF x, pic
    <3>. QED
      OBVIOUS
  <2>. HIDE DEF one
  <2>4. /\ DOMAIN f[k] = {x} \cup DOMAIN f[i] /\ f[k][x] = pic
        /\ \A l \in DOMAIN f[i] \ {x} : f[k][l] = f[i][l]
    <3>. DEFINE under == f[i]
                over == f[k]
    <3>1. over = Over(one, under) /\ DOMAIN one = {x} /\ one[x] = pic
      BY <2>2, <2>3
    <3>. HIDE DEF under, over, x, pic, k
    <3>2. /\ DOMAIN Over(one, under) = DOMAIN one \cup DOMAIN under
          /\ \A l \in DOMAIN one : Over(one, under)[l] = one[l]
          /\ \A l \in DOMAIN under \ DOMAIN one : Over(one, under)[l] = under[l]
      BY ONLY OverOf
    <3>3. /\ DOMAIN over = {x} \cup DOMAIN under /\ over[x] = pic
          /\ \A l \in DOMAIN under \ {x} : over[l] = under[l]
      BY ONLY <3>1, <3>2
    <3>. QED
      BY <3>3 DEF under, over
  <2>5. Grouped(doc, t, f, i)
    BY <1>4, <2>1
  <2>6. ASSUME NEW j \in 1..k
        PROVE  /\ Latest(doc, j) \in DOMAIN f[k]
               /\ f[k][Latest(doc, j)] = StackPicture(doc, Latest(doc, j), t, f[j - 1])
    <3>1. CASE j = k
      <4>1. Latest(doc, j) = x /\ f[j - 1] = f[i]
        BY <2>1, <3>1
      <4>. HIDE DEF x, k
      <4>. QED
        BY <2>4, <4>1
    <3>2. CASE j # k
      <4>1. j \in 1..i /\ j \in 1..n
        BY <1>1, <2>1, <3>2
      <4>2. Latest(doc, j) # x
        BY <1>2, <2>1, <3>2, <4>1
      <4>3. /\ Latest(doc, j) \in DOMAIN f[i]
            /\ f[i][Latest(doc, j)] = StackPicture(doc, Latest(doc, j), t, f[j - 1])
        BY <2>5, <4>1 DEF Grouped
      <4>. HIDE DEF x, k
      <4>. QED
        BY <2>4, <4>2, <4>3
    <3>. QED
      BY <3>1, <3>2
  <2>7. Grouped(doc, t, f, k)
    BY <2>6 DEF Grouped
  <2>. QED
    BY <2>7
<1>5. Nat \subseteq S
  <2>. HIDE DEF S
  <2>. QED
    BY <1>3, <1>4, Induction
<1>. QED
  BY <1>1, <1>5 DEF n

(* A group is the stack of its layer, over the groups of that stack.           *)
LEMMA GroupsAre ==
  ASSUME NEW doc, Sound(doc), NEW t
  PROVE  \A l \in Present(doc) : Groups(doc, t)[l] = StackPicture(doc, l, t, Groups(doc, t))
<1>. DEFINE n == Len(doc.order)
            F == Groups(doc, t)
<1>1. OrderSound(doc) /\ doc.order \in Seq(Id)
  BY DEF Sound, OrderSound
<1>2. n \in Nat /\ \A x : x \in Present(doc) <=> \E i \in 1..n : doc.order[i] = x
  BY <1>1, PresentOf
<1>3. PICK f : GroupsUpTo(doc, t, n, f) /\ F = f[n]
  BY <1>2, GroupsUnfold
<1>4. \A i \in 0..n : Grouped(doc, t, f, i)
  BY <1>1, <1>3, GroupsGrow
<1>. HIDE DEF F, n
<1>5. ASSUME NEW l \in Present(doc) PROVE F[l] = StackPicture(doc, l, t, F)
  <2>1. PICK p \in 1..n : doc.order[p] = l
    <3>1. \E i \in 1..n : doc.order[i] = l
      BY <1>2
    <3>. QED
      BY <3>1
  <2>. DEFINE i == n + 1 - p
              before == f[i - 1]
  <2>2. i \in 1..n /\ n + 1 - i = p /\ i - 1 \in 0..n /\ n \in 0..n
    BY <1>2
  <2>3. Latest(doc, i) = l
    BY <2>1, <2>2 DEF Latest, n
  <2>4. F[l] = StackPicture(doc, l, t, before)
    <3>1. Grouped(doc, t, f, n)
      BY <1>4, <2>2
    <3>. HIDE DEF i
    <3>2. f[n][Latest(doc, i)] = StackPicture(doc, Latest(doc, i), t, f[i - 1])
      BY <2>2, <3>1 DEF Grouped
    <3>. QED
      BY <1>3, <2>3, <3>2
  <2>5. ASSUME NEW m \in ToSet(StackOf(doc, l)) PROVE before[m] = F[m]
    <3>1. m \in Present(doc) /\ doc.carrier[m] = l
      BY <1>1, StackOfElements
    <3>2. PICK q \in 1..n : doc.order[q] = m
      <4>1. \E j \in 1..n : doc.order[j] = m
        BY <1>2, <3>1
      <4>. QED
        BY <4>1
    <3>3. p < q
      BY <1>1, <2>1, <3>1, <3>2, CarriedLater DEF n
    <3>. DEFINE j == n + 1 - q
    <3>4. j \in 1..n /\ n + 1 - j = q /\ j \in 1..i - 1
      BY <1>2, <2>2, <3>3
    <3>5. Latest(doc, j) = m
      BY <3>2, <3>4 DEF Latest, n
    <3>6. Grouped(doc, t, f, n) /\ Grouped(doc, t, f, i - 1)
      BY <1>4, <2>2
    <3>. HIDE DEF j, i
    <3>7. f[n][Latest(doc, j)] = StackPicture(doc, Latest(doc, j), t, f[j - 1])
      BY <3>4, <3>6 DEF Grouped
    <3>8. f[i - 1][Latest(doc, j)] = StackPicture(doc, Latest(doc, j), t, f[j - 1])
      BY <3>4, <3>6 DEF Grouped
    <3>. QED
      BY <1>3, <3>5, <3>7, <3>8
  <2>. HIDE DEF before
  <2>6. StackPicture(doc, l, t, before) = StackPicture(doc, l, t, F)
    BY <1>1, <2>5, StackDrawnAlike
  <2>. QED
    BY <2>4, <2>6
<1>. QED
  BY <1>5 DEF F

(* What a layer draws of its own is a picture.                                 *)
LEMMA BaseIsPicture ==
  ASSUME NEW doc, NEW n \in Nat, n + 1 = MergeDepth, ShallowDoc(doc, n), NEW t \in Tile,
         NEW c, c = Root \/ c \in Present(doc)
  PROVE  IsPicture(Base(doc, c, t))
<1>1. CASE c = Root
  BY <1>1, EmptyPicture DEF Base
<1>2. CASE c # Root
  <2>. DEFINE layer == doc.layer[c]
              v == layer.tiles[t]
              e == Piece(<<"matte", layer.prop["matte"]>>)
              s == <<e>>
  <2>1. Base(doc, c, t) = Items(layer, t) /\ c \in Present(doc)
    BY <1>2 DEF Base
  <2>2. IsPicture(Content(v, MergeDepth))
    <3>1. Shallow(v, n)
      BY <2>1 DEF ShallowDoc
    <3>2. Shallow(v, n + 1) /\ n + 1 \in Nat
      BY <3>1, ShallowIs
    <3>3. IsPicture(Content(v, n + 1))
      BY <3>2, ContentSettles
    <3>. QED
      BY <3>3
  <2>3. IsPicture(s)
    <3>1. IsPiece(e) /\ e.what = <<"matte", layer.prop["matte"]>>
      BY DEF IsPiece, Piece
    <3>2. ~ IsFilter(e)
      BY <3>1 DEF IsFilter
    <3>. HIDE DEF e
    <3>3. IsSeq(s) /\ Len(s) = 1 /\ s[1] = e
      BY SinglePart
    <3>. HIDE DEF s
    <3>. QED
      BY <3>1, <3>2, <3>3 DEF IsPicture
  <2>. HIDE DEF layer
  <2>4. Items(layer, t) \in {Content(v, MergeDepth), s, <<>>}
    BY Zenon DEF Items
  <2>. HIDE DEF s, v
  <2>. QED
    BY <2>1, <2>2, <2>3, <2>4, EmptyPicture
<1>. QED
  BY <1>1, <1>2

(* So is what each draws with all it carries.                                  *)
LEMMA GroupsArePictures ==
  ASSUME NEW doc, Sound(doc), NEW n \in Nat, n + 1 = MergeDepth, ShallowDoc(doc, n), NEW t \in Tile
  PROVE  \A l \in Present(doc) : IsPicture(Groups(doc, t)[l])
<1>. DEFINE F == Groups(doc, t)
            S == {l \in Present(doc) : IsPicture(F[l])}
<1>1. OrderSound(doc) /\ doc.order \in Seq(Id)
  BY DEF Sound, OrderSound
<1>2. \A l \in Present(doc) : F[l] = StackPicture(doc, l, t, F)
  BY GroupsAre
<1>. HIDE DEF F
<1>3. ASSUME NEW l \in Present(doc), \A m \in Present(doc) : doc.carrier[m] = l => m \in S
      PROVE  l \in S
  <2>1. \A m \in ToSet(StackOf(doc, l)) : IsPicture(F[m])
    BY <1>1, <1>3, StackOfElements
  <2>2. Len(StackOf(doc, l)) \in Nat
    <3>1. StackOf(doc, l) \in Seq(Id)
      BY <1>1, StackOfElements
    <3>. QED
      BY <3>1
  <2>3. PICK f : Tower(doc, l, t, F, f)
    BY <2>2, TowerStands
  <2>4. IsPicture(Base(doc, l, t))
    BY BaseIsPicture
  <2>5. \A i \in 0..Len(StackOf(doc, l)) : IsPicture(f[i])
    BY <1>1, <2>1, <2>3, <2>4, TowerIsPicture
  <2>6. F[l] = f[Len(StackOf(doc, l))]
    BY <1>2, <2>3 DEF Tower
  <2>. QED
    BY <2>2, <2>5, <2>6
<1>4. Present(doc) \subseteq S
  <2>. HIDE DEF S
  <2>. QED
    BY <1>1, <1>3, Downwards
<1>. QED
  BY <1>4 DEF F

-----------------------------------------------------------------------------
(* What a merge draws                                                          *)

(* Nothing draws nothing.                                                      *)
LEMMA BareDrawsNothing ==
  ASSUME NEW n \in Nat
  PROVE  Content(Bare, n + 1) = <<>>
<1>. DEFINE f == [w \in Inner(Bare) |-> Content(w, n)]
<1>1. Content(Bare, n + 1) = LaidFrom(Bare, f)
  BY ContentIs
<1>. HIDE DEF f
<1>2. LaidFrom(Bare, f) = <<>>
  BY Zenon DEF LaidFrom
<1>. QED
  BY <1>1, <1>2

(* What is laid on nothing, unclipped, stands by itself; nothing laid on       *)
(* nothing is nothing.                                                         *)
LEMMA LaidOnNothing ==
  ASSUME NEW p, NEW pic
  PROVE  /\ ~ p.clip => Lay(<<>>, p, pic) = Scaled(pic, p.opacity)
         /\ pic = <<>> => Lay(<<>>, p, pic) = <<>>
<1>. DEFINE run == Scaled(pic, p.opacity)
<1>1. /\ ~ p.clip => Lay(<<>>, p, pic) = LaidOn(<<>>, p.blend, run)
      /\ p.clip => Lay(<<>>, p, pic) = ClippedTo(<<>>, p.blend, run)
  BY LayIs
<1>2. pic = <<>> => run = <<>>
  BY ScaledIs
<1>. HIDE DEF run
<1>3. LaidOn(<<>>, p.blend, run) = run /\ ClippedTo(<<>>, p.blend, run) = <<>>
  BY Zenon DEF LaidOn, ClippedTo
<1>. QED
  BY <1>1, <1>2, <1>3 DEF run

(* A filter baked into a tile is the filter run over what the tile drew.       *)
LEMMA BakedContent ==
  ASSUME NEW doc, NEW s \in Present(doc), NEW d \in Present(doc), NEW t \in Tile,
         NEW n \in Nat, n + 1 = MergeDepth, ShallowDoc(doc, n), doc.layer[s].kind = "filter"
  PROVE  Content(MergedTiles(doc, s, d)[t], MergeDepth)
           = Filtered(Content(doc.layer[d].tiles[t], MergeDepth), doc.layer[s].prop["filter"],
                      doc.layer[s].prop["opacity"])
<1>. DEFINE up == doc.layer[s]
            x == doc.layer[d].tiles[t]
            grade == up.prop["filter"]
            o == up.prop["opacity"]
            v == MergedTiles(doc, s, d)[t]
            baked == <<"filter", grade, o, x>>
            m == n + 1
<1>1. v = IF grade \in Neutral \/ x = Bare THEN x ELSE baked
  BY DEF MergedTiles
<1>2. Content(x, n) = Content(x, m)
  <2>1. Shallow(x, n)
    BY DEF ShallowDoc
  <2>. HIDE DEF x
  <2>2. Content(x, n + 1) = Content(x, n)
    BY <2>1, ContentSettles
  <2>. QED
    BY <2>2
<1>3. Content(Bare, m) = <<>>
  BY BareDrawsNothing
<1>4. Content(baked, m) = Filtered(Content(x, n), grade, o)
  <2>. DEFINE f == [w \in Inner(baked) |-> Content(w, n)]
  <2>1. Content(baked, m) = LaidFrom(baked, f)
    BY ContentIs
  <2>2. Inner(baked) = {x}
    <3>. HIDE DEF x, o, grade
    <3>. QED
      BY FilterInner
  <2>3. f[x] = Content(x, n)
    BY <2>2
  <2>4. baked # Bare /\ baked[1] = "filter" /\ baked[2] = grade /\ baked[3] = o /\ baked[4] = x
    BY DEF Bare
  <2>. HIDE DEF f, baked, x, o, grade
  <2>5. LaidFrom(baked, f) = Filtered(f[baked[4]], baked[2], baked[3])
    BY <2>4 DEF LaidFrom
  <2>. QED
    BY <2>1, <2>3, <2>4, <2>5
<1>. HIDE DEF v, x, grade, o, baked
<1>5. Content(v, m) = Filtered(Content(x, m), grade, o)
  <2>. DEFINE pic == Content(x, m)
  <2>. HIDE DEF m
  <2>1. CASE grade \in Neutral
    <3>1. Filtered(pic, grade, o) = pic /\ v = x
      BY <1>1, <2>1, FilteredIs
    <3>. QED
      BY <3>1
  <2>2. CASE x = Bare
    <3>1. v = x /\ pic = <<>>
      BY <1>1, <1>3, <2>2
    <3>2. Filtered(pic, grade, o) = pic
      BY <3>1, FilteredIs
    <3>. QED
      BY <3>1, <3>2
  <2>3. CASE grade \notin Neutral /\ x # Bare
    <3>1. v = baked
      BY <1>1, <2>3
    <3>. QED
      BY <1>2, <1>4, <3>1
  <2>. QED
    BY <2>1, <2>2, <2>3
<1>6. MergeDepth = m
  OBVIOUS
<1>. HIDE DEF m
<1>. QED
  BY <1>5, <1>6 DEF v, x, grade, o, up

(* A tile with another stacked on it is the one laid on the other.             *)
SliderOf(doc, s, d) == IF doc.carrier[s] = d THEN "full" ELSE doc.layer[d].prop["opacity"]

(* Its lower part under its own slider, its upper through the upper's params.*)
LEMMA StackedContent ==
  ASSUME NEW doc, NEW s \in Present(doc), NEW d \in Present(doc), NEW t \in Tile,
         NEW n \in Nat, n + 1 = MergeDepth, ShallowDoc(doc, n), doc.layer[s].kind # "filter",
         doc.layer[s].prop["translation"] = doc.layer[d].prop["translation"]
  PROVE  Content(MergedTiles(doc, s, d)[t], MergeDepth)
           = Lay(Scaled(Content(doc.layer[d].tiles[t], MergeDepth), SliderOf(doc, s, d)),
                 Params(doc.layer[s]), Content(doc.layer[s].tiles[t], MergeDepth))
<1>. DEFINE up == doc.layer[s]
            x == doc.layer[d].tiles[t]
            y == up.tiles[t]
            o == up.prop["opacity"]
            b == up.prop["blend"]
            c == up.prop["clip"]
            v == MergedTiles(doc, s, d)[t]
            slider == SliderOf(doc, s, d)
            made == <<"merge", y, o, b, c, x, slider>>
            params == Params(up)
            m == n + 1
<1>1. v = IF x = Bare /\ y = Bare THEN Bare ELSE made
  BY DEF MergedTiles, SliderOf
<1>2. Content(x, n) = Content(x, m) /\ Content(y, n) = Content(y, m)
  <2>1. Shallow(x, n) /\ Shallow(y, n)
    BY DEF ShallowDoc
  <2>. HIDE DEF x, y
  <2>2. Content(x, n + 1) = Content(x, n) /\ Content(y, n + 1) = Content(y, n)
    BY <2>1, ContentSettles
  <2>. QED
    BY <2>2
<1>3. Content(Bare, m) = <<>>
  BY BareDrawsNothing
<1>. DEFINE p == [Identity EXCEPT !.opacity = slider]
            q == [blend |-> b, clip |-> c, opacity |-> o]
<1>4. Content(made, m) = Lay(Lay(<<>>, p, Content(x, n)), q, Content(y, n))
  <2>. DEFINE f == [w \in Inner(made) |-> Content(w, n)]
  <2>1. Content(made, m) = LaidFrom(made, f)
    BY ContentIs
  <2>2. Inner(made) = {y, x}
    <3>. HIDE DEF x, y, o, b, c, slider
    <3>. QED
      BY MergeInner
  <2>3. f[x] = Content(x, n) /\ f[y] = Content(y, n)
    <3>. HIDE DEF made
    <3>. QED
      BY <2>2
  <2>4. /\ made # Bare /\ made[1] = "merge" /\ made[2] = y /\ made[3] = o /\ made[4] = b
        /\ made[5] = c /\ made[6] = x /\ made[7] = slider
    <3>. HIDE DEF x, y, o, b, c, slider
    <3>. QED
      BY DEF Bare
  <2>. HIDE DEF f, made, x, y, o, b, c, slider
  <2>5. LaidFrom(made, f)
          = Lay(Lay(<<>>, [Identity EXCEPT !.opacity = made[7]], f[made[6]]),
                [blend |-> made[4], clip |-> made[5], opacity |-> made[3]], f[made[2]])
    BY <2>4 DEF LaidFrom
  <2>. QED
    BY <2>1, <2>3, <2>4, <2>5
<1>5. q = params
  BY DEF Params
<1>6. p.clip = FALSE /\ p.opacity = slider
  <2>. HIDE DEF slider
  <2>. QED
    BY DEF Identity
<1>. HIDE DEF v, x, y, o, b, c, slider, made, p, q, params
<1>7. Lay(<<>>, p, Content(x, n)) = Scaled(Content(x, n), slider)
  <2>1. ~ p.clip
    BY <1>6
  <2>2. Lay(<<>>, p, Content(x, n)) = Scaled(Content(x, n), p.opacity)
    BY <2>1, LaidOnNothing
  <2>. QED
    BY <1>6, <2>2
<1>8. Content(v, m) = Lay(Scaled(Content(x, m), slider), params, Content(y, m))
  <2>. HIDE DEF m
  <2>1. CASE x = Bare /\ y = Bare
    <3>1. Content(v, m) = <<>> /\ Content(x, m) = <<>> /\ Content(y, m) = <<>>
      BY <1>1, <1>3, <2>1
    <3>2. Scaled(<<>>, slider) = <<>>
      BY ScaledIs
    <3>3. Lay(<<>>, params, <<>>) = <<>>
      BY LaidOnNothing
    <3>. QED
      BY <3>1, <3>2, <3>3
  <2>2. CASE ~ (x = Bare /\ y = Bare)
    <3>1. v = made
      BY <1>1, <2>2
    <3>. QED
      BY <1>2, <1>4, <1>5, <1>7, <3>1
  <2>. QED
    BY <2>1, <2>2
<1>9. MergeDepth = m
  OBVIOUS
<1>. HIDE DEF m
<1>. QED
  BY <1>8, <1>9 DEF v, x, y, slider, params, up

-----------------------------------------------------------------------------
(* What a merge does to the picture                                            *)

(* A merge of two layers in one frame, on a document no deeper than n.         *)
Merging(doc, s, d, new, t, n) ==
  /\ Sound(doc) /\ Lowered(doc, s, d, new) /\ MergeOffered(doc, s, d)
  /\ n \in Nat /\ n + 1 = MergeDepth /\ ShallowDoc(doc, n) /\ t \in Tile
  /\ doc.layer[s].prop["translation"] = doc.layer[d].prop["translation"]

(* What the lower layer becomes, part by part.                                 *)
LEMMA MergedRecord ==
  ASSUME NEW doc, Sound(doc), NEW s, NEW d \in Present(doc)
  PROVE  /\ Merged(doc, s, d).prop = Survivor(doc, s, d).prop
         /\ Merged(doc, s, d).tiles = MergedTiles(doc, s, d)
         /\ Merged(doc, s, d).kind = doc.layer[d].kind
<1>. DEFINE kept == Survivor(doc, s, d)
            tiles == MergedTiles(doc, s, d)
            r == Merged(doc, s, d)
<1>1. LayerSound(kept) /\ kept.kind = doc.layer[d].kind
  BY SurvivorIsSound
<1>2. r = [kept EXCEPT !.tiles = tiles]
  BY DEF Merged
<1>. HIDE DEF kept, tiles, r
<1>3. r.prop = kept.prop /\ r.tiles = tiles /\ r.kind = kept.kind
  BY <1>1, <1>2 DEF LayerSound
<1>. QED
  BY <1>1, <1>3 DEF kept, tiles, r

(* What a paint layer that carries nothing draws.                              *)
LEMMA PlainContent ==
  ASSUME NEW doc, Sound(doc), NEW l, l \in Present(doc), doc.layer[l].kind = "paint",
         StackOf(doc, l) = <<>>, NEW t
  PROVE  Groups(doc, t)[l] = Content(doc.layer[l].tiles[t], MergeDepth)
<1>. DEFINE F == Groups(doc, t)
<1>1. F[l] = StackPicture(doc, l, t, F)
  BY GroupsAre
<1>2. Len(StackOf(doc, l)) = 0
  OBVIOUS
<1>. HIDE DEF F
<1>3. PICK f : Tower(doc, l, t, F, f)
  BY <1>2, TowerStands
<1>4. F[l] = Base(doc, l, t)
  BY <1>1, <1>2, <1>3 DEF Tower
<1>5. l # Root
  BY WithinIsWhole
<1>6. Base(doc, l, t) = Items(doc.layer[l], t)
  BY <1>5 DEF Base
<1>7. Items(doc.layer[l], t) = Content(doc.layer[l].tiles[t], MergeDepth)
  BY DEF Items
<1>. QED
  BY <1>4, <1>6, <1>7 DEF F

(* A layer shown, and a layer hidden.                                          *)
LEMMA StackedIs ==
  ASSUME NEW pic, NEW layer, NEW own
  PROVE  /\ ~ layer.prop["visible"] => Stacked(pic, layer, own) = pic
         /\ layer.prop["visible"] /\ layer.kind = "filter" =>
              Stacked(pic, layer, own)
                = Filtered(pic, layer.prop["filter"], layer.prop["opacity"])
         /\ layer.prop["visible"] /\ layer.kind # "filter" =>
              Stacked(pic, layer, own) = Lay(pic, Params(layer), own)
BY DEF Stacked

(* What the layer merged into draws alone is the two of them.                  *)
LaidInto(doc, s, d, new, t) ==
  Stacked(Base(doc, d, t), doc.layer[s], Groups(doc, t)[s]) = Base(new, d, t)

(* Merging into the carrier: the content that carries the rest of the stack is *)
(* what the first layer of the stack was laid on it.                           *)
LEMMA CarriedMerge ==
  ASSUME NEW doc, NEW s, NEW d, NEW new, NEW t, NEW n, Merging(doc, s, d, new, t, n),
         doc.carrier[s] = d, doc.layer[s].prop["visible"]
  PROVE  LaidInto(doc, s, d, new, t)
<1>. DEFINE up == doc.layer[s]
            down == doc.layer[d]
            x == Content(down.tiles[t], MergeDepth)
            y == Content(up.tiles[t], MergeDepth)
            z == Content(MergedTiles(doc, s, d)[t], MergeDepth)
            own == Groups(doc, t)[s]
            below == Base(doc, d, t)
<1>0. /\ Sound(doc) /\ Lowered(doc, s, d, new) /\ MergeOffered(doc, s, d)
      /\ n \in Nat /\ n + 1 = MergeDepth /\ ShallowDoc(doc, n) /\ t \in Tile
      /\ up.prop["translation"] = down.prop["translation"]
  BY DEF Merging
<1>1. s \in Present(doc) /\ d \in Present(doc) /\ d # Root /\ new.layer[d] = Merged(doc, s, d)
  BY <1>0, WithinIsWhole DEF Lowered
<1>2. down.kind = "paint"
  BY <1>0 DEF MergeOffered, FilterMerges, PaintMerges, PlainPaint, Paintable
<1>3. below = x
  BY <1>1, <1>2 DEF Base, Items
<1>4. Base(new, d, t) = z
  <2>1. Merged(doc, s, d).tiles = MergedTiles(doc, s, d) /\ Merged(doc, s, d).kind = "paint"
    BY <1>0, <1>1, <1>2, MergedRecord
  <2>. QED
    BY <1>1, <2>1 DEF Base, Items
<1>5. CASE up.kind = "filter"
  <2>1. z = Filtered(x, up.prop["filter"], up.prop["opacity"])
    BY <1>0, <1>1, <1>5, BakedContent
  <2>. HIDE DEF x, z, up, own, below
  <2>2. Stacked(below, up, own) = Filtered(below, up.prop["filter"], up.prop["opacity"])
    BY <1>5, StackedIs DEF up
  <2>. QED
    BY <1>3, <1>4, <2>1, <2>2 DEF up, own, below, LaidInto
<1>6. CASE up.kind # "filter"
  <2>1. up.kind = "paint" /\ StackOf(doc, s) = <<>>
    BY <1>0, <1>6 DEF MergeOffered, PaintMerges, PlainPaint, Paintable
  <2>2. own = y
    BY <1>0, <1>1, <2>1, PlainContent
  <2>3. z = Lay(Scaled(x, SliderOf(doc, s, d)), Params(up), y)
    BY <1>0, <1>1, <1>6, StackedContent
  <2>4. SliderOf(doc, s, d) = "full"
    BY DEF SliderOf
  <2>. HIDE DEF x, y, z, up, own, below
  <2>5. Scaled(x, SliderOf(doc, s, d)) = x
    BY <2>4, ScaledIs
  <2>6. Stacked(below, up, own) = Lay(below, Params(up), own)
    BY <1>6, StackedIs DEF up
  <2>. QED
    BY <1>3, <1>4, <2>2, <2>3, <2>5, <2>6 DEF up, own, below, LaidInto
<1>. QED
  BY <1>5, <1>6

(* Where the two layers are when one stands on the other.                      *)
LEMMA SiblingsAre ==
  ASSUME NEW doc, Sound(doc), NEW s, NEW d, MergeOffered(doc, s, d), doc.carrier[s] # d,
         NEW i \in 1..Len(StackOf(doc, doc.carrier[s])), StackOf(doc, doc.carrier[s])[i] = s
  PROVE  /\ i - 1 \in 1..Len(StackOf(doc, doc.carrier[s]))
         /\ StackOf(doc, doc.carrier[s])[i - 1] = d
         /\ doc.carrier[d] = doc.carrier[s]
         /\ BackdropIsDest(doc, s) => i = 2 /\ doc.carrier[s] = Root /\ ~ doc.layer[d].prop["clip"]
<1>. DEFINE stack == StackOf(doc, doc.carrier[s])
            p == Position(stack, s)
<1>1. s \in Present(doc) /\ doc.order \in Seq(Id) /\ Distinct(doc.order)
  BY MergeOfferedOf DEF Sound, OrderSound
<1>2. stack \in Seq(Id) /\ \A l : l \in ToSet(stack) <=> l \in Present(doc) /\ doc.carrier[l] = doc.carrier[s]
  BY <1>1, StackOfElements
<1>3. Distinct(stack)
  BY <1>1, OnlyDistinct DEF StackOf
<1>4. p = i
  <2>1. s \in ToSet(stack)
    BY <1>1, <1>2
  <2>. HIDE DEF stack
  <2>2. \A j \in 1..Len(stack) : stack[j] = s => j = Position(stack, s)
    BY <1>2, <1>3, <2>1, PositionOf
  <2>. QED
    BY <2>2 DEF stack
<1>5. d = IF p = 1 THEN doc.carrier[s] ELSE stack[p - 1]
  BY DEF MergeOffered, Below
<1>6. BackdropIsDest(doc, s) => \/ p = 1
                                \/ (p = 2 /\ doc.carrier[s] = Root /\ ~ doc.layer[stack[1]].prop["clip"])
  BY Zenon DEF BackdropIsDest
<1>7. Len(stack) \in Nat /\ \A j \in 1..Len(stack) : stack[j] \in ToSet(stack)
  BY <1>2, ToSetOf
<1>. HIDE DEF p, stack
<1>8. i # 1 /\ i - 1 \in 1..Len(stack) /\ stack[i - 1] = d
  BY <1>4, <1>5, <1>7 DEF stack
<1>9. doc.carrier[d] = doc.carrier[s]
  BY <1>2, <1>7, <1>8
<1>10. BackdropIsDest(doc, s) => i = 2 /\ doc.carrier[s] = Root /\ ~ doc.layer[d].prop["clip"]
  BY <1>4, <1>6, <1>8
<1>. QED
  BY <1>8, <1>9, <1>10 DEF stack

(* Merging into the sibling beneath: laying one on the other and both on what  *)
(* is beneath is laying the two in turn.                                       *)
LEMMA SiblingMerge ==
  ASSUME NEW doc, NEW s, NEW d, NEW new, NEW t, NEW n, Merging(doc, s, d, new, t, n),
         doc.carrier[s] # d, StackOf(new, d) = StackOf(doc, d),
         NEW p, IsPicture(p), BackdropIsDest(doc, s) => p = <<>> /\ ~ doc.layer[d].prop["clip"]
  PROVE  Stacked(Stacked(p, doc.layer[d], Groups(doc, t)[d]), doc.layer[s], Groups(doc, t)[s])
           = Stacked(p, new.layer[d], Groups(new, t)[d])
<1>. DEFINE up == doc.layer[s]
            down == doc.layer[d]
            low == new.layer[d]
            x == Content(down.tiles[t], MergeDepth)
            y == Content(up.tiles[t], MergeDepth)
            z == Content(MergedTiles(doc, s, d)[t], MergeDepth)
            ownUp == Groups(doc, t)[s]
            ownDown == Groups(doc, t)[d]
            ownLow == Groups(new, t)[d]
            o == down.prop["opacity"]
            b == down.prop["blend"]
<1>0. /\ Sound(doc) /\ Lowered(doc, s, d, new) /\ MergeOffered(doc, s, d)
      /\ n \in Nat /\ n + 1 = MergeDepth /\ ShallowDoc(doc, n) /\ t \in Tile
      /\ up.prop["translation"] = down.prop["translation"]
  BY DEF Merging
<1>1. /\ s \in Present(doc) /\ d \in Present(doc) /\ low = Merged(doc, s, d)
      /\ Sound(new) /\ d \in Present(new)
  BY <1>0 DEF Lowered
<1>2. down.kind = "paint" /\ StackOf(doc, d) = <<>>
  BY <1>0 DEF MergeOffered, FilterMerges, PaintMerges, PlainPaint, Paintable
<1>3. up.prop["visible"] = down.prop["visible"]
  BY <1>0 DEF MergeOffered
<1>4. low.prop = Survivor(doc, s, d).prop /\ low.tiles = MergedTiles(doc, s, d) /\ low.kind = "paint"
  BY <1>0, <1>1, <1>2, MergedRecord
<1>5. ownDown = x
  BY <1>0, <1>1, <1>2, PlainContent
<1>6. ownLow = z
  <2>1. ownLow = Content(low.tiles[t], MergeDepth)
    BY <1>1, <1>2, <1>4, PlainContent
  <2>. QED
    BY <1>4, <2>1
<1>7. IsPicture(x) /\ IsPicture(y)
  <2>1. Shallow(down.tiles[t], n) /\ Shallow(up.tiles[t], n)
    BY <1>0, <1>1 DEF ShallowDoc
  <2>. DEFINE v == down.tiles[t]
              w == up.tiles[t]
  <2>. HIDE DEF v, w
  <2>2. Shallow(v, n) /\ Shallow(w, n)
    BY <2>1 DEF v, w
  <2>. DEFINE deep == n + 1
  <2>5. n \in Nat /\ deep \in Nat
    BY <1>0
  <2>. HIDE DEF deep
  <2>6. n \in Nat
    BY <2>5
  <2>3. Shallow(v, deep) /\ Shallow(w, deep) /\ deep \in Nat
    BY ONLY <2>2, <2>5, ShallowIs DEF deep
  <2>4. IsPicture(Content(v, deep)) /\ IsPicture(Content(w, deep))
    BY <2>3, ContentSettles
  <2>7. deep = MergeDepth
    BY <1>0 DEF deep
  <2>. QED
    BY <2>4, <2>7 DEF v, w
<1>8. /\ up.kind = "filter" => Survivor(doc, s, d) = down
      /\ up.kind # "filter" =>
           /\ Survivor(doc, s, d).prop["opacity"] = "full" /\ ~ Survivor(doc, s, d).prop["clip"]
           /\ Survivor(doc, s, d).prop["blend"] = b
           /\ Survivor(doc, s, d).prop["visible"] = down.prop["visible"]
  <2>1. up.kind = "filter" => Survivor(doc, s, d) = down
    BY DEF Survivor
  <2>2. ASSUME up.kind # "filter"
        PROVE  /\ Survivor(doc, s, d).prop["opacity"] = "full" /\ ~ Survivor(doc, s, d).prop["clip"]
               /\ \A q \in Prop \ {"opacity", "clip"} : Survivor(doc, s, d).prop[q] = down.prop[q]
    <3>1. ~ (doc.layer[s].kind = "filter" \/ doc.carrier[s] = d)
      BY <2>2
    <3>2. Sound(doc) /\ d \in Present(doc)
      BY <1>0, <1>1
    <3>. QED
      BY ONLY <3>1, <3>2, SurvivorIsSound
  <2>3. {"blend", "visible"} \subseteq Prop \ {"opacity", "clip"}
    BY DEF Prop
  <2>. QED
    BY <2>1, <2>2, <2>3
<1>9. low.prop["visible"] = down.prop["visible"]
  BY <1>4, <1>8
<1>10. CASE ~ down.prop["visible"]
  <2>1. ~ low.prop["visible"] /\ ~ up.prop["visible"]
    BY <1>3, <1>9, <1>10
  <2>. HIDE DEF up, down, low, ownUp, ownDown, ownLow
  <2>2. Stacked(p, down, ownDown) = p /\ Stacked(p, up, ownUp) = p /\ Stacked(p, low, ownLow) = p
    BY <1>10, <2>1, StackedIs
  <2>3. Stacked(Stacked(p, down, ownDown), up, ownUp) = Stacked(p, low, ownLow)
    BY <2>2
  <2>. QED
    BY <2>3 DEF up, down, low, ownUp, ownDown, ownLow
<1>11. CASE down.prop["visible"] /\ up.kind = "filter"
  <2>. DEFINE g == up.prop["filter"]
              q == up.prop["opacity"]
  <2>1. BackdropIsDest(doc, s) /\ g \notin Resampling
    BY <1>0, <1>11 DEF MergeOffered, FilterMerges
  <2>2. p = <<>> /\ ~ down.prop["clip"]
    BY <2>1
  <2>3. z = Filtered(x, g, q)
    BY <1>0, <1>1, <1>11, BakedContent
  <2>4. low.prop = down.prop /\ low.prop["visible"] /\ up.prop["visible"] /\ ~ down.prop["clip"]
    BY <1>3, <1>4, <1>8, <1>9, <1>11, <2>2
  <2>5. Params(low) = Params(down) /\ Params(down).clip = down.prop["clip"] /\ Params(down).opacity = o
    BY <2>4 DEF Params
  <2>6. Scaled(Filtered(x, g, q), o) = Filtered(Scaled(x, o), g, q)
    <3>. HIDE DEF x, g, o, q
    <3>. QED
      BY <1>7, <2>1, SliderUnderFilter
  <2>7. Lay(<<>>, Params(down), x) = Scaled(x, o) /\ Lay(<<>>, Params(down), z) = Scaled(z, o)
    <3>. DEFINE params == Params(down)
    <3>1. ~ params.clip /\ params.opacity = o
      BY <2>4, <2>5
    <3>. HIDE DEF params, x, z, o
    <3>2. Lay(<<>>, params, x) = Scaled(x, params.opacity) /\ Lay(<<>>, params, z) = Scaled(z, params.opacity)
      BY <3>1, LaidOnNothing
    <3>. QED
      BY <3>1, <3>2 DEF params
  <2>8. /\ Stacked(p, down, ownDown) = Lay(p, Params(down), ownDown)
        /\ Stacked(p, low, ownLow) = Lay(p, Params(low), ownLow)
        /\ \A pic : Stacked(pic, up, ownUp) = Filtered(pic, g, q)
    <3>1. down.kind # "filter" /\ low.kind # "filter"
      BY <1>2, <1>4
    <3>. HIDE DEF up, down, low, ownUp, ownDown, ownLow
    <3>. QED
      BY <1>11, <2>4, <3>1, StackedIs
  <2>. HIDE DEF up, down, low, ownUp, ownDown, ownLow, x, y, z, g, q, o
  <2>9. Stacked(Stacked(p, down, ownDown), up, ownUp) = Stacked(p, low, ownLow)
    BY <1>5, <1>6, <2>2, <2>3, <2>5, <2>6, <2>7, <2>8
  <2>. QED
    BY <2>9 DEF up, down, low, ownUp, ownDown, ownLow
<1>12. CASE down.prop["visible"] /\ up.kind # "filter"
  <2>. DEFINE w == Scaled(x, o)
              v == Scaled(y, up.prop["opacity"])
              pu == Params(up)
  <2>1. /\ up.kind = "paint" /\ StackOf(doc, s) = <<>> /\ ~ down.prop["clip"]
        /\ BackdropIsDest(doc, s) \/ (up.prop["blend"] = b /\ ~ up.prop["clip"])
    BY <1>0, <1>12 DEF MergeOffered, PaintMerges, PlainPaint, Paintable
  <2>2. ownUp = y
    BY <1>0, <1>1, <2>1, PlainContent
  <2>3. z = Lay(w, pu, y)
    <3>1. z = Lay(Scaled(x, SliderOf(doc, s, d)), Params(up), y)
      BY <1>0, <1>1, <1>12, StackedContent
    <3>2. SliderOf(doc, s, d) = o
      BY DEF SliderOf
    <3>. QED
      BY <3>1, <3>2
  <2>4. /\ Params(down).blend = b /\ Params(down).opacity = o /\ Params(down).clip = down.prop["clip"]
        /\ Params(low).blend = b /\ Params(low).opacity = "full" /\ ~ Params(low).clip
        /\ pu.blend = up.prop["blend"] /\ pu.clip = up.prop["clip"] /\ pu.opacity = up.prop["opacity"]
    <3>1. low.prop["blend"] = b /\ low.prop["opacity"] = "full" /\ ~ low.prop["clip"]
      BY <1>4, <1>8, <1>12
    <3>. HIDE DEF low
    <3>. QED
      BY <3>1 DEF Params
  <2>5. /\ Stacked(p, down, ownDown) = Lay(p, Params(down), ownDown)
        /\ Stacked(p, low, ownLow) = Lay(p, Params(low), ownLow)
        /\ \A pic : Stacked(pic, up, ownUp) = Lay(pic, pu, ownUp)
    <3>1. down.kind # "filter" /\ low.kind # "filter" /\ up.prop["visible"] /\ low.prop["visible"]
      BY <1>2, <1>3, <1>4, <1>9, <1>12
    <3>. HIDE DEF up, down, low, ownUp, ownDown, ownLow
    <3>. QED
      BY <1>12, <3>1, StackedIs
  <2>6. Lay(p, Params(down), x) = LaidOn(p, b, w)
    <3>. DEFINE params == Params(down)
    <3>1. ~ params.clip /\ params.opacity = o /\ params.blend = b
      BY <2>1, <2>4
    <3>. HIDE DEF params, x, o, b
    <3>2. Lay(p, params, x) = LaidOn(p, params.blend, Scaled(x, params.opacity))
      BY <3>1, LayIs
    <3>. QED
      BY <3>1, <3>2 DEF params
  <2>7. Lay(p, Params(low), z) = LaidOn(p, b, z)
    <3>. DEFINE params == Params(low)
    <3>1. ~ params.clip /\ params.opacity = "full" /\ params.blend = b
      BY <2>4
    <3>. HIDE DEF params, z, b
    <3>2. Lay(p, params, z) = LaidOn(p, params.blend, Scaled(z, params.opacity))
      BY <3>1, LayIs
    <3>3. Scaled(z, "full") = z
      BY ScaledIs
    <3>. QED
      BY <3>1, <3>2, <3>3 DEF params
  <2>8. Lay(LaidOn(p, b, w), pu, y) = LaidOn(p, b, Lay(w, pu, y))
    <3>1. CASE BackdropIsDest(doc, s)
      <4>1. p = <<>>
        BY <3>1
      <4>. HIDE DEF w, y, pu, b
      <4>2. \A r : LaidOn(<<>>, b, r) = r
        BY Zenon DEF LaidOn
      <4>. QED
        BY <4>1, <4>2
    <3>2. CASE ~ BackdropIsDest(doc, s)
      <4>1. pu.blend = b /\ ~ pu.clip /\ pu.opacity = up.prop["opacity"]
        BY <2>1, <2>4, <3>2
      <4>2. IsPicture(w) /\ IsPicture(v)
        <5>. HIDE DEF x, y, o
        <5>. QED
          BY <1>7, ScaledIsPicture
      <4>3. v = Scaled(y, pu.opacity)
        BY <4>1
      <4>. HIDE DEF w, v, y, pu, b, up
      <4>4. \A pic : Lay(pic, pu, y) = LaidOn(pic, b, v)
        BY <4>1, <4>3, LayIs
      <4>5. LaidOn(LaidOn(p, b, w), b, v) = LaidOn(p, b, LaidOn(w, b, v))
        BY <4>2, LayingIsAssociative
      <4>. QED
        BY <4>4, <4>5
    <3>. QED
      BY <3>1, <3>2
  <2>. HIDE DEF up, down, low, ownUp, ownDown, ownLow, x, y, z, w, v, pu, o, b
  <2>9. Stacked(Stacked(p, down, ownDown), up, ownUp) = Stacked(p, low, ownLow)
    BY <1>5, <1>6, <2>2, <2>3, <2>5, <2>6, <2>7, <2>8
  <2>. QED
    BY <2>9 DEF up, down, low, ownUp, ownDown, ownLow
<1>. QED
  BY <1>10, <1>11, <1>12

(* What a layer draws with all it carries is what it drew before the merge,    *)
(* unless it is the layer merged into and stands beneath the other, or is a    *)
(* hidden carrier of it.                                                       *)
AsBefore(doc, s, d, new, t, m) ==
  (m = d => doc.carrier[s] = d /\ doc.layer[d].prop["visible"])
    => Groups(new, t)[m] = Groups(doc, t)[m]

(* Laid on anything, a layer looks as before.                                  *)
Alike(doc, new, t, m) ==
  \A pic : Stacked(pic, doc.layer[m], Groups(doc, t)[m])
             = Stacked(pic, new.layer[m], Groups(new, t)[m])

(* Every layer left is laid alike, but one merged into beneath its sibling.  *)
LEMMA LaidAlike ==
  ASSUME NEW doc, NEW s, NEW d, NEW new, NEW t, NEW n, Merging(doc, s, d, new, t, n),
         NEW m \in Present(new), m = d => doc.carrier[s] = d, AsBefore(doc, s, d, new, t, m)
  PROVE  Alike(doc, new, t, m)
<1>0. Sound(doc) /\ Lowered(doc, s, d, new) /\ d \in Present(doc)
  BY DEF Merging, Lowered
<1>1. CASE m # d
  <2>1. new.layer[m] = doc.layer[m] /\ Groups(new, t)[m] = Groups(doc, t)[m]
    BY <1>0, <1>1 DEF Lowered, AsBefore
  <2>. QED
    BY <2>1, Zenon DEF Alike
<1>2. CASE m = d
  <2>. DEFINE down == doc.layer[d]
              low == new.layer[d]
              F == Groups(doc, t)[d]
              G == Groups(new, t)[d]
  <2>1. low = Merged(doc, s, d)
    BY <1>0 DEF Lowered
  <2>2. low.prop = down.prop /\ low.kind = down.kind
    <3>1. Survivor(doc, s, d) = down
      BY <1>2 DEF Survivor
    <3>. QED
      BY <1>0, <2>1, <3>1, MergedRecord
  <2>3. down.prop["visible"] => F = G
    BY <1>2 DEF AsBefore
  <2>4. Params(low) = Params(down)
    BY <2>2 DEF Params
  <2>. HIDE DEF down, low, F, G
  <2>5. ASSUME NEW pic PROVE Stacked(pic, down, F) = Stacked(pic, low, G)
    <3>1. CASE ~ down.prop["visible"]
      <4>1. ~ low.prop["visible"]
        BY <2>2, <3>1
      <4>. QED
        BY <3>1, <4>1, StackedIs
    <3>2. CASE down.prop["visible"]
      <4>1. low.prop["visible"] /\ F = G
        BY <2>2, <2>3, <3>2
      <4>2. CASE down.kind = "filter"
        BY <2>2, <3>2, <4>1, <4>2, StackedIs
      <4>3. CASE down.kind # "filter"
        BY <2>2, <2>4, <3>2, <4>1, <4>3, StackedIs
      <4>. QED
        BY <4>2, <4>3
    <3>. QED
      BY <3>1, <3>2
  <2>. QED
    BY <1>2, <2>5, Zenon DEF Alike, down, low, F, G
<1>. QED
  BY <1>1, <1>2

(* The same layer at two places of two stacks.                                 *)
LEMMA NextAlike ==
  ASSUME NEW doc, NEW new, NEW t, NEW c, NEW i, NEW j,
         StackOf(new, c)[j] = StackOf(doc, c)[i], Alike(doc, new, t, StackOf(doc, c)[i])
  PROVE  \A pic : LaidNext(doc, c, Groups(doc, t), i, pic) = LaidNext(new, c, Groups(new, t), j, pic)
BY Zenon DEF LaidNext, Alike

(* Who is in a stack, and where.                                               *)
LEMMA StackPlaces ==
  ASSUME NEW doc, Sound(doc), NEW c
  PROVE  /\ StackOf(doc, c) \in Seq(Id) /\ Len(StackOf(doc, c)) \in Nat
         /\ \A k \in 1..Len(StackOf(doc, c)) : /\ StackOf(doc, c)[k] \in Present(doc)
                                               /\ doc.carrier[StackOf(doc, c)[k]] = c
         /\ \A k, j \in 1..Len(StackOf(doc, c)) : StackOf(doc, c)[k] = StackOf(doc, c)[j] => k = j
         /\ \A l \in Present(doc) : doc.carrier[l] = c =>
              \E k \in 1..Len(StackOf(doc, c)) : StackOf(doc, c)[k] = l
<1>. DEFINE stack == StackOf(doc, c)
<1>1. doc.order \in Seq(Id) /\ Distinct(doc.order)
  BY DEF Sound, OrderSound
<1>2. stack \in Seq(Id) /\ \A l : l \in ToSet(stack) <=> l \in Present(doc) /\ doc.carrier[l] = c
  BY <1>1, StackOfElements
<1>3. Distinct(stack)
  BY <1>1, OnlyDistinct DEF StackOf
<1>. HIDE DEF stack
<1>4. Len(stack) \in Nat /\ \A l : l \in ToSet(stack) <=> \E k \in 1..Len(stack) : stack[k] = l
  BY <1>2, ToSetOf
<1>5. \A k \in 1..Len(stack) : stack[k] \in Present(doc) /\ doc.carrier[stack[k]] = c
  BY <1>2, <1>4
<1>6. \A k, j \in 1..Len(stack) : stack[k] = stack[j] => k = j
  BY <1>3 DEF Distinct
<1>7. \A l \in Present(doc) : doc.carrier[l] = c => \E k \in 1..Len(stack) : stack[k] = l
  BY <1>2, <1>4
<1>. QED
  BY <1>2, <1>4, <1>5, <1>6, <1>7 DEF stack

(* A stack neither layer of the merge is in, or only the one that carries the  *)
(* other.                                                                      *)
LEMMA StackUntouched ==
  ASSUME NEW doc, NEW s, NEW d, NEW new, NEW t, NEW n, Merging(doc, s, d, new, t, n),
         NEW c, c = Root \/ c \in Present(new), c # d, c # doc.carrier[s],
         \A m \in Present(new) : new.carrier[m] = c => AsBefore(doc, s, d, new, t, m)
  PROVE  StackPicture(doc, c, t, Groups(doc, t)) = StackPicture(new, c, t, Groups(new, t))
<1>. DEFINE F == Groups(doc, t)
            G == Groups(new, t)
            stack == StackOf(doc, c)
            len == Len(stack)
<1>0. /\ Sound(doc) /\ Lowered(doc, s, d, new) /\ MergeOffered(doc, s, d) /\ Sound(new)
      /\ s \in Present(doc)
  BY DEF Merging, Lowered
<1>1. StackOf(new, c) = stack
  BY <1>0, StackLowered
<1>2. len \in Nat /\ \A k \in 1..len : stack[k] \in Present(new) /\ new.carrier[stack[k]] = c
                                       /\ doc.carrier[stack[k]] = c
  BY <1>0, <1>1, StackPlaces
<1>3. doc.carrier[s] # d => doc.carrier[d] # c
  <2>. SUFFICES ASSUME doc.carrier[s] # d PROVE doc.carrier[d] # c
    OBVIOUS
  <2>1. PICK i \in 1..Len(StackOf(doc, doc.carrier[s])) : StackOf(doc, doc.carrier[s])[i] = s
    BY <1>0, StackPlaces
  <2>2. doc.carrier[d] = doc.carrier[s]
    BY <1>0, <2>1, SiblingsAre
  <2>. QED
    BY <2>2
<1>4. ASSUME NEW k \in 1..len PROVE Alike(doc, new, t, stack[k])
  <2>1. stack[k] = d => doc.carrier[s] = d
    BY <1>2, <1>3
  <2>. DEFINE m == stack[k]
  <2>2. m \in Present(new) /\ AsBefore(doc, s, d, new, t, m)
    BY <1>2
  <2>. HIDE DEF m
  <2>3. m = d => doc.carrier[s] = d
    BY <2>1 DEF m
  <2>4. Alike(doc, new, t, m)
    BY <2>2, <2>3, LaidAlike
  <2>. QED
    BY <2>4 DEF m
<1>5. ASSUME NEW k \in 1..len - 0
      PROVE  \A pic : LaidNext(doc, c, F, 0 + k, pic) = LaidNext(new, c, G, 0 + k, pic)
  <2>1. 0 + k = k /\ k \in 1..len
    BY <1>2
  <2>2. Alike(doc, new, t, StackOf(doc, c)[k]) /\ StackOf(new, c)[k] = StackOf(doc, c)[k]
    BY <1>1, <1>4, <2>1
  <2>3. \A pic : LaidNext(doc, c, F, k, pic) = LaidNext(new, c, G, k, pic)
    BY <2>2, NextAlike
  <2>. QED
    BY <2>1, <2>3
<1>6. Base(doc, c, t) = Base(new, c, t)
  <2>1. c # Root => new.layer[c] = doc.layer[c]
    BY <1>0 DEF Lowered
  <2>. QED
    BY <2>1, Zenon DEF Base
<1>. HIDE DEF F, G
<1>7. PICK f : Tower(doc, c, t, F, f)
  BY <1>2, TowerStands
<1>8. PICK g : Tower(new, c, t, G, g)
  BY <1>1, <1>2, TowerStands
<1>9. f[0] = g[0]
  BY <1>6, <1>7, <1>8 DEF Tower
<1>10. 0 \in 0..len /\ 0 \in Nat /\ Len(StackOf(new, c)) = 0 + (len - 0)
  BY <1>1, <1>2
<1>11. Meets(doc, new, c, t, F, G, f, g, 0, 0)
  BY <1>2, <1>5, <1>7, <1>8, <1>9, <1>10, Zenon DEF Meets
<1>. QED
  BY <1>11, TowersMeet DEF F, G

(* The stack of a layer that what was at its foot has been merged into.        *)
LEMMA StackCarried ==
  ASSUME NEW doc, NEW s, NEW d, NEW new, NEW t, NEW n, Merging(doc, s, d, new, t, n),
         doc.carrier[s] = d, doc.layer[d].prop["visible"],
         \A m \in Present(new) : new.carrier[m] = d => AsBefore(doc, s, d, new, t, m)
  PROVE  StackPicture(doc, d, t, Groups(doc, t)) = StackPicture(new, d, t, Groups(new, t))
<1>. DEFINE F == Groups(doc, t)
            G == Groups(new, t)
            stack == StackOf(doc, d)
            after == StackOf(new, d)
            len == Len(stack)
<1>0. /\ Sound(doc) /\ Lowered(doc, s, d, new) /\ MergeOffered(doc, s, d) /\ Sound(new)
      /\ s \in Present(doc) /\ d \in Present(doc) /\ Present(new) = Present(doc) \ {s}
  BY DEF Merging, Lowered
<1>1. /\ stack \in Seq(Id) /\ len \in Nat
      /\ \A k \in 1..len : stack[k] \in Present(doc) /\ doc.carrier[stack[k]] = d
      /\ \A k, j \in 1..len : stack[k] = stack[j] => k = j
      /\ \E k \in 1..len : stack[k] = s
  BY <1>0, StackPlaces
<1>2. doc.carrier[d] # d
  BY <1>0, BelowIsAnother
<1>3. PICK p \in 1..len : /\ stack[p] = s /\ Len(after) = len - 1
                          /\ \A i \in 1..len - 1 : after[i] = stack[Skip(p, i)]
  BY <1>0, StackLowered DEF StackLost
<1>4. p = 1
  <2>1. d = IF Position(stack, s) = 1 THEN d ELSE stack[Position(stack, s) - 1]
    BY <1>0 DEF MergeOffered, Below
  <2>2. Position(stack, s) = p
    <3>1. Distinct(stack)
      BY <1>0, OnlyDistinct DEF StackOf, Sound, OrderSound
    <3>2. s \in ToSet(stack)
      BY <1>1, ToSetOf
    <3>. HIDE DEF stack
    <3>3. \A j \in 1..Len(stack) : stack[j] = s => j = Position(stack, s)
      BY <1>1, <3>1, <3>2, PositionOf
    <3>. QED
      BY <1>3, <3>3
  <2>3. ASSUME p # 1 PROVE FALSE
    <3>1. p - 1 \in 1..len
      BY <1>1, <2>3
    <3>2. stack[p - 1] = d
      BY <2>1, <2>2, <2>3
    <3>. QED
      BY <1>1, <1>2, <3>1, <3>2
  <2>. QED
    BY <2>3
<1>5. ASSUME NEW k \in 1..len - 1
      PROVE  \A pic : LaidNext(doc, d, F, 1 + k, pic) = LaidNext(new, d, G, 0 + k, pic)
  <2>1. 0 + k = k /\ Skip(p, k) = 1 + k /\ 1 + k \in 1..len /\ 1 + k # p
    BY <1>1, <1>4 DEF Skip
  <2>2. after[k] = stack[1 + k]
    BY <1>3, <2>1
  <2>. DEFINE m == stack[1 + k]
  <2>3. m \in Present(new) /\ m # d /\ new.carrier[m] = d
    <3>1. m \in Present(doc) /\ doc.carrier[m] = d /\ m # s
      BY <1>1, <1>3, <2>1
    <3>. HIDE DEF m
    <3>2. m \in Present(new) /\ m # d
      BY <1>0, <1>2, <3>1
    <3>. QED
      BY <1>0, <3>1, <3>2 DEF Lowered
  <2>4. AsBefore(doc, s, d, new, t, m)
    BY <2>3
  <2>5. Alike(doc, new, t, m)
    <3>. HIDE DEF m
    <3>. QED
      BY <2>3, <2>4, LaidAlike
  <2>6. \A pic : LaidNext(doc, d, F, 1 + k, pic) = LaidNext(new, d, G, k, pic)
    <3>. DEFINE v == 1 + k
    <3>1. StackOf(new, d)[k] = StackOf(doc, d)[v] /\ Alike(doc, new, t, StackOf(doc, d)[v])
      BY <2>2, <2>5
    <3>. HIDE DEF v
    <3>2. \A pic : LaidNext(doc, d, F, v, pic) = LaidNext(new, d, G, k, pic)
      BY <3>1, Zenon DEF LaidNext, Alike
    <3>. QED
      BY <3>2 DEF v
  <2>. QED
    BY <2>1, <2>6
<1>6. PICK f : Tower(doc, d, t, F, f)
  BY <1>1, TowerStands
<1>7. Len(after) \in Nat
  BY <1>0, StackPlaces
<1>8. PICK g : Tower(new, d, t, G, g)
  BY <1>7, TowerStands
<1>9. f[1] = g[0]
  <2>1. Stacked(Base(doc, d, t), doc.layer[s], F[s]) = Base(new, d, t)
    <3>1. doc.layer[s].prop["visible"]
      BY <1>0 DEF MergeOffered
    <3>2. Merging(doc, s, d, new, t, n) /\ doc.carrier[s] = d
      OBVIOUS
    <3>3. LaidInto(doc, s, d, new, t)
      BY ONLY <3>1, <3>2, CarriedMerge
    <3>. QED
      BY <3>3, Zenon DEF LaidInto
  <2>2. f[0] = Base(doc, d, t) /\ g[0] = Base(new, d, t)
    BY <1>6, <1>8 DEF Tower
  <2>3. f[1] = LaidNext(doc, d, F, 1, f[0])
    <3>1. 1 \in 1..len /\ 1 - 1 = 0
      BY <1>4
    <3>. QED
      BY <1>6, <3>1 DEF Tower
  <2>4. stack[1] = s
    BY <1>3, <1>4
  <2>. QED
    BY <2>1, <2>2, <2>3, <2>4, Zenon DEF LaidNext
<1>10. 1 \in 0..len /\ 0 \in Nat /\ Len(after) = 0 + (len - 1)
  BY <1>1, <1>3, <1>4
<1>. HIDE DEF F, G
<1>11. Meets(doc, new, d, t, F, G, f, g, 1, 0)
  BY <1>1, <1>5, <1>6, <1>8, <1>9, <1>10, Zenon DEF Meets
<1>. QED
  BY <1>11, TowersMeet DEF F, G

(* The stack two of whose layers have become one.                              *)
LEMMA StackJoined ==
  ASSUME NEW doc, NEW s, NEW d, NEW new, NEW t, NEW n, Merging(doc, s, d, new, t, n),
         NEW c, c = Root \/ c \in Present(new), c # d, c = doc.carrier[s],
         \A m \in Present(new) : new.carrier[m] = c => AsBefore(doc, s, d, new, t, m)
  PROVE  StackPicture(doc, c, t, Groups(doc, t)) = StackPicture(new, c, t, Groups(new, t))
<1>. DEFINE F == Groups(doc, t)
            G == Groups(new, t)
            stack == StackOf(doc, c)
            after == StackOf(new, c)
            len == Len(stack)
<1>0. /\ Sound(doc) /\ Lowered(doc, s, d, new) /\ MergeOffered(doc, s, d) /\ Sound(new)
      /\ s \in Present(doc) /\ d \in Present(doc) /\ Present(new) = Present(doc) \ {s} /\ s # d
      /\ n \in Nat /\ n + 1 = MergeDepth /\ ShallowDoc(doc, n) /\ t \in Tile
  BY DEF Merging, Lowered
<1>1. /\ stack \in Seq(Id) /\ len \in Nat
      /\ \A k \in 1..len : stack[k] \in Present(doc) /\ doc.carrier[stack[k]] = c
      /\ \A k, j \in 1..len : stack[k] = stack[j] => k = j
  BY <1>0, StackPlaces
<1>2. PICK i \in 1..len : /\ stack[i] = s /\ Len(after) = len - 1
                          /\ \A k \in 1..len - 1 : after[k] = stack[Skip(i, k)]
  BY <1>0, StackLowered DEF StackLost
<1>3. /\ i - 1 \in 1..len /\ stack[i - 1] = d
      /\ BackdropIsDest(doc, s) => i = 2 /\ c = Root /\ ~ doc.layer[d].prop["clip"]
  BY <1>0, <1>2, SiblingsAre
<1>4. ASSUME NEW k \in 1..len, k # i, k # i - 1 PROVE Alike(doc, new, t, stack[k])
  <2>. DEFINE m == stack[k]
  <2>1. m \in Present(doc) /\ doc.carrier[m] = c /\ m # s /\ m # d
    BY <1>1, <1>2, <1>3, <1>4
  <2>. HIDE DEF m
  <2>2. m \in Present(new)
    BY <1>0, <2>1
  <2>3. new.carrier[m] = c
    BY <1>0, <2>1, <2>2 DEF Lowered
  <2>4. Alike(doc, new, t, m)
    BY <2>1, <2>2, <2>3, LaidAlike
  <2>. QED
    BY <2>4 DEF m
<1>5. PICK f : Tower(doc, c, t, F, f)
  BY <1>1, TowerStands
<1>6. Len(after) \in Nat
  BY <1>0, StackPlaces
<1>7. PICK g : Tower(new, c, t, G, g)
  BY <1>6, TowerStands
<1>8. Base(doc, c, t) = Base(new, c, t)
  <2>1. c # Root => new.layer[c] = doc.layer[c]
    BY <1>0 DEF Lowered
  <2>. QED
    BY <2>1, Zenon DEF Base
<1>9. i - 2 \in Nat /\ i - 2 \in 0..len /\ i - 2 \in 0..Len(after)
  BY <1>1, <1>2, <1>3
<1>10. ASSUME NEW k \in 1..i - 2
       PROVE  \A pic : LaidNext(doc, c, F, k, pic) = LaidNext(new, c, G, k, pic)
  <2>1. k \in 1..len /\ k \in 1..len - 1 /\ Skip(i, k) = k /\ k # i /\ k # i - 1
    BY <1>1, <1>9 DEF Skip
  <2>2. after[k] = stack[k] /\ Alike(doc, new, t, stack[k])
    BY <1>2, <1>4, <2>1
  <2>. QED
    BY <2>2, Zenon DEF LaidNext, Alike
<1>11. f[i - 2] = g[i - 2]
  <2>. DEFINE m == i - 2
  <2>. HIDE DEF F, G, m
  <2>1. m \in Nat /\ m \in 0..Len(StackOf(doc, c)) /\ m \in 0..Len(StackOf(new, c))
    BY <1>9 DEF m
  <2>2. \A k \in 1..m : \A pic : LaidNext(doc, c, F, k, pic) = LaidNext(new, c, G, k, pic)
    BY <1>10 DEF m
  <2>3. Shares(doc, new, c, t, F, G, f, g, m)
    BY <1>5, <1>7, <1>8, <2>1, <2>2, Zenon DEF Shares
  <2>4. f[m] = g[m]
    BY <2>3, TowersShare
  <2>. QED
    BY <2>4 DEF m
<1>12. IsPicture(f[i - 2])
  <2>1. doc.order \in Seq(Id)
    BY <1>0 DEF Sound, OrderSound
  <2>2. c = Root \/ c \in Present(doc)
    BY <1>0
  <2>3. IsPicture(Base(doc, c, t))
    BY <1>0, <2>2, BaseIsPicture
  <2>4. \A l \in ToSet(stack) : IsPicture(F[l])
    BY <1>0, <2>1, StackOfElements, GroupsArePictures
  <2>. HIDE DEF F
  <2>5. \A k \in 0..Len(StackOf(doc, c)) : IsPicture(f[k])
    BY <1>5, <2>1, <2>3, <2>4, TowerIsPicture
  <2>. QED
    BY <1>9, <2>5
<1>13. f[i] = g[i - 1]
  <2>. DEFINE p == f[i - 2]
  <2>1. BackdropIsDest(doc, s) => p = <<>> /\ ~ doc.layer[d].prop["clip"]
    <3>1. f[0] = Base(doc, c, t)
      BY <1>5 DEF Tower
    <3>2. c = Root => f[0] = <<>>
      BY <3>1 DEF Base
    <3>. QED
      BY <1>3, <3>2
  <2>2. StackOf(new, d) = StackOf(doc, d)
    BY <1>0, StackLowered
  <2>3. Stacked(Stacked(p, doc.layer[d], F[d]), doc.layer[s], F[s]) = Stacked(p, new.layer[d], G[d])
    <3>. HIDE DEF p
    <3>1. IsPicture(p)
      BY <1>12 DEF p
    <3>. QED
      BY <2>1, <2>2, <3>1, SiblingMerge
  <2>4. f[i - 1] = Stacked(p, doc.layer[d], F[d])
    <3>1. (i - 1) - 1 = i - 2
      BY <1>1
    <3>2. f[i - 1] = LaidNext(doc, c, F, i - 1, f[i - 2])
      BY <1>3, <1>5, <3>1 DEF Tower
    <3>. QED
      BY <1>3, <3>2, Zenon DEF LaidNext
  <2>5. f[i] = Stacked(f[i - 1], doc.layer[s], F[s])
    <3>1. f[i] = LaidNext(doc, c, F, i, f[i - 1])
      BY <1>5 DEF Tower
    <3>. QED
      BY <1>2, <3>1, Zenon DEF LaidNext
  <2>6. g[i - 1] = Stacked(g[i - 2], new.layer[d], G[d])
    <3>1. (i - 1) - 1 = i - 2 /\ i - 1 \in 1..Len(after) /\ i - 1 \in 1..len - 1 /\ Skip(i, i - 1) = i - 1
      BY <1>1, <1>2, <1>3 DEF Skip
    <3>2. g[i - 1] = LaidNext(new, c, G, i - 1, g[i - 2])
      BY <1>7, <3>1 DEF Tower
    <3>3. after[i - 1] = d
      BY <1>2, <1>3, <3>1
    <3>. QED
      BY <3>2, <3>3, Zenon DEF LaidNext
  <2>. QED
    BY <1>11, <2>3, <2>4, <2>5, <2>6, Zenon
<1>14. ASSUME NEW k \in 1..len - i
       PROVE  \A pic : LaidNext(doc, c, F, i + k, pic) = LaidNext(new, c, G, (i - 1) + k, pic)
  <2>1. /\ i + k \in 1..len /\ i + k # i /\ i + k # i - 1 /\ (i - 1) + k \in 1..len - 1
        /\ Skip(i, (i - 1) + k) = i + k
    BY <1>1 DEF Skip
  <2>2. after[(i - 1) + k] = stack[i + k] /\ Alike(doc, new, t, stack[i + k])
    BY <1>2, <1>4, <2>1
  <2>. DEFINE u == (i - 1) + k
              v == i + k
  <2>3. StackOf(new, c)[u] = StackOf(doc, c)[v] /\ Alike(doc, new, t, StackOf(doc, c)[v])
    BY <2>2
  <2>. HIDE DEF u, v
  <2>4. \A pic : LaidNext(doc, c, F, v, pic) = LaidNext(new, c, G, u, pic)
    BY <2>3, Zenon DEF LaidNext, Alike
  <2>. QED
    BY <2>4 DEF u, v
<1>15. i \in 0..len /\ i - 1 \in Nat /\ Len(after) = (i - 1) + (len - i)
  BY <1>1, <1>2, <1>3
<1>. HIDE DEF F, G
<1>16. Meets(doc, new, c, t, F, G, f, g, i, i - 1)
  BY <1>1, <1>5, <1>7, <1>13, <1>14, <1>15, Zenon DEF Meets
<1>. QED
  BY <1>16, TowersMeet DEF F, G

(* Every stack that is drawn, or carries what is, draws what it drew.          *)
LEMMA StackKept ==
  ASSUME NEW doc, NEW s, NEW d, NEW new, NEW t, NEW n, Merging(doc, s, d, new, t, n),
         NEW c, c = Root \/ c \in Present(new),
         c = d => doc.carrier[s] = d /\ doc.layer[d].prop["visible"],
         \A m \in Present(new) : new.carrier[m] = c => AsBefore(doc, s, d, new, t, m)
  PROVE  StackPicture(doc, c, t, Groups(doc, t)) = StackPicture(new, c, t, Groups(new, t))
<1>1. CASE c = d
  BY <1>1, StackCarried
<1>2. CASE c # d /\ c = doc.carrier[s]
  BY <1>2, StackJoined
<1>3. CASE c # d /\ c # doc.carrier[s]
  BY <1>3, StackUntouched
<1>. QED
  BY <1>1, <1>2, <1>3

(* So the picture of a tile is the one before.                                 *)
LEMMA MergeDrawsAlike ==
  ASSUME NEW doc, NEW s, NEW d, NEW new, NEW t, NEW n, Merging(doc, s, d, new, t, n)
  PROVE  StackPicture(doc, Root, t, Groups(doc, t)) = StackPicture(new, Root, t, Groups(new, t))
<1>. DEFINE S == {l \in Present(new) : AsBefore(doc, s, d, new, t, l)}
<1>0. Sound(doc) /\ Sound(new) /\ d \in Present(doc) /\ Present(new) = Present(doc) \ {s}
  BY DEF Merging, Lowered
<1>1. ASSUME NEW l \in Present(new), \A m \in Present(new) : new.carrier[m] = l => m \in S
      PROVE  l \in S
  <2>1. SUFFICES ASSUME l = d => doc.carrier[s] = d /\ doc.layer[d].prop["visible"]
                 PROVE  Groups(new, t)[l] = Groups(doc, t)[l]
    BY DEF AsBefore
  <2>2. \A m \in Present(new) : new.carrier[m] = l => AsBefore(doc, s, d, new, t, m)
    BY <1>1
  <2>3. StackPicture(doc, l, t, Groups(doc, t)) = StackPicture(new, l, t, Groups(new, t))
    BY <2>1, <2>2, StackKept
  <2>4. Groups(doc, t)[l] = StackPicture(doc, l, t, Groups(doc, t))
    BY <1>0, GroupsAre
  <2>5. Groups(new, t)[l] = StackPicture(new, l, t, Groups(new, t))
    BY <1>0, GroupsAre
  <2>. QED
    BY <2>3, <2>4, <2>5
<1>2. Present(new) \subseteq S
  <2>. HIDE DEF S
  <2>1. OrderSound(new)
    BY <1>0 DEF Sound
  <2>. QED
    BY <1>1, <2>1, Downwards
<1>3. \A m \in Present(new) : new.carrier[m] = Root => AsBefore(doc, s, d, new, t, m)
  BY <1>2
<1>4. Root # d
  BY <1>0, WithinIsWhole
<1>. QED
  BY <1>3, <1>4, StackKept

(* A merge in one frame does not change what a document looks like.            *)
LEMMA MergeKeepsIt ==
  ASSUME NEW a, NEW doc, Sound(doc), NEW n \in Nat, n + 1 = MergeDepth, ShallowDoc(doc, n),
         doc.layer[a.source].prop["translation"] = doc.layer[a.dest].prop["translation"]
  PROVE  Picture(doc) = Picture(FoldMergeDown(a, doc))
<1>. DEFINE new == FoldMergeDown(a, doc)
<1>1. CASE ~ MergeOffered(doc, a.source, a.dest)
  BY <1>1 DEF FoldMergeDown
<1>2. CASE MergeOffered(doc, a.source, a.dest)
  <2>1. Lowered(doc, a.source, a.dest, new)
    BY <1>2, MergeLowers
  <2>. HIDE DEF new
  <2>2. ASSUME NEW t \in Tile PROVE Merging(doc, a.source, a.dest, new, t, n)
    BY <1>2, <2>1 DEF Merging
  <2>3. ASSUME NEW t \in Tile
        PROVE  StackPicture(doc, Root, t, Groups(doc, t)) = StackPicture(new, Root, t, Groups(new, t))
    BY <2>2, MergeDrawsAlike
  <2>4. Picture(doc) = Picture(new)
    BY <2>3, Zenon DEF Picture
  <2>. QED
    BY <2>4 DEF new
<1>. QED
  BY <1>1, <1>2

(* MergeKeepsPicture: a merge down folded from the log, on whatever document   *)
(* the log has put under it, leaves every tile of the picture what it was,     *)
(* reduced by the laws at the head of LayerPicture.                            *)
THEOREM MergingKeepsPicture == Spec => []MergeKeepsPicture
<1>1. ASSUME HistoryInv, SeedShallow PROVE MergeKeepsPicture
  <2>1. Len(acts) \in Nat /\ DOMAIN acts = 1..Len(acts)
    BY <1>1 DEF HistoryInv
  <2>2. SUFFICES ASSUME NEW i \in 1..Len(acts), acts[i].kind = "MergeLayerDown",
                        docs[i].layer[acts[i].source].prop["translation"]
                          = docs[i].layer[acts[i].dest].prop["translation"]
                 PROVE  Picture(docs[i]) = Picture(docs[i + 1])
    BY <2>1 DEF MergeKeepsPicture
  <2>3. /\ Sound(docs[i]) /\ docs[i + 1] = Fold(acts[i], docs[i])
        /\ \E n \in Nat : n + 1 = MergeDepth /\ ShallowDoc(docs[i], n)
    BY <1>1, DocsAreShallow
  <2>4. PICK n \in Nat : n + 1 = MergeDepth /\ ShallowDoc(docs[i], n)
    BY <2>3
  <2>5. Fold(acts[i], docs[i]) = FoldMergeDown(acts[i], docs[i])
    BY <2>2, FoldByKind
  <2>. DEFINE a == acts[i]
              doc == docs[i]
  <2>6. /\ Sound(doc) /\ n + 1 = MergeDepth /\ ShallowDoc(doc, n)
        /\ doc.layer[a.source].prop["translation"] = doc.layer[a.dest].prop["translation"]
    BY <2>2, <2>3, <2>4
  <2>. HIDE DEF a, doc
  <2>7. Picture(doc) = Picture(FoldMergeDown(a, doc))
    BY <2>6, MergeKeepsIt
  <2>. QED
    BY <2>3, <2>5, <2>7 DEF a, doc
<1>2. Spec => []HistoryInv
  BY HistoryInvHolds
<1>3. Spec => []SeedShallow
  BY SeedStaysShallow
<1>. QED
  BY <1>1, <1>2, <1>3, PTL
==============================================================================
