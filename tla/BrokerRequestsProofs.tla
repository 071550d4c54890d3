------------------------ MODULE BrokerRequestsProofs ------------------------
(***************************************************************************)
(* Proofs about the requests the credential broker forwards: its globs     *)
(* mean what they are documented to mean, for patterns, segments and paths *)
(* of any length over any alphabet, and what its four surfaces let through *)
(* is what the sender's policy permits however the service reads it.       *)
(*                                                                         *)
(* The alphabet is a parameter of the lemmas about texts: what symbols     *)
(* there are makes no difference to them.                                  *)
(***************************************************************************)
EXTENDS BrokerRequests, WellFoundedInduction, SequenceTheorems, TLAPS

-----------------------------------------------------------------------------
(* Induction and recursion over the natural numbers, in terms of sets *)

\* A set of natural numbers that is not empty has a least element.
LEMMA LeastElement ==
  ASSUME NEW A \in SUBSET Nat, A # {}
  PROVE  \E n \in A : \A m \in A : n <= m
<1> DEFINE less == OpToRel(<, Nat)
<1>1. PICK n \in A : \A m \in A : <<m, n>> \notin less
  BY NatLessThanWellFounded, WFMin, Zenon
<1>2. ASSUME NEW m \in A, m < n PROVE <<m, n>> \in less
  <2> DEFINE p == <<m, n>>
  <2>1. p \in Nat \X Nat /\ p[1] < p[2]
    BY <1>2
  <2> HIDE DEF p
  <2>2. p \in {ss \in Nat \X Nat : ss[1] < ss[2]}
    BY <2>1
  <2>3. QED
    BY <2>2 DEF OpToRel, p
<1> HIDE DEF less
<1>3. \A m \in A : ~(m < n)
  BY <1>1, <1>2
<1>4. QED
  BY <1>3

\* A set that has zero and the successor of every natural number in it has them all.
LEMMA SetInduction ==
  ASSUME NEW A, 0 \in A, \A n \in Nat : n \in A => n + 1 \in A
  PROVE  Nat \subseteq A
<1>1. CASE Nat \ A = {}
  BY <1>1
<1>2. CASE Nat \ A # {}
  <2>1. PICK n \in Nat \ A : \A m \in Nat \ A : n <= m
    BY <1>2, LeastElement
  <2>2. n # 0 /\ n - 1 \in Nat /\ n - 1 \notin Nat \ A
    BY <2>1
  <2>3. QED
    BY <2>1, <2>2
<1>3. QED
  BY <1>1, <1>2

\* There is the function that starts at x0 and goes on by step.
LEMMA PrimitiveRecursion ==
  ASSUME NEW S, NEW x0 \in S, NEW step \in [Nat -> [S -> S]]
  PROVE  \E g \in [Nat -> S] : g[0] = x0 /\ \A n \in Nat : g[n + 1] = step[n + 1][g[n]]
<1> DEFINE Part(n, h) == /\ h \in [0 .. n -> S] /\ h[0] = x0
                         /\ \A i \in Nat : i < n => h[i + 1] = step[i + 1][h[i]]
<1>1. ASSUME NEW n \in Nat, NEW m \in Nat, NEW h, NEW k, Part(n, h), Part(m, k)
      PROVE  \A i \in Nat : i <= n /\ i <= m => h[i] = k[i]
  <2> DEFINE Agree == {i \in Nat : i <= n /\ i <= m => h[i] = k[i]}
  <2>1. 0 \in Agree
    BY <1>1
  <2>2. \A i \in Nat : i \in Agree => i + 1 \in Agree
    BY <1>1
  <2>3. Nat \subseteq Agree
    <3> HIDE DEF Agree
    <3> QED BY <2>1, <2>2, SetInduction
  <2>4. QED
    BY <2>3
<1>2. \A n \in Nat : \E h : Part(n, h)
  <2> DEFINE Ok == {n \in Nat : \E h : Part(n, h)}
  <2>1. 0 \in Ok
    <3>1. Part(0, [i \in 0 .. 0 |-> x0])
      OBVIOUS
    <3>2. \E h : Part(0, h)
      BY <3>1
    <3> HIDE DEF Part
    <3> QED BY <3>2
  <2>2. ASSUME NEW n \in Nat, n \in Ok PROVE n + 1 \in Ok
    <3>1. PICK h : Part(n, h)
      BY <2>2
    <3> DEFINE next == step[n + 1][h[n]]
               k == [i \in 0 .. n + 1 |-> IF i = n + 1 THEN next ELSE h[i]]
    <3>2. next \in S
      <4>1. h \in [0 .. n -> S] /\ n \in 0 .. n
        BY <3>1
      <4>2. h[n] \in S /\ step[n + 1] \in [S -> S]
        BY <4>1
      <4>3. QED
        BY <4>2
    <3>3. Part(n + 1, k)
      <4>1. h \in [0 .. n -> S] /\ h[0] = x0
        BY <3>1
      <4>2. ASSUME NEW i \in Nat, i < n + 1 PROVE k[i + 1] = step[i + 1][k[i]]
        BY <3>1, <4>2
      <4> HIDE DEF next
      <4>3. k \in [0 .. n + 1 -> S] /\ k[0] = x0
        BY <3>2, <4>1
      <4>4. QED
        BY <4>2, <4>3
    <3>4. \E q : Part(n + 1, q)
      BY <3>3
    <3> HIDE DEF Part
    <3> QED BY <3>4
  <2>3. Nat \subseteq Ok
    <3> HIDE DEF Ok
    <3> QED BY <2>1, <2>2, SetInduction
  <2>4. QED
    BY <2>3
<1> DEFINE part == [n \in Nat |-> CHOOSE h : Part(n, h)]
           g == [n \in Nat |-> part[n][n]]
<1>3. \A n \in Nat : Part(n, part[n])
  <2> HIDE DEF Part
  <2> QED BY <1>2
<1> HIDE DEF part
<1>4. ASSUME NEW n \in Nat PROVE g[n] \in S
  <2>1. part[n] \in [0 .. n -> S] /\ n \in 0 .. n
    BY <1>3
  <2>2. QED
    BY <2>1
<1>5. g[0] = x0
  BY <1>3
<1>6. ASSUME NEW n \in Nat PROVE g[n + 1] = step[n + 1][g[n]]
  <2>1. part[n + 1][n + 1] = step[n + 1][part[n + 1][n]]
    BY <1>3
  <2>2. part[n + 1][n] = part[n][n]
    <3>1. Part(n + 1, part[n + 1]) /\ Part(n, part[n])
      <4> HIDE DEF Part
      <4> QED BY <1>3
    <3>2. n <= n + 1 /\ n <= n /\ n + 1 \in Nat
      OBVIOUS
    <3> HIDE DEF Part
    <3> QED BY <1>1, <3>1, <3>2
  <2>3. QED
    BY <2>1, <2>2
<1> HIDE DEF g
<1>7. g \in [Nat -> S]
  BY <1>4 DEF g
<1>8. QED
  BY <1>5, <1>6, <1>7

-----------------------------------------------------------------------------
(* The loop of matchSingleSegment *)

Text(A) == Seq(A)
Places == [pi : Int, si : Int, star : Int, starSi : Int]

\* A text over an alphabet, as the sequence it is.
LEMMA TextFacts ==
  ASSUME NEW A, NEW t \in Text(A)
  PROVE  Len(t) \in Nat /\ DOMAIN t = 1 .. Len(t) /\ \A i \in 1 .. Len(t) : t[i] \in A
BY DEF Text

\* The four things a round can be.
LEMMA RoundCases ==
  ASSUME NEW A, NEW pat \in Text(A), NEW seg \in Text(A), NEW l \in Places
  PROVE  /\ l.si = Len(seg) => Round(pat, seg, l) = l
         /\ l.si < Len(seg) /\ Stars(pat, l) =>
              Round(pat, seg, l) =
                [pi |-> l.pi + 1, si |-> l.si, star |-> l.pi, starSi |-> l.si]
         /\ l.si < Len(seg) /\ ~Stars(pat, l) /\ Meets(pat, seg, l) =>
              Round(pat, seg, l) =
                [pi |-> l.pi + 1, si |-> l.si + 1, star |-> l.star, starSi |-> l.starSi]
         /\ (l.si < Len(seg) /\ ~Stars(pat, l) /\ ~Meets(pat, seg, l)) \/ l.si > Len(seg) =>
              Round(pat, seg, l) =
                IF l.star < 0 THEN l
                ELSE [pi |-> l.star + 1, si |-> l.starSi + 1, star |-> l.star,
                      starSi |-> l.starSi + 1]
<1>1. Len(seg) \in Nat /\ l.si \in Int
  BY TextFacts DEF Places
<1> DEFINE n == Len(seg)
           stars == Stars(pat, l)
           meets == Meets(pat, seg, l)
<1>2. Round(pat, seg, l) =
        CASE l.si = n                       -> l
          [] l.si < n /\ stars              ->
               [pi |-> l.pi + 1, si |-> l.si, star |-> l.pi, starSi |-> l.si]
          [] l.si < n /\ ~stars /\ meets    ->
               [pi |-> l.pi + 1, si |-> l.si + 1, star |-> l.star, starSi |-> l.starSi]
          [] OTHER -> IF l.star < 0 THEN l
                      ELSE [pi |-> l.star + 1, si |-> l.starSi + 1, star |-> l.star,
                            starSi |-> l.starSi + 1]
  BY DEF Round
<1>3. n \in Nat
  BY <1>1
<1> HIDE DEF n, stars, meets
<1>4. QED
  BY <1>1, <1>2, <1>3 DEF n, stars, meets

\* A round leads from places to places.
LEMMA RoundType ==
  ASSUME NEW A, NEW pat \in Text(A), NEW seg \in Text(A), NEW l \in Places
  PROVE  Round(pat, seg, l) \in Places
<1>1. Len(seg) \in Nat /\ l.si \in Int
  BY TextFacts DEF Places
<1>2. /\ [pi |-> l.pi + 1, si |-> l.si, star |-> l.pi, starSi |-> l.si] \in Places
      /\ [pi |-> l.pi + 1, si |-> l.si + 1, star |-> l.star, starSi |-> l.starSi] \in Places
      /\ [pi |-> l.star + 1, si |-> l.starSi + 1, star |-> l.star, starSi |-> l.starSi + 1]
           \in Places
  BY DEF Places
<1>3. \/ l.si = Len(seg)
      \/ l.si < Len(seg) /\ Stars(pat, l)
      \/ l.si < Len(seg) /\ ~Stars(pat, l) /\ Meets(pat, seg, l)
      \/ (l.si < Len(seg) /\ ~Stars(pat, l) /\ ~Meets(pat, seg, l)) \/ l.si > Len(seg)
  BY <1>1
<1>4. QED
  BY <1>2, <1>3, RoundCases

\* The loop is what its equation says: round after round from the start.
LEMMA LoopRounds ==
  ASSUME NEW A, NEW pat \in Text(A), NEW seg \in Text(A)
  PROVE  /\ Loop(pat, seg) \in [Nat -> Places]
         /\ Loop(pat, seg)[0] = LoopStart
         /\ \A n \in Nat : Loop(pat, seg)[n + 1] = Round(pat, seg, Loop(pat, seg)[n])
<1> DEFINE step == [n \in Nat |-> [l \in Places |-> Round(pat, seg, l)]]
           Is(f) == f = [n \in Nat |-> IF n = 0 THEN LoopStart ELSE Round(pat, seg, f[n - 1])]
<1>1. LoopStart \in Places /\ step \in [Nat -> [Places -> Places]]
  BY RoundType DEF LoopStart, Places
<1>2. PICK g \in [Nat -> Places] :
        g[0] = LoopStart /\ \A n \in Nat : g[n + 1] = step[n + 1][g[n]]
  <2> HIDE DEF step
  <2> QED BY <1>1, PrimitiveRecursion
<1>3. Is(g)
  <2>1. ASSUME NEW n \in Nat \ {0} PROVE g[n] = Round(pat, seg, g[n - 1])
    <3>1. n - 1 \in Nat /\ (n - 1) + 1 = n
      OBVIOUS
    <3>2. QED
      BY <1>2, <3>1
  <2>2. g = [n \in Nat |-> g[n]]
    BY <1>2
  <2>3. QED
    BY <1>2, <2>1, <2>2
<1>4. Is(Loop(pat, seg))
  <2>1. Loop(pat, seg) = CHOOSE f : Is(f)
    BY DEF Loop
  <2> HIDE DEF Is
  <2>2. QED
    BY <1>3, <2>1
<1>5. ASSUME NEW f, Is(f) PROVE f[0] = LoopStart /\ \A n \in Nat : f[n + 1] = Round(pat, seg, f[n])
  BY <1>5
<1>6. ASSUME NEW f, Is(f) PROVE f \in [Nat -> Places]
  <2> DEFINE Typed == {n \in Nat : f[n] \in Places}
  <2>1. 0 \in Typed
    BY <1>1, <1>5, <1>6
  <2>2. \A n \in Nat : n \in Typed => n + 1 \in Typed
    BY <1>5, <1>6, RoundType
  <2>3. Nat \subseteq Typed
    <3> HIDE DEF Typed
    <3> QED BY <2>1, <2>2, SetInduction
  <2>4. f = [n \in Nat |-> f[n]]
    BY <1>6
  <2>5. QED
    BY <2>3, <2>4
<1>7. QED
  <2> HIDE DEF Is
  <2> QED BY <1>4, <1>5, <1>6

\* A cut of the first p symbols of the pattern over the first t of the segment.
Cut(pat, seg, p, t, c) ==
  /\ c \in [0 .. p -> 0 .. Len(seg)] /\ c[0] = 0 /\ c[p] = t
  /\ \A i \in 1 .. p :
       /\ c[i - 1] <= c[i]
       /\ pat[i] = "*" \/ (c[i] = c[i - 1] + 1 /\ pat[i] \in {"?", seg[c[i]]})

\* A segment fits a pattern when there is a cut of the whole of both.
LEMMA FitsIsCut ==
  ASSUME NEW A, NEW pat \in Text(A), NEW seg \in Text(A)
  PROVE  SegmentFits(pat, seg) <=> \E c : Cut(pat, seg, Len(pat), Len(seg), c)
BY TextFacts DEF SegmentFits, Cut

\* The indices of a loop: what follows the last star has met the segment symbol by
\* symbol.
InStep(pat, seg, l) ==
  /\ l \in Places
  /\ 0 <= l.star + 1 /\ l.star + 1 <= l.pi /\ l.pi <= Len(pat)
  /\ 0 <= l.starSi /\ l.starSi <= l.si /\ l.si <= Len(seg)
  /\ l.pi - (l.star + 1) = l.si - l.starSi
  /\ \A i \in Int : l.star + 1 < i /\ i <= l.pi =>
       pat[i] # "*" /\ pat[i] \in {"?", seg[l.starSi + i - (l.star + 1)]}

\* What is before the last star fits, and in every cut of the whole the star reaches at
\* least as far as it does here.
LoopInv(pat, seg, l) ==
  /\ InStep(pat, seg, l)
  /\ l.star < 0 => l.starSi = 0
  /\ l.star >= 0 => pat[l.star + 1] = "*"
  /\ \E d : Cut(pat, seg, l.star + 1, l.starSi, d)
  /\ \A c : Cut(pat, seg, Len(pat), Len(seg), c) => c[l.star + 1] >= l.starSi

\* The invariant holds before the first round.
LEMMA StartInv ==
  ASSUME NEW A, NEW pat \in Text(A), NEW seg \in Text(A)
  PROVE  LoopInv(pat, seg, LoopStart)
<1>1. Len(pat) \in Nat /\ Len(seg) \in Nat
  BY TextFacts
<1>2. LoopStart \in Places /\ LoopStart.pi = 0 /\ LoopStart.si = 0 /\ LoopStart.star = -1
        /\ LoopStart.starSi = 0
  BY DEF LoopStart, Places
<1>3. InStep(pat, seg, LoopStart)
  BY <1>1, <1>2 DEF InStep
<1>4. Cut(pat, seg, 0, 0, [i \in 0 .. 0 |-> 0])
  BY <1>1 DEF Cut
<1>5. \A c : Cut(pat, seg, Len(pat), Len(seg), c) => c[0] >= 0
  BY DEF Cut
<1>6. -1 + 1 = 0
  OBVIOUS
<1>7. \E d : Cut(pat, seg, 0, 0, d)
  BY <1>4
<1> HIDE DEF LoopStart
<1>8. QED
  BY <1>2, <1>3, <1>5, <1>6, <1>7 DEF LoopInv

\* Whatever cut there is goes straight on where the loop did.
LEMMA StraightOn ==
  ASSUME NEW A, NEW pat \in Text(A), NEW seg \in Text(A), NEW l, InStep(pat, seg, l),
         NEW c, Cut(pat, seg, Len(pat), Len(seg), c)
  PROVE  \A i \in Int : l.star + 1 <= i /\ i <= l.pi => c[i] = c[l.star + 1] + (i - (l.star + 1))
<1>1. Len(pat) \in Nat /\ Len(seg) \in Nat
  BY TextFacts
<1> DEFINE q == l.star + 1
<1>2. q \in Nat /\ l.pi \in Nat /\ q <= l.pi /\ l.pi <= Len(pat)
  BY <1>1 DEF InStep, Places
<1>3. \A i \in Int : q < i /\ i <= l.pi => pat[i] # "*"
  BY DEF InStep
<1> HIDE DEF q
<1>4. \A i \in 0 .. Len(pat) : c[i] \in Int
  BY <1>1 DEF Cut
<1>5. \A i \in 1 .. Len(pat) : pat[i] # "*" => c[i] = c[i - 1] + 1
  BY DEF Cut
<1> DEFINE Straight == {n \in Nat : q + n <= l.pi => c[q + n] = c[q] + n}
<1>6. 0 \in Straight
  BY <1>1, <1>2, <1>4
<1>7. ASSUME NEW n \in Nat, n \in Straight PROVE n + 1 \in Straight
  <2>1. SUFFICES ASSUME q + (n + 1) <= l.pi PROVE c[q + (n + 1)] = c[q] + (n + 1)
    OBVIOUS
  <2>2. c[q + n] = c[q] + n
    BY <1>2, <1>7, <2>1
  <2>3. q + (n + 1) \in 1 .. Len(pat) /\ (q + (n + 1)) - 1 = q + n
    BY <1>1, <1>2, <2>1
  <2>4. c[q + (n + 1)] = c[q + n] + 1
    BY <1>2, <1>3, <1>5, <2>1, <2>3
  <2>5. c[q] \in Int
    BY <1>1, <1>2, <1>4
  <2>6. QED
    BY <2>2, <2>4, <2>5
<1>8. Nat \subseteq Straight
  <2> HIDE DEF Straight
  <2> QED BY <1>6, <1>7, SetInduction
<1>9. ASSUME NEW i \in Int, q <= i, i <= l.pi PROVE c[i] = c[q] + (i - q)
  <2>1. i - q \in Nat /\ q + (i - q) = i
    BY <1>2, <1>9
  <2>2. QED
    BY <1>8, <1>9, <2>1
<1>10. QED
  BY <1>9 DEF q

\* A cut goes on by one symbol of the pattern.
LEMMA CutGoesOn ==
  ASSUME NEW A, NEW pat \in Text(A), NEW seg \in Text(A), NEW p \in Nat,
         p < Len(pat), NEW t \in Nat,
         NEW u \in Nat, t <= u, u <= Len(seg), NEW d, Cut(pat, seg, p, t, d),
         pat[p + 1] = "*" \/ (u = t + 1 /\ pat[p + 1] \in {"?", seg[u]})
  PROVE  \E e : Cut(pat, seg, p + 1, u, e)
<1>1. Len(pat) \in Nat /\ Len(seg) \in Nat
  BY TextFacts
<1> DEFINE e == [i \in 0 .. p + 1 |-> IF i = p + 1 THEN u ELSE d[i]]
<1>2. d \in [0 .. p -> 0 .. Len(seg)] /\ d[0] = 0 /\ d[p] = t
  BY DEF Cut
<1>3. e \in [0 .. p + 1 -> 0 .. Len(seg)] /\ e[0] = 0 /\ e[p + 1] = u
  BY <1>1, <1>2
<1>4. ASSUME NEW i \in 1 .. p + 1
      PROVE  /\ e[i - 1] <= e[i]
             /\ pat[i] = "*" \/ (e[i] = e[i - 1] + 1 /\ pat[i] \in {"?", seg[e[i]]})
  <2>1. CASE i = p + 1
    <3>1. e[i] = u /\ e[i - 1] = t
      BY <1>2, <2>1
    <3> HIDE DEF e
    <3>2. QED
      BY <2>1, <3>1
  <2>2. CASE i # p + 1
    <3>1. i \in 1 .. p /\ e[i] = d[i] /\ e[i - 1] = d[i - 1]
      BY <2>2
    <3> HIDE DEF e
    <3>2. QED
      BY <3>1 DEF Cut
  <2>3. QED
    BY <2>1, <2>2
<1> HIDE DEF e
<1>5. Cut(pat, seg, p + 1, u, e)
  BY <1>3, <1>4 DEF Cut
<1>6. QED
  BY <1>5

\* What the loop has matched so far fits.
LEMMA MatchedSoFar ==
  ASSUME NEW A, NEW pat \in Text(A), NEW seg \in Text(A), NEW l, LoopInv(pat, seg, l)
  PROVE  \E e : Cut(pat, seg, l.pi, l.si, e)
<1>1. Len(pat) \in Nat /\ Len(seg) \in Nat
  BY TextFacts
<1> DEFINE q == l.star + 1
           t == l.starSi
<1>2. /\ q \in Nat /\ l.pi \in Nat /\ q <= l.pi /\ l.pi <= Len(pat)
      /\ t \in Nat /\ l.si \in Nat /\ t <= l.si /\ l.si <= Len(seg) /\ l.pi - q = l.si - t
  BY <1>1 DEF LoopInv, InStep, Places
<1>3. \A i \in Int : q < i /\ i <= l.pi => pat[i] \in {"?", seg[t + i - q]}
  BY DEF LoopInv, InStep
<1>4. \E d : Cut(pat, seg, q, t, d)
  BY DEF LoopInv
<1> HIDE DEF q, t
<1> DEFINE Fits == {n \in Nat : q + n <= l.pi => \E e : Cut(pat, seg, q + n, t + n, e)}
<1>5. 0 \in Fits
  <2>1. q + 0 = q /\ t + 0 = t
    BY <1>2
  <2>2. QED
    BY <1>4, <2>1
<1>6. ASSUME NEW n \in Nat, n \in Fits PROVE n + 1 \in Fits
  <2>1. SUFFICES ASSUME q + (n + 1) <= l.pi
                 PROVE  \E e : Cut(pat, seg, q + (n + 1), t + (n + 1), e)
    OBVIOUS
  <2>2. PICK e : Cut(pat, seg, q + n, t + n, e)
    BY <1>2, <1>6, <2>1
  <2>3. /\ q + n \in Nat /\ q + n < Len(pat) /\ t + n \in Nat /\ t + (n + 1) \in Nat
        /\ t + n <= t + (n + 1) /\ t + (n + 1) <= Len(seg) /\ t + (n + 1) = (t + n) + 1
        /\ q + (n + 1) = (q + n) + 1 /\ t + (q + (n + 1)) - q = t + (n + 1)
        /\ q + (n + 1) \in Int /\ q < q + (n + 1)
    BY <1>1, <1>2, <2>1
  <2>4. pat[q + (n + 1)] \in {"?", seg[t + (n + 1)]}
    BY <1>3, <2>1, <2>3
  <2>5. pat[(q + n) + 1] \in {"?", seg[t + (n + 1)]}
    BY <2>3, <2>4
  <2>6. \E f : Cut(pat, seg, (q + n) + 1, t + (n + 1), f)
    BY <2>2, <2>3, <2>5, CutGoesOn
  <2>7. QED
    BY <2>3, <2>6
<1>7. Nat \subseteq Fits
  <2> HIDE DEF Fits
  <2> QED BY <1>5, <1>6, SetInduction
<1>8. l.pi - q \in Nat /\ q + (l.pi - q) = l.pi /\ t + (l.pi - q) = l.si
  BY <1>2
<1>9. l.pi - q \in Fits /\ q + (l.pi - q) <= l.pi
  <2> HIDE DEF Fits
  <2> QED BY <1>2, <1>7, <1>8
<1>10. \E e : Cut(pat, seg, q + (l.pi - q), t + (l.pi - q), e)
  BY <1>9
<1>11. QED
  BY <1>8, <1>10

\* A star begins to eat where the loop is.
LEMMA StarRound ==
  ASSUME NEW A, NEW pat \in Text(A), NEW seg \in Text(A), NEW l, LoopInv(pat, seg, l), Stars(pat, l)
  PROVE  LoopInv(pat, seg, [pi |-> l.pi + 1, si |-> l.si, star |-> l.pi, starSi |-> l.si])
<1> DEFINE m == [pi |-> l.pi + 1, si |-> l.si, star |-> l.pi, starSi |-> l.si]
<1>1. Len(pat) \in Nat /\ Len(seg) \in Nat
  BY TextFacts
<1>2. /\ l.star + 1 \in Nat /\ l.pi \in Nat /\ l.star + 1 <= l.pi /\ l.pi < Len(pat)
      /\ l.starSi \in Nat /\ l.si \in Nat /\ l.starSi <= l.si /\ l.si <= Len(seg)
      /\ l.pi - (l.star + 1) = l.si - l.starSi /\ pat[l.pi + 1] = "*"
  BY <1>1 DEF LoopInv, InStep, Places, Stars
<1>3. m \in Places /\ m.pi = l.pi + 1 /\ m.si = l.si /\ m.star = l.pi /\ m.starSi = l.si
  BY <1>2 DEF Places
<1> HIDE DEF m
<1>4. InStep(pat, seg, m)
  BY <1>1, <1>2, <1>3 DEF InStep
<1>5. \E d : Cut(pat, seg, l.pi + 1, l.si, d)
  BY <1>2, MatchedSoFar, CutGoesOn
<1>6. ASSUME NEW c, Cut(pat, seg, Len(pat), Len(seg), c) PROVE c[l.pi + 1] >= l.si
  <2>1. c[l.star + 1] >= l.starSi
    BY <1>6 DEF LoopInv
  <2>2. c[l.pi] = c[l.star + 1] + (l.pi - (l.star + 1))
    <3>1. \A i \in Int : l.star + 1 <= i /\ i <= l.pi => c[i] = c[l.star + 1] + (i - (l.star + 1))
      BY <1>6, StraightOn DEF LoopInv
    <3>2. QED
      BY <1>2, <3>1
  <2>3. c[l.pi + 1] >= c[l.pi] /\ c[l.pi + 1] \in Int /\ c[l.pi] \in Int /\ c[l.star + 1] \in Int
    <3>1. l.pi + 1 \in 1 .. Len(pat) /\ (l.pi + 1) - 1 = l.pi
      BY <1>1, <1>2
    <3>2. \A i \in 0 .. Len(pat) : c[i] \in Int
      BY <1>1, <1>6 DEF Cut
    <3>3. l.star + 1 \in 0 .. Len(pat) /\ l.pi \in 0 .. Len(pat) /\ l.pi + 1 \in 0 .. Len(pat)
      BY <1>1, <1>2
    <3>4. c[(l.pi + 1) - 1] <= c[l.pi + 1]
      BY <1>6, <3>1 DEF Cut
    <3>5. QED
      BY <3>1, <3>2, <3>3, <3>4
  <2>4. c[l.pi] >= l.si
    <3>1. c[l.star + 1] >= l.starSi /\ c[l.pi] = c[l.star + 1] + (l.si - l.starSi)
      BY <1>2, <2>1, <2>2
    <3> DEFINE q == c[l.star + 1]
               t == l.starSi
               u == l.si
               v == c[l.pi]
    <3>2. q \in Int /\ t \in Int /\ u \in Int /\ v \in Int /\ q >= t /\ v = q + (u - t)
      BY <1>2, <2>3, <3>1
    <3> HIDE DEF q, t, u, v
    <3>3. v >= u
      BY <3>2
    <3>4. QED
      BY <3>3 DEF u, v
  <2>5. QED
    BY <1>2, <2>3, <2>4
<1>7. m.star >= 0 /\ ~(m.star < 0)
  BY <1>2, <1>3
<1>8. LoopInv(pat, seg, m)
  BY <1>2, <1>3, <1>4, <1>5, <1>6, <1>7 DEF LoopInv
<1>9. QED
  BY <1>8 DEF m

\* A symbol that meets the segment's is passed.
LEMMA MeetRound ==
  ASSUME NEW A, NEW pat \in Text(A), NEW seg \in Text(A), NEW l, LoopInv(pat, seg, l),
         l.si < Len(seg), ~Stars(pat, l), Meets(pat, seg, l)
  PROVE  LoopInv(pat, seg,
                 [pi |-> l.pi + 1, si |-> l.si + 1, star |-> l.star, starSi |-> l.starSi])
<1> DEFINE m == [pi |-> l.pi + 1, si |-> l.si + 1, star |-> l.star, starSi |-> l.starSi]
<1>1. Len(pat) \in Nat /\ Len(seg) \in Nat
  BY TextFacts
<1>2. /\ l.star + 1 \in Nat /\ l.pi \in Nat /\ l.star + 1 <= l.pi /\ l.pi < Len(pat)
      /\ l.starSi \in Nat /\ l.si \in Nat /\ l.starSi <= l.si /\ l.si < Len(seg)
      /\ l.pi - (l.star + 1) = l.si - l.starSi
      /\ pat[l.pi + 1] # "*" /\ pat[l.pi + 1] \in {"?", seg[l.si + 1]}
      /\ l.star \in Int
  BY <1>1 DEF LoopInv, InStep, Places, Stars, Meets
<1>3. m \in Places /\ m.pi = l.pi + 1 /\ m.si = l.si + 1 /\ m.star = l.star /\ m.starSi = l.starSi
  BY <1>2 DEF Places
<1> HIDE DEF m
<1> DEFINE p == l.pi
           q == l.star + 1
           t == l.starSi
           u == l.si
<1>4. /\ p \in Nat /\ q \in Nat /\ t \in Nat /\ u \in Nat /\ q <= p /\ p < Len(pat)
      /\ t <= u /\ u < Len(seg) /\ p - q = u - t
  BY <1>2
<1>5. ASSUME NEW i \in Int, l.star + 1 < i, i <= l.pi + 1
      PROVE  pat[i] # "*" /\ pat[i] \in {"?", seg[l.starSi + i - (l.star + 1)]}
  <2>1. CASE i <= l.pi
    BY <1>5, <2>1 DEF LoopInv, InStep
  <2>2. CASE i = l.pi + 1
    <3>1. t + i - q = u + 1
      <4> HIDE DEF p, q, t, u
      <4>1. i = p + 1
        BY <2>2 DEF p
      <4>2. QED
        BY <1>4, <4>1
    <3>2. QED
      BY <1>2, <2>2, <3>1
  <2>3. QED
    BY <1>2, <1>5, <2>1, <2>2
<1>6. InStep(pat, seg, m)
  <2>1. /\ 0 <= q /\ q <= p + 1 /\ p + 1 <= Len(pat)
        /\ 0 <= t /\ t <= u + 1 /\ u + 1 <= Len(seg)
        /\ (p + 1) - q = (u + 1) - t
    <3> HIDE DEF p, q, t, u
    <3> QED BY <1>1, <1>4
  <2>2. QED
    BY <1>3, <1>5, <2>1 DEF InStep
<1>7. LoopInv(pat, seg, m)
  BY <1>3, <1>6 DEF LoopInv
<1>8. QED
  BY <1>7 DEF m

\* A star at the end of a cut can eat more.
LEMMA StarEatsMore ==
  ASSUME NEW A, NEW pat \in Text(A), NEW seg \in Text(A), NEW p \in Nat,
         p < Len(pat), NEW t \in Nat,
         NEW u \in Nat, t <= u, u <= Len(seg), NEW d, Cut(pat, seg, p + 1, t, d),
         pat[p + 1] = "*"
  PROVE  \E e : Cut(pat, seg, p + 1, u, e)
<1>1. Len(pat) \in Nat /\ Len(seg) \in Nat
  BY TextFacts
<1> DEFINE e == [i \in 0 .. p + 1 |-> IF i = p + 1 THEN u ELSE d[i]]
<1>2. /\ d \in [0 .. p + 1 -> 0 .. Len(seg)] /\ d[0] = 0 /\ d[p + 1] = t
      /\ \A i \in 1 .. p + 1 : d[i - 1] <= d[i]
  BY DEF Cut
<1>3. e \in [0 .. p + 1 -> 0 .. Len(seg)] /\ e[0] = 0 /\ e[p + 1] = u
  BY <1>1, <1>2
<1>4. ASSUME NEW i \in 1 .. p + 1
      PROVE  /\ e[i - 1] <= e[i]
             /\ pat[i] = "*" \/ (e[i] = e[i - 1] + 1 /\ pat[i] \in {"?", seg[e[i]]})
  <2>1. CASE i = p + 1
    <3>1. /\ e[i] = u /\ e[i - 1] = d[p] /\ d[(p + 1) - 1] <= d[p + 1]
          /\ (p + 1) - 1 = p /\ d[p] \in Int
      BY <1>1, <1>2, <2>1
    <3>2. e[i - 1] <= e[i]
      <4> DEFINE x == d[p]
      <4>1. x \in Int /\ x <= t
        BY <1>2, <3>1
      <4> HIDE DEF x
      <4>2. x <= u
        BY <4>1
      <4> HIDE DEF e
      <4>3. QED
        BY <3>1, <4>2 DEF x
    <3> HIDE DEF e
    <3>3. QED
      BY <2>1, <3>2
  <2>2. CASE i # p + 1
    <3>1. e[i] = d[i] /\ e[i - 1] = d[i - 1]
      BY <2>2
    <3> HIDE DEF e
    <3>2. QED
      BY <3>1 DEF Cut
  <2>3. QED
    BY <2>1, <2>2
<1> HIDE DEF e
<1>5. Cut(pat, seg, p + 1, u, e)
  BY <1>3, <1>4 DEF Cut
<1>6. QED
  BY <1>5

\* Where nothing matches, the star reaches further in every cut.
LEMMA StuckReachesFurther ==
  ASSUME NEW A, NEW pat \in Text(A), NEW seg \in Text(A), NEW l, LoopInv(pat, seg, l),
         l.si < Len(seg), ~Stars(pat, l), ~Meets(pat, seg, l),
         NEW c, Cut(pat, seg, Len(pat), Len(seg), c)
  PROVE  c[l.star + 1] > l.starSi
<1>1. Len(pat) \in Nat /\ Len(seg) \in Nat
  BY TextFacts
<1> DEFINE p == l.pi
           q == l.star + 1
           t == l.starSi
           u == l.si
<1>2. /\ p \in Nat /\ q \in Nat /\ t \in Nat /\ u \in Nat /\ q <= p /\ p <= Len(pat)
      /\ t <= u /\ u < Len(seg) /\ p - q = u - t
  BY <1>1 DEF LoopInv, InStep, Places
<1>3. c[q] >= t /\ c[p] = c[q] + (p - q)
  BY <1>2, StraightOn DEF LoopInv
<1>4. \A i \in 0 .. Len(pat) : c[i] \in Int
  BY <1>1 DEF Cut
<1>5. c[p] # u
  <2>1. CASE p = Len(pat)
    <3>1. c[Len(pat)] = Len(seg)
      BY DEF Cut
    <3> HIDE DEF p, u
    <3>2. QED
      BY <1>1, <1>2, <2>1, <3>1
  <2>2. CASE p < Len(pat)
    <3>1. pat[p + 1] # "*" /\ pat[p + 1] \notin {"?", seg[u + 1]}
      BY <2>2 DEF Stars, Meets
    <3> HIDE DEF p, q, t, u
    <3>2. p + 1 \in 1 .. Len(pat) /\ (p + 1) - 1 = p
      BY <1>1, <1>2, <2>2
    <3>3. c[p + 1] = c[(p + 1) - 1] + 1 /\ pat[p + 1] \in {"?", seg[c[p + 1]]}
      BY <3>1, <3>2 DEF Cut
    <3>4. QED
      BY <3>1, <3>2, <3>3
  <2>3. QED
    <3> HIDE DEF p
    <3> QED BY <1>1, <1>2, <2>1, <2>2
<1> HIDE DEF p, q, t, u
<1>6. c[q] \in Int
  BY <1>1, <1>2, <1>4
<1>7. c[q] > t
  BY <1>2, <1>3, <1>5, <1>6
<1>8. QED
  BY <1>7 DEF q, t

\* The last star eats one more symbol.
LEMMA EatRound ==
  ASSUME NEW A, NEW pat \in Text(A), NEW seg \in Text(A), NEW l, LoopInv(pat, seg, l),
         l.si < Len(seg), ~Stars(pat, l), ~Meets(pat, seg, l), ~(l.star < 0)
  PROVE  LoopInv(pat, seg, [pi |-> l.star + 1, si |-> l.starSi + 1, star |-> l.star,
                            starSi |-> l.starSi + 1])
<1> DEFINE m == [pi |-> l.star + 1, si |-> l.starSi + 1, star |-> l.star,
                 starSi |-> l.starSi + 1]
<1>1. Len(pat) \in Nat /\ Len(seg) \in Nat
  BY TextFacts
<1>2. l.star \in Int /\ l.starSi \in Int /\ l.pi \in Int /\ l.si \in Int
  BY DEF LoopInv, InStep, Places
<1>3. l.star \in Nat /\ l.star < Len(pat) /\ l.starSi \in Nat /\ l.starSi + 1 <= Len(seg)
  BY <1>1, <1>2 DEF LoopInv, InStep
<1>4. m \in Places /\ m.pi = l.star + 1 /\ m.si = l.starSi + 1 /\ m.star = l.star
        /\ m.starSi = l.starSi + 1
  BY <1>3 DEF Places
<1> HIDE DEF m
<1>5. InStep(pat, seg, m)
  BY <1>1, <1>3, <1>4 DEF InStep
<1>6. \E e : Cut(pat, seg, l.star + 1, l.starSi + 1, e)
  <2>1. PICK d : Cut(pat, seg, l.star + 1, l.starSi, d)
    BY DEF LoopInv
  <2>2. pat[l.star + 1] = "*"
    BY <1>3 DEF LoopInv
  <2> DEFINE p == l.star
             t == l.starSi
  <2>3. /\ p \in Nat /\ p < Len(pat) /\ t \in Nat /\ t + 1 \in Nat /\ t <= t + 1
        /\ t + 1 <= Len(seg) /\ pat[p + 1] = "*" /\ Cut(pat, seg, p + 1, t, d)
    BY <1>3, <2>1, <2>2
  <2> HIDE DEF p, t
  <2>4. \E e : Cut(pat, seg, p + 1, t + 1, e)
    BY <2>3, StarEatsMore
  <2>5. QED
    BY <2>4 DEF p, t
<1>7. ASSUME NEW c, Cut(pat, seg, Len(pat), Len(seg), c) PROVE c[l.star + 1] >= l.starSi + 1
  <2>1. c[l.star + 1] > l.starSi
    BY <1>7, StuckReachesFurther
  <2>2. c[l.star + 1] \in Int
    <3>1. l.star + 1 \in 0 .. Len(pat)
      BY <1>1, <1>3
    <3>2. QED
      BY <1>1, <1>7, <3>1 DEF Cut
  <2>3. QED
    BY <1>3, <2>1, <2>2
<1>8. pat[l.star + 1] = "*"
  BY <1>3 DEF LoopInv
<1>9. LoopInv(pat, seg, m)
  BY <1>3, <1>4, <1>5, <1>6, <1>7, <1>8 DEF LoopInv
<1>10. QED
  BY <1>9 DEF m

\* A round keeps it.
LEMMA RoundInv ==
  ASSUME NEW A, NEW pat \in Text(A), NEW seg \in Text(A), NEW l, LoopInv(pat, seg, l)
  PROVE  LoopInv(pat, seg, Round(pat, seg, l))
<1>1. l \in Places /\ l.si \in Int /\ l.si <= Len(seg) /\ Len(seg) \in Nat
  BY TextFacts DEF LoopInv, InStep, Places
<1>2. CASE l.si = Len(seg)
  BY <1>1, <1>2, RoundCases
<1>3. CASE l.si < Len(seg) /\ Stars(pat, l)
  BY <1>1, <1>3, RoundCases, StarRound
<1>4. CASE l.si < Len(seg) /\ ~Stars(pat, l) /\ Meets(pat, seg, l)
  BY <1>1, <1>4, RoundCases, MeetRound
<1>5. CASE l.si < Len(seg) /\ ~Stars(pat, l) /\ ~Meets(pat, seg, l)
  <2>1. CASE l.star < 0
    BY <1>1, <1>5, <2>1, RoundCases
  <2>2. CASE ~(l.star < 0)
    BY <1>1, <1>5, <2>2, RoundCases, EatRound
  <2>3. QED
    BY <2>1, <2>2
<1>6. QED
  BY <1>1, <1>2, <1>3, <1>4, <1>5

\* It holds after any number of rounds.
LEMMA LoopKeepsInv ==
  ASSUME NEW A, NEW pat \in Text(A), NEW seg \in Text(A)
  PROVE  \A n \in Nat : LoopInv(pat, seg, Loop(pat, seg)[n])
<1> DEFINE Kept == {n \in Nat : LoopInv(pat, seg, Loop(pat, seg)[n])}
<1>1. 0 \in Kept
  BY LoopRounds, StartInv
<1>2. ASSUME NEW n \in Nat, n \in Kept PROVE n + 1 \in Kept
  BY <1>2, LoopRounds, RoundInv
<1>3. Nat \subseteq Kept
  <2> HIDE DEF Kept
  <2> QED BY <1>1, <1>2, SetInduction
<1>4. QED
  BY <1>3

\* What is left for the loop to do at most.
Left(pat, seg, l) == (Len(seg) - l.starSi) * (Len(pat) + 1) + (Len(pat) - l.pi)

Over(pat, seg, l) ==
  l.si = Len(seg) \/ (~Stars(pat, l) /\ ~Meets(pat, seg, l) /\ l.star < 0)

\* What little multiplication the measure needs.
LEMMA Products ==
  ASSUME NEW a \in Nat, NEW b \in Nat, NEW k \in Nat
  PROVE  /\ a * k \in Nat
         /\ (a + 1) * k = a * k + k
         /\ (a + b) * k = a * k + b * k
OBVIOUS

\* The measure of a loop is a natural number.
LEMMA LeftIsNat ==
  ASSUME NEW A, NEW pat \in Text(A), NEW seg \in Text(A), NEW l, LoopInv(pat, seg, l)
  PROVE  Left(pat, seg, l) \in Nat
<1>1. Len(seg) - l.starSi \in Nat /\ Len(pat) - l.pi \in Nat /\ Len(pat) + 1 \in Nat
  BY TextFacts DEF LoopInv, InStep, Places
<1>2. (Len(seg) - l.starSi) * (Len(pat) + 1) \in Nat
  BY <1>1, Products
<1>3. QED
  BY <1>1, <1>2 DEF Left

\* A round that is not the last leaves less to do.
LEMMA RoundLeavesLess ==
  ASSUME NEW A, NEW pat \in Text(A), NEW seg \in Text(A), NEW l,
         LoopInv(pat, seg, l), ~Over(pat, seg, l)
  PROVE  Left(pat, seg, Round(pat, seg, l)) + 1 <= Left(pat, seg, l)
<1> DEFINE P == Len(pat)
           S == Len(seg)
           k == P + 1
           p == l.pi
           t == l.starSi
           u == l.si
           s == l.star
<1>1. /\ P \in Nat /\ S \in Nat /\ k \in Nat /\ k = P + 1 /\ p \in Nat /\ t \in Nat /\ u \in Nat
      /\ s \in Int /\ s + 1 >= 0 /\ s + 1 <= p /\ p <= P /\ t <= u /\ u < S
  BY TextFacts DEF LoopInv, InStep, Places, Over
<1>2. l \in Places
  BY DEF LoopInv, InStep
<1>3. Left(pat, seg, l) = (S - t) * k + (P - p)
  BY DEF Left
<1>4. CASE Stars(pat, l)
  <2>1. Left(pat, seg, Round(pat, seg, l)) = (S - u) * k + (P - (p + 1))
    BY <1>1, <1>2, <1>4, RoundCases DEF Left
  <2> HIDE DEF P, S, k, p, t, u, s
  <2>2. S - u \in Nat /\ u - t \in Nat /\ (S - u) + (u - t) = S - t
    BY <1>1
  <2>3. (S - t) * k = (S - u) * k + (u - t) * k /\ (u - t) * k \in Nat /\ (S - u) * k \in Nat
    BY <1>1, <2>2, Products
  <2> DEFINE x == (S - t) * k
             y == (S - u) * k
             z == (u - t) * k
  <2>4. x = y + z /\ z \in Nat /\ y \in Nat
    BY <2>3
  <2> HIDE DEF x, y, z
  <2>5. y + (P - (p + 1)) + 1 <= x + (P - p)
    BY <1>1, <2>4
  <2>6. QED
    BY <1>3, <2>1, <2>5 DEF x, y
<1>5. CASE ~Stars(pat, l) /\ Meets(pat, seg, l)
  <2>1. Left(pat, seg, Round(pat, seg, l)) = (S - t) * k + (P - (p + 1))
    BY <1>1, <1>2, <1>5, RoundCases DEF Left
  <2> HIDE DEF P, S, k, p, t, u, s
  <2>2. S - t \in Nat
    BY <1>1
  <2> DEFINE x == (S - t) * k
  <2>3. x \in Nat
    BY <1>1, <2>2, Products
  <2> HIDE DEF x
  <2>4. x + (P - (p + 1)) + 1 <= x + (P - p)
    BY <1>1, <2>3
  <2>5. QED
    BY <1>3, <2>1, <2>4 DEF x
<1>6. CASE ~Stars(pat, l) /\ ~Meets(pat, seg, l)
  <2>1. ~(s < 0)
    BY <1>6 DEF Over
  <2>2. Left(pat, seg, Round(pat, seg, l)) = (S - (t + 1)) * k + (P - (s + 1))
    BY <1>1, <1>2, <1>6, <2>1, RoundCases DEF Left
  <2> HIDE DEF P, S, k, p, t, u, s
  <2>3. S - (t + 1) \in Nat /\ (S - (t + 1)) + 1 = S - t
    BY <1>1
  <2>4. (S - t) * k = (S - (t + 1)) * k + k /\ (S - (t + 1)) * k \in Nat
    BY <1>1, <2>3, Products
  <2> DEFINE x == (S - t) * k
             y == (S - (t + 1)) * k
  <2>5. x = y + k /\ y \in Nat
    BY <2>4
  <2> HIDE DEF x, y
  <2>6. y + (P - (s + 1)) + 1 <= x + (P - p)
    BY <1>1, <2>1, <2>5
  <2>7. QED
    BY <1>3, <2>2, <2>6 DEF x, y
<1>7. QED
  BY <1>4, <1>5, <1>6

\* A loop that is over stays as it is.
LEMMA OverStays ==
  ASSUME NEW A, NEW pat \in Text(A), NEW seg \in Text(A), NEW l,
         LoopInv(pat, seg, l), Over(pat, seg, l)
  PROVE  Round(pat, seg, l) = l
<1>1. l \in Places /\ l.si \in Int /\ l.si <= Len(seg) /\ Len(seg) \in Nat
  BY TextFacts DEF LoopInv, InStep, Places
<1>2. CASE l.si = Len(seg)
  BY <1>1, <1>2, RoundCases
<1>3. CASE l.si # Len(seg)
  BY <1>1, <1>3, RoundCases DEF Over
<1>4. QED
  BY <1>2, <1>3

\* The loop is over after the rounds it is given.
LEMMA LoopEnds ==
  ASSUME NEW A, NEW pat \in Text(A), NEW seg \in Text(A)
  PROVE  /\ Rounds(pat, seg) \in Nat
         /\ Over(pat, seg, Loop(pat, seg)[Rounds(pat, seg)])
<1> DEFINE at(n) == Loop(pat, seg)[n]
           all == Left(pat, seg, LoopStart)
           Shrinks == {n \in Nat : Over(pat, seg, at(n)) \/ Left(pat, seg, at(n)) + n <= all}
<1>1. \A n \in Nat : LoopInv(pat, seg, at(n)) /\ Left(pat, seg, at(n)) \in Nat
  BY LoopKeepsInv, LeftIsNat
<1>2. at(0) = LoopStart /\ \A n \in Nat : at(n + 1) = Round(pat, seg, at(n))
  BY LoopRounds
<1>3. all \in Nat
  BY <1>1, <1>2
<1> HIDE DEF at, all
<1>4. 0 \in Shrinks
  BY <1>2, <1>3 DEF all
<1>5. ASSUME NEW n \in Nat, n \in Shrinks PROVE n + 1 \in Shrinks
  <2>1. CASE Over(pat, seg, at(n))
    BY <1>1, <1>2, <2>1, OverStays
  <2>2. CASE ~Over(pat, seg, at(n))
    <3>1. Left(pat, seg, at(n + 1)) + 1 <= Left(pat, seg, at(n))
      BY <1>1, <1>2, <2>2, RoundLeavesLess
    <3>2. Left(pat, seg, at(n)) + n <= all
      BY <1>5, <2>2
    <3>3. Left(pat, seg, at(n + 1)) \in Nat /\ Left(pat, seg, at(n)) \in Nat
      BY <1>1
    <3>4. Left(pat, seg, at(n + 1)) + (n + 1) <= all
      BY <1>3, <3>1, <3>2, <3>3
    <3>5. QED
      BY <3>4
  <2>3. QED
    BY <2>1, <2>2
<1>6. Nat \subseteq Shrinks
  <2> HIDE DEF Shrinks
  <2> QED BY <1>4, <1>5, SetInduction
<1>7. Rounds(pat, seg) \in Nat /\ Rounds(pat, seg) > all
  <2> DEFINE P == Len(pat)
             S == Len(seg)
             k == P + 1
  <2>1. P \in Nat /\ S \in Nat /\ k \in Nat /\ k = P + 1
    BY TextFacts
  <2>2. Rounds(pat, seg) = k * (S + 1)
    BY DEF Rounds
  <2>3. all = (S - 0) * k + (P - 0)
    BY DEF all, Left, LoopStart
  <2> HIDE DEF P, S, k
  <2>4. S * k \in Nat /\ (S + 1) * k = S * k + k /\ k * (S + 1) = (S + 1) * k
    BY <2>1, Products
  <2> DEFINE x == S * k
  <2>5. x \in Nat /\ Rounds(pat, seg) = x + k /\ all = x + P
    BY <2>1, <2>2, <2>3, <2>4
  <2> HIDE DEF x
  <2>6. QED
    BY <2>1, <2>5
<1>8. Left(pat, seg, at(Rounds(pat, seg))) \in Nat
  BY <1>1, <1>7
<1>9. Over(pat, seg, at(Rounds(pat, seg)))
  <2> DEFINE r == Rounds(pat, seg)
             x == Left(pat, seg, at(r))
  <2>1. Over(pat, seg, at(r)) \/ x + r <= all
    BY <1>6, <1>7
  <2>2. r \in Nat /\ r > all /\ x \in Nat
    BY <1>7, <1>8
  <2> HIDE DEF r, x
  <2>3. ~(x + r <= all)
    BY <1>3, <2>2
  <2>4. QED
    BY <2>1, <2>3 DEF r
<1>10. QED
  BY <1>7, <1>9 DEF at

\* Nothing but stars fits the rest of a segment that is used up, and it does.
LEMMA OnlyStarsLeft ==
  ASSUME NEW A, NEW pat \in Text(A), NEW seg \in Text(A), NEW l,
         LoopInv(pat, seg, l), l.si = Len(seg)
  PROVE  (\E c : Cut(pat, seg, Len(pat), Len(seg), c))
           <=> \A i \in l.pi + 1 .. Len(pat) : pat[i] = "*"
<1> DEFINE P == Len(pat)
           S == Len(seg)
           p == l.pi
           q == l.star + 1
           t == l.starSi
<1>1. /\ P \in Nat /\ S \in Nat /\ p \in Nat /\ q \in Nat /\ t \in Nat /\ q <= p /\ p <= P
      /\ p - q = S - t
  BY TextFacts DEF LoopInv, InStep, Places
<1>2. ASSUME NEW c, Cut(pat, seg, P, S, c), NEW i \in p + 1 .. P PROVE pat[i] = "*"
  <2>1. c[q] >= t /\ c[p] = c[q] + (p - q)
    BY <1>1, <1>2, StraightOn DEF LoopInv
  <2>2. \A j \in 0 .. P : c[j] \in 0 .. S
    BY <1>1, <1>2 DEF Cut
  <2>3. /\ \A j \in 1 .. P : c[j - 1] <= c[j]
        /\ \A j \in 1 .. P : pat[j] = "*" \/ c[j] = c[j - 1] + 1
    BY <1>2 DEF Cut
  <2> HIDE DEF P, S, p, q, t
  <2>4. c[p] = S
    <3>1. c[q] \in Int /\ c[p] \in 0 .. S
      BY <1>1, <2>2
    <3>2. QED
      BY <1>1, <2>1, <3>1
  <2> DEFINE Full == {n \in Nat : p + n <= P => c[p + n] = S}
  <2>5. 0 \in Full
    BY <1>1, <2>4
  <2>6. ASSUME NEW n \in Nat, n \in Full PROVE n + 1 \in Full
    <3>1. SUFFICES ASSUME p + (n + 1) <= P PROVE c[p + (n + 1)] = S
      OBVIOUS
    <3>2. c[p + n] = S /\ p + (n + 1) \in 1 .. P /\ (p + (n + 1)) - 1 = p + n
      BY <1>1, <2>6, <3>1
    <3>3. c[p + (n + 1)] >= S /\ c[p + (n + 1)] \in 0 .. S
      BY <1>1, <2>2, <2>3, <3>2
    <3>4. QED
      BY <1>1, <3>3
  <2>7. Nat \subseteq Full
    <3> HIDE DEF Full
    <3> QED BY <2>5, <2>6, SetInduction
  <2>8. i - p \in Nat /\ p + (i - p) = i /\ (i - p) - 1 \in Nat /\ p + ((i - p) - 1) = i - 1
          /\ i \in 1 .. P
    BY <1>1, <1>2
  <2>9. c[i] = S /\ c[i - 1] = S
    <3>1. i - p \in Full /\ (i - p) - 1 \in Full
      <4> HIDE DEF Full
      <4> QED BY <2>7, <2>8
    <3>2. QED
      BY <1>1, <2>8, <3>1
  <2>10. QED
    BY <1>1, <2>3, <2>8, <2>9
<1>3. ASSUME \A i \in p + 1 .. P : pat[i] = "*" PROVE \E c : Cut(pat, seg, P, S, c)
  <2> DEFINE Fits == {n \in Nat : p + n <= P => \E c : Cut(pat, seg, p + n, S, c)}
  <2>1. 0 \in Fits
    <3>1. \E c : Cut(pat, seg, p, S, c) /\ p + 0 = p
      BY <1>1, MatchedSoFar
    <3>2. QED
      BY <3>1
  <2>2. ASSUME NEW n \in Nat, n \in Fits PROVE n + 1 \in Fits
    <3>1. SUFFICES ASSUME p + (n + 1) <= P PROVE \E c : Cut(pat, seg, p + (n + 1), S, c)
      OBVIOUS
    <3> HIDE DEF P, S, p
    <3>2. PICK c : Cut(pat, seg, p + n, S, c)
      BY <1>1, <2>2, <3>1
    <3>3. /\ p + n \in Nat /\ p + n < P /\ S <= S /\ (p + n) + 1 = p + (n + 1)
          /\ (p + n) + 1 \in p + 1 .. P
      BY <1>1, <3>1
    <3>4. pat[(p + n) + 1] = "*"
      BY <1>3, <3>3
    <3>5. \E d : Cut(pat, seg, (p + n) + 1, S, d)
      BY <1>1, <3>2, <3>3, <3>4, CutGoesOn DEF P, S
    <3>6. QED
      BY <3>3, <3>5
  <2>3. Nat \subseteq Fits
    <3> HIDE DEF Fits
    <3> QED BY <2>1, <2>2, SetInduction
  <2>4. P - p \in Nat /\ p + (P - p) = P /\ P <= P
    <3> HIDE DEF P, p
    <3> QED BY <1>1
  <2>5. P - p \in Fits
    <3> HIDE DEF Fits
    <3> QED BY <2>3, <2>4
  <2>6. p + (P - p) <= P => \E c : Cut(pat, seg, p + (P - p), S, c)
    BY <2>5
  <2>7. QED
    BY <2>4, <2>6
<1>4. QED
  BY <1>2, <1>3

\* The loop answers whether there is a cut.
LEMMA BacktrackIsExact ==
  ASSUME NEW A, NEW pat \in Text(A), NEW seg \in Text(A)
  PROVE  Backtrack(pat, seg) <=> SegmentFits(pat, seg)
<1> DEFINE end == Loop(pat, seg)[Rounds(pat, seg)]
<1>1. LoopInv(pat, seg, end) /\ Over(pat, seg, end)
  BY LoopEnds, LoopKeepsInv
<1>2. Backtrack(pat, seg)
        <=> end.si = Len(seg) /\ \A i \in end.pi + 1 .. Len(pat) : pat[i] = "*"
  BY DEF Backtrack
<1> HIDE DEF end
<1>3. CASE end.si = Len(seg)
  BY <1>1, <1>2, <1>3, OnlyStarsLeft, FitsIsCut
<1>4. CASE end.si # Len(seg)
  <2>1. end.si < Len(seg)
    BY <1>1, <1>4, TextFacts DEF LoopInv, InStep, Places
  <2>2. end.star + 1 = 0 /\ end.starSi = 0 /\ ~Stars(pat, end) /\ ~Meets(pat, seg, end)
    BY <1>1, <1>4 DEF LoopInv, InStep, Places, Over
  <2>3. ASSUME NEW c, Cut(pat, seg, Len(pat), Len(seg), c) PROVE FALSE
    <3>1. c[end.star + 1] > end.starSi
      BY <1>1, <2>1, <2>2, <2>3, StuckReachesFurther
    <3>2. c[0] = 0
      BY <2>3 DEF Cut
    <3>3. QED
      BY <2>2, <3>1, <3>2
  <2>4. QED
    BY <1>2, <1>4, <2>3, FitsIsCut
<1>5. QED
  BY <1>3, <1>4

\* A pattern without stars and question marks fits itself only.
LEMMA PlainFitsItself ==
  ASSUME NEW A, NEW pat \in Text(A), NEW seg \in Text(A), ~Wild(pat)
  PROVE  pat = seg <=> SegmentFits(pat, seg)
<1> DEFINE P == Len(pat)
           S == Len(seg)
<1>1. P \in Nat /\ S \in Nat /\ \A i \in 1 .. P : pat[i] # "*" /\ pat[i] # "?"
  BY TextFacts DEF Wild
<1>2. ASSUME pat = seg PROVE SegmentFits(pat, seg)
  <2> DEFINE c == [i \in 0 .. P |-> i]
  <2>1. Cut(pat, seg, P, S, c)
    BY <1>1, <1>2 DEF Cut
  <2>2. QED
    BY <2>1, FitsIsCut
<1>3. ASSUME NEW c, Cut(pat, seg, P, S, c) PROVE pat = seg
  <2>1. /\ c[0] = 0 /\ c[P] = S
        /\ \A i \in 1 .. P : c[i] = c[i - 1] + 1 /\ pat[i] = seg[c[i]]
    BY <1>1, <1>3 DEF Cut
  <2> DEFINE Same == {n \in Nat : n <= P => c[n] = n}
  <2>2. 0 \in Same
    BY <2>1
  <2>3. ASSUME NEW n \in Nat, n \in Same PROVE n + 1 \in Same
    <3>1. SUFFICES ASSUME n + 1 <= P PROVE c[n + 1] = n + 1
      OBVIOUS
    <3> HIDE DEF P
    <3>2. c[n] = n /\ n + 1 \in 1 .. P /\ (n + 1) - 1 = n
      BY <1>1, <2>3, <3>1
    <3>3. QED
      BY <2>1, <3>2
  <2>4. Nat \subseteq Same
    <3> HIDE DEF Same
    <3> QED BY <2>2, <2>3, SetInduction
  <2>5. \A n \in Nat : n <= P => c[n] = n
    BY <2>4
  <2>6. P = S
    BY <1>1, <2>1, <2>5
  <2>7. \A i \in 1 .. P : pat[i] = seg[i]
    BY <1>1, <2>1, <2>5
  <2>8. QED
    BY <2>6, <2>7, SeqEqual DEF Text
<1>4. QED
  BY <1>2, <1>3, FitsIsCut

\* matchSingleSegment decides exactly what a pattern of one segment means: of the
\* places a star can end, its loop, which remembers the last star only, loses none.
THEOREM SegmentMatchIsExact ==
  ASSUME NEW A, NEW pat \in Text(A), NEW seg \in Text(A)
  PROVE  matchSingleSegment(pat, seg) <=> SegmentFits(pat, seg)
<1>1. CASE pat = <<"*">>
  <2> DEFINE c == [i \in 0 .. 1 |-> IF i = 0 THEN 0 ELSE Len(seg)]
  <2>1. Len(pat) = 1 /\ pat[1] = "*" /\ Len(seg) \in Nat
    BY <1>1, TextFacts
  <2>2. Cut(pat, seg, 1, Len(seg), c)
    BY <2>1 DEF Cut
  <2>3. QED
    BY <1>1, <2>1, <2>2, FitsIsCut DEF matchSingleSegment
<1>2. CASE pat # <<"*">> /\ Wild(pat)
  BY <1>2, BacktrackIsExact DEF matchSingleSegment
<1>3. CASE pat # <<"*">> /\ ~Wild(pat)
  BY <1>3, PlainFitsItself DEF matchSingleSegment
<1>4. QED
  BY <1>1, <1>2, <1>3

-----------------------------------------------------------------------------
(* matchGlobSegments *)

Deep == <<"*", "*">>
Paths(A) == Seq(Text(A))

\* A path, as the sequence it is.
LEMMA PathShape ==
  ASSUME NEW A, NEW t \in Paths(A)
  PROVE  Len(t) \in Nat /\ DOMAIN t = 1 .. Len(t) /\ \A i \in 1 .. Len(t) : t[i] \in Text(A)
BY DEF Paths

\* One more segment of the pattern, when `rest` tells where what follows it can start.
OneMore(pat, path, k, rest) ==
  [b \in 0 .. Len(path) |-> [s \in 0 .. Len(path) |->
     IF pat[Len(pat) - k + 1] = Deep THEN \E j \in b .. Len(path) : rest[j][j]
     ELSE s < Len(path) /\ matchSingleSegment(pat[Len(pat) - k + 1], path[s + 1])
            /\ rest[b][s + 1]]]

NoMore(path) == [b \in 0 .. Len(path) |-> [s \in 0 .. Len(path) |-> s = Len(path)]]

\* LastMatch is what its equation says: one segment of the pattern after another.
LEMMA LastMatchRecursion ==
  ASSUME NEW A, NEW pat \in Paths(A), NEW path \in Paths(A)
  PROVE  /\ LastMatch(pat, path)[0] = NoMore(path)
         /\ \A k \in 1 .. Len(pat) :
              LastMatch(pat, path)[k] = OneMore(pat, path, k, LastMatch(pat, path)[k - 1])
<1> DEFINE P == Len(pat)
           Tables == [0 .. Len(path) -> [0 .. Len(path) -> BOOLEAN]]
           step == [k \in Nat |-> [f \in Tables |-> OneMore(pat, path, k, f)]]
           Is(f) == f = [k \in 0 .. P |->
                           IF k = 0 THEN NoMore(path) ELSE OneMore(pat, path, k, f[k - 1])]
<1>1. P \in Nat /\ Len(path) \in Nat
  BY PathShape
<1>2. NoMore(path) \in Tables
  BY DEF NoMore
<1>3. step \in [Nat -> [Tables -> Tables]]
  <2>1. ASSUME NEW k \in Nat, NEW f \in Tables PROVE OneMore(pat, path, k, f) \in Tables
    <3> DEFINE here(b, s) ==
                 IF pat[Len(pat) - k + 1] = Deep THEN \E j \in b .. Len(path) : f[j][j]
                 ELSE s < Len(path) /\ matchSingleSegment(pat[Len(pat) - k + 1], path[s + 1])
                        /\ f[b][s + 1]
    <3>1. \A b, s \in 0 .. Len(path) : here(b, s) \in BOOLEAN
      OBVIOUS
    <3>2. OneMore(pat, path, k, f) =
            [b \in 0 .. Len(path) |-> [s \in 0 .. Len(path) |-> here(b, s)]]
      BY DEF OneMore
    <3> HIDE DEF here
    <3>3. QED
      BY <3>1, <3>2
  <2> HIDE DEF Tables
  <2>2. QED
    BY <2>1
<1>4. PICK g \in [Nat -> Tables] :
        g[0] = NoMore(path) /\ \A n \in Nat : g[n + 1] = step[n + 1][g[n]]
  <2> HIDE DEF step, Tables
  <2> QED BY <1>2, <1>3, PrimitiveRecursion
<1>5. \E f : Is(f)
  <2> DEFINE f == [k \in 0 .. P |-> g[k]]
  <2> HIDE DEF Tables
  <2>1. ASSUME NEW k \in 1 .. P PROVE f[k] = OneMore(pat, path, k, f[k - 1])
    <3>1. k - 1 \in Nat /\ (k - 1) + 1 = k /\ k - 1 \in 0 .. P /\ k \in 0 .. P /\ k \in Nat
      BY <1>1
    <3>2. g[k] = step[k][g[k - 1]] /\ g[k - 1] \in Tables
      BY <1>4, <3>1
    <3>3. g[k] = OneMore(pat, path, k, g[k - 1])
      BY <3>1, <3>2
    <3>4. QED
      BY <3>1, <3>3
  <2>2. f[0] = NoMore(path)
    BY <1>1, <1>4
  <2> HIDE DEF f
  <2>3. f = [k \in 0 .. P |-> f[k]]
    BY DEF f
  <2>4. [k \in 0 .. P |-> f[k]] =
          [k \in 0 .. P |-> IF k = 0 THEN NoMore(path) ELSE OneMore(pat, path, k, f[k - 1])]
    BY <1>1, <2>1, <2>2
  <2>5. Is(f)
    BY <2>3, <2>4
  <2>6. QED
    BY <2>5
<1>6. Is(LastMatch(pat, path))
  <2>1. LastMatch(pat, path) = CHOOSE f : Is(f)
    BY DEF LastMatch, NoMore, OneMore, Deep
  <2> HIDE DEF Is
  <2>2. QED
    BY <1>5, <2>1
<1>7. QED
  <2> DEFINE f == LastMatch(pat, path)
  <2>1. f = [k \in 0 .. P |-> IF k = 0 THEN NoMore(path) ELSE OneMore(pat, path, k, f[k - 1])]
    BY <1>6
  <2> HIDE DEF f
  <2>2. f[0] = NoMore(path) /\ \A k \in 1 .. P : f[k] = OneMore(pat, path, k, f[k - 1])
    BY <1>1, <2>1
  <2>3. QED
    BY <2>2 DEF f

\* What a table of the recursion says at one place.
LEMMA LastMatchAt ==
  ASSUME NEW A, NEW pat \in Paths(A), NEW path \in Paths(A)
  PROVE  /\ \A b, s \in 0 .. Len(path) : LastMatch(pat, path)[0][b][s] <=> s = Len(path)
         /\ \A k \in 1 .. Len(pat) : \A b, s \in 0 .. Len(path) :
              LastMatch(pat, path)[k][b][s] <=>
                IF pat[Len(pat) - k + 1] = Deep
                THEN \E j \in b .. Len(path) : LastMatch(pat, path)[k - 1][j][j]
                ELSE s < Len(path) /\ matchSingleSegment(pat[Len(pat) - k + 1], path[s + 1])
                       /\ LastMatch(pat, path)[k - 1][b][s + 1]
<1>1. ASSUME NEW b \in 0 .. Len(path), NEW s \in 0 .. Len(path)
      PROVE  LastMatch(pat, path)[0][b][s] <=> s = Len(path)
  <2>1. LastMatch(pat, path)[0] = NoMore(path)
    BY LastMatchRecursion
  <2>2. NoMore(path)[b][s] = (s = Len(path))
    BY DEF NoMore
  <2>3. QED
    BY <2>1, <2>2
<1>2. ASSUME NEW k \in 1 .. Len(pat), NEW b \in 0 .. Len(path), NEW s \in 0 .. Len(path)
      PROVE  LastMatch(pat, path)[k][b][s] <=>
                IF pat[Len(pat) - k + 1] = Deep
                THEN \E j \in b .. Len(path) : LastMatch(pat, path)[k - 1][j][j]
                ELSE s < Len(path) /\ matchSingleSegment(pat[Len(pat) - k + 1], path[s + 1])
                       /\ LastMatch(pat, path)[k - 1][b][s + 1]
  <2> DEFINE rest == LastMatch(pat, path)[k - 1]
  <2>1. LastMatch(pat, path)[k] = OneMore(pat, path, k, rest)
    BY LastMatchRecursion
  <2> HIDE DEF rest
  <2>2. OneMore(pat, path, k, rest)[b][s] =
          IF pat[Len(pat) - k + 1] = Deep THEN \E j \in b .. Len(path) : rest[j][j]
          ELSE s < Len(path) /\ matchSingleSegment(pat[Len(pat) - k + 1], path[s + 1])
                 /\ rest[b][s + 1]
    BY DEF OneMore
  <2>3. QED
    BY <2>1, <2>2 DEF rest
<1>3. QED
  BY <1>1, <1>2

\* Segments that fit one by one match, whatever slice the call was given.
LEMMA StraightMatches ==
  ASSUME NEW A, NEW pat \in Paths(A), NEW path \in Paths(A), NEW k \in Nat, k <= Len(pat),
         NEW b \in Nat, NEW s \in Nat, b <= s, s + k = Len(path),
         \A i \in 1 .. k : SegmentFits(pat[Len(pat) - k + i], path[s + i])
  PROVE  LastMatch(pat, path)[k][b][s]
<1> DEFINE P == Len(pat)
           L == Len(path)
           m == LastMatch(pat, path)
           fits(g, t) == SegmentFits(pat[g], path[t])
           Ok == {h \in Nat : \A c, t \in Nat :
                   h <= P /\ c <= t /\ t + h = L /\ (\A i \in 1 .. h : fits(P - h + i, t + i))
                     => m[h][c][t]}
<1>1. P \in Nat /\ L \in Nat
  BY PathShape
<1>2. 0 \in Ok
  <2>1. ASSUME NEW c \in Nat, NEW t \in Nat, c <= t, t + 0 = L PROVE m[0][c][t]
    <3>1. t = L /\ c \in 0 .. L /\ t \in 0 .. L
      BY <1>1, <2>1
    <3>2. QED
      BY <3>1, LastMatchAt
  <2>2. QED
    BY <2>1
<1>3. ASSUME NEW h \in Nat, h \in Ok PROVE h + 1 \in Ok
  <2> HIDE DEF fits, m, P, L
  <2>1. SUFFICES ASSUME NEW c \in Nat, NEW t \in Nat, h + 1 <= P, c <= t, t + (h + 1) = L,
                        \A i \in 1 .. h + 1 : fits(P - (h + 1) + i, t + i)
                 PROVE  m[h + 1][c][t]
    <3> DEFINE right(c, t) ==
                 /\ h + 1 <= P /\ c <= t /\ t + (h + 1) = L
                 /\ \A i \in 1 .. h + 1 : fits(P - (h + 1) + i, t + i)
    <3>1. \A c, t \in Nat : right(c, t) => m[h + 1][c][t]
      BY <2>1
    <3>2. h + 1 \in Nat
      OBVIOUS
    <3>3. h + 1 \in Ok <=> \A c, t \in Nat : right(c, t) => m[h + 1][c][t]
      BY <3>2
    <3> HIDE DEF right, Ok
    <3>4. QED
      BY <3>1, <3>3
  <2>2. \A i \in 1 .. h : fits(P - h + i, (t + 1) + i)
    <3>1. ASSUME NEW i \in 1 .. h PROVE fits(P - h + i, (t + 1) + i)
      <4>1. i + 1 \in 1 .. h + 1 /\ P - (h + 1) + (i + 1) = P - h + i /\ t + (i + 1) = (t + 1) + i
        BY <1>1
      <4>2. fits(P - (h + 1) + (i + 1), t + (i + 1))
        BY <2>1, <4>1
      <4>3. QED
        BY <4>1, <4>2
    <3>2. QED
      BY <3>1
  <2>3. /\ h <= P /\ t + 1 \in Nat /\ c <= t + 1 /\ t + 1 <= t + 1 /\ (t + 1) + h = L
        /\ c \in 0 .. L /\ t \in 0 .. L /\ t < L /\ t + 1 \in c .. L /\ h + 1 \in 1 .. P
        /\ (h + 1) - 1 = h /\ P - (h + 1) + 1 \in 1 .. P /\ t + 1 \in 1 .. L
        /\ 1 \in 1 .. h + 1
    BY <1>1, <2>1
  <2>4. m[h][c][t + 1] /\ m[h][t + 1][t + 1]
    BY <1>3, <2>2, <2>3
  <2>5. fits(P - (h + 1) + 1, t + 1)
    BY <2>1, <2>3
  <2>6. matchSingleSegment(pat[P - (h + 1) + 1], path[t + 1])
    <3>1. pat[P - (h + 1) + 1] \in Text(A) /\ path[t + 1] \in Text(A)
      BY <2>3, PathShape DEF P, L
    <3>2. QED
      BY <2>5, <3>1, SegmentMatchIsExact DEF fits
  <2>7. m[h + 1][c][t] <=>
          IF pat[P - (h + 1) + 1] = Deep THEN \E j \in c .. L : m[(h + 1) - 1][j][j]
          ELSE t < L /\ matchSingleSegment(pat[P - (h + 1) + 1], path[t + 1])
                 /\ m[(h + 1) - 1][c][t + 1]
    <3> DEFINE k1 == h + 1
    <3>1. k1 \in 1 .. P
      BY <2>3
    <3> HIDE DEF k1
    <3>2. m[k1][c][t] <=>
            IF pat[P - k1 + 1] = Deep THEN \E j \in c .. L : m[k1 - 1][j][j]
            ELSE t < L /\ matchSingleSegment(pat[P - k1 + 1], path[t + 1]) /\ m[k1 - 1][c][t + 1]
      BY <2>3, <3>1, LastMatchAt DEF P, L, m
    <3>3. QED
      BY <3>2 DEF k1
  <2>8. QED
    BY <2>3, <2>4, <2>6, <2>7
<1>4. Nat \subseteq Ok
  <2> HIDE DEF Ok
  <2> QED BY <1>2, <1>3, SetInduction
<1>5. k \in Ok
  <2> HIDE DEF Ok
  <2> QED BY <1>4
<1>6. \A i \in 1 .. k : fits(P - k + i, s + i)
  OBVIOUS
<1>7. QED
  BY <1>5, <1>6

\* What a pattern with a ** means matches: the head one by one, the tail one by one
\* from the end, and what is between is the **'s.
LEMMA DeepMatches ==
  ASSUME NEW A, NEW pat \in Paths(A), NEW path \in Paths(A), NEW d \in 1 .. Len(pat), pat[d] = Deep,
         Len(path) - Len(pat) >= -1,
         \A i \in 1 .. d - 1 : SegmentFits(pat[i], path[i]),
         \A i \in d + 1 .. Len(pat) : SegmentFits(pat[i], path[i + (Len(path) - Len(pat))])
  PROVE  LastMatch(pat, path)[Len(pat)][0][0]
<1> DEFINE P == Len(pat)
           L == Len(path)
           m == LastMatch(pat, path)
           fits(g, t) == SegmentFits(pat[g], path[t])
           Ok == {n \in Nat : n <= d - 1 =>
                    \A b \in Nat : b <= (d - 1) - n => m[P - ((d - 1) - n)][b][(d - 1) - n]}
<1>1. P \in Nat /\ L \in Nat /\ d \in 1 .. P /\ L - P >= -1
  BY PathShape
<1>2. 0 \in Ok
  <2>1. (d - 1) - 0 = d - 1
    BY <1>1
  <2>2. SUFFICES ASSUME NEW b \in Nat, b <= d - 1 PROVE m[P - (d - 1)][b][d - 1]
    <3> HIDE DEF P, m
    <3> QED BY <2>1
  <2> DEFINE j == L - (P - d)
  <2>3. m[P - d][j][j]
    <3>1. P - d \in Nat /\ P - d <= P /\ j \in Nat /\ j <= j /\ j + (P - d) = L
      BY <1>1
    <3>2. ASSUME NEW i \in 1 .. P - d PROVE SegmentFits(pat[P - (P - d) + i], path[j + i])
      <4>1. d + i \in d + 1 .. P /\ P - (P - d) + i = d + i /\ j + i = (d + i) + (L - P)
        BY <1>1
      <4>2. SegmentFits(pat[d + i], path[(d + i) + (L - P)])
        BY <4>1
      <4>3. QED
        BY <4>1, <4>2
    <3> HIDE DEF j
    <3>3. QED
      BY <3>1, <3>2, StraightMatches
  <2>4. /\ P - (d - 1) \in 1 .. P /\ (P - (d - 1)) - 1 = P - d /\ P - (P - (d - 1)) + 1 = d
        /\ b \in 0 .. L /\ d - 1 \in 0 .. L /\ j \in b .. L
    BY <1>1, <2>2
  <2> HIDE DEF j, P, L
  <2> DEFINE k == P - (d - 1)
  <2>5. k \in 1 .. P /\ k - 1 = P - d /\ P - k + 1 = d
    BY <2>4
  <2> HIDE DEF k
  <2>6. m[k][b][d - 1] <=>
          IF pat[P - k + 1] = Deep THEN \E i \in b .. L : m[k - 1][i][i]
          ELSE d - 1 < L /\ matchSingleSegment(pat[P - k + 1], path[(d - 1) + 1])
                 /\ m[k - 1][b][(d - 1) + 1]
    <3> DEFINE e == d - 1
    <3>1. e \in 0 .. L /\ b \in 0 .. L
      BY <2>4
    <3> HIDE DEF e
    <3>2. m[k][b][e] <=>
            IF pat[P - k + 1] = Deep THEN \E i \in b .. L : m[k - 1][i][i]
            ELSE e < L /\ matchSingleSegment(pat[P - k + 1], path[e + 1]) /\ m[k - 1][b][e + 1]
      BY <2>5, <3>1, LastMatchAt DEF P, L, m
    <3>3. QED
      BY <3>2 DEF e
  <2>7. m[k][b][d - 1]
    BY <2>3, <2>4, <2>6, <2>5
  <2>8. QED
    BY <2>7 DEF k
<1>3. ASSUME NEW n \in Nat, n \in Ok PROVE n + 1 \in Ok
  <2> DEFINE s == (d - 1) - (n + 1)
  <2>1. SUFFICES ASSUME n + 1 <= d - 1, NEW b \in Nat, b <= s PROVE m[P - s][b][s]
    <3>1. n + 1 \in Nat
      OBVIOUS
    <3>2. n + 1 <= d - 1 => \A b \in Nat : b <= s => m[P - s][b][s]
      <4> HIDE DEF m, P, s
      <4> QED BY <2>1
    <3> HIDE DEF m, P
    <3>3. QED
      BY <3>1, <3>2
  <2>2. /\ s \in Nat /\ (d - 1) - n = s + 1 /\ P - s \in 1 .. P /\ (P - s) - 1 = P - (s + 1)
        /\ P - (P - s) + 1 = s + 1 /\ b \in 0 .. L /\ s \in 0 .. L /\ s < L /\ s + 1 \in b .. L
        /\ b <= s + 1 /\ s + 1 \in Nat /\ s + 1 \in 1 .. d - 1
        /\ s + 1 \in 1 .. P /\ s + 1 \in 1 .. L
        /\ n <= d - 1
    BY <1>1, <2>1
  <2>3. \A c \in Nat : c <= s + 1 => m[P - (s + 1)][c][s + 1]
    <3> HIDE DEF s
    <3> QED BY <1>3, <2>2
  <2> HIDE DEF s, P, L
  <2>4. m[P - (s + 1)][b][s + 1] /\ m[P - (s + 1)][s + 1][s + 1]
    BY <2>2, <2>3
  <2>5. matchSingleSegment(pat[s + 1], path[s + 1])
    BY <2>2, PathShape, SegmentMatchIsExact DEF P, L
  <2>6. m[P - s][b][s] <=>
          IF pat[P - (P - s) + 1] = Deep THEN \E j \in b .. L : m[(P - s) - 1][j][j]
          ELSE s < L /\ matchSingleSegment(pat[P - (P - s) + 1], path[s + 1])
                 /\ m[(P - s) - 1][b][s + 1]
    BY <2>2, LastMatchAt DEF P, L
  <2>7. QED
    BY <2>2, <2>4, <2>5, <2>6
<1>4. Nat \subseteq Ok
  <2> HIDE DEF Ok
  <2> QED BY <1>2, <1>3, SetInduction
<1>5. d - 1 \in Nat /\ d - 1 <= d - 1 /\ (d - 1) - (d - 1) = 0 /\ P - 0 = P
  BY <1>1
<1>6. d - 1 \in Ok
  <2> HIDE DEF Ok
  <2> QED BY <1>4, <1>5
<1>7. m[P - ((d - 1) - (d - 1))][0][(d - 1) - (d - 1)]
  BY <1>5, <1>6
<1>8. QED
  BY <1>5, <1>7

LEMMA DeepIsDeep == Seg("**") = Deep
BY DEF Seg, Deep

\* Whatever a path's pattern means, matchGlob covers: no rule is read too narrowly.
THEOREM MatchesCovered ==
  ASSUME NEW A, NEW g \in Paths(A), NEW path \in Paths(A), Matches(g, path)
  PROVE  matchGlob(g, path)
<1> DEFINE deep == {i \in DOMAIN g : g[i] = Seg("**")}
           extra == Len(path) - Len(g)
           fits(i, shift) == SegmentFits(g[i], path[i + shift])
<1>1. /\ Len(g) \in Nat /\ Len(path) \in Nat /\ DOMAIN g = 1 .. Len(g)
      /\ IF deep = {} THEN extra = 0 /\ \A i \in DOMAIN g : fits(i, 0)
         ELSE \E k \in deep : /\ extra >= -1
                              /\ \A i \in 1 .. k - 1 : fits(i, 0)
                              /\ \A i \in k + 1 .. Len(g) : fits(i, extra)
  BY PathShape DEF Matches
<1>2. CASE deep = {}
  <2>1. 0 + Len(g) = Len(path) /\ Len(g) <= Len(g) /\ 0 <= 0
    BY <1>1, <1>2
  <2>2. ASSUME NEW i \in 1 .. Len(g) PROVE SegmentFits(g[Len(g) - Len(g) + i], path[0 + i])
    <3>1. fits(i, 0) /\ Len(g) - Len(g) + i = i /\ 0 + i = i /\ i + 0 = i
      <4> HIDE DEF fits
      <4> QED BY <1>1, <1>2
    <3>2. QED
      BY <3>1
  <2>3. LastMatch(g, path)[Len(g)][0][0]
    BY <1>1, <2>1, <2>2, StraightMatches
  <2>4. QED
    BY <2>3 DEF matchGlob
<1>3. CASE deep # {}
  <2>1. PICK k \in deep : /\ extra >= -1
                          /\ \A i \in 1 .. k - 1 : fits(i, 0)
                          /\ \A i \in k + 1 .. Len(g) : fits(i, extra)
    <3> HIDE DEF fits, extra, deep
    <3> QED BY <1>1, <1>3
  <2>2. k \in 1 .. Len(g) /\ g[k] = Deep
    BY <1>1, <2>1, DeepIsDeep
  <2>3. ASSUME NEW i \in 1 .. k - 1 PROVE SegmentFits(g[i], path[i])
    <3>1. fits(i, 0) /\ i + 0 = i
      <4> HIDE DEF fits, extra, deep
      <4> QED BY <2>1, <2>2
    <3>2. QED
      BY <3>1
  <2>4. ASSUME NEW i \in k + 1 .. Len(g) PROVE SegmentFits(g[i], path[i + (Len(path) - Len(g))])
    BY <2>1
  <2>5. LastMatch(g, path)[Len(g)][0][0]
    BY <2>1, <2>2, <2>3, <2>4, DeepMatches
  <2>6. QED
    BY <2>5 DEF matchGlob
<1>4. QED
  BY <1>2, <1>3

\* A pattern with no ** in it matches segment by segment or not at all.
LEMMA PlainMatches ==
  ASSUME NEW A, NEW g \in Paths(A), NEW path \in Paths(A), \A i \in 1 .. Len(g) : g[i] # Deep,
         matchGlob(g, path)
  PROVE  Len(g) = Len(path) /\ \A i \in 1 .. Len(g) : SegmentFits(g[i], path[i])
<1> DEFINE P == Len(g)
           L == Len(path)
           m == LastMatch(g, path)
           fits(i, t) == SegmentFits(g[i], path[t])
           Ok == {h \in Nat : h <= P => \A s \in 0 .. L :
                    m[h][0][s] => s + h = L /\ \A i \in 1 .. h : fits(P - h + i, s + i)}
<1>1. P \in Nat /\ L \in Nat
  BY PathShape
<1>2. 0 \in Ok
  <2>1. \A s \in 0 .. L : m[0][0][s] => s + 0 = L
    BY <1>1, LastMatchAt
  <2>2. QED
    BY <2>1
<1>3. ASSUME NEW h \in Nat, h \in Ok PROVE h + 1 \in Ok
  <2> HIDE DEF fits, m, P, L
  <2>1. SUFFICES ASSUME h + 1 <= P, NEW s \in 0 .. L, m[h + 1][0][s]
                 PROVE  s + (h + 1) = L /\ \A i \in 1 .. h + 1 : fits(P - (h + 1) + i, s + i)
    BY <1>1
  <2>2. h + 1 \in 1 .. P /\ (h + 1) - 1 = h /\ P - (h + 1) + 1 \in 1 .. P /\ 0 \in 0 .. L
    BY <1>1, <2>1
  <2>3. s < L /\ matchSingleSegment(g[P - (h + 1) + 1], path[s + 1]) /\ m[h][0][s + 1]
    <3>1. m[h + 1][0][s] <=>
            IF g[P - (h + 1) + 1] = Deep THEN \E j \in 0 .. L : m[(h + 1) - 1][j][j]
            ELSE s < L /\ matchSingleSegment(g[P - (h + 1) + 1], path[s + 1])
                   /\ m[(h + 1) - 1][0][s + 1]
      BY <2>2, LastMatchAt DEF P, L, m
    <3>2. g[P - (h + 1) + 1] # Deep
      BY <2>2 DEF P
    <3>3. QED
      BY <2>1, <2>2, <3>1, <3>2
  <2>4. s + 1 \in 0 .. L /\ s + 1 \in 1 .. L
    BY <1>1, <2>3
  <2>5. (s + 1) + h = L /\ \A i \in 1 .. h : fits(P - h + i, (s + 1) + i)
    <3>1. h <= P
      BY <1>1, <2>1
    <3>2. \A t \in 0 .. L : m[h][0][t] => t + h = L /\ \A i \in 1 .. h : fits(P - h + i, t + i)
      BY <1>3, <3>1
    <3>3. QED
      BY <2>3, <2>4, <3>2
  <2>6. fits(P - (h + 1) + 1, s + 1)
    <3>1. g[P - (h + 1) + 1] \in Text(A) /\ path[s + 1] \in Text(A)
      BY <2>2, <2>4, PathShape DEF P, L
    <3>2. QED
      BY <2>3, <3>1, SegmentMatchIsExact DEF fits
  <2>7. ASSUME NEW i \in 1 .. h + 1 PROVE fits(P - (h + 1) + i, s + i)
    <3>1. CASE i = 1
      BY <2>6, <3>1
    <3>2. CASE i # 1
      <4>1. i - 1 \in 1 .. h /\ P - h + (i - 1) = P - (h + 1) + i /\ (s + 1) + (i - 1) = s + i
        BY <1>1, <3>2
      <4>2. fits(P - h + (i - 1), (s + 1) + (i - 1))
        BY <2>5, <4>1
      <4>3. QED
        BY <4>1, <4>2
    <3>3. QED
      BY <3>1, <3>2
  <2>8. s + (h + 1) = L
    BY <1>1, <2>5
  <2>9. QED
    BY <2>7, <2>8
<1>4. Nat \subseteq Ok
  <2> HIDE DEF Ok
  <2> QED BY <1>2, <1>3, SetInduction
<1>5. P \in Ok
  <2> HIDE DEF Ok
  <2> QED BY <1>1, <1>4
<1>6. m[P][0][0] /\ 0 \in 0 .. L /\ P <= P
  BY <1>1 DEF matchGlob
<1>7. 0 + P = L /\ \A i \in 1 .. P : fits(P - P + i, 0 + i)
  <2> HIDE DEF fits, m, P, L
  <2> QED BY <1>1, <1>5, <1>6
<1>8. ASSUME NEW i \in 1 .. P PROVE fits(i, i)
  <2>1. P - P + i = i /\ 0 + i = i
    BY <1>1
  <2>2. fits(P - P + i, 0 + i)
    <3> HIDE DEF fits, P, L
    <3> QED BY <1>7
  <2>3. QED
    BY <2>1, <2>2
<1>9. QED
  BY <1>1, <1>7, <1>8

\* A pattern with no ** in it matches what it means and nothing else.
THEOREM PlainGlobIsExact ==
  ASSUME NEW A, NEW g \in Paths(A), NEW path \in Paths(A), \A i \in 1 .. Len(g) : g[i] # Deep
  PROVE  matchGlob(g, path) <=> Matches(g, path)
<1>1. ASSUME matchGlob(g, path) PROVE Matches(g, path)
  <2>1. Len(g) = Len(path) /\ \A i \in 1 .. Len(g) : SegmentFits(g[i], path[i])
    BY <1>1, PlainMatches
  <2>2. {i \in DOMAIN g : g[i] = Seg("**")} = {} /\ DOMAIN g = 1 .. Len(g)
    BY DeepIsDeep, PathShape
  <2>3. Len(path) - Len(g) = 0 /\ \A i \in 1 .. Len(g) : i + 0 = i
    BY <2>1, PathShape
  <2>4. QED
    BY <2>1, <2>2, <2>3 DEF Matches
<1>2. QED
  BY <1>1, MatchesCovered, PathShape

-----------------------------------------------------------------------------
(* The service's resource *)

Dotted == {Seg(".."), Seg("%2e%2e")}
Vanishing == {Seg(""), Seg(".")}
PlainSegment(seg) == seg \notin Vanishing \cup Dotted /\ \A k \in DOMAIN seg : seg[k] \notin {"?", "#"}

\* What a path without marks names: one segment after the other.
OneSegment(before, seg) ==
  CASE seg \in {Seg(""), Seg(".")}       -> before
    [] seg \in {Seg(".."), Seg("%2e%2e")} ->
         IF before = <<>> THEN <<>> ELSE Upto(before, Len(before) - 1)
    [] OTHER -> Append(before, seg)

\* The resource of a path without marks is the end of a recursion; here the recursion has
\* the solution f.
LEMMA ResourceIs ==
  ASSUME NEW A, NEW path \in Paths(A),
         \A i \in 1 .. Len(path) : \A k \in DOMAIN path[i] : path[i][k] \notin {"?", "#"},
         NEW f, f = [i \in 0 .. Len(path) |->
                       IF i = 0 THEN <<>> ELSE OneSegment(f[i - 1], path[i])]
  PROVE  \E res : /\ Resource(path) = res[Len(path)]
                  /\ res[0] = <<>>
                  /\ \A i \in 1 .. Len(path) : res[i] = OneSegment(res[i - 1], path[i])
<1> DEFINE Marks(seg) == {k \in DOMAIN seg : seg[k] \in {"?", "#"}}
           marks == {i \in DOMAIN path : Marks(path[i]) # {}}
           n     == IF marks = {} THEN Len(path)
                    ELSE CHOOSE i \in marks : \A j \in marks : i <= j
           plain == [i \in 1 .. n |->
                       IF Marks(path[i]) = {} THEN path[i]
                       ELSE Upto(path[i], (CHOOSE k \in Marks(path[i]) :
                                             \A m \in Marks(path[i]) : k <= m) - 1)]
           Is(q, r) == r = [i \in 0 .. n |-> IF i = 0 THEN <<>> ELSE OneSegment(r[i - 1], q[i])]
           res == CHOOSE r : Is(plain, r)
<1>1. Len(path) \in Nat /\ DOMAIN path = 1 .. Len(path) /\ path = [i \in 1 .. Len(path) |-> path[i]]
  BY DEF Paths
<1>2. \A i \in 1 .. Len(path) : Marks(path[i]) = {}
  OBVIOUS
<1>3. marks = {}
  <2> HIDE DEF Marks
  <2> QED BY <1>1, <1>2
<1>4. n = Len(path)
  <2> HIDE DEF marks
  <2> QED BY <1>3
<1>5. plain = path
  <2> HIDE DEF n, Marks
  <2> QED BY <1>1, <1>2, <1>4
<1>6. Resource(path) = res[n]
  BY DEF Resource, OneSegment
<1> HIDE DEF plain, n
<1>7. Is(path, f)
  BY <1>4
<1>8. Is(plain, f)
  BY <1>5, <1>7
<1>9. Is(plain, res)
  <2> HIDE DEF Is
  <2> QED BY <1>8
<1>10. Is(path, res)
  <2> HIDE DEF Is, res
  <2> QED BY <1>5, <1>9
<1> HIDE DEF res
<1>11. res[0] = <<>> /\ \A i \in 1 .. Len(path) : res[i] = OneSegment(res[i - 1], path[i])
  <2>1. res = [i \in 0 .. Len(path) |-> IF i = 0 THEN <<>> ELSE OneSegment(res[i - 1], path[i])]
    BY <1>4, <1>10
  <2>2. QED
    BY <1>1, <2>1
<1>12. QED
  BY <1>4, <1>6, <1>11

\* A path of plain segments names itself.
LEMMA PlainResource ==
  ASSUME NEW A, NEW path \in Paths(A), \A i \in 1 .. Len(path) : PlainSegment(path[i])
  PROVE  Resource(path) = path
<1> DEFINE L == Len(path)
           f == [i \in 0 .. L |-> Upto(path, i)]
<1>1. L \in Nat
  BY PathShape
<1>2. \A i \in 1 .. L : \A s : OneSegment(s, path[i]) = Append(s, path[i])
  BY DEF OneSegment, PlainSegment, Vanishing, Dotted
<1>3. Upto(path, 0) = <<>> /\ Upto(path, L) = path
  BY <1>1 DEF Upto, Paths
<1>4. ASSUME NEW i \in 1 .. L PROVE Upto(path, i) = Append(Upto(path, i - 1), path[i])
  BY SubSeqRecursiveSecond DEF Upto, Paths
<1>5. f = [i \in 0 .. L |-> IF i = 0 THEN <<>> ELSE OneSegment(f[i - 1], path[i])]
  <2>1. ASSUME NEW i \in 1 .. L PROVE f[i] = OneSegment(f[i - 1], path[i])
    <3>1. i \in 0 .. L /\ i - 1 \in 0 .. L
      BY <1>1
    <3>2. f[i] = Upto(path, i) /\ f[i - 1] = Upto(path, i - 1)
      BY <3>1
    <3>3. QED
      BY <1>2, <1>4, <3>2
  <2>2. f[0] = <<>>
    BY <1>1, <1>3
  <2> DEFINE right(i) == IF i = 0 THEN <<>> ELSE OneSegment(f[i - 1], path[i])
  <2>3. f = [i \in 0 .. L |-> f[i]]
    OBVIOUS
  <2> HIDE DEF f
  <2>4. \A i \in 0 .. L : f[i] = right(i)
    <3>1. \A i \in 0 .. L : i = 0 \/ i \in 1 .. L
      BY <1>1
    <3> HIDE DEF L
    <3>2. QED
      BY <2>1, <2>2, <3>1
  <2>5. f = [i \in 0 .. L |-> right(i)]
    <3> HIDE DEF L, right
    <3> QED BY <2>3, <2>4
  <2>6. QED
    BY <2>5
<1>6. PICK res : /\ Resource(path) = res[L]
                 /\ res[0] = <<>>
                 /\ \A i \in 1 .. L : res[i] = OneSegment(res[i - 1], path[i])
  <2>1. \A i \in 1 .. Len(path) : \A k \in DOMAIN path[i] : path[i][k] \notin {"?", "#"}
    BY DEF PlainSegment
  <2> HIDE DEF f
  <2>2. QED
    BY <1>5, <2>1, ResourceIs
<1> HIDE DEF f
<1> DEFINE Ok == {i \in Nat : i <= L => res[i] = Upto(path, i)}
<1>7. 0 \in Ok
  BY <1>3, <1>6
<1>8. ASSUME NEW i \in Nat, i \in Ok PROVE i + 1 \in Ok
  <2>1. SUFFICES ASSUME i + 1 <= L PROVE res[i + 1] = Upto(path, i + 1)
    OBVIOUS
  <2> HIDE DEF L
  <2>2. i + 1 \in 1 .. L /\ (i + 1) - 1 = i /\ i <= L
    BY <1>1, <2>1
  <2>3. res[i] = Upto(path, i)
    BY <1>8, <2>2
  <2>4. QED
    BY <1>2, <1>4, <1>6, <2>2, <2>3
<1>9. L \in Ok
  <2>1. Nat \subseteq Ok
    <3> HIDE DEF Ok
    <3> QED BY <1>7, <1>8, SetInduction
  <2> HIDE DEF Ok
  <2>2. QED
    BY <1>1, <2>1
<1>10. QED
  BY <1>1, <1>3, <1>6, <1>9

\* The root names nothing.
LEMMA RootResource == Resource(<<Seg("")>>) = <<>>
<1> DEFINE path == <<Seg("")>>
           f == [i \in 0 .. Len(path) |-> <<>>]
<1>1. path \in Paths({}) /\ Len(path) = 1 /\ path[1] = <<>> /\ path[1] = Seg("")
  BY DEF Paths, Text, Seg
<1> HIDE DEF path
<1>2. DOMAIN path[1] = {} /\ \A i \in 1 .. Len(path) : i = 1
  <2>1. DOMAIN (<<>>) = {}
    OBVIOUS
  <2>2. Len(path) = 1 /\ path[1] = <<>>
    BY <1>1
  <2>3. \A i \in 1 .. 1 : i = 1
    OBVIOUS
  <2>4. DOMAIN path[1] = {}
    BY ONLY <2>1, <2>2, Zenon
  <2>5. QED
    BY ONLY <2>2, <2>3, <2>4, Zenon
<1>3. \A i \in 1 .. Len(path) : \A k \in DOMAIN path[i] : path[i][k] \notin {"?", "#"}
  BY <1>2
<1>4. OneSegment(<<>>, path[1]) = <<>>
  BY <1>1 DEF OneSegment
<1>5. f = [i \in 0 .. Len(path) |-> IF i = 0 THEN <<>> ELSE OneSegment(f[i - 1], path[i])]
  <2>1. \A i \in 1 .. 1 : i = 1 /\ i - 1 \in 0 .. 1
    OBVIOUS
  <2>2. \A i \in 1 .. 1 : OneSegment(f[i - 1], path[i]) = <<>>
    BY <1>1, <1>4, <2>1
  <2>3. \A i \in 0 .. 1 : i = 0 \/ i \in 1 .. 1
    OBVIOUS
  <2>4. \A i \in 0 .. 1 : (IF i = 0 THEN <<>> ELSE OneSegment(f[i - 1], path[i])) = <<>>
    <3> HIDE DEF f
    <3> QED BY <2>2, <2>3
  <2> DEFINE right(i) == IF i = 0 THEN <<>> ELSE OneSegment(f[i - 1], path[i])
  <2>5. f = [i \in 0 .. 1 |-> <<>>]
    BY <1>1
  <2>6. \A i \in 0 .. 1 : right(i) = <<>>
    BY <2>4
  <2>7. f = [i \in 0 .. 1 |-> right(i)]
    <3> HIDE DEF f, right
    <3> QED BY <2>5, <2>6
  <2>8. QED
    BY <1>1, <2>7
<1>6. QED
  <2> HIDE DEF f
  <2>1. PICK res : /\ Resource(path) = res[Len(path)]
                   /\ res[0] = <<>>
                   /\ \A i \in 1 .. Len(path) : res[i] = OneSegment(res[i - 1], path[i])
    BY <1>1, <1>3, <1>5, ResourceIs
  <2>2. 1 \in 1 .. Len(path) /\ 1 - 1 = 0
    <3>1. Len(path) = 1
      BY <1>1
    <3>2. 1 \in 1 .. 1 /\ 1 - 1 = 0
      OBVIOUS
    <3>3. QED
      BY ONLY <3>1, <3>2, Zenon
  <2>3. res[1] = OneSegment(res[0], path[1])
    BY <2>1, <2>2
  <2>4. Resource(path) = <<>>
    BY <1>1, <1>4, <2>1, <2>3
  <2>5. QED
    BY <2>4 DEF path

-----------------------------------------------------------------------------
(* What the checks let through *)

\* A rule that is about a path, as GitHub means it, covers the path as the broker has it.
LEMMA AboutIsCovered ==
  ASSUME NEW A, NEW r, r.glob \in Paths(A), NEW path \in Paths(A), About(r, path)
  PROVE  Covers(r, path)
BY MatchesCovered DEF About, Covers

\* The same for the root, that the broker has as one empty segment and GitHub as none.
LEMMA AboutTheRoot ==
  ASSUME NEW A, NEW r, r.glob \in Paths(A), About(r, <<>>)
  PROVE  Covers(r, <<Seg("")>>)
<1> DEFINE g == r.glob
           root == <<Seg("")>>
           deep == {i \in DOMAIN g : g[i] = Seg("**")}
           extra == Len(<<>>) - Len(g)
           fits(i, shift) == SegmentFits(g[i], (<<>>)[i + shift])
<1>1. CASE g = <<>>
  BY <1>1 DEF Covers
<1>2. CASE g # <<>>
  <2>1. /\ Len(g) \in Nat /\ DOMAIN g = 1 .. Len(g) /\ Len(g) # 0 /\ Len(<<>>) = 0
    BY <1>2 DEF Paths
  <2>2. IF deep = {} THEN extra = 0 /\ \A i \in DOMAIN g : fits(i, 0)
        ELSE \E k \in deep : /\ extra >= -1
                             /\ \A i \in 1 .. k - 1 : fits(i, 0)
                             /\ \A i \in k + 1 .. Len(g) : fits(i, extra)
    BY <1>2 DEF About, Matches
  <2>3. extra # 0
    BY <2>1
  <2> HIDE DEF fits, extra, deep
  <2>4. PICK k \in deep : extra >= -1
    BY <2>2, <2>3
  <2>5. Len(g) = 1 /\ k = 1 /\ g[k] = Deep
    <3> DEFINE n == Len(g)
    <3>1. k \in 1 .. n /\ g[k] = Deep
      BY <2>1, DeepIsDeep DEF deep
    <3>2. 0 - n >= -1 /\ n \in Nat
      BY <2>1, <2>4 DEF extra
    <3> HIDE DEF n
    <3>3. n = 1 /\ k = 1
      BY <3>1, <3>2
    <3>4. QED
      BY <3>1, <3>3 DEF n
  <2>6. root \in Paths(A) /\ Len(root) = 1
    BY DEF Paths, Text, Seg
  <2>7. 1 \in 1 .. Len(g) /\ Len(root) - Len(g) >= -1 /\ 1 .. 1 - 1 = {} /\ 1 + 1 .. Len(g) = {}
    <3>1. 1 \in 1 .. 1 /\ 1 - 1 >= -1 /\ 1 .. 1 - 1 = {} /\ 1 + 1 .. 1 = {}
      OBVIOUS
    <3>2. Len(g) = 1 /\ Len(root) = 1
      BY <2>5, <2>6
    <3>3. QED
      BY ONLY <3>1, <3>2, Zenon
  <2>8. LastMatch(g, root)[Len(g)][0][0]
    <3> HIDE DEF g, root
    <3> QED BY <2>5, <2>6, <2>7, DeepMatches DEF g
  <2>9. QED
    BY <2>8 DEF Covers, matchGlob
<1>3. QED
  BY <1>1, <1>2

\* A tuple of one.
LEMMA OneSymbol == \A x : 1 \in DOMAIN <<x>> /\ <<x>>[1] = x
OBVIOUS

\* A path that passes checkAPIPath is one and the same resource to everybody.
LEMMA CheckedPath ==
  ASSUME NEW A, NEW path \in Paths(A), checkAPIPath(path), path # <<Seg("")>>
  PROVE  Resource(path) = path
<1>1. ASSUME NEW i \in 1 .. Len(path) PROVE PlainSegment(path[i])
  <2>1. /\ path[i] \notin {Seg(""), Seg("."), Seg("..")}
        /\ \A k \in DOMAIN path[i] : path[i][k] \notin Changing
    BY PathShape DEF checkAPIPath
  <2>2. Seg("%2e%2e") = <<"%2e%2e">>
    BY DEF Seg
  <2>3. path[i] # <<"%2e%2e">>
    <3> DEFINE dots == <<"%2e%2e">>
    <3>1. 1 \in DOMAIN dots /\ dots[1] = "%2e%2e"
      BY OneSymbol, Zenon
    <3>2. "%2e%2e" \in Changing
      BY Zenon DEF Changing
    <3> HIDE DEF dots
    <3>3. path[i] # dots
      BY <2>1, <3>1, <3>2, Zenon
    <3>4. QED
      BY <3>3 DEF dots
  <2>4. QED
    BY <2>1, <2>2, <2>3 DEF PlainSegment, Vanishing, Dotted, Changing
<1>2. QED
  BY <1>1, PlainResource

\* A REST request that checkAPI lets through is one the policy permits, whichever
\* resource GitHub takes its path for.
THEOREM CheckAPIIsSafe ==
  ASSUME NEW A, NEW p, \A r \in p.deny : r.glob \in Paths(A),
         NEW method, NEW path \in Paths(A), path # <<>>, checkAPI(p, method, path)
  PROVE  RestPermitted(p, method, Resource(path))
<1>1. /\ checkAPIPath(path)
      /\ path[1] \in {Seg(top) : top \in apiTopLevel}
      /\ \A owner \in extractAPIOwner(path) : AllowedOwner(p, owner)
      /\ ~\E r \in p.deny : r.kind = "api" /\ r.method \in {"", method} /\ Covers(r, path)
  BY DEF checkAPI
<1>2. CASE path = <<Seg("")>>
  <2>1. Resource(path) = <<>>
    BY <1>2, RootResource
  <2>2. extractAPIOwner(<<>>) = {}
    BY DEF extractAPIOwner
  <2>3. ~\E r \in p.deny : r.kind = "api" /\ r.method \in {"", method} /\ About(r, <<>>)
    BY <1>1, <1>2, AboutTheRoot
  <2>4. QED
    BY <2>1, <2>2, <2>3 DEF RestPermitted
<1>3. CASE path # <<Seg("")>>
  <2>1. Resource(path) = path
    BY <1>1, <1>3, CheckedPath
  <2>2. path[1] # Seg("repositories")
    <3>1. \A top \in apiTopLevel : Seg(top) # Seg("repositories")
      <4>1. \A top \in apiTopLevel : top \notin {"repositories", "**"}
        BY DEF apiTopLevel
      <4>2. Seg("repositories") = <<"repositories">>
        BY DEF Seg
      <4>3. ASSUME NEW top \in apiTopLevel PROVE Seg(top) # <<"repositories">>
        <5>1. Seg(top) \in {<<>>, <<top>>}
          BY <4>1 DEF Seg
        <5>2. <<top>> # <<"repositories">> /\ <<>> # <<"repositories">>
          BY <4>1
        <5>3. QED
          BY <5>1, <5>2
      <4>4. QED
        BY <4>2, <4>3
    <3>2. QED
      BY <1>1, <3>1
  <2>3. ~\E r \in p.deny : r.kind = "api" /\ r.method \in {"", method} /\ About(r, path)
    BY <1>1, AboutIsCovered
  <2>4. QED
    BY <1>1, <2>1, <2>2, <2>3 DEF RestPermitted
<1>4. QED
  BY <1>2, <1>3

\* Whatever GitHub makes of a body's keys, it runs nothing but what was checked: there is
\* one query in it, and no field of a mutation is off the list.
THEOREM CheckGraphQLIsSafe ==
  ASSUME NEW b, b.keys \in Seq(BodyKeys), checkGraphQL(b)
  PROVE  /\ b.shape = "object"
         /\ \A op \in GraphQLRuns(b) : op.type # "subscription" /\ op.fields \subseteq Allowlisted
<1> DEFINE fold == [i \in DOMAIN b.keys |->
                     IF b.keys[i].key = "Query" THEN "query" ELSE b.keys[i].key]
           found == {b.keys[i].doc : i \in {i \in DOMAIN b.keys :
                       /\ b.shape = "object"
                       /\ b.keys[i].key = "query"
                       /\ \A j, k \in DOMAIN b.keys : fold[j] = fold[k] => j = k}}
<1>1. PICK doc \in found :
        \A op \in doc : op.type = "query" \/ (op.type = "mutation" /\ checkMutation(op))
  BY DEF checkGraphQL, graphQLQuery
<1>2. PICK i \in DOMAIN b.keys : /\ doc = b.keys[i].doc
                                 /\ b.shape = "object"
                                 /\ b.keys[i].key = "query"
                                 /\ \A j, k \in DOMAIN b.keys : fold[j] = fold[k] => j = k
  <2> HIDE DEF fold
  <2> QED BY <1>1
<1>3. \A j \in DOMAIN b.keys : b.keys[j] \in BodyKeys
  OBVIOUS
<1>4. ASSUME NEW j \in DOMAIN b.keys, b.keys[j].key # "variables" PROVE j = i
  <2>1. b.keys[j].key \in {"query", "Query"}
    BY <1>3, <1>4 DEF BodyKeys
  <2>2. fold[j] = "query" /\ fold[i] = "query"
    BY <1>2, <2>1
  <2> HIDE DEF fold
  <2>3. QED
    BY <1>2, <2>2
<1>5. ASSUME NEW op \in GraphQLRuns(b) PROVE op \in doc
  <2>1. PICK j \in DOMAIN b.keys : b.keys[j].key # "variables" /\ op \in b.keys[j].doc
    BY DEF GraphQLRuns
  <2>2. QED
    BY <1>2, <1>4, <2>1
<1>6. ASSUME NEW op \in doc PROVE op.type # "subscription" /\ op.fields \subseteq Allowlisted
  <2>1. op \in Operations
    BY <1>2, <1>3 DEF BodyKeys, Documents
  <2>2. op.type = "query" => op.fields = {}
    BY <2>1 DEF Operations
  <2>3. QED
    BY <1>1, <2>2 DEF checkMutation
<1>7. QED
  BY <1>2, <1>5, <1>6

-----------------------------------------------------------------------------
(* The endpoints of Fly and Doppler *)

\* The words of the rules that stand for themselves or for one segment; with the empty
\* word and the one for any segments, all there are. (The SMT backend fails where it
\* sees the empty string: what Seg does is in these lemmas, for Zenon to prove.)
Symbols ==
  {"*", "repos", "orgs", "user", "git", "refs", "heads", "main", "master", "branches",
   "protection", "actions", "secrets", "environments", "dependabot", "codespaces", "hooks",
   "keys", "gpg_keys", "memberships", "releases", "runs", "transfer", "permissions", "v1",
   "apps", "machines", "events", "logs", "v3", "configs", "config"}

\* No word of a pattern but ** stands for any segments.
LEMMA SymbolFacts == \A w \in Symbols : Seg(w) = <<w>> /\ Seg(w) # Deep
<1>1. \A w : <<w>> # Deep
  BY DEF Deep
<1>2. \A w \in Symbols : Seg(w) = <<w>>
  BY Zenon DEF Symbols, Seg
<1>3. QED
  BY <1>1, <1>2, Zenon

\* Words are texts.
LEMMA SegType ==
  ASSUME NEW A, Symbols \subseteq A
  PROVE  Seg("") \in Text(A) /\ Deep \in Text(A) /\ \A w \in A : <<w>> \in Text(A)
<1>1. Seg("") = <<>>
  BY Zenon DEF Seg
<1>2. <<>> \in Text(A)
  BY DEF Text
<1>3. \A v, w \in A : <<v, w>> \in Text(A) /\ <<w>> \in Text(A)
  BY DEF Text
<1>4. "*" \in A
  BY DEF Symbols
<1>5. QED
  BY <1>1, <1>2, <1>3, <1>4, Zenon DEF Deep

\* The path of some words has one segment for each.
LEMMA PathFacts ==
  ASSUME NEW A, Symbols \subseteq A, NEW words \in Seq(Symbols)
  PROVE  /\ Path(words) \in Paths(A)
         /\ Len(Path(words)) = Len(words) /\ Len(words) \in Nat
         /\ \A i \in 1 .. Len(words) : Path(words)[i] = <<words[i]>> /\ words[i] \in Symbols
<1>1. /\ Len(words) \in Nat /\ DOMAIN words = 1 .. Len(words)
      /\ \A i \in 1 .. Len(words) : words[i] \in Symbols
  OBVIOUS
<1>2. Path(words) = [i \in 1 .. Len(words) |-> Seg(words[i])]
  BY <1>1 DEF Path
<1>3. \A i \in 1 .. Len(words) : Seg(words[i]) \in Text(A) /\ Seg(words[i]) = <<words[i]>>
  BY <1>1, SegType, SymbolFacts
<1>4. QED
  BY <1>1, <1>2, <1>3 DEF Paths

\* A word that is no pattern fits itself only.
LEMMA WordFits ==
  ASSUME NEW A, Symbols \subseteq A, NEW w \in Symbols \ {"*"}, NEW seg \in Text(A),
         SegmentFits(<<w>>, seg)
  PROVE  seg = <<w>>
<1>1. <<w>> \in Text(A)
  BY SegType
<1>2. w # "*" /\ w # "?"
  BY DEF Symbols
<1>3. ~Wild(<<w>>)
  BY <1>2 DEF Wild
<1>4. QED
  BY <1>1, <1>3, PlainFitsItself

\* Words of a pattern, none of them for any segments, each match one segment.
LEMMA WordsMatch ==
  ASSUME NEW A, Symbols \subseteq A, NEW words \in Seq(Symbols), NEW path \in Paths(A),
         matchGlob(Path(words), path)
  PROVE  /\ Len(path) = Len(words)
         /\ \A i \in 1 .. Len(words) : words[i] # "*" => path[i] = <<words[i]>>
<1>1. /\ Path(words) \in Paths(A)
      /\ Len(Path(words)) = Len(words) /\ Len(words) \in Nat
      /\ \A i \in 1 .. Len(words) : Path(words)[i] = <<words[i]>> /\ words[i] \in Symbols
  BY PathFacts
<1>2. \A i \in 1 .. Len(words) : Path(words)[i] # Deep
  BY <1>1, SymbolFacts
<1>3. Len(path) = Len(words) /\ \A i \in 1 .. Len(words) : SegmentFits(<<words[i]>>, path[i])
  BY <1>1, <1>2, PlainMatches
<1>4. ASSUME NEW i \in 1 .. Len(words), words[i] # "*" PROVE path[i] = <<words[i]>>
  <2>1. path[i] \in Text(A)
    BY <1>1, <1>3, PathShape
  <2>2. QED
    BY <1>1, <1>3, <1>4, <2>1, WordFits
<1>5. QED
  BY <1>3, <1>4

-----------------------------------------------------------------------------

\* Two sequences in a row.
LEMMA Join ==
  \A S : \A s, t \in Seq(S) : /\ s \o t \in Seq(S) /\ Len(s \o t) = Len(s) + Len(t)
                              /\ \A i \in 1 .. Len(s) : (s \o t)[i] = s[i]
OBVIOUS

\* Every Fly endpoint is a GET of v1/apps/*.
LEMMA FlyEndpoints ==
  ASSUME NEW e \in DefaultFlyEndpoints
  PROVE  \E words \in Seq(Symbols) :
           /\ e.method = "GET" /\ e.glob = Path(words)
           /\ Len(words) >= 3 /\ words[1] = "v1" /\ words[2] = "apps"
<1> DEFINE start == <<"v1", "apps", "*">>
           rests == {<<>>, <<"machines">>, <<"machines", "*">>, <<"machines", "*", "events">>,
                     <<"logs">>, <<"releases">>}
<1>1. start \in Seq(Symbols) /\ Len(start) = 3 /\ start[1] = "v1" /\ start[2] = "apps"
  BY DEF Symbols
<1>2. \A rest \in rests : rest \in Seq(Symbols)
  <2>1. /\ <<>> \in Seq(Symbols) /\ <<"machines">> \in Seq(Symbols)
        /\ <<"machines", "*">> \in Seq(Symbols)
    BY DEF Symbols
  <2>2. <<"machines", "*", "events">> \in Seq(Symbols)
    BY DEF Symbols
  <2>3. <<"logs">> \in Seq(Symbols) /\ <<"releases">> \in Seq(Symbols)
    BY DEF Symbols
  <2>4. QED
    BY <2>1, <2>2, <2>3, Zenon
<1>3. PICK rest \in rests : e = Endpoint("GET", start \o rest)
  BY DEF DefaultFlyEndpoints
<1> HIDE DEF start, rests
<1>4. /\ start \o rest \in Seq(Symbols) /\ Len(start \o rest) >= 3
      /\ (start \o rest)[1] = "v1" /\ (start \o rest)[2] = "apps"
  <2>1. rest \in Seq(Symbols)
    BY <1>2
  <2>2. Len(rest) \in Nat
    BY <2>1
  <2>3. 1 \in 1 .. 3 /\ 2 \in 1 .. 3 /\ 3 + Len(rest) >= 3
    BY <2>2
  <2>4. /\ start \o rest \in Seq(Symbols) /\ Len(start \o rest) = Len(start) + Len(rest)
        /\ \A i \in 1 .. Len(start) : (start \o rest)[i] = start[i]
    <3>1. start \in Seq(Symbols)
      BY <1>1
    <3>2. QED
      BY ONLY <2>1, <3>1, Join, Zenon
  <2>5. QED
    BY <1>1, <2>3, <2>4
<1>5. e.method = "GET" /\ e.glob = Path(start \o rest)
  BY <1>3 DEF Endpoint
<1>6. QED
  BY <1>4, <1>5

\* A path of words that a pattern of words matches is what the pattern means.
LEMMA WordsMean ==
  ASSUME NEW A, Symbols \subseteq A, NEW e, NEW words \in Seq(Symbols), e.glob = Path(words),
         NEW path \in Paths(A), matchGlob(e.glob, path)
  PROVE  About(e, path)
<1>1. /\ Path(words) \in Paths(A) /\ Len(Path(words)) = Len(words)
      /\ \A i \in 1 .. Len(words) : Path(words)[i] = <<words[i]>> /\ words[i] \in Symbols
  BY PathFacts
<1>2. \A i \in 1 .. Len(Path(words)) : Path(words)[i] # Deep
  BY <1>1, SymbolFacts
<1>3. Matches(Path(words), path)
  BY <1>1, <1>2, PlainGlobIsExact
<1>4. QED
  BY <1>3 DEF About

\* A Fly request that checkFly lets through, in a path that is read as it is written, is
\* one the policy permits: to an endpoint on the list, about an app in scope.
THEOREM CheckFlyIsSafe ==
  ASSUME NEW A, Symbols \subseteq A, NEW p, NEW r, r.surface = "FLY", r.path \in Paths(A),
         checkFly(p, r), checkAPIPath(r.path)
  PROVE  FlyPermitted(p, r, Resource(UpstreamPath(r)))
<1> DEFINE path == r.path
<1>1. PICK e \in DefaultFlyEndpoints : e.method = r.method /\ matchGlob(e.glob, path)
  BY DEF checkFly, matchAllowedEndpoint
<1>2. PICK words \in Seq(Symbols) :
        /\ e.method = "GET" /\ e.glob = Path(words)
        /\ Len(words) >= 3 /\ words[1] = "v1" /\ words[2] = "apps"
  BY FlyEndpoints
<1>3. Len(words) \in Nat /\ 1 \in 1 .. Len(words) /\ 2 \in 1 .. Len(words)
  BY <1>2
<1>4. Len(path) >= 3 /\ path[1] = <<"v1">> /\ path[2] = <<"apps">> /\ Len(path) \in Nat
  <2>1. Len(path) = Len(words)
    BY <1>1, <1>2, WordsMatch
  <2>2. path[1] = <<"v1">>
    BY <1>1, <1>2, <1>3, WordsMatch
  <2>3. path[2] = <<"apps">>
    BY <1>1, <1>2, <1>3, WordsMatch
  <2>4. QED
    BY <1>2, <1>3, <2>1, <2>2, <2>3
<1>5. path # <<Seg("")>> /\ path[3] # Seg("")
  <2>1. \A x : Len(<<x>>) = 1
    OBVIOUS
  <2>2. Len(path) # 1 /\ 3 \in DOMAIN path
    BY <1>4, PathShape
  <2>3. path # <<Seg("")>>
    <3> DEFINE x == Seg("")
    <3>1. Len(<<x>>) = 1
      BY <2>1
    <3> HIDE DEF x
    <3>2. path # <<x>>
      BY <2>2, <3>1
    <3>3. QED
      BY <3>2 DEF x
  <2>4. QED
    BY <2>2, <2>3, Zenon DEF checkAPIPath
<1>6. Resource(path) = path /\ UpstreamPath(r) = path
  BY <1>5, CheckedPath DEF UpstreamPath
<1>7. path[3] \in extractFlyApp(path)
  <2>1. Seg("v1") = <<"v1">> /\ Seg("apps") = <<"apps">>
    BY SymbolFacts, Zenon DEF Symbols
  <2>2. extractFlyApp(path) = {path[3]} \ {Seg("")}
    BY <1>4, <2>1 DEF extractFlyApp
  <2>3. QED
    BY <1>5, <2>2, Zenon
<1>8. "*" \in p.apps \/ path[3] \in {Seg(a) : a \in p.apps}
  BY <1>7 DEF checkFly, allowsApp
<1>9. About(e, path)
  BY <1>1, <1>2, WordsMean
<1>10. QED
  BY <1>1, <1>6, <1>8, <1>9 DEF checkFly, FlyPermitted

-----------------------------------------------------------------------------

\* Every Doppler endpoint is one path, and under v3/configs.
LEMMA DopplerEndpoints ==
  ASSUME NEW e \in DefaultDopplerEndpoints
  PROVE  \E words \in Seq(Symbols \ {"*"}) :
           e.glob = Path(words) /\ Len(words) >= 2 /\ words[1] = "v3" /\ words[2] = "configs"
<1> DEFINE secrets == <<"v3", "configs", "config", "secrets">>
           configs == <<"v3", "configs">>
           config == <<"v3", "configs", "config">>
           S == Symbols \ {"*"}
<1>1. /\ "v3" \in S /\ "configs" \in S /\ "config" \in S /\ "secrets" \in S
      /\ 4 >= 2 /\ 2 >= 2 /\ 3 >= 2
  BY DEF Symbols
<1>2. secrets \in Seq(S) /\ Len(secrets) = 4 /\ secrets[1] = "v3" /\ secrets[2] = "configs"
  <2> HIDE DEF S
  <2> QED BY <1>1
<1>3. configs \in Seq(S) /\ Len(configs) = 2 /\ configs[1] = "v3" /\ configs[2] = "configs"
  <2> HIDE DEF S
  <2> QED BY <1>1
<1>4. config \in Seq(S) /\ Len(config) = 3 /\ config[1] = "v3" /\ config[2] = "configs"
  <2> HIDE DEF S
  <2> QED BY <1>1
<1>5. e \in {Endpoint("POST", secrets), Endpoint("GET", configs), Endpoint("GET", config)}
  BY DEF DefaultDopplerEndpoints
<1> HIDE DEF secrets, configs, config
<1>6. \E words \in {secrets, configs, config} : e.glob = Path(words)
  BY <1>5 DEF Endpoint
<1>7. PICK words \in {secrets, configs, config} : e.glob = Path(words)
  BY <1>6
<1>8. words \in Seq(S) /\ Len(words) >= 2 /\ words[1] = "v3" /\ words[2] = "configs"
  <2> HIDE DEF S
  <2> QED BY <1>1, <1>2, <1>3, <1>4, <1>7
<1>9. QED
  BY <1>7, <1>8

\* The project of the query is one of those named.
LEMMA QueryIsNamed ==
  ASSUME NEW S, NEW r, r.query \in Seq(S), QueryProject(r) # ""
  PROVE  QueryProject(r) \in NamedProjects(r)
<1>1. r.query # <<>> /\ QueryProject(r) = r.query[1]
  BY Zenon DEF QueryProject
<1>2. 1 \in DOMAIN r.query
  <2> DEFINE q == r.query
  <2>1. q \in Seq(S) /\ q # <<>>
    BY <1>1
  <2> HIDE DEF q
  <2>2. 1 \in DOMAIN q
    BY ONLY <2>1
  <2>3. QED
    BY <2>2, Zenon DEF q
<1>3. QED
  BY <1>1, <1>2, Zenon DEF NamedProjects

\* A word that is no star is a plain segment.
LEMMA PlainWord == \A w \in Symbols \ {"*"} : PlainSegment(<<w>>)
<1>1. Seg(".") = <<".">> /\ Seg("..") = <<"..">> /\ Seg("%2e%2e") = <<"%2e%2e">>
  BY Zenon DEF Seg
<1>2. Seg("") = <<>>
  BY Zenon DEF Seg
<1>3. \A w : <<w>> # <<>> /\ \A v : <<w>> = <<v>> => w = v
  OBVIOUS
<1>4. \A w \in Symbols : w \notin {"?", "#", ".", "..", "%2e%2e"}
  BY DEF Symbols
<1>5. \A w : \A k \in DOMAIN <<w>> : (<<w>>)[k] = w
  OBVIOUS
<1>6. ASSUME NEW w \in Symbols PROVE PlainSegment(<<w>>)
  <2> DEFINE seg == <<w>>
  <2>1. seg # <<>> /\ seg # <<".">> /\ seg # <<"..">> /\ seg # <<"%2e%2e">>
    BY <1>3, <1>4
  <2>2. \A k \in DOMAIN seg : seg[k] = w
    BY <1>5
  <2> HIDE DEF seg
  <2>3. seg \notin Vanishing \cup Dotted
    BY <1>1, <1>2, <2>1, Zenon DEF Vanishing, Dotted
  <2>4. \A k \in DOMAIN seg : seg[k] \notin {"?", "#"}
    BY <1>4, <2>2
  <2>5. PlainSegment(seg)
    BY <2>3, <2>4 DEF PlainSegment
  <2>6. QED
    BY <2>5 DEF seg
<1>7. QED
  BY <1>6

\* A Doppler request that checkDoppler lets through and that names one project is one
\* the policy permits: to an endpoint on the list, about a project in scope.
THEOREM CheckDopplerIsSafe ==
  ASSUME NEW A, Symbols \subseteq A, NEW p, NEW r, r.surface = "DOPPLER", r.path \in Paths(A),
         NEW S, r.query \in Seq(S), checkDoppler(p, r),
         \A a, b \in NamedProjects(r) : a = b
  PROVE  DopplerPermitted(p, r, Resource(UpstreamPath(r)))
<1> DEFINE path == r.path
<1>1. PICK e \in DefaultDopplerEndpoints : e.method = r.method /\ matchGlob(e.glob, path)
  BY Zenon DEF checkDoppler, matchAllowedEndpoint
<1>2. PICK words \in Seq(Symbols \ {"*"}) :
        e.glob = Path(words) /\ Len(words) >= 2 /\ words[1] = "v3" /\ words[2] = "configs"
  BY DopplerEndpoints
<1>3. /\ words \in Seq(Symbols) /\ \A i \in 1 .. Len(words) : words[i] \in Symbols \ {"*"}
      /\ Len(words) \in Nat /\ 1 \in 1 .. Len(words) /\ 2 \in 1 .. Len(words)
  <2> DEFINE T == Symbols \ {"*"}
  <2>1. T \subseteq Symbols
    OBVIOUS
  <2> HIDE DEF T
  <2>2. words \in Seq(T)
    BY <1>2 DEF T
  <2>3. words \in Seq(Symbols) /\ \A i \in 1 .. Len(words) : words[i] \in T
    BY <2>1, <2>2, SeqMonotonic
  <2>4. Len(words) \in Nat /\ 1 \in 1 .. Len(words) /\ 2 \in 1 .. Len(words)
    BY <1>2, <2>2
  <2>5. QED
    BY <2>3, <2>4 DEF T
<1>4. Len(path) = Len(words) /\ \A i \in 1 .. Len(words) : path[i] = <<words[i]>>
  BY <1>1, <1>2, <1>3, WordsMatch
<1>5. Resource(path) = path /\ UpstreamPath(r) = path
  <2>1. \A i \in 1 .. Len(path) : PlainSegment(path[i])
    BY <1>3, <1>4, PlainWord
  <2>2. QED
    BY <2>1, PlainResource DEF UpstreamPath
<1>6. requiresDopplerProject(path)
  <2>1. Seg("v3") = <<"v3">>
    BY SymbolFacts, Zenon DEF Symbols
  <2>2. path[1] = <<"v3">> /\ path[2] = <<"configs">>
    BY <1>2, <1>3, <1>4
  <2>3. QED
    BY <1>2, <1>3, <1>4, <2>1, <2>2 DEF requiresDopplerProject
<1>7. QueryProject(r) # "" /\ QueryProject(r) \in p.projects
  BY <1>6, Zenon DEF checkDoppler
<1>8. QueryProject(r) \in NamedProjects(r)
  BY <1>7, QueryIsNamed
<1>9. NamedProjects(r) # {} /\ NamedProjects(r) \subseteq p.projects
  <2> DEFINE q == QueryProject(r)
             named == NamedProjects(r)
  <2>1. q \in p.projects /\ q \in named /\ \A a, b \in named : a = b
    BY <1>7, <1>8
  <2> HIDE DEF q, named
  <2>2. named # {} /\ named \subseteq p.projects
    BY <2>1
  <2>3. QED
    BY <2>2 DEF named
<1>10. About(e, path)
  BY <1>1, <1>2, <1>3, WordsMean
<1>11. p.doppler
  BY Zenon DEF checkDoppler
<1>12. QED
  BY <1>1, <1>5, <1>9, <1>10, <1>11, Zenon DEF DopplerPermitted

-----------------------------------------------------------------------------
(* Pushes *)

\* The deletions git runs in a push that is not compressed are among the commands
\* parseReceivePackCommands finds.
LEMMA DeletesAreParsed ==
  ASSUME NEW S, NEW b, b.lines \in Seq(S), ~b.encoded
  PROVE  \A ref \in PushDeletes(b) :
           \E c \in parseReceivePackCommands(b) : c.is = "command" /\ c.deletes /\ c.ref = ref
<1> DEFINE lines == b.lines
           ends == {i \in DOMAIN lines : lines[i].is = "flush"}
           n == IF ends = {} THEN Len(lines) ELSE CHOOSE i \in ends : \A j \in ends : i <= j
           before == Upto(lines, n)
           deletes(i) == before[i].is = "command" /\ before[i].deletes
<1>1. Len(lines) \in Nat /\ DOMAIN lines = 1 .. Len(lines)
  OBVIOUS
<1>2. n \in 0 .. Len(lines) /\ \A j \in ends : n <= j
  <2>1. CASE ends = {}
    BY <1>1, <2>1
  <2>2. CASE ends # {}
    <3>1. ends \in SUBSET Nat
      BY <1>1
    <3>2. \E i \in ends : \A j \in ends : i <= j
      <4> HIDE DEF ends
      <4> QED BY <2>2, <3>1, LeastElement
    <3>3. n \in ends /\ \A j \in ends : n <= j
      <4> HIDE DEF ends
      <4> QED BY <2>2, <3>2
    <3> HIDE DEF n
    <3>4. QED
      BY <1>1, <3>3
  <2>3. QED
    BY <2>1, <2>2
<1>3. DOMAIN before = 1 .. n /\ \A i \in 1 .. n : before[i] = lines[i]
  <2> HIDE DEF n
  <2> QED BY <1>1, <1>2 DEF Upto
<1>4. /\ (\E i \in DOMAIN before : before[i].is = "broken") => PushDeletes(b) = {}
      /\ \A ref \in PushDeletes(b) : \E i \in DOMAIN before : deletes(i) /\ ref = before[i].ref
  BY DEF PushDeletes
<1> HIDE DEF before, n
<1>5. SUFFICES ASSUME NEW ref \in PushDeletes(b)
               PROVE  \E c \in parseReceivePackCommands(b) :
                          c.is = "command" /\ c.deletes /\ c.ref = ref
  OBVIOUS
<1>6. PICK i \in 1 .. n : deletes(i) /\ ref = before[i].ref
  BY <1>3, <1>4
<1>7. i \in DOMAIN lines /\ lines[i].is = "command" /\ lines[i].deletes /\ lines[i].ref = ref
  BY <1>1, <1>2, <1>3, <1>6
<1>8. ASSUME NEW j \in 1 .. i PROVE lines[j].is \notin {"flush", "broken"}
  <2>1. j \in 1 .. n /\ j \in DOMAIN lines
    BY <1>1, <1>2, <1>6
  <2>2. lines[j].is # "broken"
    BY <1>3, <1>4, <2>1
  <2>3. lines[j].is # "flush"
    <3>1. SUFFICES ASSUME lines[j].is = "flush" PROVE FALSE
      OBVIOUS
    <3>2. n <= j
      BY <1>2, <2>1, <3>1
    <3>3. j = i
      BY <1>2, <2>1, <3>2
    <3>4. QED
      BY <1>7, <3>1, <3>3
  <2>4. QED
    BY <2>2, <2>3
<1>9. lines[i] \in parseReceivePackCommands(b)
  BY <1>7, <1>8 DEF parseReceivePackCommands
<1>10. QED
  BY <1>7, <1>9

\* The parts of a path of two segments and some more.
LEMMA Joined ==
  ASSUME NEW S, NEW s \in Seq(S), NEW t \in Seq(S), Len(s) = 2, Len(t) \in Nat, Len(t) >= 1
  PROVE  /\ s \o t \in Seq(S) /\ Len(s \o t) = 2 + Len(t)
         /\ (s \o t)[1] = s[1] /\ (s \o t)[3] = t[1]
         /\ SubSeq(s \o t, 1, 2) = s
         /\ Len(t) = 1 => t = <<t[1]>>
<1> DEFINE u == s \o t
<1>1. /\ u \in Seq(S) /\ Len(u) = 2 + Len(t)
      /\ u[1] = s[1] /\ u[2] = s[2] /\ u[3] = t[1]
  <2>1. /\ u \in Seq(S) /\ Len(u) = Len(s) + Len(t)
        /\ \A i \in 1 .. Len(s) : u[i] = s[i]
    BY Join
  <2>2. 1 \in 1 .. Len(s) /\ 2 \in 1 .. Len(s)
    OBVIOUS
  <2>3. u[3] = t[1]
    <3>1. \A i \in 1 .. Len(s) + Len(t) : u[i] = IF i <= Len(s) THEN s[i] ELSE t[i - Len(s)]
      BY ConcatProperties, Zenon
    <3>2. 3 \in 1 .. Len(s) + Len(t) /\ ~(3 <= Len(s)) /\ 3 - Len(s) = 1
      OBVIOUS
    <3> HIDE DEF u
    <3>3. QED
      BY <3>1, <3>2
  <2> HIDE DEF u
  <2>4. QED
    BY <2>1, <2>2, <2>3
<1>2. SubSeq(u, 1, 2) = s
  <2> DEFINE v == SubSeq(u, 1, 2)
  <2> HIDE DEF u
  <2>1. v \in Seq(S) /\ Len(v) = 2 /\ v[1] = u[1] /\ v[2] = u[2]
    BY <1>1
  <2> HIDE DEF v
  <2>2. \A i \in 1 .. 2 : i = 1 \/ i = 2
    OBVIOUS
  <2>3. \A i \in 1 .. 2 : v[i] = s[i]
    BY <1>1, <2>1, <2>2
  <2>4. v = s
    BY <2>1, <2>3, SeqEqual
  <2>5. QED
    BY <2>4 DEF v
<1>3. Len(t) = 1 => t = <<t[1]>>
  OBVIOUS
<1> HIDE DEF u
<1>4. QED
  BY <1>1, <1>2, <1>3 DEF u

\* The path handleGit sends on is the repository's and what follows it.
LEMMA GitUpstream ==
  ASSUME NEW A, ".git" \in A, NEW r, r.surface = "GIT", r.path \in Paths(A), Len(r.path) >= 3
  PROVE  LET up == UpstreamPath(r)
         IN  /\ RepoPath(r) \in Paths(A)
             /\ up \in Paths(A) /\ Len(up) >= 3
             /\ up[1] = r.path[1] /\ Upto(up, 2) = RepoPath(r)
             /\ Len(up) = 3 /\ up[3] = Seg("git-receive-pack") => GitEndpoint(r) = ReceivePack
<1> DEFINE path == r.path
           end == GitEndpoint(r)
           repo == RepoPath(r)
           up == UpstreamPath(r)
           seg == Seg("git-receive-pack")
<1>1. path[1] \in Text(A) /\ path[2] \in Text(A) /\ Len(path) \in Nat
  <2>1. Len(path) \in Nat
    BY PathShape
  <2>2. 1 \in 1 .. Len(path) /\ 2 \in 1 .. Len(path)
    BY <2>1
  <2>3. QED
    BY <2>1, <2>2, PathShape
<1>2. repo \in Paths(A) /\ Len(repo) = 2 /\ repo[1] = path[1]
  <2>1. <<".git">> \in Text(A)
    BY DEF Text
  <2> HIDE DEF path
  <2>2. path[2] \o <<".git">> \in Text(A)
    BY <1>1, <2>1, Join DEF Text
  <2>3. \A v, w \in Text(A) : <<v, w>> \in Seq(Text(A)) /\ Len(<<v, w>>) = 2 /\ (<<v, w>>)[1] = v
    OBVIOUS
  <2>4. QED
    BY <1>1, <2>2, <2>3 DEF RepoPath, Paths, path
<1>3. end \in Paths(A) /\ Len(end) \in Nat /\ Len(end) >= 1
  BY <1>1 DEF GitEndpoint, Paths
<1>4. up = repo \o end
  BY DEF UpstreamPath
<1>5. ReceivePack = <<seg>>
  BY DEF ReceivePack
<1> HIDE DEF end, repo, up, seg, path
<1>6. /\ repo \o end \in Paths(A) /\ Len(repo \o end) = 2 + Len(end)
      /\ (repo \o end)[1] = repo[1] /\ (repo \o end)[3] = end[1]
      /\ SubSeq(repo \o end, 1, 2) = repo
      /\ Len(end) = 1 => end = <<end[1]>>
  BY <1>2, <1>3, Joined DEF Paths
<1>7. up \in Paths(A) /\ Len(up) >= 3 /\ up[1] = path[1] /\ Upto(up, 2) = repo
  BY <1>2, <1>3, <1>4, <1>6 DEF Upto
<1>8. Len(up) = 3 /\ up[3] = seg => end = ReceivePack
  <2>1. Len(up) = 2 + Len(end) /\ up[3] = end[1]
    BY <1>4, <1>6
  <2>2. Len(up) = 3 => Len(end) = 1
    <3> DEFINE m == Len(up)
               n == Len(end)
    <3>1. n \in Nat /\ m = 2 + n
      BY <1>3, <2>1
    <3> HIDE DEF m, n
    <3>2. m = 3 => n = 1
      BY ONLY <3>1
    <3>3. QED
      BY <3>2 DEF m, n
  <2>3. QED
    BY <1>5, <1>6, <2>1, <2>2, Zenon
<1>9. QED
  BY <1>2, <1>7, <1>8 DEF end, repo, up, seg, path

\* A git request that checkGit lets through, in a path that is read as it is written and
\* with no deletion in a body that cannot be read, is one the policy permits: the owner
\* is in scope, and a push is to a repository that no rule denies and deletes no ref a
\* rule protects.
THEOREM CheckGitIsSafe ==
  ASSUME NEW A, ".git" \in A, NEW p, \A g \in p.deny : g.glob \in Paths(A),
         NEW r, r.surface = "GIT", r.path \in Paths(A), Len(r.path) >= 3,
         NEW S, r.body.lines \in Seq(S), \A l \in S : l.is = "command" => l.ref \in Paths(A),
         checkGit(p, r), checkAPIPath(UpstreamPath(r)),
         ~(r.body.encoded /\ PushDeletes(r.body) # {})
  PROVE  GitPermitted(p, r, Resource(UpstreamPath(r)))
<1> DEFINE up == UpstreamPath(r)
<1>1. /\ RepoPath(r) \in Paths(A)
      /\ up \in Paths(A) /\ Len(up) >= 3
      /\ up[1] = r.path[1] /\ Upto(up, 2) = RepoPath(r)
      /\ Len(up) = 3 /\ up[3] = Seg("git-receive-pack") => GitEndpoint(r) = ReceivePack
  BY GitUpstream
<1>2. Resource(up) = up
  <2> DEFINE root == <<Seg("")>>
  <2>1. \A x : Len(<<x>>) = 1
    OBVIOUS
  <2>2. Len(root) = 1
    BY <2>1
  <2> HIDE DEF root, up
  <2>3. up # root
    BY <1>1, <2>2
  <2>4. up # <<Seg("")>>
    BY <2>3 DEF root
  <2>5. checkAPIPath(up)
    BY DEF up
  <2>6. QED
    BY <1>1, <2>4, <2>5, CheckedPath
<1>3. AllowedOwner(p, up[1])
  BY <1>1 DEF checkGit
<1>4. SUFFICES ASSUME r.method = "POST", Len(up) = 3, up[3] = Seg("git-receive-pack"),
                      NEW g \in p.deny
               PROVE  /\ ~(g.kind = "git-push" /\ About(g, Upto(up, 2)))
                      /\ ~(g.kind = "git-delete-ref" /\ \E ref \in PushDeletes(r.body) : About(g, ref))
  BY <1>2, <1>3, Zenon DEF GitPermitted
<1>5. IsPush(r)
  BY <1>1, <1>4 DEF IsPush
<1>6. ASSUME g.kind = "git-push" PROVE ~About(g, Upto(up, 2))
  BY <1>1, <1>5, <1>6, AboutIsCovered DEF checkGit, checkGitPush
<1>7. ASSUME g.kind = "git-delete-ref", NEW ref \in PushDeletes(r.body) PROVE ~About(g, ref)
  <2>1. ~r.body.encoded
    BY <1>7
  <2>2. PICK c \in parseReceivePackCommands(r.body) : c.is = "command" /\ c.deletes /\ c.ref = ref
    BY <1>7, <2>1, DeletesAreParsed
  <2>3. c \in S
    <3>1. \A i \in DOMAIN r.body.lines : r.body.lines[i] \in S
      OBVIOUS
    <3>2. QED
      BY <3>1 DEF parseReceivePackCommands
  <2>4. ref \in Paths(A)
    BY <2>2, <2>3
  <2>5. ~Covers(g, ref)
    BY <1>5, <1>7, <2>2 DEF checkGit, checkGitDelete
  <2>6. QED
    BY <2>4, <2>5, AboutIsCovered
<1>8. QED
  BY <1>6, <1>7

-----------------------------------------------------------------------------
(* What the requests are made of *)

\* Every symbol a request of the model or a rule has in it.
Alphabet ==
  Symbols \cup
  {"?", "a", "b", "o", "x", "z", ".", "..", "%2e%2e", ".git", "1", "m", "app", "other", "exec",
   "repositories", "users", "rate_limit", "graphql", "info", "git-receive-pack",
   "git-upload-pack", "projects"}

Words == Alphabet \cup {"", "**"}

\* The words that requests and rules are written with are texts over the alphabet.
LEMMA WordsFacts ==
  /\ Symbols \subseteq Alphabet /\ Alphabet \subseteq Words
  /\ \A w \in Alphabet : Seg(w) = <<w>>
  /\ \A w \in Words : Seg(w) \in Text(Alphabet)
<1>1. Symbols \subseteq Alphabet /\ Alphabet \subseteq Words
  BY Zenon DEF Alphabet, Words
<1>2. \A w \in Alphabet : Seg(w) = <<w>>
  <2>1. \A w \in Alphabet : w \in Symbols \/ Seg(w) = <<w>>
    BY Zenon DEF Alphabet, Seg
  <2>2. QED
    BY <2>1, SymbolFacts, Zenon
<1>3. /\ Seg("") \in Text(Alphabet) /\ Seg("**") \in Text(Alphabet)
      /\ \A w \in Alphabet : Seg(w) \in Text(Alphabet)
  BY <1>1, <1>2, SegType, DeepIsDeep, Zenon
<1>4. QED
  BY <1>1, <1>2, <1>3, Zenon DEF Words

\* So the path of some of them is a path over the alphabet.
LEMMA PathType ==
  ASSUME NEW words \in Seq(Words)
  PROVE  /\ Path(words) \in Paths(Alphabet)
         /\ Len(Path(words)) = Len(words) /\ Len(words) \in Nat
         /\ \A i \in 1 .. Len(words) : Path(words)[i] = Seg(words[i])
<1>1. /\ Len(words) \in Nat /\ DOMAIN words = 1 .. Len(words)
      /\ \A i \in 1 .. Len(words) : words[i] \in Words
  OBVIOUS
<1>2. Path(words) = [i \in 1 .. Len(words) |-> Seg(words[i])]
  BY <1>1 DEF Path
<1>3. \A i \in 1 .. Len(words) : Seg(words[i]) \in Text(Alphabet)
  BY <1>1, WordsFacts
<1>4. QED
  BY <1>1, <1>2, <1>3 DEF Paths

\* A sequence of symbols the rules for the API begin with.
Starts(words) == words \in Seq(Symbols) /\ Len(words) >= 1 /\ words[1] \in {"repos", "orgs", "user"}

\* What a rule about the API is made of.
LEMMA ApiRuleFacts ==
  ASSUME NEW method, NEW globs, \A g \in globs : Starts(g), NEW r \in ApiRules(method, globs)
  PROVE  r.kind = "api" /\ \E words \in globs : Starts(words) /\ r.glob = Path(words)
BY DEF ApiRules, Rule

\* Each default rule for the API is a pattern that begins with repos, orgs or user.
LEMMA DefaultApiRules ==
  ASSUME NEW r \in DefaultDenyRules, r.kind = "api"
  PROVE  \E words : Starts(words) /\ r.glob = Path(words)
<1>1. \A g \in DeniedDeletes : Starts(g)
  <2>1. /\ Starts(<<"repos", "*", "*">>)
        /\ Starts(<<"orgs", "*">>)
        /\ Starts(<<"repos", "*", "*", "git", "refs", "heads", "main">>)
    BY DEF Starts, Symbols
  <2>2. /\ Starts(<<"repos", "*", "*", "git", "refs", "heads", "master">>)
        /\ Starts(<<"repos", "*", "*", "branches", "*", "protection">>)
        /\ Starts(<<"repos", "*", "*", "actions", "secrets", "*">>)
    BY DEF Starts, Symbols
  <2>3. /\ Starts(<<"orgs", "*", "actions", "secrets", "*">>)
        /\ Starts(<<"repos", "*", "*", "environments", "*", "secrets", "*">>)
        /\ Starts(<<"repos", "*", "*", "dependabot", "secrets", "*">>)
    BY DEF Starts, Symbols
  <2>4. /\ Starts(<<"repos", "*", "*", "codespaces", "secrets", "*">>)
        /\ Starts(<<"repos", "*", "*", "hooks", "*">>)
        /\ Starts(<<"orgs", "*", "hooks", "*">>)
    BY DEF Starts, Symbols
  <2>5. /\ Starts(<<"repos", "*", "*", "keys", "*">>)
        /\ Starts(<<"user", "keys", "*">>)
        /\ Starts(<<"user", "gpg_keys", "*">>)
    BY DEF Starts, Symbols
  <2>6. /\ Starts(<<"orgs", "*", "memberships", "*">>)
        /\ Starts(<<"repos", "*", "*", "releases", "*">>)
        /\ Starts(<<"repos", "*", "*", "actions", "runs", "*">>)
    BY DEF Starts, Symbols
  <2>7. QED
    BY <2>1, <2>2, <2>3, <2>4, <2>5, <2>6, Zenon DEF DeniedDeletes
<1>2. \A g \in DeniedPosts : Starts(g)
  <2>1. /\ Starts(<<"repos", "*", "*", "transfer">>)
        /\ Starts(<<"repos", "*", "*", "hooks">>)
        /\ Starts(<<"orgs", "*", "hooks">>)
    BY DEF Starts, Symbols
  <2>2. /\ Starts(<<"repos", "*", "*", "keys">>)
        /\ Starts(<<"user", "keys">>)
        /\ Starts(<<"user", "gpg_keys">>)
    BY DEF Starts, Symbols
  <2>3. QED
    BY <2>1, <2>2, Zenon DEF DeniedPosts
<1>3. \A g \in DeniedPuts : Starts(g)
  <2>1. /\ Starts(<<"repos", "*", "*", "branches", "*", "protection">>)
        /\ Starts(<<"orgs", "*", "memberships", "*">>)
        /\ Starts(<<"repos", "*", "*", "actions", "permissions">>)
    BY DEF Starts, Symbols
  <2>2. QED
    BY <2>1, Zenon DEF DeniedPuts
<1>4. \A g \in DeniedPatches : Starts(g)
  <2>1. /\ Starts(<<"repos", "*", "*", "hooks", "*">>)
        /\ Starts(<<"orgs", "*", "hooks", "*">>)
        /\ Starts(<<"user">>)
    BY DEF Starts, Symbols
  <2>2. Starts(<<"orgs", "*">>)
    BY DEF Starts, Symbols
  <2>3. QED
    BY <2>1, <2>2, Zenon DEF DeniedPatches
<1>5. \/ r \in ApiRules("DELETE", DeniedDeletes)
      \/ r \in ApiRules("POST", DeniedPosts)
      \/ r \in ApiRules("PUT", DeniedPuts)
      \/ r \in ApiRules("PATCH", DeniedPatches)
  <2>1. \A k, m, w : Rule(k, m, w).kind = k
    BY DEF Rule
  <2>2. "api" # "git-delete-ref"
    OBVIOUS
  <2>3. QED
    BY <2>1, <2>2, Zenon DEF DefaultDenyRules
<1>6. QED
  BY <1>1, <1>2, <1>3, <1>4, <1>5, ApiRuleFacts

\* The patterns of the default rules are paths over the alphabet.
LEMMA DefaultRulesTyped == \A r \in DefaultDenyRules : r.glob \in Paths(Alphabet)
<1>1. ASSUME NEW r \in DefaultDenyRules, r.kind = "api" PROVE r.glob \in Paths(Alphabet)
  <2>1. PICK words : Starts(words) /\ r.glob = Path(words)
    BY <1>1, DefaultApiRules
  <2>2. words \in Seq(Symbols)
    BY <2>1 DEF Starts
  <2>3. QED
    BY <2>1, <2>2, PathFacts, WordsFacts
<1>2. \A k, m, w : Rule(k, m, w).kind = k /\ Rule(k, m, w).glob = Path(w)
  BY DEF Rule
<1>3. \A g \in {<<"refs", "heads", b>> : b \in {"main", "master"}} : Path(g) \in Paths(Alphabet)
  <2>1. \A b \in {"main", "master"} : <<"refs", "heads", b>> \in Seq(Symbols)
    BY DEF Symbols
  <2>2. QED
    BY <2>1, PathFacts, WordsFacts
<1>4. ASSUME NEW r \in DefaultDenyRules, r.kind # "api" PROVE r.glob \in Paths(Alphabet)
  <2>1. \A m, globs : \A q \in ApiRules(m, globs) : q.kind = "api"
    BY <1>2, Zenon DEF ApiRules
  <2>2. \E b \in {"main", "master"} : r.glob = Path(<<"refs", "heads", b>>)
    <3>1. r \in {Rule("git-delete-ref", "", <<"refs", "heads", b>>) : b \in {"main", "master"}}
      BY <1>4, <2>1, Zenon DEF DefaultDenyRules
    <3>2. PICK b \in {"main", "master"} : r = Rule("git-delete-ref", "", <<"refs", "heads", b>>)
      BY <3>1, Zenon
    <3>3. QED
      BY <1>2, <3>2, Zenon
  <2>3. QED
    BY <1>3, <2>2, Zenon
<1>5. QED
  BY <1>1, <1>4

Typed(deny) == \A r \in deny : r.glob \in Paths(Alphabet)

\* So are those of the operator's rules.
LEMMA DenyChoicesTyped ==
  /\ \A deny \in ApiDenyChoices \cup GitDenyChoices \cup {{}} : Typed(deny)
<1>1. Typed(DefaultDenyRules) /\ Typed({})
  BY DefaultRulesTyped DEF Typed
<1>2. ASSUME NEW k, NEW m, NEW words \in Seq(Words) PROVE Typed({Rule(k, m, words)})
  <2>1. \A r \in {Rule(k, m, words)} : r.glob = Path(words)
    BY DEF Rule
  <2>2. QED
    BY <2>1, PathType DEF Typed
<1>3. \A s, t : Typed({s}) /\ Typed({t}) => Typed({s, t})
  BY DEF Typed
<1>4. /\ <<>> \in Seq(Words) /\ <<"o", "*">> \in Seq(Words)
      /\ <<"repos", "*", "*", "git", "refs", "**">> \in Seq(Words)
  <2>1. /\ "o" \in Words /\ "*" \in Words /\ "repos" \in Words /\ "git" \in Words
        /\ "refs" \in Words /\ "**" \in Words
    BY Zenon DEF Words, Alphabet, Symbols
  <2>2. QED
    BY <2>1
<1>5. \A deny \in ApiDenyChoices : Typed(deny)
  <2>1. Typed({Rule("api", "", <<"repos", "*", "*", "git", "refs", "**">>)})
    BY <1>2, <1>4, Zenon
  <2>2. Typed({Rule("api", "PATCH", <<>>)})
    BY <1>2, <1>4, Zenon
  <2>3. Typed({Rule("api", "", <<"repos", "*", "*", "git", "refs", "**">>),
               Rule("api", "PATCH", <<>>)})
    BY <1>3, <2>1, <2>2, Zenon
  <2>4. QED
    BY <1>1, <2>3, Zenon DEF ApiDenyChoices
<1>6. \A deny \in GitDenyChoices : Typed(deny)
  <2>1. Typed({Rule("git-push", "", <<"o", "*">>)})
    BY <1>2, <1>4, Zenon
  <2>2. Typed({Rule("git-delete-ref", "", <<>>)})
    BY <1>2, <1>4, Zenon
  <2>3. QED
    BY <1>1, <2>1, <2>2, Zenon DEF GitDenyChoices
<1>7. QED
  BY <1>1, <1>5, <1>6, Zenon

\* A path of segments that is not the one of the GraphQL endpoint.
ApiPath(path) == path \in Paths(Alphabet) /\ path # <<>> /\ path[1] # <<"graphql">>

\* A path that a default rule's pattern stands for does not begin with graphql.
LEMMA InstancesType ==
  ASSUME NEW words, Starts(words), NEW p \in Instances(Path(words))
  PROVE  p \in Paths(Alphabet) /\ Len(p) >= 1 /\ p[1] # <<"graphql">>
<1> DEFINE glob == Path(words)
           W == {Seg(owner) : owner \in {"o", "z"}} \cup {Seg("x")}
<1>1. words \in Seq(Symbols) /\ Len(words) >= 1 /\ words[1] \in {"repos", "orgs", "user"}
  BY DEF Starts
<1>2. /\ glob \in Paths(Alphabet) /\ Len(glob) >= 1 /\ Len(glob) \in Nat
      /\ glob[1] = <<words[1]>>
  <2>1. Len(words) \in Nat /\ 1 \in 1 .. Len(words)
    BY <1>1
  <2>2. QED
    BY <1>1, <2>1, PathFacts, WordsFacts
<1> HIDE DEF glob
<1>3. DOMAIN glob = 1 .. Len(glob) /\ \A i \in 1 .. Len(glob) : glob[i] \in Text(Alphabet)
  BY <1>2, PathShape
<1>4. W \subseteq Text(Alphabet)
  <2>1. "o" \in Words /\ "z" \in Words /\ "x" \in Words
    BY Zenon DEF Words, Alphabet
  <2>2. QED
    BY <2>1, WordsFacts
<1>5. PICK owner \in {"o", "z"} :
        p = [i \in DOMAIN glob |-> IF glob[i] # <<"*">> THEN glob[i]
                                   ELSE IF i = 2 THEN Seg(owner) ELSE Seg("x")]
  BY DEF Instances, glob
<1>6. \A i \in 1 .. Len(glob) : p[i] \in Text(Alphabet)
  <2> HIDE DEF W
  <2>1. Seg(owner) \in W /\ Seg("x") \in W
    BY DEF W
  <2>2. QED
    BY <1>3, <1>4, <1>5, <2>1
<1>7. p \in Paths(Alphabet) /\ Len(p) = Len(glob)
  <2>1. p = [i \in 1 .. Len(glob) |-> p[i]]
    BY <1>3, <1>5
  <2> DEFINE q == [i \in 1 .. Len(glob) |-> p[i]]
  <2>2. q \in Seq(Text(Alphabet)) /\ Len(q) = Len(glob)
    BY <1>2, <1>6
  <2>3. QED
    BY <2>1, <2>2 DEF Paths
<1>8. p[1] = <<words[1]>>
  <2>1. 1 \in DOMAIN glob
    BY <1>2, <1>3
  <2>2. <<words[1]>> # <<"*">>
    BY <1>1
  <2>3. QED
    BY <1>2, <1>5, <2>1, <2>2
<1>9. QED
  <2>1. <<words[1]>> # <<"graphql">>
    BY <1>1
  <2>2. QED
    BY <1>2, <1>7, <1>8, <2>1

\* Nor does one near it.
LEMMA SurroundingsType ==
  ASSUME NEW p \in Paths(Alphabet), Len(p) >= 1, p[1] # <<"graphql">>,
         NEW q \in Surroundings(p), q # <<>>
  PROVE  ApiPath(q)
<1> DEFINE T == Text(Alphabet)
           n == Len(p)
<1>1. n \in Nat /\ n >= 1 /\ p \in Seq(T)
  BY PathShape DEF Paths
<1>2. /\ Seg("x") \in T /\ Seg("") \in T /\ Seg(".") \in T /\ Seg("..") \in T
      /\ Seg("x") = <<"x">>
  <2>1. "x" \in Words /\ "" \in Words /\ "." \in Words /\ ".." \in Words /\ "x" \in Alphabet
    BY Zenon DEF Words, Alphabet
  <2>2. QED
    BY <2>1, WordsFacts, Zenon
<1>3. Path(<<"x", "..">>) \in Seq(T) /\ Path(<<"x", "%2e%2e">>) \in Seq(T)
  <2>1. "x" \in Words /\ ".." \in Words /\ "%2e%2e" \in Words
    BY Zenon DEF Words, Alphabet
  <2>2. <<"x", "..">> \in Seq(Words) /\ <<"x", "%2e%2e">> \in Seq(Words)
    BY <2>1
  <2>3. QED
    BY <2>2, PathType DEF Paths
<1> HIDE DEF T
<1>4. ASSUME NEW s \in T PROVE ApiPath(Append(p, s))
  <2>1. Append(p, s) \in Seq(T) /\ Append(p, s)[1] = p[1] /\ Append(p, s) # <<>>
    BY <1>1
  <2>2. QED
    BY <2>1 DEF ApiPath, Paths, T
<1>5. ASSUME NEW s \in Seq(T) PROVE ApiPath(p \o s)
  <2>1. p \o s \in Seq(T) /\ (p \o s)[1] = p[1] /\ Len(p \o s) = Len(p) + Len(s) /\ Len(s) \in Nat
    <3>1. 1 \in 1 .. Len(p)
      BY <1>1
    <3>2. QED
      BY <1>1, <3>1, Join
  <2>2. p \o s # <<>>
    BY <1>1, <2>1
  <2>3. QED
    BY <2>1, <2>2 DEF ApiPath, Paths, T
<1>6. ASSUME Upto(p, n - 1) # <<>> PROVE ApiPath(Upto(p, n - 1))
  <2>1. SubSeq(p, 1, n - 1) \in Seq(T)
    BY <1>1
  <2>2. n - 1 >= 1
    <3>1. n - 1 < 1 => SubSeq(p, 1, n - 1) = <<>>
      BY <1>1
    <3>2. QED
      BY <1>1, <1>6, <3>1 DEF Upto
  <2>3. SubSeq(p, 1, n - 1)[1] = p[1]
    BY <1>1, <2>2
  <2>4. QED
    BY <1>6, <2>1, <2>3 DEF ApiPath, Paths, T, Upto
<1>7. ApiPath([p EXCEPT ![n] = @ \o <<"?">>])
  <2> DEFINE e == p[n] \o <<"?">>
             r == [p EXCEPT ![n] = e]
  <2>1. n \in 1 .. n /\ 1 \in 1 .. n
    BY <1>1
  <2>2. p[n] \in Seq(Alphabet)
    BY <2>1, PathShape DEF Text
  <2>3. <<"?">> \in Seq(Alphabet) /\ Len(<<"?">>) = 1
    <3>1. "?" \in Alphabet
      BY Zenon DEF Alphabet
    <3>2. QED
      BY <3>1
  <2>4. e \in Seq(Alphabet) /\ Len(e) = Len(p[n]) + 1 /\ Len(p[n]) \in Nat
        /\ \A i \in 1 .. Len(p[n]) : e[i] = p[n][i]
    BY <2>2, <2>3, Join
  <2>5. e # <<"graphql">>
    <3>1. SUFFICES ASSUME e = <<"graphql">> PROVE FALSE
      OBVIOUS
    <3>2. Len(e) = 1 /\ e[1] = "graphql"
      <4> HIDE DEF e
      <4> QED BY <3>1
    <3>3. Len(p[n]) = 0
      BY <2>4, <3>2
    <3>4. p[n] = <<>>
      BY <2>2, <3>3
    <3>5. e = <<"?">>
      BY <3>4
    <3>6. QED
      BY <3>1, <3>5
  <2>6. e \in T
    BY <2>4 DEF T, Text
  <2> HIDE DEF e
  <2>7. r \in Seq(T) /\ r # <<>> /\ r[1] # <<"graphql">>
    BY <1>1, <2>1, <2>5, <2>6
  <2>8. QED
    BY <2>7 DEF ApiPath, Paths, T, e
<1>8. ApiPath(<<Seg("x"), Seg("..")>> \o p)
  <2> DEFINE s == <<Seg("x"), Seg("..")>>
             u == Seg("x")
             v == Seg("..")
  <2>1. s \in Seq(T) /\ Len(s) = 2 /\ s[1] = <<"x">>
    <3>1. s = <<u, v>> /\ u \in T /\ v \in T /\ u = <<"x">>
      BY <1>2, Zenon
    <3> HIDE DEF s, u, v
    <3>2. QED
      BY <3>1
  <2> HIDE DEF s
  <2>2. s \o p \in Seq(T) /\ (s \o p)[1] = s[1] /\ Len(s \o p) = 2 + n
    <3>1. 1 \in 1 .. 2
      OBVIOUS
    <3>2. /\ s \o p \in Seq(T) /\ Len(s \o p) = Len(s) + Len(p)
          /\ \A i \in 1 .. Len(s) : (s \o p)[i] = s[i]
      BY ONLY <1>1, <2>1, Join, Zenon
    <3>3. QED
      BY <2>1, <3>1, <3>2
  <2>3. s \o p # <<>> /\ <<"x">> # <<"graphql">>
    BY <1>1, <2>2
  <2>4. QED
    BY <2>1, <2>2, <2>3 DEF ApiPath, Paths, T, s
<1>9. ApiPath(p)
  BY <1>1 DEF ApiPath
<1>10. QED
  BY <1>2, <1>3, <1>4, <1>5, <1>6, <1>7, <1>8, <1>9, Zenon DEF Surroundings

LEMMA GraphQLPath == Path(<<"graphql">>) = <<Seg("graphql")>> /\ Seg("graphql") = <<"graphql">>
<1>1. Seg("graphql") = <<"graphql">>
  BY Zenon DEF Seg
<1>2. QED
  BY <1>1 DEF Path

\* So no path of an API request is that of GraphQL.
LEMMA ApiPathsType ==
  ASSUME NEW path \in ApiPaths
  PROVE  ApiPath(path)
<1>1. \A words :
        /\ words \in Seq(Words) /\ Len(words) >= 1 /\ words[1] # "graphql"
        /\ words[1] \in Alphabet \/ Seg(words[1]) = <<>>
        => ApiPath(Path(words))
  <2>1. SUFFICES ASSUME NEW words \in Seq(Words), Len(words) >= 1, words[1] # "graphql",
                        words[1] \in Alphabet \/ Seg(words[1]) = <<>>
                 PROVE  ApiPath(Path(words))
    BY Zenon
  <2>2. Path(words) \in Paths(Alphabet) /\ Path(words) # <<>> /\ Path(words)[1] = Seg(words[1])
    <3>1. Path(words) \in Paths(Alphabet) /\ Len(Path(words)) >= 1
      BY <2>1, PathType
    <3>2. 1 \in 1 .. Len(words)
      BY <2>1, PathType
    <3>3. Path(words) # <<>>
      BY <3>1
    <3>4. QED
      BY <3>1, <3>2, <3>3, PathType
  <2>3. Seg(words[1]) # <<"graphql">>
    <3>1. \A w : <<w>> # <<>> /\ (<<w>> = <<"graphql">> => w = "graphql")
      OBVIOUS
    <3>2. words[1] \in Alphabet => Seg(words[1]) = <<words[1]>>
      BY WordsFacts
    <3>3. QED
      BY <2>1, <3>1, <3>2
  <2>4. QED
    BY <2>2, <2>3 DEF ApiPath
<1>2. CASE path \in AroundTheRules \ {<<>>}
  <2>1. PICK r \in DefaultDenyRules :
          r.kind = "api" /\ \E p \in Instances(r.glob) : path \in Surroundings(p)
    BY <1>2, Zenon DEF AroundTheRules
  <2>2. PICK p \in Instances(r.glob) : path \in Surroundings(p)
    BY <2>1
  <2>3. PICK words : Starts(words) /\ r.glob = Path(words)
    BY <2>1, DefaultApiRules
  <2>4. p \in Paths(Alphabet) /\ Len(p) >= 1 /\ p[1] # <<"graphql">>
    BY <2>2, <2>3, InstancesType
  <2>5. path # <<>>
    BY <1>2
  <2>6. QED
    BY <2>2, <2>4, <2>5, SurroundingsType
<1>3. /\ ApiPath(Path(<<"">>))
      /\ ApiPath(Path(<<"repositories", "1">>)) /\ ApiPath(Path(<<"users", "z">>))
      /\ ApiPath(Path(<<"rate_limit">>))
      /\ ApiPath(Path(<<"repos", "o", "x", "git", "refs", "heads", "b">>))
  <2> DEFINE none == ""
  <2>1. none \in Words /\ none # "graphql" /\ Seg(none) = <<>>
    <3>1. none \in Words
      BY Zenon DEF Words
    <3>2. none # "graphql"
      BY Zenon
    <3>3. Seg(none) = <<>>
      BY Zenon DEF Seg
    <3>4. QED
      BY <3>1, <3>2, <3>3, Zenon
  <2>2. /\ "repositories" \in Alphabet /\ "1" \in Alphabet /\ "users" \in Alphabet
        /\ "z" \in Alphabet
        /\ "rate_limit" \in Alphabet /\ "repos" \in Alphabet /\ "o" \in Alphabet /\ "x" \in Alphabet
        /\ "git" \in Alphabet /\ "refs" \in Alphabet /\ "heads" \in Alphabet /\ "b" \in Alphabet
    BY Zenon DEF Alphabet, Symbols
  <2>3. Alphabet \subseteq Words
    BY WordsFacts
  <2> HIDE DEF none
  <2>4. <<none>> \in Seq(Words) /\ Len(<<none>>) >= 1 /\ <<none>>[1] = none
    BY <2>1
  <2>5. /\ <<"repositories", "1">> \in Seq(Words) /\ Len(<<"repositories", "1">>) >= 1
        /\ <<"repositories", "1">>[1] = "repositories" /\ "repositories" # "graphql"
    BY <2>2, <2>3
  <2>6. /\ <<"users", "z">> \in Seq(Words) /\ Len(<<"users", "z">>) >= 1
        /\ <<"users", "z">>[1] = "users" /\ "users" # "graphql"
    BY <2>2, <2>3
  <2>7. /\ <<"rate_limit">> \in Seq(Words) /\ Len(<<"rate_limit">>) >= 1
        /\ <<"rate_limit">>[1] = "rate_limit" /\ "rate_limit" # "graphql"
    BY <2>2, <2>3
  <2> DEFINE ref == <<"repos", "o", "x", "git", "refs", "heads", "b">>
  <2>8. ref \in Seq(Words) /\ Len(ref) >= 1 /\ ref[1] = "repos" /\ "repos" # "graphql"
    BY <2>2, <2>3
  <2>9. ApiPath(Path(<<none>>))
    BY <1>1, <2>1, <2>4, Zenon
  <2>10. ApiPath(Path(<<"repositories", "1">>)) /\ ApiPath(Path(<<"users", "z">>))
    BY <1>1, <2>2, <2>5, <2>6, Zenon
  <2>11. ApiPath(Path(<<"rate_limit">>)) /\ ApiPath(Path(ref))
    BY <1>1, <2>2, <2>7, <2>8, Zenon
  <2>12. QED
    BY <2>9, <2>10, <2>11, Zenon DEF none
<1>4. QED
  BY <1>2, <1>3, Zenon DEF ApiPaths

\* What an API request is made of.
LEMMA ApiRequestFacts ==
  ASSUME NEW r \in ApiRequests
  PROVE  r.surface = "API" /\ ApiPath(r.path) /\ Typed(r.policy.deny)
<1>1. \A h, d, m, path : /\ ApiRequest(h, d, m, path).surface = "API"
                         /\ ApiRequest(h, d, m, path).path = path
                         /\ ApiRequest(h, d, m, path).policy.deny = d
  BY DEF ApiRequest, PolicyForSpec
<1>2. \/ \E d \in ApiDenyChoices, m \in {"GET", "POST", "PUT", "PATCH", "DELETE"},
           path \in ApiPaths :
           r = ApiRequest("basic", d, m, path)
      \/ \E h \in Credentials : r = ApiRequest(h, {}, "GET", Path(<<"user">>))
  BY DEF ApiRequests
<1>3. ApiPath(Path(<<"user">>))
  <2> DEFINE user == <<"user">>
  <2>1. user \in Seq(Symbols) /\ Len(user) = 1 /\ user[1] = "user" /\ 1 \in 1 .. 1
    BY DEF Symbols
  <2> HIDE DEF user
  <2>2. Path(user) \in Paths(Alphabet) /\ Len(Path(user)) = 1 /\ Path(user)[1] = <<"user">>
    BY <2>1, PathFacts, WordsFacts
  <2>3. Path(user) # <<>> /\ <<"user">> # <<"graphql">>
    BY <2>2
  <2>4. QED
    BY <2>2, <2>3 DEF ApiPath, user
<1>4. CASE \E d \in ApiDenyChoices, m \in {"GET", "POST", "PUT", "PATCH", "DELETE"},
           path \in ApiPaths :
             r = ApiRequest("basic", d, m, path)
  BY <1>1, <1>4, ApiPathsType, DenyChoicesTyped
<1>5. CASE \E h \in Credentials : r = ApiRequest(h, {}, "GET", Path(<<"user">>))
  <2>1. Typed({})
    BY DenyChoicesTyped
  <2>2. QED
    BY <1>1, <1>3, <1>5, <2>1
<1>6. QED
  BY <1>2, <1>4, <1>5

\* What a GraphQL request is made of.
LEMMA GraphQLRequestFacts ==
  ASSUME NEW r \in GraphQLRequests
  PROVE  r.surface = "API" /\ r.path = <<Seg("graphql")>> /\ r.body.keys \in Seq(BodyKeys)
<1>1. \A m, b : /\ GraphQLRequest(m, b).surface = "API"
                /\ GraphQLRequest(m, b).path = Path(<<"graphql">>)
                /\ GraphQLRequest(m, b).body = b
  BY DEF GraphQLRequest
<1>2. \E m \in {"GET", "POST"}, b \in Bodies : r = GraphQLRequest(m, b)
  BY DEF GraphQLRequests
<1>3. \A s, dis, keys : Body(s, dis, keys).keys = keys
  BY DEF Body
<1>4. ASSUME NEW b \in Bodies
      PROVE  \E s, dis : \E keys \in {<<k>> : k \in BodyKeys} \cup TwoKeys : b = Body(s, dis, keys)
  BY DEF Bodies
<1>5. \A k, l \in BodyKeys : <<k>> \in Seq(BodyKeys) /\ <<k, l>> \in Seq(BodyKeys)
  OBVIOUS
<1>6. TwoKeys \subseteq Seq(BodyKeys)
  <2> DEFINE First == [key : {"query", "variables"}, doc : OneOperation]
             Second == [key : {"query", "Query"}, doc : OneOperation]
  <2>1. First \subseteq BodyKeys /\ Second \subseteq BodyKeys
    BY DEF BodyKeys, OneOperation
  <2>2. \A keys \in TwoKeys : \E k \in First, l \in Second : keys = <<k, l>>
    BY DEF TwoKeys
  <2> HIDE DEF First, Second
  <2>3. QED
    BY <1>5, <2>1, <2>2
<1>7. {<<k>> : k \in BodyKeys} \subseteq Seq(BodyKeys)
  BY <1>5
<1>8. \A b \in Bodies : b.keys \in Seq(BodyKeys)
  <2>1. SUFFICES ASSUME NEW b \in Bodies PROVE b.keys \in Seq(BodyKeys)
    OBVIOUS
  <2>2. PICK s, dis : \E keys \in {<<k>> : k \in BodyKeys} \cup TwoKeys : b = Body(s, dis, keys)
    BY <1>4
  <2>3. PICK keys \in {<<k>> : k \in BodyKeys} \cup TwoKeys : b = Body(s, dis, keys)
    BY <2>2
  <2>4. keys \in Seq(BodyKeys)
    BY <1>6, <1>7
  <2>5. QED
    BY <1>3, <2>3, <2>4
<1>9. QED
  BY <1>1, <1>2, <1>8, GraphQLPath

LEMMA StringsType ==
  \A S : \A n : Strings(S, n) \subseteq Seq(S)
<1>1. ASSUME NEW S, NEW n, NEW s \in Strings(S, n) PROVE s \in Seq(S)
  <2>1. PICK k \in 1 .. n : s \in [1 .. k -> S]
    BY DEF Strings
  <2>2. k \in Nat
    OBVIOUS
  <2>3. QED
    BY <2>1, <2>2, IsASeq
<1>2. QED
  BY <1>1

\* The lines a push may have, the ones about a ref of any pattern included.
PushLines == PackLines \cup {Command(TRUE, <<ref>>) : ref \in Text(Alphabet)}

\* The refs in those lines are paths over the alphabet.
LEMMA LinesType == \A l \in PushLines : l.is = "command" => l.ref \in Paths(Alphabet)
<1>1. \A d, ref : Command(d, ref).is = "command" /\ Command(d, ref).ref = ref
  BY DEF Command
<1>2. \A b \in {"main", "b"} : Path(<<"refs", "heads", b>>) \in Paths(Alphabet)
  <2>1. \A b \in {"main", "b"} : <<"refs", "heads", b>> \in Seq(Words)
    <3>1. "refs" \in Words /\ "heads" \in Words /\ "main" \in Words /\ "b" \in Words
      BY Zenon DEF Words, Alphabet, Symbols
    <3>2. QED
      BY <3>1
  <2>2. QED
    BY <2>1, PathType
<1>3. \A ref \in Text(Alphabet) : <<ref>> \in Paths(Alphabet)
  BY DEF Paths
<1>4. ASSUME NEW l \in PackLines, l.is = "command" PROVE l.ref \in Paths(Alphabet)
  <2>1. \A x : [is |-> x].is = x
    OBVIOUS
  <2>2. l \notin {[is |-> x] : x \in {"flush", "short", "broken"}}
    BY <1>4
  <2>3. PICK d \in BOOLEAN, b \in {"main", "b"} : l = Command(d, Path(<<"refs", "heads", b>>))
    BY <2>2 DEF PackLines
  <2>4. QED
    BY <1>1, <1>2, <2>3
<1>5. ASSUME NEW l \in {Command(TRUE, <<ref>>) : ref \in Text(Alphabet)}
      PROVE  l.ref \in Paths(Alphabet)
  BY <1>1, <1>3
<1>6. QED
  BY <1>4, <1>5 DEF PushLines

\* What may follow the repository in a path is words.
LEMMA GitEndpointsType == GitEndpoints \subseteq Seq(Words)
<1> DEFINE empty == ""
<1>1. /\ "x" \in Words /\ "z" \in Words /\ ".." \in Words /\ "info" \in Words
      /\ "git-receive-pack" \in Words /\ "git-upload-pack" \in Words /\ empty \in Words
  BY Zenon DEF Words, Alphabet
<1>2. GitEndpoints =
        {<<>>, <<"info">>, <<"git-receive-pack">>, <<"git-upload-pack">>,
         <<"git-receive-pack", empty>>, <<"x", "..", "git-receive-pack">>,
         <<"..", "..", "z", "x", "git-receive-pack">>}
  BY Zenon DEF GitEndpoints
<1> HIDE DEF empty
<1>3. QED
  BY <1>1, <1>2

\* What a git request is made of.
LEMMA GitRequestFacts ==
  ASSUME NEW r \in GitRequests
  PROVE  /\ r.surface = "GIT" /\ r.path \in Paths(Alphabet) /\ Typed(r.policy.deny)
         /\ r.body.lines \in Seq(PushLines)
<1>1. \A d, m, w, s, enc, lines :
        LET q == GitRequest(d, m, w, s, enc, lines)
        IN  q.surface = "GIT" /\ q.path = Path(w) /\ q.policy.deny = d /\ q.body.lines = lines
  BY DEF GitRequest, PolicyForSpec
<1>2. \A S : \A v, w \in S : <<>> \in Seq(S) /\ <<v>> \in Seq(S) /\ <<v, w>> \in Seq(S)
  OBVIOUS
<1>3. ASSUME NEW d \in GitDenyChoices, NEW m \in {"GET", "POST"}, NEW owner \in {"o", "z"},
             NEW s \in BOOLEAN, NEW e \in GitEndpoints, NEW enc \in BOOLEAN,
             NEW lines \in Strings(PackLines, 2),
             r = GitRequest(d, m, <<owner, "x">> \o e, s, enc, lines)
      PROVE  /\ r.surface = "GIT" /\ r.path \in Paths(Alphabet) /\ Typed(r.policy.deny)
             /\ r.body.lines \in Seq(PushLines)
  <2>1. Typed(d)
    BY DenyChoicesTyped
  <2>2. lines \in Seq(PushLines)
    <3>1. lines \in Seq(PackLines)
      BY StringsType
    <3>2. PackLines \subseteq PushLines
      BY Zenon DEF PushLines
    <3>3. QED
      BY <3>1, <3>2, SeqMonotonic
  <2> DEFINE words == <<owner, "x">> \o e
  <2>3. Path(words) \in Paths(Alphabet)
    <3>1. "o" \in Words /\ "z" \in Words /\ "x" \in Words
      BY Zenon DEF Words, Alphabet
    <3>2. <<owner, "x">> \in Seq(Words)
      BY <1>2, <3>1, Zenon
    <3>3. e \in Seq(Words)
      BY GitEndpointsType
    <3>4. words \in Seq(Words)
      BY ONLY <3>2, <3>3, Join, Zenon
    <3>5. QED
      BY <3>4, PathType
  <2> HIDE DEF words
  <2>4. r = GitRequest(d, m, words, s, enc, lines)
    BY <1>3, Zenon DEF words
  <2>5. QED
    BY <1>1, <2>1, <2>2, <2>3, <2>4
<1>4. ASSUME NEW pat \in Strings({"a", "b", "*", "?"}, MaxGlob),
             NEW ref \in Strings({"a", "b"}, MaxGlob),
             r = Deletion(pat, ref)
      PROVE  /\ r.surface = "GIT" /\ r.path \in Paths(Alphabet) /\ Typed(r.policy.deny)
             /\ r.body.lines \in Seq(PushLines)
  <2>1. pat \in Text(Alphabet) /\ ref \in Text(Alphabet)
    <3>1. pat \in Seq({"a", "b", "*", "?"}) /\ ref \in Seq({"a", "b"})
      BY StringsType
    <3>2. {"a", "b", "*", "?"} \subseteq Alphabet /\ {"a", "b"} \subseteq Alphabet
      BY Zenon DEF Alphabet, Symbols
    <3>3. QED
      BY <3>1, <3>2, SeqMonotonic DEF Text
  <2> DEFINE deny == {RefRule(pat)}
             command == Command(TRUE, <<ref>>)
             words == <<"o", "x", "git-receive-pack">>
             suffix == TRUE
             encoded == FALSE
  <2>2. Typed(deny)
    <3>1. RefRule(pat).glob = <<pat>>
      BY Zenon DEF RefRule
    <3>2. <<pat>> \in Paths(Alphabet)
      BY <2>1 DEF Paths
    <3>3. QED
      BY <3>1, <3>2 DEF Typed
  <2>3. command \in PushLines
    BY <2>1, Zenon DEF PushLines
  <2>4. Path(words) \in Paths(Alphabet)
    <3>1. "o" \in Words /\ "x" \in Words /\ "git-receive-pack" \in Words
      BY Zenon DEF Words, Alphabet
    <3>2. words \in Seq(Words)
      BY <3>1
    <3>3. QED
      BY <3>2, PathType
  <2>5. r = GitRequest(deny, "POST", words, suffix, encoded, <<command>>)
    BY <1>4, Zenon DEF Deletion
  <2> HIDE DEF deny, command, words, suffix, encoded
  <2>6. <<command>> \in Seq(PushLines)
    BY <1>2, <2>3, Zenon
  <2>7. /\ r.surface = "GIT" /\ r.path = Path(words)
        /\ r.policy.deny = deny /\ r.body.lines = <<command>>
    <3> DEFINE lines == <<command>>
    <3>1. r = GitRequest(deny, "POST", words, suffix, encoded, lines)
      BY <2>5, Zenon
    <3> HIDE DEF lines
    <3>2. r.surface = "GIT" /\ r.path = Path(words) /\ r.policy.deny = deny /\ r.body.lines = lines
      BY <1>1, <3>1
    <3>3. QED
      BY <3>2, Zenon DEF lines
  <2>8. QED
    BY <2>2, <2>4, <2>6, <2>7, Zenon
<1>5. CASE r \in RepositoryRequests
  <2>1. PICK d \in GitDenyChoices, m \in {"GET", "POST"}, owner \in {"o", "z"}, s \in BOOLEAN,
           e \in GitEndpoints, enc \in BOOLEAN, lines \in Strings(PackLines, 2) :
             r = GitRequest(d, m, <<owner, "x">> \o e, s, enc, lines)
    BY <1>5 DEF RepositoryRequests
  <2>2. QED
    BY <1>3, <2>1, Zenon
<1>6. CASE r \notin RepositoryRequests
  <2>1. \E pat \in Strings({"a", "b", "*", "?"}, MaxGlob), ref \in Strings({"a", "b"}, MaxGlob) :
           r = Deletion(pat, ref)
    BY <1>6 DEF GitRequests
  <2>2. QED
    BY <1>4, <2>1, Zenon
<1>7. QED
  BY <1>5, <1>6, Zenon

\* What a Fly request is made of.
LEMMA FlyRequestFacts ==
  ASSUME NEW r \in FlyRequests
  PROVE  r.surface = "FLY" /\ r.path \in Paths(Alphabet)
<1>1. \A h, on, apps, m, tok, w : LET q == FlyRequest(h, on, apps, m, tok, w)
                                  IN  q.surface = "FLY" /\ q.path = Path(w)
  BY DEF FlyRequest
<1>2. \E h, on, apps, m, tok : \E w \in FlyPaths : r = FlyRequest(h, on, apps, m, tok, w)
  BY DEF FlyRequests
<1>3. FlyPaths \subseteq Seq(Words)
  <2> DEFINE empty == ""
  <2>1. /\ "v1" \in Words /\ "apps" \in Words /\ "app" \in Words /\ "logs" \in Words
        /\ "other" \in Words /\ ".." \in Words /\ empty \in Words
        /\ "machines" \in Words /\ "m" \in Words /\ "exec" \in Words /\ "orgs" \in Words
    BY Zenon DEF Words, Alphabet, Symbols
  <2>2. FlyPaths =
          {<<"v1", "apps", "app">>, <<"v1", "apps", "app", "logs">>, <<"v1", "apps", "other", "logs">>,
           <<"v1", "apps", "app", "machines", "m", "exec">>, <<"v1", "apps">>, <<"v1", "orgs">>,
           <<"v1", "apps", empty, "logs">>, <<"v1", "apps", "..", "logs">>,
           <<"v1", "apps", "app", "machines", "..">>}
    BY Zenon DEF FlyPaths
  <2> HIDE DEF empty
  <2>3. QED
    BY <2>1, <2>2
<1>4. QED
  BY <1>1, <1>2, <1>3, PathType

\* What a Doppler request is made of.
LEMMA DopplerRequestFacts ==
  ASSUME NEW r \in DopplerRequests
  PROVE  r.surface = "DOPPLER" /\ r.path \in Paths(Alphabet) /\ r.query \in Seq(Projects)
<1>1. \A h, on, m, tok, query, named, w :
        LET q == DopplerRequest(h, on, m, tok, query, named, w)
        IN  q.surface = "DOPPLER" /\ q.path = Path(w) /\ q.query = query
  BY DEF DopplerRequest
<1>2. \E h, on, m, tok, named : \E query \in Strings(Projects, 2) \cup {<<>>} :
        \E w \in DopplerPaths : r = DopplerRequest(h, on, m, tok, query, named, w)
  BY DEF DopplerRequests
<1>3. DopplerPaths \subseteq Seq(Words)
  <2>1. /\ "v3" \in Words /\ "configs" \in Words /\ "config" \in Words /\ "projects" \in Words
        /\ "secrets" \in Words
    BY Zenon DEF Words, Alphabet, Symbols
  <2>2. QED
    BY <2>1 DEF DopplerPaths
<1>4. Strings(Projects, 2) \cup {<<>>} \subseteq Seq(Projects)
  <2>1. \A S : <<>> \in Seq(S)
    OBVIOUS
  <2>2. QED
    BY <2>1, StringsType, Zenon
<1>5. QED
  BY <1>1, <1>2, <1>3, <1>4, PathType

-----------------------------------------------------------------------------
(* What is sent *)

KnownRequests ==
  ApiRequests \cup GraphQLRequests \cup GitRequests \cup FlyRequests \cup DopplerRequests

\* What each surface lets through is what its sender's policy permits, as the service
\* reads it, or is overlooked.
LEMMA ApiIsPermitted ==
  ASSUME NEW r \in KnownRequests, r.surface = "API",
         IF r.path = <<Seg("graphql")>> THEN checkGraphQLRequest(r)
         ELSE checkAPI(r.policy, r.method, r.path)
  PROVE  Permitted(r)
<1>1. r \in ApiRequests \cup GraphQLRequests
  BY GitRequestFacts, FlyRequestFacts, DopplerRequestFacts DEF KnownRequests
<1>2. CASE r \in GraphQLRequests
  <2>1. r.path = <<Seg("graphql")>> /\ r.body.keys \in Seq(BodyKeys)
    BY <1>2, GraphQLRequestFacts
  <2>2. ~r.body.disguised /\ checkGraphQL(r.body)
    BY <2>1 DEF checkGraphQLRequest
  <2>3. /\ r.body.shape = "object"
        /\ \A op \in GraphQLRuns(r.body) : op.type # "subscription" /\ op.fields \subseteq Allowlisted
    BY <2>1, <2>2, CheckGraphQLIsSafe
  <2>4. QED
    BY <2>1, <2>2, <2>3, Zenon DEF Permitted
<1>3. CASE r \in ApiRequests
  <2>1. ApiPath(r.path) /\ Typed(r.policy.deny)
    BY <1>3, ApiRequestFacts
  <2>2. r.path \in Paths(Alphabet) /\ r.path # <<>> /\ r.path[1] # <<"graphql">>
    BY <2>1 DEF ApiPath
  <2>3. r.path # <<Seg("graphql")>>
    <3>1. \A x : (<<x>>)[1] = x
      OBVIOUS
    <3>2. QED
      BY <2>2, <3>1, GraphQLPath, Zenon
  <2>4. RestPermitted(r.policy, r.method, Resource(r.path))
    <3>1. checkAPI(r.policy, r.method, r.path)
      BY <2>3
    <3>2. \A g \in r.policy.deny : g.glob \in Paths(Alphabet)
      BY <2>1 DEF Typed
    <3>3. QED
      BY <2>2, <3>1, <3>2, CheckAPIIsSafe
  <2>5. UpstreamPath(r) = r.path
    BY Zenon DEF UpstreamPath
  <2>6. QED
    BY <2>3, <2>4, <2>5, Zenon DEF Permitted
<1>4. QED
  BY <1>1, <1>2, <1>3

\* The same for git: what handleGit lets through.
LEMMA GitIsPermitted ==
  ASSUME NEW r \in KnownRequests, r.surface = "GIT", ~(Len(r.path) < 3), checkGit(r.policy, r)
  PROVE  Permitted(r) \/ Overlooked(r)
<1>1. r \in GitRequests
  BY ApiRequestFacts, GraphQLRequestFacts, FlyRequestFacts, DopplerRequestFacts DEF KnownRequests
<1>2. r.path \in Paths(Alphabet) /\ Typed(r.policy.deny) /\ r.body.lines \in Seq(PushLines)
  BY <1>1, GitRequestFacts
<1>3. Len(r.path) >= 3
  BY <1>2, PathShape
<1>4. \A g \in r.policy.deny : g.glob \in Paths(Alphabet)
  BY <1>2 DEF Typed
<1>5. ".git" \in Alphabet
  BY Zenon DEF Alphabet
<1>6. SUFFICES ASSUME ~Overlooked(r) PROVE Permitted(r)
  OBVIOUS
<1>7. checkAPIPath(UpstreamPath(r)) /\ ~(r.body.encoded /\ PushDeletes(r.body) # {})
  BY <1>6, Zenon DEF Overlooked
<1>8. GitPermitted(r.policy, r, Resource(UpstreamPath(r)))
  BY <1>2, <1>3, <1>4, <1>5, <1>7, CheckGitIsSafe, LinesType
<1>9. QED
  BY <1>8, Zenon DEF Permitted

\* The same for Fly.
LEMMA FlyIsPermitted ==
  ASSUME NEW r \in KnownRequests, r.surface = "FLY", checkFly(r.policy, r)
  PROVE  Permitted(r) \/ Overlooked(r)
<1>1. r \in FlyRequests
  BY ApiRequestFacts, GraphQLRequestFacts, GitRequestFacts, DopplerRequestFacts DEF KnownRequests
<1>2. r.path \in Paths(Alphabet) /\ UpstreamPath(r) = r.path
  BY <1>1, FlyRequestFacts DEF UpstreamPath
<1>3. SUFFICES ASSUME ~Overlooked(r) PROVE Permitted(r)
  OBVIOUS
<1>4. checkAPIPath(r.path)
  BY <1>2, <1>3, Zenon DEF Overlooked
<1>5. FlyPermitted(r.policy, r, Resource(UpstreamPath(r)))
  BY <1>2, <1>4, CheckFlyIsSafe, WordsFacts
<1>6. QED
  BY <1>5, Zenon DEF Permitted

\* The same for Doppler.
LEMMA DopplerIsPermitted ==
  ASSUME NEW r \in KnownRequests, r.surface = "DOPPLER", checkDoppler(r.policy, r)
  PROVE  Permitted(r) \/ Overlooked(r)
<1>1. r \in DopplerRequests
  BY ApiRequestFacts, GraphQLRequestFacts, GitRequestFacts, FlyRequestFacts DEF KnownRequests
<1>2. r.path \in Paths(Alphabet) /\ r.query \in Seq(Projects)
  BY <1>1, DopplerRequestFacts
<1>3. SUFFICES ASSUME ~Overlooked(r) PROVE Permitted(r)
  OBVIOUS
<1>4. \A a, b \in NamedProjects(r) : a = b
  BY <1>3, Zenon DEF Overlooked
<1>5. DopplerPermitted(r.policy, r, Resource(UpstreamPath(r)))
  BY <1>2, <1>4, CheckDopplerIsSafe, WordsFacts
<1>6. QED
  BY <1>5, Zenon DEF Permitted

\* A request is one of the five kinds, nothing is sent before one has come, and what was
\* sent was permitted or overlooked.
RequestsInv ==
  /\ incoming = Idle \/ incoming \in KnownRequests
  /\ incoming = Idle => ~answer.sent
  /\ ForwardedRequestsAreAllowed

\* A handler that sends only what is permitted or overlooked keeps the invariant.
LEMMA HandleKeepsRequestsInv ==
  ASSUME RequestsInv, NEW surface \in {"API", "GIT", "FLY", "DOPPLER"}, incoming # Idle,
         incoming' = incoming,
         answer'.sent => /\ incoming.surface = surface
                         /\ Permitted(incoming) \/ Overlooked(incoming)
                         /\ incoming.handle =
                              IF surface \in {"API", "GIT"} THEN "basic" ELSE "bearer"
  PROVE  RequestsInv'
<1> DEFINE handle(s) == IF s \in {"API", "GIT"} THEN "basic" ELSE "bearer"
           permitted(r) == Permitted(r) \/ Overlooked(r)
<1>1. ForwardedRequestsAreAllowed' <=>
        (answer'.sent => permitted(incoming') /\ incoming'.handle = handle(incoming'.surface))
  BY DEF ForwardedRequestsAreAllowed
<1>2. answer'.sent => permitted(incoming) /\ incoming.handle = handle(incoming.surface)
  OBVIOUS
<1> HIDE DEF handle, permitted
<1>3. ForwardedRequestsAreAllowed'
  BY <1>1, <1>2
<1>4. incoming' # Idle /\ incoming' \in KnownRequests
  BY DEF RequestsInv
<1>5. QED
  BY <1>3, <1>4 DEF RequestsInv

\* What is sent with the host's credentials is what the sender's policy permits, as the
\* service reads it, with the sender's handle, or one of the requests the handlers are
\* known to overlook: after any number of requests.
THEOREM RequestsSafety == RequestsSpec => []ForwardedRequestsAreAllowed
<1>1. RequestsInit => RequestsInv
  BY DEF RequestsInit, RequestsInv, ForwardedRequestsAreAllowed, Idle, Pending
<1>2. ASSUME RequestsInv, [RequestsNext]_requestVars PROVE RequestsInv'
  <2>1. ASSUME NEW R, R \subseteq KnownRequests, \A r \in R : r # Idle, Arrive(R) PROVE RequestsInv'
    <3>1. incoming' \in KnownRequests /\ incoming' # Idle /\ ~answer.sent /\ answer' = answer
      BY <1>2, <2>1 DEF Arrive, RequestsInv
    <3>2. ForwardedRequestsAreAllowed'
      BY <3>1 DEF ForwardedRequestsAreAllowed
    <3>3. QED
      BY <3>1, <3>2 DEF RequestsInv
  <2>2. CASE Arrive(ApiRequests) \/ Arrive(GraphQLRequests)
    BY <2>1, <2>2, ApiRequestFacts, GraphQLRequestFacts DEF KnownRequests, Idle
  <2>3. CASE Arrive(GitRequests) \/ Arrive(FlyRequests) \/ Arrive(DopplerRequests)
    BY <2>1, <2>3, GitRequestFacts, FlyRequestFacts, DopplerRequestFacts DEF KnownRequests, Idle
  <2>4. CASE incoming # Idle /\ handleAPI
    <3>1. incoming \in KnownRequests
      BY <1>2, <2>4 DEF RequestsInv
    <3>2. incoming' = incoming
      BY <2>4 DEF handleAPI, Handle, Forward, Reply
    <3>3. answer'.sent => /\ incoming.surface = "API" /\ incoming.handle = "basic"
                          /\ IF incoming.path = <<Seg("graphql")>>
                             THEN checkGraphQLRequest(incoming)
                             ELSE checkAPI(incoming.policy, incoming.method, incoming.path)
      BY <2>4 DEF handleAPI, Handle, Forward, Reply
    <3>4. QED
      BY <1>2, <2>4, <3>1, <3>2, <3>3, ApiIsPermitted, HandleKeepsRequestsInv
  <2>5. CASE incoming # Idle /\ handleGit
    <3>1. incoming \in KnownRequests
      BY <1>2, <2>5 DEF RequestsInv
    <3>2. incoming' = incoming
      BY <2>5 DEF handleGit, Handle, Forward, Reply
    <3>3. answer'.sent => /\ incoming.surface = "GIT" /\ incoming.handle = "basic"
                          /\ ~(Len(incoming.path) < 3) /\ checkGit(incoming.policy, incoming)
      BY <2>5 DEF handleGit, Handle, Forward, Reply
    <3>4. QED
      BY <1>2, <2>5, <3>1, <3>2, <3>3, GitIsPermitted, HandleKeepsRequestsInv
  <2>6. CASE incoming # Idle /\ handleFly
    <3>1. incoming \in KnownRequests
      BY <1>2, <2>6 DEF RequestsInv
    <3>2. incoming' = incoming
      BY <2>6 DEF handleFly, Handle, Forward, Reply
    <3>3. answer'.sent => /\ incoming.surface = "FLY" /\ incoming.handle = "bearer"
                          /\ checkFly(incoming.policy, incoming)
      BY <2>6 DEF handleFly, Handle, Forward, Reply
    <3>4. QED
      BY <1>2, <2>6, <3>1, <3>2, <3>3, FlyIsPermitted, HandleKeepsRequestsInv
  <2>7. CASE incoming # Idle /\ handleDoppler
    <3>1. incoming \in KnownRequests
      BY <1>2, <2>7 DEF RequestsInv
    <3>2. incoming' = incoming
      BY <2>7 DEF handleDoppler, Handle, Forward, Reply
    <3>3. answer'.sent => /\ incoming.surface = "DOPPLER" /\ incoming.handle = "bearer"
                          /\ checkDoppler(incoming.policy, incoming)
      BY <2>7 DEF handleDoppler, Handle, Forward, Reply
    <3>4. QED
      BY <1>2, <2>7, <3>1, <3>2, <3>3, DopplerIsPermitted, HandleKeepsRequestsInv
  <2>8. CASE Finish
    BY <2>8 DEF Finish, Pending, RequestsInv, ForwardedRequestsAreAllowed
  <2>9. CASE UNCHANGED requestVars
    BY <1>2, <2>9 DEF requestVars, RequestsInv, ForwardedRequestsAreAllowed
  <2>10. QED
    BY <1>2, <2>2, <2>3, <2>4, <2>5, <2>6, <2>7, <2>8, <2>9 DEF RequestsNext
<1>3. RequestsInv => ForwardedRequestsAreAllowed
  BY DEF RequestsInv
<1>4. QED
  BY <1>1, <1>2, <1>3, PTL DEF RequestsSpec
=============================================================================
