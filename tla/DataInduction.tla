--------------------------- MODULE DataInduction ---------------------------
(***************************************************************************)
(* Induction over the natural numbers, drawn from the existence of least   *)
(* elements, and what it shows of iterations, of parts and concatenations  *)
(* of sequences, and of sums over finite sets: what the operators of the   *)
(* modules that are defined by recursion compute is proved with it.        *)
(***************************************************************************)
EXTENDS Integers, SequencesExt, Functions, SequenceTheorems, FiniteSetTheorems,
        WellFoundedInduction, TLAPS

(* A set of natural numbers that is not empty has a least element.         *)
LEMMA Least ==
  ASSUME NEW T \in SUBSET Nat, T # {}
  PROVE  \E n \in T : \A m \in T : n <= m
<1> DEFINE Less == {ss \in Nat \X Nat : ss[1] < ss[2]}
<1>1. IsWellFoundedOn(Less, Nat)
  BY NatLessThanWellFounded DEF OpToRel
<1>2. \E n \in T : \A m \in T : <<m, n>> \notin Less
  <2> HIDE DEF Less
  <2> QED BY <1>1, WFMin
<1>3. PICK n \in T : \A m \in T : <<m, n>> \notin Less
  BY <1>2
<1>4. ASSUME NEW m \in T PROVE n <= m
  <2>1. m \in Nat /\ n \in Nat /\ <<m, n>> \notin Less
    BY <1>3
  <2>2. ~(m < n)
    BY <2>1
  <2> QED BY <2>1, <2>2
<1> QED BY <1>4

LEMMA Induction ==
  ASSUME NEW S, 0 \in S, \A n \in Nat : n \in S => n + 1 \in S
  PROVE  Nat \subseteq S
<1> DEFINE T == Nat \ S
<1> SUFFICES ASSUME T # {} PROVE FALSE
  OBVIOUS
<1>1. PICK n \in T : \A m \in T : n <= m
  BY Least
<1>2. n # 0 /\ n - 1 \in Nat /\ n - 1 \notin T
  BY <1>1
<1> QED BY <1>1, <1>2

(* A function on lo..hi may be defined by its value at lo and, above, from  *)
(* the value one below: F[d] leads from the value at d-1 to the value at d  *)
(* and stays in S.                                                         *)
IsIteration(g, S, a, lo, hi, F) ==
  /\ g \in [lo..hi -> S]
  /\ \A d \in lo..hi : g[d] = IF d = lo THEN a ELSE F[d][g[d-1]]

CanIterate(S, a, lo, hi, F) ==
  /\ lo \in Int /\ hi \in Int /\ a \in S
  /\ \A d \in lo..hi : \A x \in S : F[d][x] \in S

LEMMA Iteration ==
  ASSUME NEW S, NEW a, NEW lo, NEW hi, NEW F, CanIterate(S, a, lo, hi, F)
  PROVE  \E g : IsIteration(g, S, a, lo, hi, F)
<1> USE DEF CanIterate
<1> DEFINE IsStart(g, n) == IsIteration(g, S, a, lo, n, F)
           Sound == {n \in Nat : lo + n <= hi => \E g : IsStart(g, lo + n)}
<1>1. CASE hi < lo
  <2>1. IsStart([d \in lo..hi |-> a], hi)
    BY <1>1 DEF IsIteration
  <2> QED BY <2>1
<1>2. CASE lo <= hi
  <2>1. 0 \in Sound
    <3>1. IsStart([d \in lo..lo |-> a], lo)
      BY DEF IsIteration
    <3>2. lo + 0 = lo
      OBVIOUS
    <3> HIDE DEF IsStart
    <3> QED BY <3>1, <3>2
  <2>2. ASSUME NEW n \in Nat, n \in Sound PROVE n + 1 \in Sound
    <3> SUFFICES ASSUME lo + (n + 1) <= hi PROVE \E h : IsStart(h, lo + (n + 1))
      OBVIOUS
    <3>1. PICK g : IsStart(g, lo + n)
      BY <2>2
    <3> DEFINE m == lo + (n + 1)
               h == [d \in lo..m |-> IF d = m THEN F[m][g[lo + n]] ELSE g[d]]
    <3>2. /\ m \in Int /\ m - 1 = lo + n /\ m \in lo..hi /\ m > lo
          /\ \A d \in lo..m : d # m => d \in lo..(lo + n)
          /\ \A d \in lo..m : d # lo => d - 1 \in lo..(lo + n) /\ d - 1 # m
          /\ \A d \in lo..(lo + n) : d \in lo..m /\ d # m
          /\ lo + n \in lo..(lo + n)
      OBVIOUS
    <3> HIDE DEF m
    <3>3. g[lo + n] \in S /\ F[m][g[lo + n]] \in S
      BY <3>1, <3>2 DEF IsIteration
    <3>4. h \in [lo..m -> S]
      BY <3>1, <3>2, <3>3 DEF IsIteration
    <3>5. ASSUME NEW d \in lo..m PROVE h[d] = IF d = lo THEN a ELSE F[d][h[d-1]]
      <4>1. CASE d = m
        BY <3>2, <4>1
      <4>2. CASE d # m
        <5>1. d \in lo..(lo + n) /\ h[d] = g[d] /\ g[d] = IF d = lo THEN a ELSE F[d][g[d-1]]
          BY <3>1, <3>2, <4>2 DEF IsIteration
        <5>2. d # lo => h[d-1] = g[d-1]
          BY <3>2, <4>2
        <5> QED BY <5>1, <5>2
      <4> QED BY <4>1, <4>2
    <3>6. IsStart(h, m)
      BY <3>4, <3>5 DEF IsIteration
    <3> QED BY <3>6 DEF m
  <2>3. Nat \subseteq Sound
    <3> HIDE DEF Sound
    <3> QED BY <2>1, <2>2, Induction
  <2>4. PICK n \in Nat : lo + n = hi
    <3>1. hi - lo \in Nat /\ lo + (hi - lo) = hi
      BY <1>2
    <3> QED BY <3>1
  <2>5. \E g : IsStart(g, hi)
    <3>1. n \in Sound
      <4> HIDE DEF Sound
      <4> QED BY <2>3
    <3>2. lo + n <= hi
      BY <2>4
    <3>3. \E g : IsStart(g, lo + n)
      <4> HIDE DEF IsStart
      <4> QED BY <3>1, <3>2
    <3> QED BY <2>4, <3>3
  <2> QED BY <2>5
<1> QED BY <1>1, <1>2

-----------------------------------------------------------------------------
(* Sequences: parts, concatenation and FlattenSeq.                         *)
(* The least and the greatest of a set.                                    *)
LEMMA MinIs ==
  ASSUME NEW T \in SUBSET Nat, T # {}
  PROVE  Min(T) \in T /\ \A m \in T : Min(T) <= m
<1>1. \E n \in T : \A m \in T : n <= m
  BY Least
<1> QED BY <1>1 DEF Min

LEMMA MaxIs ==
  ASSUME NEW T \in SUBSET Nat, NEW b \in Nat, T # {}, \A n \in T : n <= b
  PROVE  Max(T) \in T /\ \A m \in T : m <= Max(T)
<1> DEFINE D == {d \in Nat : d <= b /\ b - d \in T}
<1>1. D # {}
  <2>1. PICK n \in T : n <= b
    OBVIOUS
  <2>2. b - n \in Nat /\ b - n <= b /\ b - (b - n) = n
    BY <2>1
  <2>3. b - n \in D
    BY <2>1, <2>2
  <2> QED BY <2>3
<1>2. PICK d \in D : \A m \in D : d <= m
  BY <1>1, Least
<1>3. \E n \in T : \A m \in T : n >= m
  <2>1. b - d \in T /\ b - d \in Nat /\ d \in Nat
    BY <1>2
  <2>2. ASSUME NEW m \in T PROVE b - d >= m
    <3>1. m \in Nat /\ m <= b
      OBVIOUS
    <3>2. b - m \in Nat /\ b - m <= b /\ b - (b - m) = m
      BY <3>1
    <3>3. b - m \in D
      BY <3>2
    <3>4. d <= b - m
      BY <1>2, <3>3
    <3> QED BY <2>1, <3>1, <3>4
  <2> QED BY <2>1, <2>2
<1>4. Max(T) \in T /\ \A m \in T : Max(T) >= m
  BY <1>3 DEF Max
<1>5. ASSUME NEW m \in T PROVE m <= Max(T)
  BY <1>4
<1> QED BY <1>4, <1>5

-----------------------------------------------------------------------------
(* Sequences by their elements: parts, and two in a row.                   *)
LEMMA Cut ==
  ASSUME NEW S, NEW s \in Seq(S), NEW a \in Int, NEW b \in Int, 1 <= a, a <= b + 1, b <= Len(s)
  PROVE  /\ SubSeq(s, a, b) \in Seq(S) /\ Len(SubSeq(s, a, b)) = b - a + 1
         /\ \A i \in 1..(b - a + 1) : SubSeq(s, a, b)[i] = s[a + i - 1]
<1>1. \A i \in a..b : s[i] \in S
  OBVIOUS
<1>2. Len(SubSeq(s, a, b)) = IF a <= b THEN b - a + 1 ELSE 0
  BY <1>1, SubSeqProperties
<1>3. SubSeq(s, a, b) \in Seq(S) /\ \A i \in 1..(b - a + 1) : SubSeq(s, a, b)[i] = s[a + i - 1]
  BY <1>1, SubSeqProperties
<1> QED BY <1>2, <1>3

LEMMA CutCut ==
  ASSUME NEW S, NEW s \in Seq(S), NEW a \in Int, NEW b \in Int, NEW c \in Int, NEW d \in Int,
         1 <= a, b <= Len(s), 1 <= c, c <= d + 1, d <= b - a + 1
  PROVE  SubSeq(SubSeq(s, a, b), c, d) = SubSeq(s, a + c - 1, a + d - 1)
<1> DEFINE u == SubSeq(s, a, b)
           x == SubSeq(u, c, d)
           y == SubSeq(s, a + c - 1, a + d - 1)
<1>0. a <= b + 1
  OBVIOUS
<1>1. u \in Seq(S) /\ Len(u) = b - a + 1 /\ \A i \in 1..(b - a + 1) : u[i] = s[a + i - 1]
  BY <1>0, Cut
<1>2. x \in Seq(S) /\ Len(x) = d - c + 1 /\ \A i \in 1..(d - c + 1) : x[i] = u[c + i - 1]
  <2> HIDE DEF u
  <2> QED BY <1>1, Cut
<1>3. /\ a + c - 1 \in Int /\ a + d - 1 \in Int /\ 1 <= a + c - 1 
      /\ a + c - 1 <= (a + d - 1) + 1 /\ a + d - 1 <= Len(s)
  BY <1>0
<1>4. y \in Seq(S) /\ Len(y) = (a + d - 1) - (a + c - 1) + 1
      /\ \A i \in 1..((a + d - 1) - (a + c - 1) + 1) : y[i] = s[a + c - 1 + i - 1]
  BY <1>3, Cut
<1>5. Len(y) = d - c + 1
  BY <1>4
<1>6. ASSUME NEW i \in 1..(d - c + 1) PROVE x[i] = y[i]
  <2>1. c + i - 1 \in 1..(b - a + 1)
    OBVIOUS
  <2>2. x[i] = s[a + (c + i - 1) - 1]
    BY <1>1, <1>2, <2>1
  <2>3. a + (c + i - 1) - 1 = a + c - 1 + i - 1 /\ i \in 1..((a + d - 1) - (a + c - 1) + 1)
    OBVIOUS
  <2>4. y[i] = s[a + c - 1 + i - 1]
    BY <1>4, <2>3
  <2> QED BY <2>2, <2>3, <2>4
<1> HIDE DEF x, y
<1> QED BY <1>2, <1>4, <1>5, <1>6, SeqEqual, SMTT(30)

LEMMA SameSeq ==
  ASSUME NEW S, NEW a \in Seq(S), NEW b \in Seq(S), Len(a) = Len(b),
         \A k \in 1..Len(a) : a[k] = b[k]
  PROVE  a = b
<1>1. PICK n \in Nat : a \in [1..n -> S]
  OBVIOUS
<1>2. PICK m \in Nat : b \in [1..m -> S]
  OBVIOUS
<1>3. n = m
  BY <1>1, <1>2
<1>4. \A k \in 1..n : a[k] = b[k]
  BY <1>1
<1> QED BY <1>1, <1>2, <1>3, <1>4

IsCat(c, a, b, m, n) ==
  /\ Len(c) = m + n
  /\ \A k \in 1..m : c[k] = a[k]
  /\ \A k \in 1..n : c[m + k] = b[k]

LEMMA Cat ==
  ASSUME NEW S, NEW a \in Seq(S), NEW b \in Seq(S), NEW m, NEW n, m = Len(a), n = Len(b),
         NEW c, c = a \o b
  PROVE  c \in Seq(S) /\ IsCat(c, a, b, m, n)
<1>1. m \in Nat /\ n \in Nat
  OBVIOUS
<1>2. /\ a \o b \in Seq(S) /\ Len(a \o b) = m + n
      /\ \A k \in 1..(m + n) : (a \o b)[k] = IF k <= m THEN a[k] ELSE b[k - m]
  OBVIOUS
<1>3. \A k \in 1..m : k \in 1..(m + n) /\ k <= m
  BY <1>1
<1>4. \A k \in 1..n : m + k \in 1..(m + n) /\ ~(m + k <= m) /\ (m + k) - m = k
  BY <1>1
<1> QED BY <1>1, <1>2, <1>3, <1>4 DEF IsCat

LEMMA Two ==
  ASSUME NEW x, NEW y
  PROVE  <<x>> \o <<y>> = <<x, y>>
<1> DEFINE S == {x, y}
           a == <<x>>
           b == <<y>>
           c == a \o b
           d == <<x, y>>
<1>1. a \in Seq(S) /\ b \in Seq(S) /\ Len(a) = 1 /\ Len(b) = 1 /\ a[1] = x /\ b[1] = y
  OBVIOUS
<1>2. d \in Seq(S) /\ Len(d) = 2 /\ d[1] = x /\ d[2] = y
  OBVIOUS
<1> HIDE DEF S, a, b, d
<1>3. c \in Seq(S) /\ IsCat(c, a, b, 1, 1)
  BY <1>1, Cat
<1> HIDE DEF c
<1>4. 1 \in 1..1 /\ 1 + 1 = 2 /\ \A k \in 1..2 : k = 1 \/ k = 2
  OBVIOUS
<1>5. Len(c) = 2 /\ c[1] = x /\ c[2] = y
  BY <1>1, <1>3, <1>4 DEF IsCat
<1>6. c = d
  BY <1>2, <1>3, <1>4, <1>5, SameSeq
<1> QED BY <1>6 DEF a, b, c, d

(* A part of a sequence, element by element.                               *)
LEMMA PartIs ==
  ASSUME NEW S, NEW q \in Seq(S), NEW a \in Seq(S), NEW p \in Nat, p + Len(a) <= Len(q),
         \A k \in 1..Len(a) : q[p + k] = a[k]
  PROVE  SubSeq(q, p + 1, p + Len(a)) = a
<1>1. PICK m \in Nat : m = Len(a)
  OBVIOUS
<1>2. PICK s : s = SubSeq(q, p + 1, p + m)
  OBVIOUS
<1>3. /\ p + 1 \in Int /\ p + m \in Int /\ 1 <= p + 1 /\ p + 1 <= (p + m) + 1
      /\ (p + m) - (p + 1) + 1 = m /\ \A k \in 1..m : (p + 1) + k - 1 = p + k
  OBVIOUS
<1>4. p + m <= Len(q)
  BY <1>1
<1>5. /\ SubSeq(q, p + 1, p + m) \in Seq(S) /\ Len(SubSeq(q, p + 1, p + m)) = (p + m) - (p + 1) + 1
      /\ \A k \in 1..((p + m) - (p + 1) + 1) : SubSeq(q, p + 1, p + m)[k] = q[(p + 1) + k - 1]
  BY <1>3, <1>4, Cut
<1>6. s \in Seq(S) /\ Len(s) = m /\ \A k \in 1..m : s[k] = q[p + k]
  BY <1>2, <1>3, <1>5
<1>7. \A k \in 1..m : s[k] = a[k]
  BY <1>1, <1>6
<1>8. s = a
  BY <1>1, <1>6, <1>7, SameSeq
<1> QED BY <1>1, <1>2, <1>8

-----------------------------------------------------------------------------
(* What FlattenSeq has put together after each of its elements.            *)
Stages(st, s, S) ==
  /\ st \in [0..Len(s) -> Seq(S)] /\ st[0] = << >>
  /\ \A i \in 1..Len(s) : st[i] = st[i-1] \o s[i]

(* There is one such sequence of stages, and its last is the result.       *)
LEMMA StagesExist ==
  ASSUME NEW S, NEW s \in Seq(Seq(S))
  PROVE  \E st : Stages(st, s, S)
<1> DEFINE F == [d \in 0..Len(s) |-> [x \in Seq(S) |-> IF d = 0 THEN << >> ELSE x \o s[d]]]
<1>1. CanIterate(Seq(S), << >>, 0, Len(s), F)
  <2>1. \A d \in 0..Len(s) : \A x \in Seq(S) : F[d][x] \in Seq(S)
    OBVIOUS
  <2>2. Len(s) \in Int /\ << >> \in Seq(S)
    OBVIOUS
  <2> HIDE DEF F
  <2> QED BY <2>1, <2>2 DEF CanIterate
<1>2. PICK st : IsIteration(st, Seq(S), << >>, 0, Len(s), F)
  <2> HIDE DEF F
  <2> QED BY <1>1, Iteration
<1>3. \A d \in 0..Len(s) : st[d] = IF d = 0 THEN << >> ELSE F[d][st[d-1]]
  <2> HIDE DEF F
  <2> QED BY <1>2 DEF IsIteration
<1>4. st \in [0..Len(s) -> Seq(S)]
  BY <1>2 DEF IsIteration
<1>5. ASSUME NEW i \in 1..Len(s) PROVE st[i] = st[i-1] \o s[i]
  <2>1. i \in 0..Len(s) /\ i - 1 \in 0..Len(s) /\ i # 0
    OBVIOUS
  <2>2. st[i-1] \in Seq(S)
    BY <1>4, <2>1
  <2> QED BY <1>3, <2>1, <2>2
<1>6. st[0] = << >>
  <2>1. 0 \in 0..Len(s)
    OBVIOUS
  <2> HIDE DEF F
  <2> QED BY <1>3, <2>1
<1> QED BY <1>4, <1>5, <1>6 DEF Stages

LEMMA StagesAgree ==
  ASSUME NEW S, NEW s \in Seq(Seq(S)), NEW t \in Seq(Seq(S)), NEW st, NEW tt,
         Stages(st, s, S), Stages(tt, t, S), NEW k \in 0..Len(s), k <= Len(t),
         \A i \in 1..k : s[i] = t[i]
  PROVE  st[k] = tt[k]
<1> DEFINE N == {n \in Nat : n <= k => st[n] = tt[n]}
<1>1. 0 \in N
  BY DEF Stages
<1>2. ASSUME NEW n \in Nat, n \in N PROVE n + 1 \in N
  <2> SUFFICES ASSUME n + 1 <= k PROVE st[n+1] = tt[n+1]
    OBVIOUS
  <2>1. n + 1 \in 1..Len(s) /\ n + 1 \in 1..Len(t) /\ n + 1 \in 1..k /\ (n + 1) - 1 = n /\ n <= k
    OBVIOUS
  <2>2. st[n] = tt[n] /\ s[n+1] = t[n+1]
    BY <1>2, <2>1
  <2>3. st[n+1] = st[n] \o s[n+1] /\ tt[n+1] = tt[n] \o t[n+1]
    BY <2>1 DEF Stages
  <2> QED BY <2>2, <2>3
<1>3. Nat \subseteq N
  <2> HIDE DEF N
  <2> QED BY <1>1, <1>2, Induction
<1> QED BY <1>3

LEMMA FlattenIs ==
  ASSUME NEW S, NEW s \in Seq(Seq(S)), NEW st, Stages(st, s, S)
  PROVE  FlattenSeq(s) = st[Len(s)] /\ FlattenSeq(s) \in Seq(S)
<1>1. st[Len(s)] \in Seq(S)
  BY DEF Stages
<1>2. CASE Len(s) = 0
  BY <1>1, <1>2 DEF FlattenSeq, Stages
<1>3. CASE Len(s) # 0
  <2> DEFINE Is(f) == f = [i \in 1..Len(s) |-> IF i = 1 THEN s[i] ELSE f[i-1] \o s[i]]
             g == [i \in 1..Len(s) |-> st[i]]
  <2>1. ASSUME NEW i \in 1..Len(s) PROVE g[i] = IF i = 1 THEN s[i] ELSE g[i-1] \o s[i]
    <3>1. st[i] = st[i-1] \o s[i] /\ s[i] \in Seq(S) /\ st[0] = << >>
      BY DEF Stages
    <3>2. i = 1 => st[i-1] \o s[i] = s[i]
      <4>1. << >> \o s[i] = s[i]
        BY <3>1
      <4>2. i = 1 => i - 1 = 0
        OBVIOUS
      <4> QED BY <3>1, <4>1, <4>2
    <3>3. i # 1 => i - 1 \in 1..Len(s)
      OBVIOUS
    <3> QED BY <3>1, <3>2, <3>3
  <2>2. Is(g)
    BY <2>1
  <2> DEFINE f == CHOOSE f : Is(f)
  <2>3. Is(f)
    BY <2>2
  <2>4. FlattenSeq(s) = f[Len(s)]
    BY <1>3 DEF FlattenSeq
  <2> HIDE DEF f, g
  <2> DEFINE N == {n \in Nat : n + 1 <= Len(s) => f[n + 1] = st[n + 1]}
  <2>5. \A i \in 1..Len(s) : f[i] = IF i = 1 THEN s[i] ELSE f[i-1] \o s[i]
    BY <2>3
  <2>6. 0 \in N
    <3>1. 1 \in 1..Len(s)
      BY <1>3
    <3>0. 1 - 1 = 0 /\ 0 + 1 = 1
      OBVIOUS
    <3>2. f[1] = s[1] /\ st[1] = st[0] \o s[1] /\ st[0] = << >> /\ s[1] \in Seq(S)
      <4>1. st[1] = st[1-1] \o s[1] /\ st[0] = << >>
        BY <3>1 DEF Stages
      <4>2. f[1] = s[1] /\ s[1] \in Seq(S)
        BY <2>5, <3>1
      <4> QED BY <3>0, <4>1, <4>2
    <3>3. st[1] = s[1]
      BY <3>2
    <3> QED BY <3>0, <3>2, <3>3
  <2>7. ASSUME NEW n \in Nat, n \in N PROVE n + 1 \in N
    <3> SUFFICES ASSUME (n + 1) + 1 <= Len(s) PROVE f[(n + 1) + 1] = st[(n + 1) + 1]
      OBVIOUS
    <3>1. PICK m \in Nat : m = (n + 1) + 1
      OBVIOUS
    <3>2. m \in 1..Len(s) /\ m # 1 /\ m - 1 = n + 1 /\ n + 1 <= Len(s)
      BY <3>1
    <3>3. f[n + 1] = st[n + 1]
      BY <2>7, <3>2
    <3>4. f[m] = f[n+1] \o s[m]
      BY <2>5, <3>2
    <3>5. st[m] = st[n+1] \o s[m]
      BY <3>2 DEF Stages
    <3> QED BY <3>1, <3>3, <3>4, <3>5
  <2>8. Nat \subseteq N
    <3> HIDE DEF N
    <3> QED BY <2>6, <2>7, Induction
  <2>9. PICK n \in Nat : n + 1 = Len(s)
    <3>1. Len(s) - 1 \in Nat /\ (Len(s) - 1) + 1 = Len(s)
      BY <1>3
    <3> QED BY <3>1
  <2>10. f[n + 1] = st[n + 1]
    BY <2>8, <2>9
  <2> QED BY <1>1, <2>4, <2>9, <2>10
<1> QED BY <1>2, <1>3

LEMMA FlattenNone == FlattenSeq(<< >>) = << >>
BY DEF FlattenSeq

LEMMA FlattenAppend ==
  ASSUME NEW S, NEW s \in Seq(Seq(S)), NEW x \in Seq(S)
  PROVE  FlattenSeq(Append(s, x)) = FlattenSeq(s) \o x
<1>1. PICK t : t = Append(s, x)
  OBVIOUS
<1>2. /\ t \in Seq(Seq(S)) /\ Len(t) = Len(s) + 1 /\ t[Len(s) + 1] = x
      /\ \A i \in 1..Len(s) : t[i] = s[i]
  BY <1>1
<1>3. PICK st : Stages(st, s, S)
  BY StagesExist
<1>4. PICK tt : Stages(tt, t, S)
  BY <1>2, StagesExist
<1>5. PICK n \in Nat : n = Len(s)
  OBVIOUS
<1>6. st[n] = tt[n]
  <2>1. n \in 0..Len(s) /\ n <= Len(t) /\ \A i \in 1..n : s[i] = t[i]
    BY <1>2, <1>5
  <2> QED BY <1>2, <1>3, <1>4, <2>1, StagesAgree
<1>7. tt[n + 1] = tt[n] \o x
  <2>1. n + 1 \in 1..Len(t) /\ (n + 1) - 1 = n /\ t[n + 1] = x
    BY <1>2, <1>5
  <2> QED BY <1>4, <2>1 DEF Stages
<1>8. FlattenSeq(s) = st[n] /\ FlattenSeq(t) = tt[n + 1]
  BY <1>2, <1>3, <1>4, <1>5, FlattenIs
<1> QED BY <1>1, <1>6, <1>7, <1>8

LEMMA FlattenType ==
  ASSUME NEW S, NEW s \in Seq(Seq(S))
  PROVE  FlattenSeq(s) \in Seq(S)
BY StagesExist, FlattenIs

(* What F makes of the elements of s, one after the other.                 *)
Flat(F, s) == FlattenSeq([i \in DOMAIN s |-> F[s[i]]])

LEMMA FlatIs ==
  ASSUME NEW S, NEW R, NEW F \in [S -> Seq(R)], NEW s \in Seq(S)
  PROVE  Flat(F, s) \in Seq(R) /\ Flat(F, << >>) = << >>
<1> DEFINE m == [i \in DOMAIN s |-> F[s[i]]]
<1>1. m \in Seq(Seq(R))
  <2>1. \A i \in 1..Len(s) : F[s[i]] \in Seq(R)
    OBVIOUS
  <2>2. m = [i \in 1..Len(s) |-> F[s[i]]] /\ Len(s) \in Nat
    OBVIOUS
  <2> HIDE DEF m
  <2>3. m \in [1..Len(s) -> Seq(R)]
    BY <2>1, <2>2
  <2> QED BY <2>2, <2>3
<1>2. [i \in DOMAIN << >> |-> F[<< >>[i]]] = << >>
  OBVIOUS
<1> HIDE DEF m
<1>3. FlattenSeq(m) \in Seq(R)
  BY <1>1, FlattenType
<1> QED BY <1>2, <1>3, FlattenNone DEF Flat, m

LEMMA FlatMore ==
  ASSUME NEW S, NEW R, NEW F \in [S -> Seq(R)], NEW s \in Seq(S), NEW y \in S
  PROVE  Flat(F, Append(s, y)) = Flat(F, s) \o F[y]
<1> DEFINE m == [i \in DOMAIN s |-> F[s[i]]]
<1>1. PICK n \in Nat : n = Len(s)
  OBVIOUS
<1>2. PICK t : t = Append(s, y)
  OBVIOUS
<1>3. DOMAIN t = 1..(n + 1) /\ DOMAIN s = 1..n /\ t[n + 1] = y /\ \A i \in 1..n : t[i] = s[i] /\ s[i] \in S
  BY <1>1, <1>2
<1>4. m \in Seq(Seq(R)) /\ Len(m) = n /\ \A i \in 1..n : m[i] = F[s[i]]
  <2>1. \A i \in 1..n : F[s[i]] \in Seq(R)
    BY <1>3
  <2>2. m = [i \in 1..n |-> F[s[i]]]
    BY <1>3
  <2> HIDE DEF m
  <2>3. m \in [1..n -> Seq(R)]
    BY <2>1, <2>2
  <2> QED BY <2>2, <2>3
<1> DEFINE u == [i \in DOMAIN t |-> F[t[i]]]
<1>5. u = [i \in 1..(n + 1) |-> F[t[i]]]
  BY <1>3
<1> HIDE DEF m, u
<1>6. PICK v : v = Append(m, F[y])
  OBVIOUS
<1>7. v \in Seq(Seq(R)) /\ Len(v) = n + 1 /\ v[n + 1] = F[y] /\ \A i \in 1..n : v[i] = m[i]
  BY <1>4, <1>6
<1>8. u \in Seq(Seq(R)) /\ Len(u) = n + 1
  <2>1. \A i \in 1..(n + 1) : i \in 1..n \/ i = n + 1
    OBVIOUS
  <2>2. \A i \in 1..(n + 1) : F[t[i]] \in Seq(R)
    BY <1>3, <2>1
  <2>3. u \in [1..(n + 1) -> Seq(R)]
    BY <1>5, <2>2
  <2> QED BY <2>3
<1>9. ASSUME NEW i \in 1..(n + 1) PROVE u[i] = v[i]
  <2>1. i \in 1..n \/ i = n + 1
    OBVIOUS
  <2>2. u[i] = F[t[i]]
    BY <1>5
  <2> QED BY <1>3, <1>4, <1>7, <2>1, <2>2
<1>10. u = v
  BY <1>7, <1>8, <1>9, SameSeq
<1>11. FlattenSeq(v) = FlattenSeq(m) \o F[y]
  BY <1>4, <1>6, FlattenAppend
<1> QED BY <1>2, <1>10, <1>11 DEF Flat, m, u

(* What holds of << >> and of one element more holds of every sequence.    *)
LEMMA SeqInduction ==
  ASSUME NEW S, NEW G, << >> \in G, \A s \in Seq(S) : \A y \in S : s \in G => Append(s, y) \in G
  PROVE  Seq(S) \subseteq G
<1> DEFINE N == {n \in Nat : \A s \in Seq(S) : Len(s) = n => s \in G}
<1>1. 0 \in N
  <2>1. \A s \in Seq(S) : Len(s) = 0 => s = << >>
    OBVIOUS
  <2> QED BY <2>1
<1>2. ASSUME NEW n \in Nat, n \in N PROVE n + 1 \in N
  <2> SUFFICES ASSUME NEW s \in Seq(S), Len(s) = n + 1 PROVE s \in G
    OBVIOUS
  <2>1. PICK r : r = SubSeq(s, 1, n)
    OBVIOUS
  <2>2. 1 <= n + 1 /\ n <= n + 1 /\ n - 1 + 1 = n /\ \A i \in 1..n : 1 + i - 1 = i
    OBVIOUS
  <2>3. /\ SubSeq(s, 1, n) \in Seq(S) /\ Len(SubSeq(s, 1, n)) = n - 1 + 1
        /\ \A i \in 1..(n - 1 + 1) : SubSeq(s, 1, n)[i] = s[1 + i - 1]
    BY <2>2, Cut
  <2>4. r \in Seq(S) /\ Len(r) = n /\ \A i \in 1..n : r[i] = s[i]
    BY <2>1, <2>2, <2>3
  <2>5. PICK y \in S : y = s[n + 1]
    <3>1. n + 1 \in 1..Len(s)
      OBVIOUS
    <3> QED BY <3>1
  <2>6. PICK t : t = Append(r, y)
    OBVIOUS
  <2>7. t \in Seq(S) /\ Len(t) = n + 1 /\ t[n + 1] = y /\ \A i \in 1..n : t[i] = r[i]
    BY <2>4, <2>6
  <2>8. \A i \in 1..(n + 1) : i \in 1..n \/ i = n + 1
    OBVIOUS
  <2>9. \A i \in 1..Len(s) : s[i] = t[i]
    BY <2>4, <2>5, <2>7, <2>8
  <2>10. s = t
    BY <2>7, <2>9, SameSeq
  <2>11. r \in G
    BY <1>2, <2>4
  <2> QED BY <2>4, <2>6, <2>10, <2>11
<1>3. Nat \subseteq N
  <2> HIDE DEF N
  <2> QED BY <1>1, <1>2, Induction
<1> QED BY <1>3

-----------------------------------------------------------------------------
(* Sums over finite sets.                                                  *)
LEMMA OneLess ==
  ASSUME NEW s, IsFiniteSet(s), NEW n \in Nat, Cardinality(s) = n + 1, NEW x \in s
  PROVE  Cardinality(s \ {x}) = n
<1>1. Cardinality(s \ {x}) = Cardinality(s) - 1
  BY FS_RemoveElement
<1>2. (n + 1) - 1 = n
  OBVIOUS
<1> QED BY <1>1, <1>2

(* What holds of {} and of one element more holds of every finite set.     *)
LEMMA SetInduction ==
  ASSUME NEW T, IsFiniteSet(T), NEW G, {} \in G,
         \A s \in SUBSET T : \A x \in T \ s : s \in G => s \cup {x} \in G
  PROVE  T \in G
<1> DEFINE N == {n \in Nat : \A s \in SUBSET T : Cardinality(s) = n => s \in G}
<1>1. 0 \in N
  <2> SUFFICES ASSUME NEW s \in SUBSET T, Cardinality(s) = 0 PROVE s \in G
    OBVIOUS
  <2>1. IsFiniteSet(s)
    BY FS_Subset
  <2> QED BY <2>1, FS_EmptySet
<1>2. ASSUME NEW n \in Nat, n \in N PROVE n + 1 \in N
  <2> SUFFICES ASSUME NEW s \in SUBSET T, Cardinality(s) = n + 1 PROVE s \in G
    OBVIOUS
  <2>1. IsFiniteSet(s)
    BY FS_Subset
  <2>2. PICK x : x \in s
    <3>1. Cardinality(s) # 0
      OBVIOUS
    <3> QED BY <2>1, <3>1, FS_EmptySet
  <2>3. Cardinality(s \ {x}) = n
    BY <2>1, <2>2, OneLess
  <2>4. s \ {x} \in SUBSET T /\ s \ {x} \in G /\ x \in T \ (s \ {x})
    BY <1>2, <2>2, <2>3
  <2>5. (s \ {x}) \cup {x} = s
    BY <2>2
  <2>6. (s \ {x}) \cup {x} \in G
    BY <2>4
  <2> QED BY <2>5, <2>6
<1>3. Nat \subseteq N
  <2> HIDE DEF N
  <2> QED BY <1>1, <1>2, Induction
<1>4. Cardinality(T) \in Nat
  BY FS_CardinalityType
<1> QED BY <1>3, <1>4

-----------------------------------------------------------------------------
(* g adds the values of f over the subsets of T, an element at a time.     *)
Adds(g, f, T) ==
  g = [s \in SUBSET T |-> IF s = {} THEN 0
                          ELSE f[CHOOSE x \in s : TRUE] + g[s \ {CHOOSE x \in s : TRUE}]]

LEMMA SumIs ==
  ASSUME NEW f, NEW T
  PROVE  SumFunctionOnSet(f, T) = (CHOOSE g : Adds(g, f, T))[T]
BY DEF SumFunctionOnSet, FoldFunctionOnSet, MapThenFoldSet, Adds

(* Such a function exists, ...                                             *)
LEMMA AddsExists ==
  ASSUME NEW T, IsFiniteSet(T), NEW f, \A x \in T : f[x] \in Nat
  PROVE  \E g \in [SUBSET T -> Nat] : Adds(g, f, T)
<1> DEFINE c(s) == CHOOSE x \in s : TRUE
           Part(n) == {s \in SUBSET T : Cardinality(s) <= n}
           Sound(g, n) == /\ g \in [Part(n) -> Nat]
                          /\ \A s \in Part(n) : g[s] = IF s = {} THEN 0 ELSE f[c(s)] + g[s \ {c(s)}]
           N == {n \in Nat : \E g : Sound(g, n)}
<1>0. ASSUME NEW s \in SUBSET T
      PROVE  /\ IsFiniteSet(s) /\ Cardinality(s) \in Nat /\ (Cardinality(s) = 0 <=> s = {})
             /\ s # {} => c(s) \in s /\ Cardinality(s \ {c(s)}) = Cardinality(s) - 1
  <2>1. IsFiniteSet(s)
    BY FS_Subset
  <2>2. Cardinality(s) \in Nat /\ (Cardinality(s) = 0 <=> s = {})
    BY <2>1, FS_CardinalityType, FS_EmptySet
  <2>3. s # {} => c(s) \in s
    OBVIOUS
  <2> HIDE DEF c
  <2>4. c(s) \in s => Cardinality(s \ {c(s)}) = Cardinality(s) - 1
    BY <2>1, FS_RemoveElement
  <2> QED BY <2>1, <2>2, <2>3, <2>4
<1> HIDE DEF c
<1>1. 0 \in N
  <2> DEFINE g == [s \in Part(0) |-> 0]
  <2>1. ASSUME NEW s \in Part(0) PROVE s = {}
    <3>1. s \in SUBSET T /\ Cardinality(s) \in Nat /\ Cardinality(s) <= 0
      BY <1>0
    <3>2. Cardinality(s) = 0
      BY <3>1
    <3> QED BY <1>0, <3>1, <3>2
  <2>2. Sound(g, 0)
    BY <2>1
  <2> QED BY <2>2
<1>2. ASSUME NEW n \in Nat, n \in N PROVE n + 1 \in N
  <2>1. PICK g : Sound(g, n)
    BY <1>2
  <2> DEFINE h == [s \in Part(n + 1) |-> IF s \in Part(n) THEN g[s] ELSE f[c(s)] + g[s \ {c(s)}]]
  <2>2. ASSUME NEW s \in Part(n + 1), s # {}
        PROVE  /\ c(s) \in T /\ s \ {c(s)} \in Part(n) /\ s \ {c(s)} \in Part(n + 1)
    <3>1. c(s) \in s /\ Cardinality(s \ {c(s)}) = Cardinality(s) - 1 /\ Cardinality(s) \in Nat /\ Cardinality(s) <= n + 1
      BY <1>0, <2>2
    <3>2. Cardinality(s \ {c(s)}) <= n /\ Cardinality(s \ {c(s)}) <= n + 1
      BY <3>1
    <3> QED BY <3>1, <3>2
  <2>3. ASSUME NEW s \in Part(n + 1), s \notin Part(n) PROVE s # {}
    <3>1. Cardinality(s) # 0
      BY <2>3
    <3> QED BY <1>0, <3>1
  <2>4. ASSUME NEW s \in Part(n) PROVE s \in Part(n + 1)
    <3>1. s \in SUBSET T /\ Cardinality(s) \in Nat /\ Cardinality(s) <= n
      BY <1>0
    <3>2. Cardinality(s) <= n + 1
      BY <3>1
    <3> QED BY <3>1, <3>2
  <2> HIDE DEF Part
  <2>5. h \in [Part(n + 1) -> Nat]
    <3>1. ASSUME NEW s \in Part(n + 1), s \notin Part(n) PROVE f[c(s)] + g[s \ {c(s)}] \in Nat
      <4>1. f[c(s)] \in Nat /\ g[s \ {c(s)}] \in Nat
        BY <2>1, <2>2, <2>3, <3>1
      <4> QED BY <4>1
    <3>2. ASSUME NEW s \in Part(n + 1), s \in Part(n) PROVE g[s] \in Nat
      BY <2>1, <3>2
    <3> QED BY <3>1, <3>2
  <2>6. ASSUME NEW s \in Part(n + 1) PROVE h[s] = IF s = {} THEN 0 ELSE f[c(s)] + h[s \ {c(s)}]
    <3>1. s # {} => h[s \ {c(s)}] = g[s \ {c(s)}]
      BY <2>2
    <3>2. CASE s \in Part(n)
      BY <2>1, <3>1, <3>2
    <3>3. CASE s \notin Part(n)
      BY <2>3, <3>1, <3>3
    <3> QED BY <3>2, <3>3
  <2>7. Sound(h, n + 1)
    BY <2>5, <2>6, Zenon
  <2>8. n + 1 \in Nat
    OBVIOUS
  <2>9. \E e : Sound(e, n + 1)
    <3> HIDE DEF Sound
    <3> QED BY <2>7
  <2> HIDE DEF Sound
  <2> QED BY <2>8, <2>9
<1>3. Nat \subseteq N
  <2> HIDE DEF N
  <2> QED BY <1>1, <1>2, Induction
<1>4. Cardinality(T) \in Nat /\ Part(Cardinality(T)) = SUBSET T
  <2>1. \A s \in SUBSET T : Cardinality(s) <= Cardinality(T)
    BY FS_Subset
  <2> QED BY <2>1, FS_CardinalityType
<1>5. PICK g : Sound(g, Cardinality(T))
  BY <1>3, <1>4
<1>6. g \in [SUBSET T -> Nat] /\ \A s \in SUBSET T : g[s] = IF s = {} THEN 0 ELSE f[c(s)] + g[s \ {c(s)}]
  <2> HIDE DEF Part
  <2> QED BY <1>4, <1>5
<1>7. g = [s \in SUBSET T |-> IF s = {} THEN 0 ELSE f[c(s)] + g[s \ {c(s)}]]
  BY <1>6
<1>8. Adds(g, f, T)
  BY <1>7 DEF Adds, c
<1> QED BY <1>6, <1>8

(* ... and any element may come first.                                     *)
Splits(g, f, T) ==
  /\ g \in [SUBSET T -> Nat] /\ g[{}] = 0
  /\ \A s \in SUBSET T : \A x \in s : g[s] = f[x] + g[s \ {x}]

LEMMA AnyFirst ==
  ASSUME NEW T, IsFiniteSet(T), NEW f, \A x \in T : f[x] \in Nat,
         NEW g \in [SUBSET T -> Nat], Adds(g, f, T)
  PROVE  Splits(g, f, T)
<1> DEFINE c(s) == CHOOSE x \in s : TRUE
<1>1. \A s \in SUBSET T : g[s] = IF s = {} THEN 0 ELSE f[c(s)] + g[s \ {c(s)}]
  BY DEF Adds
<1>2. \A s \in SUBSET T : s # {} => c(s) \in s
  OBVIOUS
<1> HIDE DEF c
<1> DEFINE Sound(s) == \A x \in s : g[s] = f[x] + g[s \ {x}]
           N == {n \in Nat : \A s \in SUBSET T : Cardinality(s) = n => Sound(s)}
<1>3. 0 \in N
  <2> SUFFICES ASSUME NEW s \in SUBSET T, Cardinality(s) = 0 PROVE s = {}
    OBVIOUS
  <2>1. IsFiniteSet(s)
    BY FS_Subset
  <2> QED BY <2>1, FS_EmptySet
<1>4. ASSUME NEW n \in Nat, n \in N PROVE n + 1 \in N
  <2> SUFFICES ASSUME NEW s \in SUBSET T, Cardinality(s) = n + 1, NEW x \in s
               PROVE  g[s] = f[x] + g[s \ {x}]
    OBVIOUS
  <2>1. IsFiniteSet(s)
    BY FS_Subset
  <2>2. PICK y : y = c(s)
    OBVIOUS
  <2>3. y \in s /\ g[s] = f[y] + g[s \ {y}]
    BY <1>1, <1>2, <2>2
  <2>4. CASE x = y
    BY <2>3, <2>4
  <2>5. CASE x # y
    <3>1. \A z \in s : Cardinality(s \ {z}) = n /\ s \ {z} \in SUBSET T
      BY <2>1, OneLess
    <3>2. g[s \ {y}] = f[x] + g[(s \ {y}) \ {x}]
      BY <1>4, <2>3, <2>5, <3>1
    <3>3. g[s \ {x}] = f[y] + g[(s \ {x}) \ {y}]
      BY <1>4, <2>3, <2>5, <3>1
    <3>4. PICK r : r = (s \ {x}) \ {y}
      OBVIOUS
    <3>5. (s \ {y}) \ {x} = r /\ r \in SUBSET T
      BY <3>4
    <3>6. f[x] \in Nat /\ f[y] \in Nat /\ g[r] \in Nat
      BY <2>3, <3>5
    <3>7. g[s \ {y}] = f[x] + g[r] /\ g[s \ {x}] = f[y] + g[r]
      BY <3>2, <3>3, <3>4, <3>5
    <3> QED BY <2>3, <3>6, <3>7
  <2> QED BY <2>4, <2>5
<1>5. Nat \subseteq N
  <2> HIDE DEF N
  <2> QED BY <1>3, <1>4, Induction
<1>6. ASSUME NEW s \in SUBSET T PROVE Sound(s)
  <2>1. IsFiniteSet(s)
    BY FS_Subset
  <2>2. Cardinality(s) \in Nat
    BY <2>1, FS_CardinalityType
  <2> HIDE DEF Sound
  <2> QED BY <1>5, <2>2
<1> QED BY <1>1, <1>6 DEF Splits

LEMMA SumOfParts ==
  ASSUME NEW T, IsFiniteSet(T), NEW f, \A x \in T : f[x] \in Nat
  PROVE  \E g : Splits(g, f, T) /\ g[T] = SumFunctionOnSet(f, T)
<1> DEFINE g == CHOOSE g : Adds(g, f, T)
<1>1. Adds(g, f, T)
  BY AddsExists
<1>2. g[T] = SumFunctionOnSet(f, T)
  BY SumIs
<1>3. PICK h \in [SUBSET T -> Nat] : Adds(h, f, T)
  BY AddsExists
<1> HIDE DEF g
<1>4. ASSUME NEW s \in SUBSET T PROVE g[s] = h[s]
  <2> DEFINE G == {u \in SUBSET T : g[u] = h[u]}
             c(u) == CHOOSE x \in u : TRUE
  <2>1. /\ \A u \in SUBSET T : g[u] = IF u = {} THEN 0 ELSE f[c(u)] + g[u \ {c(u)}]
        /\ \A u \in SUBSET T : h[u] = IF u = {} THEN 0 ELSE f[c(u)] + h[u \ {c(u)}]
    BY <1>1, <1>3 DEF Adds
  <2>2. \A u \in SUBSET T : u # {} => c(u) \in u
    OBVIOUS
  <2> HIDE DEF c
  <2> DEFINE N == {n \in Nat : \A u \in SUBSET T : Cardinality(u) = n => g[u] = h[u]}
  <2>3. ASSUME NEW u \in SUBSET T
        PROVE  IsFiniteSet(u) /\ Cardinality(u) \in Nat /\ (Cardinality(u) = 0 => u = {})
    <3>1. IsFiniteSet(u)
      BY FS_Subset
    <3> QED BY <3>1, FS_CardinalityType, FS_EmptySet
  <2>4. 0 \in N
    BY <2>1, <2>3
  <2>5. ASSUME NEW n \in Nat, n \in N PROVE n + 1 \in N
    <3> SUFFICES ASSUME NEW u \in SUBSET T, Cardinality(u) = n + 1 PROVE g[u] = h[u]
      OBVIOUS
    <3>1. u # {}
      <4>1. Cardinality(u) # 0
        OBVIOUS
      <4> QED BY <4>1, FS_EmptySet
    <3>2. PICK x : x = c(u)
      OBVIOUS
    <3>3. x \in u /\ u \ {x} \in SUBSET T
      BY <2>2, <3>1, <3>2
    <3>4. Cardinality(u \ {x}) = n
      BY <2>3, <3>3, OneLess
    <3>5. g[u \ {x}] = h[u \ {x}]
      BY <2>5, <3>3, <3>4
    <3> QED BY <2>1, <3>1, <3>2, <3>5
  <2>6. Nat \subseteq N
    <3> HIDE DEF N
    <3> QED BY <2>4, <2>5, Induction
  <2> QED BY <2>3, <2>6
<1>5. g = h
  <2>1. g = [s \in SUBSET T |-> g[s]] 
    BY <1>1 DEF Adds
  <2> QED BY <1>4, <2>1
<1>6. g \in [SUBSET T -> Nat] /\ Adds(g, f, T)
  BY <1>3, <1>5
<1>7. Splits(g, f, T)
  BY <1>6, AnyFirst
<1> QED BY <1>2, <1>7

(* It is the same on a part of the set.                                    *)
LEMMA SplitsAgree ==
  ASSUME NEW T, IsFiniteSet(T), NEW t \in SUBSET T, NEW f, NEW e,
         \A x \in t : f[x] = e[x] /\ f[x] \in Nat,
         NEW g, Splits(g, f, T), NEW h, Splits(h, e, t)
  PROVE  g[t] = h[t]
<1> DEFINE G == {s \in SUBSET t : g[s] = h[s]}
<1>1. {} \in G
  BY DEF Splits
<1>2. ASSUME NEW s \in SUBSET t, NEW x \in t \ s, s \in G PROVE s \cup {x} \in G
  <2>1. PICK u : u = s \cup {x}
    OBVIOUS
  <2>2. u \in SUBSET t /\ u \in SUBSET T /\ x \in u /\ u \ {x} = s
    BY <2>1
  <2>3. g[u] = f[x] + g[u \ {x}] /\ h[u] = e[x] + h[u \ {x}]
    BY <2>2 DEF Splits
  <2>4. g[s] = h[s] /\ f[x] = e[x]
    BY <1>2
  <2>5. g[u] = h[u]
    BY <2>2, <2>3, <2>4
  <2> QED BY <2>1, <2>2, <2>5
<1>3. IsFiniteSet(t)
  BY FS_Subset
<1>4. t \in G
  <2> HIDE DEF G
  <2> QED BY <1>1, <1>2, <1>3, SetInduction
<1> QED BY <1>4

LEMMA SumNone ==
  ASSUME NEW f
  PROVE  SumFunctionOnSet(f, {}) = 0
<1>1. IsFiniteSet({})
  BY FS_EmptySet
<1>2. PICK g : Splits(g, f, {}) /\ g[{}] = SumFunctionOnSet(f, {})
  BY <1>1, SumOfParts
<1> QED BY <1>2 DEF Splits

LEMMA SumEqual ==
  ASSUME NEW T, IsFiniteSet(T), NEW f, NEW e, \A x \in T : f[x] = e[x] /\ f[x] \in Nat
  PROVE  SumFunctionOnSet(f, T) = SumFunctionOnSet(e, T)
<1>1. PICK g : Splits(g, f, T) /\ g[T] = SumFunctionOnSet(f, T)
  BY SumOfParts
<1>2. \A x \in T : e[x] \in Nat
  OBVIOUS
<1>3. PICK h : Splits(h, e, T) /\ h[T] = SumFunctionOnSet(e, T)
  BY <1>2, SumOfParts
<1>4. T \in SUBSET T
  OBVIOUS
<1>5. g[T] = h[T]
  BY <1>1, <1>3, <1>4, SplitsAgree
<1> QED BY <1>1, <1>3, <1>5

LEMMA SumLess ==
  ASSUME NEW T, IsFiniteSet(T), NEW f, \A x \in T : f[x] \in Nat, NEW x \in T
  PROVE  /\ SumFunctionOnSet(f, T) = f[x] + SumFunctionOnSet(f, T \ {x})
         /\ SumFunctionOnSet(f, T \ {x}) \in Nat /\ SumFunctionOnSet(f, T) \in Nat
<1>1. PICK g : Splits(g, f, T) /\ g[T] = SumFunctionOnSet(f, T)
  BY SumOfParts
<1>2. PICK t : t = T \ {x}
  OBVIOUS
<1>3. t \in SUBSET T /\ IsFiniteSet(t) /\ \A y \in t : f[y] = f[y] /\ f[y] \in Nat
  BY <1>2, FS_Subset
<1>4. PICK h : Splits(h, f, t) /\ h[t] = SumFunctionOnSet(f, t)
  BY <1>3, SumOfParts
<1>5. g[t] = h[t]
  BY <1>1, <1>3, <1>4, SplitsAgree
<1>6. T \in SUBSET T /\ g[T] = f[x] + g[T \ {x}]
  BY <1>1 DEF Splits
<1>7. g[T] \in Nat /\ g[t] \in Nat
  BY <1>1, <1>3, <1>6 DEF Splits
<1> QED BY <1>1, <1>2, <1>4, <1>5, <1>6, <1>7

LEMMA SumType ==
  ASSUME NEW T, IsFiniteSet(T), NEW f, \A x \in T : f[x] \in Nat
  PROVE  SumFunctionOnSet(f, T) \in Nat
<1>1. PICK g : Splits(g, f, T) /\ g[T] = SumFunctionOnSet(f, T)
  BY SumOfParts
<1> QED BY <1>1 DEF Splits

LEMMA SumZero ==
  ASSUME NEW T, IsFiniteSet(T), NEW f, \A x \in T : f[x] = 0
  PROVE  SumFunctionOnSet(f, T) = 0
<1>1. PICK g : Splits(g, f, T) /\ g[T] = SumFunctionOnSet(f, T)
  BY SumOfParts
<1> DEFINE G == {s \in SUBSET T : g[s] = 0}
<1>2. {} \in G
  BY <1>1 DEF Splits
<1>3. ASSUME NEW s \in SUBSET T, NEW x \in T \ s, s \in G PROVE s \cup {x} \in G
  <2>1. PICK u : u = s \cup {x}
    OBVIOUS
  <2>2. u \in SUBSET T /\ x \in u /\ u \ {x} = s
    BY <2>1
  <2>3. g[u] = f[x] + g[u \ {x}] /\ g[s] = 0 /\ f[x] = 0
    BY <1>1, <1>3, <2>2 DEF Splits
  <2>4. g[u] = 0
    BY <2>2, <2>3
  <2> QED BY <2>1, <2>2, <2>4
<1>4. T \in G
  <2> HIDE DEF G
  <2> QED BY <1>2, <1>3, SetInduction
<1> QED BY <1>1, <1>4

(* One value is greater by d.                                              *)
LEMMA SumMore ==
  ASSUME NEW T, IsFiniteSet(T), NEW f, NEW e, NEW d \in Nat, NEW x \in T, e[x] = f[x] + d,
         \A y \in T : f[y] \in Nat, \A y \in T \ {x} : e[y] = f[y]
  PROVE  SumFunctionOnSet(e, T) = SumFunctionOnSet(f, T) + d
<1>1. \A y \in T : e[y] \in Nat
  <2>1. \A y \in T : y = x \/ y \in T \ {x}
    OBVIOUS
  <2>2. f[x] \in Nat /\ f[x] + d \in Nat
    OBVIOUS
  <2> QED BY <2>1, <2>2
<1>2. PICK t : t = T \ {x}
  OBVIOUS
<1>3. /\ SumFunctionOnSet(f, T) = f[x] + SumFunctionOnSet(f, T \ {x})
      /\ SumFunctionOnSet(f, T \ {x}) \in Nat
  BY SumLess
<1>4. SumFunctionOnSet(e, T) = e[x] + SumFunctionOnSet(e, T \ {x})
  BY <1>1, SumLess
<1>5. IsFiniteSet(t) /\ \A y \in t : f[y] = e[y] /\ f[y] \in Nat
  BY <1>2, FS_Subset
<1>6. SumFunctionOnSet(f, t) = SumFunctionOnSet(e, t)
  BY <1>5, SumEqual
<1>7. f[x] \in Nat
  OBVIOUS
<1> QED BY <1>2, <1>3, <1>4, <1>6, <1>7
=============================================================================
