-------------------------- MODULE DefinitionsProofs --------------------------
(***************************************************************************)
(* That the list and the hash table of the data registry agree, whatever   *)
(* is read into it and taken out, that chains of weapons come to an end,   *)
(* and that a walk comes by everything: for any lists, names and hash.     *)
(***************************************************************************)
EXTENDS Definitions, TLAPS, WellFoundedInduction, NaturalsInduction, FiniteSetTheorems, SequenceTheorems

-----------------------------------------------------------------------------
(* The loops of the program.                                               *)

\* Induction over the numbers of a set.
LEMMA Induction ==
    ASSUME NEW S, 0 \in S, \A n \in Nat : n \in S => n + 1 \in S
    PROVE  Nat \subseteq S
<1> DEFINE R == OpToRel(<, Nat)
<1>1. \A i, j \in Nat : i < j => <<i, j>> \in R
  BY DEF OpToRel
<1>2. IsWellFoundedOn(R, Nat)
  BY NatLessThanWellFounded
<1> HIDE DEF R
<1> SUFFICES ASSUME Nat \ S # {} PROVE FALSE
  OBVIOUS
<1>3. PICK x \in Nat \ S : \A y \in Nat \ S : ~ (<<y, x>> \in R)
  BY <1>2, WFMin
<1>4. x - 1 \in Nat /\ x - 1 < x
  BY <1>3
<1>5. x - 1 \in S
  BY <1>1, <1>3, <1>4
<1> QED
  BY <1>3, <1>4, <1>5

\* Step k of each of the loops, with what it does not change in d.
Step(loop, x, k, d) ==
    CASE loop = "Along" -> Followed(d[1], x, d[2])
      [] loop = "Among" -> IF d[1][k] \in d[2] THEN Append(x, d[1][k]) ELSE x
      [] loop = "Levels" -> [i \in d[1] |-> [above \in SUBSET Key |-> Deeper(d[2], i, above, x, d[3])]]
      [] loop = "Emptied" -> EmptiedOne(x, d)
      [] loop = "Visited" -> NextOf(d[1], d[2], x, d[3], d[4])

IsRun(loop, w, d, n, f) ==
    f = [k \in 0 .. n |-> IF k = 0 THEN w ELSE Step(loop, f[k - 1], k, d)]

\* The recursive functions they are written with exist.
LEMMA Loops ==
    ASSUME NEW loop, NEW w, NEW d, NEW n \in Nat
    PROVE  \E f : IsRun(loop, w, d, n, f)
<1> DEFINE R(i, f) == f = [k \in 0 .. i |-> IF k = 0 THEN w ELSE Step(loop, f[k - 1], k, d)]
           S == {i \in Nat : \E f : R(i, f)}
<1>1. 0 \in S
  <2> DEFINE f == [k \in 0 .. 0 |-> w]
  <2>1. R(0, f)
    OBVIOUS
  <2> QED
    BY <2>1
<1>2. ASSUME NEW i \in Nat, i \in S PROVE i + 1 \in S
  <2>1. PICK f : R(i, f)
    BY <1>2
  <2> DEFINE g == [k \in 0 .. i + 1 |-> IF k = i + 1 THEN Step(loop, f[i], k, d) ELSE f[k]]
             h == [k \in 0 .. i + 1 |-> IF k = 0 THEN w ELSE Step(loop, g[k - 1], k, d)]
  <2>2. ASSUME NEW k \in 0 .. i + 1 PROVE g[k] = h[k]
    <3>1. CASE k = 0
      BY <2>1, <3>1
    <3>2. CASE k = i + 1
      <4>1. g[k] = Step(loop, f[i], k, d) /\ k # 0
        BY <3>2
      <4>2. k - 1 \in 0 .. i + 1 /\ k - 1 # i + 1 /\ k - 1 = i
        BY <3>2
      <4> QED
        BY <4>1, <4>2
    <3>3. CASE k \in 1 .. i
      <4>1. f[k] = Step(loop, f[k - 1], k, d) /\ g[k] = f[k]
        BY <2>1, <3>3
      <4>2. k - 1 \in 0 .. i + 1 /\ k - 1 # i + 1
        BY <3>3
      <4>3. g[k - 1] = f[k - 1] /\ k # 0
        BY <4>2, <3>3
      <4> QED
        BY <4>1, <4>3
    <3> QED
      BY <3>1, <3>2, <3>3
  <2>3. g = h
    BY <2>2
  <2>4. R(i + 1, g)
    BY <2>3
  <2> HIDE DEF g
  <2> QED
    BY <2>4
<1>3. Nat \subseteq S
  <2> HIDE DEF S
  <2> QED
    BY <1>1, <1>2, Induction
<1> QED
  BY <1>3 DEF IsRun

-----------------------------------------------------------------------------
(* Numbers in ascending or descending order.                               *)

Directions == {"forward", "reverse"}
Opposite(dir) == IF dir = "forward" THEN "reverse" ELSE "forward"

Beyond(dir, i, j) == IF dir = "forward" THEN i > j ELSE j > i

\* A sequence goes through T in a direction and leaves nothing out.
Ordered(s, dir, T) ==
    /\ s \in Seq(T)
    /\ \A t \in T : \E i \in 1 .. Len(s) : s[i] = t
    /\ \A i, j \in 1 .. Len(s) : i < j => Beyond(dir, s[j], s[i])

\* The first element of T, or NULL if there is none.
IsFirst(dir, T, f) ==
    IF T = {} THEN f = NULL ELSE f \in T /\ \A t \in T : t = f \/ Beyond(dir, t, f)

LEMMA OrderedEmpty ==
    ASSUME NEW dir
    PROVE  Ordered(<<>>, dir, {})
BY DEF Ordered

\* An element beyond all others goes to the end.
LEMMA OrderedAppend ==
    ASSUME NEW dir, NEW T \in SUBSET Int, NEW s, Ordered(s, dir, T), NEW t \in Int,
           \A u \in T : Beyond(dir, t, u)
    PROVE  Ordered(Append(s, t), dir, T \cup {t})
<1> DEFINE new == Append(s, t)
<1>1. s \in Seq(T) /\ Len(s) \in Nat /\ \A i \in 1 .. Len(s) : s[i] \in T
  BY DEF Ordered
<1>2. /\ new \in Seq(T \cup {t}) /\ Len(new) = Len(s) + 1 /\ new[Len(s) + 1] = t
      /\ \A i \in 1 .. Len(s) : new[i] = s[i]
  <2>1. s \in Seq(T \cup {t})
    BY <1>1
  <2> QED
    BY <1>1, <2>1
<1> HIDE DEF new
<1>3. ASSUME NEW u \in T \cup {t} PROVE \E i \in 1 .. Len(new) : new[i] = u
  <2>1. CASE u = t
    <3>1. Len(s) + 1 \in 1 .. Len(new)
      BY <1>1, <1>2
    <3> QED
      BY <1>2, <2>1, <3>1
  <2>2. CASE u \in T
    <3>1. PICK i \in 1 .. Len(s) : s[i] = u
      BY <2>2 DEF Ordered
    <3>2. i \in 1 .. Len(new) /\ new[i] = u
      BY <1>1, <1>2, <3>1
    <3> QED
      BY <3>2
  <2> QED
    BY <1>3, <2>1, <2>2
<1>4. ASSUME NEW i \in 1 .. Len(new), NEW j \in 1 .. Len(new), i < j
      PROVE  Beyond(dir, new[j], new[i])
  <2>1. i \in 1 .. Len(s) /\ new[i] = s[i] /\ s[i] \in T
    BY <1>1, <1>2, <1>4
  <2>2. CASE j = Len(s) + 1
    BY <1>2, <2>1, <2>2
  <2>3. CASE j \in 1 .. Len(s)
    BY <1>2, <1>4, <2>1, <2>3 DEF Ordered
  <2> QED
    BY <1>1, <1>2, <2>2, <2>3
<1> QED
  BY <1>2, <1>3, <1>4 DEF Ordered, new

LEMMA OrderedRange ==
    ASSUME NEW dir, NEW T \in SUBSET Int, NEW s, Ordered(s, dir, T)
    PROVE  s \in Seq(T) /\ Len(s) \in Nat /\ \A i \in 1 .. Len(s) : s[i] \in T /\ s[i] \in Int
<1>1. s \in Seq(T)
  BY DEF Ordered
<1>2. Len(s) \in Nat /\ \A i \in 1 .. Len(s) : s[i] \in T
  BY <1>1
<1> QED
  BY <1>1, <1>2

\* There is but one such sequence.
LEMMA OrderedUnique ==
    ASSUME NEW dir, NEW T \in SUBSET Int, NEW s, Ordered(s, dir, T), NEW t, Ordered(t, dir, T)
    PROVE  s = t
<1>1. /\ s \in Seq(T) /\ Len(s) \in Nat /\ \A i \in 1 .. Len(s) : s[i] \in T /\ s[i] \in Int
      /\ t \in Seq(T) /\ Len(t) \in Nat /\ \A i \in 1 .. Len(t) : t[i] \in T /\ t[i] \in Int
  BY OrderedRange
<1>2. ASSUME NEW a, Ordered(a, dir, T), NEW b, Ordered(b, dir, T), NEW n \in Nat,
             \A m \in 1 .. n : m <= Len(a) => m <= Len(b) /\ a[m] = b[m],
             \A m \in 1 .. n : m <= Len(b) => m <= Len(a) /\ a[m] = b[m],
             n + 1 <= Len(a)
      PROVE  n + 1 <= Len(b) /\ (b[n + 1] = a[n + 1] \/ Beyond(dir, a[n + 1], b[n + 1]))
  <2>1. /\ a \in Seq(T) /\ Len(a) \in Nat /\ \A i \in 1 .. Len(a) : a[i] \in T /\ a[i] \in Int
        /\ b \in Seq(T) /\ Len(b) \in Nat /\ \A i \in 1 .. Len(b) : b[i] \in T /\ b[i] \in Int
    BY <1>2, OrderedRange
  <2>2. n + 1 \in 1 .. Len(a)
    BY <1>2, <2>1
  <2>3. PICK j \in 1 .. Len(b) : b[j] = a[n + 1]
    BY <1>2, <2>1, <2>2 DEF Ordered
  <2>4. ~(j <= n)
    <3> SUFFICES ASSUME j <= n PROVE FALSE
      OBVIOUS
    <3>1. j \in 1 .. n /\ j <= Len(a) /\ a[j] = b[j] /\ j \in 1 .. Len(a)
      BY <1>2, <2>1, <2>3
    <3>2. Beyond(dir, a[n + 1], a[j])
      BY <1>2, <2>2, <3>1 DEF Ordered
    <3> QED
      BY <2>1, <2>2, <2>3, <3>1, <3>2 DEF Beyond
  <2>5. n + 1 \in 1 .. Len(b)
    BY <2>1, <2>3, <2>4
  <2>6. CASE j = n + 1
    BY <2>3, <2>5, <2>6
  <2>7. CASE j > n + 1
    BY <1>2, <2>3, <2>5, <2>7 DEF Ordered
  <2> QED
    BY <2>3, <2>4, <2>5, <2>6, <2>7
<1> DEFINE Agree(n) == /\ \A m \in 1 .. n : m <= Len(s) => m <= Len(t) /\ s[m] = t[m]
                       /\ \A m \in 1 .. n : m <= Len(t) => m <= Len(s) /\ s[m] = t[m]
           S == {n \in Nat : Agree(n)}
<1>3. 0 \in S
  OBVIOUS
<1>4. ASSUME NEW n \in Nat, n \in S PROVE n + 1 \in S
  <2>1. n + 1 <= Len(s) => n + 1 <= Len(t) /\ (t[n + 1] = s[n + 1] \/ Beyond(dir, s[n + 1], t[n + 1]))
    BY <1>2, <1>4
  <2>2. n + 1 <= Len(t) => n + 1 <= Len(s) /\ (s[n + 1] = t[n + 1] \/ Beyond(dir, t[n + 1], s[n + 1]))
    <3>1. \A m \in 1 .. n : m <= Len(t) => m <= Len(s) /\ t[m] = s[m]
      BY <1>4
    <3>2. \A m \in 1 .. n : m <= Len(s) => m <= Len(t) /\ t[m] = s[m]
      BY <1>4
    <3> QED
      BY <1>2, <3>1, <3>2
  <2>3. n + 1 <= Len(s) => s[n + 1] \in Int /\ t[n + 1] \in Int
    BY <1>1, <2>1
  <2>4. n + 1 <= Len(s) => s[n + 1] = t[n + 1]
    BY <2>1, <2>2, <2>3 DEF Beyond
  <2> QED
    BY <1>4, <2>1, <2>2, <2>4
<1>5. Nat \subseteq S
  <2> HIDE DEF S
  <2> QED
    BY <1>3, <1>4, Induction
<1>6. Agree(Len(s)) /\ Agree(Len(t))
  BY <1>1, <1>5
<1>7. Len(s) <= Len(t)
  <2>1. CASE Len(s) = 0
    BY <1>1, <2>1
  <2>2. CASE Len(s) # 0
    BY <1>1, <1>6, <2>2
  <2> QED
    BY <2>1, <2>2
<1>8. Len(t) <= Len(s)
  <2>1. CASE Len(t) = 0
    BY <1>1, <2>1
  <2>2. CASE Len(t) # 0
    BY <1>1, <1>6, <2>2
  <2> QED
    BY <2>1, <2>2
<1>9. Len(s) = Len(t) /\ \A m \in 1 .. Len(s) : s[m] = t[m]
  BY <1>1, <1>6, <1>7, <1>8
<1> QED
  BY <1>1, <1>9, SeqEqual
\* Backwards.
LEMMA OrderedReverse ==
    ASSUME NEW dir \in Directions, NEW T \in SUBSET Int, NEW s, Ordered(s, dir, T)
    PROVE  Ordered(Reverse(s), Opposite(dir), T)
<1> DEFINE n == Len(s)
           r == Reverse(s)
<1>1. s \in Seq(T) /\ n \in Nat /\ \A i \in 1 .. n : s[i] \in T /\ s[i] \in Int
  BY OrderedRange
<1>2. r = [i \in 1 .. n |-> s[(n - i) + 1]]
  BY DEF Reverse
<1>3. \A i \in 1 .. n : (n - i) + 1 \in 1 .. n
  BY <1>1
<1>4. r \in [1 .. n -> T]
  BY <1>1, <1>2, <1>3
<1>5. r \in Seq(T) /\ Len(r) = n /\ \A i \in 1 .. n : r[i] = s[(n - i) + 1]
  BY <1>1, <1>2, <1>4
<1> HIDE DEF n, r
<1>6. ASSUME NEW t \in T PROVE \E i \in 1 .. Len(r) : r[i] = t
  <2>1. PICK i \in 1 .. n : s[i] = t
    BY DEF Ordered, n
  <2>2. (n - i) + 1 \in 1 .. n /\ (n - ((n - i) + 1)) + 1 = i
    BY <1>1
  <2> QED
    BY <1>5, <2>1, <2>2
<1>7. ASSUME NEW i \in 1 .. Len(r), NEW j \in 1 .. Len(r), i < j
      PROVE  Beyond(Opposite(dir), r[j], r[i])
  <2>1. (n - i) + 1 \in 1 .. n /\ (n - j) + 1 \in 1 .. n /\ (n - j) + 1 < (n - i) + 1
    BY <1>1, <1>5, <1>7
  <2>2. Beyond(dir, s[(n - i) + 1], s[(n - j) + 1])
    BY <2>1 DEF Ordered, n
  <2>3. Beyond(dir, r[i], r[j])
    BY <1>5, <1>7, <2>2
  <2> QED
    BY <2>3 DEF Beyond, Opposite, Directions
<1> QED
  BY <1>5, <1>6, <1>7 DEF Ordered, r

LEMMA FirstUnique ==
    ASSUME NEW dir, NEW T \in SUBSET Int, NEW f, IsFirst(dir, T, f), NEW g, IsFirst(dir, T, g)
    PROVE  f = g
<1>1. CASE T = {}
  BY <1>1 DEF IsFirst
<1>2. CASE T # {}
  <2>1. f \in T /\ g \in T /\ f \in Int /\ g \in Int
    BY <1>2 DEF IsFirst
  <2>2. f = g \/ (Beyond(dir, f, g) /\ Beyond(dir, g, f))
    BY <1>2, <2>1 DEF IsFirst
  <2> QED
    BY <2>1, <2>2 DEF Beyond
<1> QED
  BY <1>1, <1>2

\* The least number of a set of indices.
LEMMA LeastIndex ==
    ASSUME NEW n \in Nat, NEW S \in SUBSET (1 .. n), S # {}
    PROVE  Min(S) \in S /\ \A i \in S : Min(S) <= i
<1> DEFINE R == OpToRel(<, Nat)
<1>1. \A i, j \in Nat : i < j => <<i, j>> \in R
  BY DEF OpToRel
<1>2. IsWellFoundedOn(R, Nat)
  BY NatLessThanWellFounded
<1> HIDE DEF R
<1>3. S \subseteq Nat
  OBVIOUS
<1>4. PICK m \in S : \A y \in S : ~ (<<y, m>> \in R)
  BY <1>2, <1>3, WFMin
<1>5. ASSUME NEW y \in S PROVE m <= y
  <2>1. m \in Nat /\ y \in Nat /\ ~(y < m)
    BY <1>1, <1>3, <1>4
  <2> QED
    BY <2>1
<1> QED
  BY <1>4, <1>5 DEF Min

\* What FirstOf finds.
LEMMA FirstOfOrdered ==
    ASSUME NEW dir, NEW T \in SUBSET Nat, NEW s, Ordered(s, dir, T), NEW A
    PROVE  IsFirst(dir, T \cap A, FirstOf(s, A))
<1> DEFINE I == {i \in 1 .. Len(s) : s[i] \in A}
<1>1. s \in Seq(T) /\ Len(s) \in Nat /\ \A i \in 1 .. Len(s) : s[i] \in T /\ s[i] \in Int
  BY OrderedRange
<1>2. FirstOf(s, A) = IF I = {} THEN NULL ELSE s[Min(I)]
  <2>1. CASE I = {}
    BY <2>1 DEF FirstOf, SelectInSeq
  <2>2. CASE I # {}
    <3>1. Min(I) \in I
      BY <1>1, <2>2, LeastIndex
    <3>2. Min(I) # 0
      BY <3>1
    <3> QED
      BY <2>2, <3>2 DEF FirstOf, SelectInSeq
  <2> QED
    BY <2>1, <2>2
<1>3. ASSUME NEW t \in T \cap A PROVE \E i \in I : s[i] = t
  BY <1>3 DEF Ordered
<1>4. CASE I = {}
  <2>1. T \cap A = {}
    BY <1>3, <1>4
  <2> QED
    BY <1>2, <1>4, <2>1 DEF IsFirst
<1>5. CASE I # {}
  <2>1. Min(I) \in I /\ \A i \in I : Min(I) <= i
    BY <1>1, <1>5, LeastIndex
  <2>2. s[Min(I)] \in T \cap A
    BY <1>1, <2>1
  <2>3. ASSUME NEW t \in T \cap A PROVE t = s[Min(I)] \/ Beyond(dir, t, s[Min(I)])
    <3>1. PICK i \in I : s[i] = t
      BY <1>3
    <3>2. Min(I) <= i /\ Min(I) \in 1 .. Len(s) /\ i \in 1 .. Len(s)
      BY <2>1
    <3> HIDE DEF I
    <3>3. i = Min(I) \/ Min(I) < i
      BY <1>1, <3>2
    <3> QED
      BY <3>1, <3>2, <3>3 DEF Ordered, I
  <2> HIDE DEF I
  <2> QED
    BY <1>2, <1>5, <2>2, <2>3 DEF IsFirst
<1> QED
  BY <1>4, <1>5

\* What Among selects.
LEMMA AmongOrdered ==
    ASSUME NEW dir, NEW T \in SUBSET Int, NEW s, Ordered(s, dir, T), NEW A
    PROVE  Ordered(Among(s, A), dir, T \cap A)
<1> DEFINE n == Len(s)
           d == <<s, A>>
           Upto(i) == {s[j] : j \in 1 .. i} \cap A
           R(f) == f = [i \in 0 .. n |-> IF i = 0 THEN <<>>
                                         ELSE IF s[i] \in A THEN Append(f[i - 1], s[i]) ELSE f[i - 1]]
           f == CHOOSE f : R(f)
<1>1. s \in Seq(T) /\ n \in Nat /\ \A i \in 1 .. n : s[i] \in T /\ s[i] \in Int
  BY OrderedRange
<1>2. Among(s, A) = f[n]
  BY DEF Among
<1>3. R(f)
  <2>1. PICK g : IsRun("Among", <<>>, d, n, g)
    BY <1>1, Loops
  <2>2. R(g)
    BY <2>1 DEF IsRun, Step
  <2> QED
    BY <2>2
<1> HIDE DEF f
<1> DEFINE S == {i \in Nat : i <= n => Ordered(f[i], dir, Upto(i))}
<1>4. 0 \in S
  <2>1. f[0] = <<>> /\ Upto(0) = {}
    BY <1>1, <1>3
  <2> HIDE DEF Upto
  <2> QED
    BY <2>1, OrderedEmpty
<1>5. ASSUME NEW i \in Nat, i \in S PROVE i + 1 \in S
  <2> SUFFICES ASSUME i + 1 <= n PROVE Ordered(f[i + 1], dir, Upto(i + 1))
    OBVIOUS
  <2>1. Ordered(f[i], dir, Upto(i))
    BY <1>1, <1>5
  <2>2. i + 1 \in 0 .. n /\ i + 1 # 0 /\ (i + 1) - 1 = i /\ i + 1 \in 1 .. n
    BY <1>1
  <2>3. f[i + 1] = IF s[i + 1] \in A THEN Append(f[i], s[i + 1]) ELSE f[i]
    BY <1>3, <2>2
  <2>4. 1 .. (i + 1) = (1 .. i) \cup {i + 1}
    OBVIOUS
  <2>5. CASE s[i + 1] \notin A
    <3>1. Upto(i + 1) = Upto(i)
      BY <2>4, <2>5
    <3> QED
      BY <2>1, <2>3, <2>5, <3>1
  <2>6. CASE s[i + 1] \in A
    <3>1. Upto(i + 1) = Upto(i) \cup {s[i + 1]}
      BY <2>4, <2>6
    <3>2. ASSUME NEW u \in Upto(i) PROVE Beyond(dir, s[i + 1], u)
      <4>1. PICK j \in 1 .. i : u = s[j]
        BY <3>2
      <4>2. j \in 1 .. n /\ j < i + 1
        BY <1>1, <2>2
      <4> QED
        BY <2>2, <4>1, <4>2 DEF Ordered
    <3>3. Upto(i) \in SUBSET Int
      <4> SUFFICES ASSUME NEW j \in 1 .. i PROVE s[j] \in Int
        OBVIOUS
      <4>1. j \in 1 .. n
        BY <1>1, <2>2
      <4> QED
        BY <1>1, <4>1
    <3>4. s[i + 1] \in Int
      BY <1>1, <2>2
    <3> HIDE DEF Upto
    <3> QED
      BY <2>1, <2>3, <2>6, <3>1, <3>2, <3>3, <3>4, OrderedAppend
  <2> QED
    BY <2>5, <2>6
<1>6. Nat \subseteq S
  <2> HIDE DEF S
  <2> QED
    BY <1>4, <1>5, Induction
<1>7. Ordered(f[n], dir, Upto(n))
  <2>1. n \in S
    <3> HIDE DEF S
    <3> QED
      BY <1>1, <1>6
  <2> HIDE DEF Upto
  <2> QED
    BY <1>1, <2>1
<1>8. Upto(n) = T \cap A
  <2>1. ASSUME NEW t \in T PROVE \E j \in 1 .. n : s[j] = t
    BY DEF Ordered
  <2> QED
    BY <1>1, <2>1
<1> QED
  BY <1>2, <1>7, <1>8
-----------------------------------------------------------------------------
(* Following links.                                                        *)

After(S, dir, j) == {i \in S : Beyond(dir, i, j)}
From(S, dir, k) == IF k = NULL THEN {} ELSE {k} \cup After(S, dir, k)

\* Each item of S is linked to the one after it.
Linking(reg0, S, dir, link) ==
    \A j \in S : IsFirst(dir, After(S, dir, j), reg0.item[j][link])

\* What comes after an item is the next one and what comes after that.
LEMMA FromNext ==
    ASSUME NEW dir, NEW S \in SUBSET Nat, NEW k \in S, NEW next, IsFirst(dir, After(S, dir, k), next)
    PROVE  /\ From(S, dir, next) = After(S, dir, k)
           /\ From(S, dir, k) = {k} \cup From(S, dir, next) /\ k \notin From(S, dir, next)
           /\ next \in S \cup {NULL}
<1>1. k # NULL /\ k \in Nat
  BY DEF NULL
<1>2. CASE After(S, dir, k) = {}
  <2>1. next = NULL
    BY <1>2 DEF IsFirst
  <2> QED
    BY <1>1, <1>2, <2>1 DEF From
<1>3. CASE After(S, dir, k) # {}
  <2>1. next \in After(S, dir, k) /\ \A t \in After(S, dir, k) : t = next \/ Beyond(dir, t, next)
    BY <1>3 DEF IsFirst
  <2>2. next \in S /\ next \in Nat /\ Beyond(dir, next, k) /\ next # NULL
    BY <2>1 DEF After, NULL
  <2>3. ASSUME NEW i \in S PROVE i = next \/ Beyond(dir, i, next) <=> Beyond(dir, i, k)
    <3>1. i \in Nat
      OBVIOUS
    <3>2. Beyond(dir, i, k) => i = next \/ Beyond(dir, i, next)
      BY <2>1 DEF After
    <3> QED
      BY <1>1, <2>2, <3>1, <3>2 DEF Beyond
  <2>4. From(S, dir, next) = After(S, dir, k)
    BY <2>1, <2>2, <2>3 DEF From, After
  <2>5. k \notin After(S, dir, k)
    BY <1>1 DEF After, Beyond
  <2> QED
    BY <1>1, <2>2, <2>4, <2>5 DEF From
<1> QED
  BY <1>2, <1>3

LEMMA OneLess ==
    ASSUME NEW A, IsFiniteSet(A), NEW j \in A, NEW B, B = A \ {j}
    PROVE  Cardinality(B) = Cardinality(A) - 1
BY FS_RemoveElement

\* Following the links of S from k on gives all of S from k on, in order.
LEMMA AlongOrdered ==
    ASSUME NEW reg0, IsFiniteSet(Registered(reg0)), NEW S \in SUBSET Registered(reg0), S \subseteq Nat,
           NEW dir, NEW link, Linking(reg0, S, dir, link), NEW k \in S \cup {NULL}
    PROVE  Ordered(Along(reg0, k, link), dir, From(S, dir, k))
<1> DEFINE n == Cardinality(Registered(reg0))
           w == [keys |-> <<>>, next |-> k]
           R(f) == f = [i \in 0 .. n |-> IF i = 0 THEN w ELSE Followed(reg0, f[i - 1], link)]
           f == CHOOSE f : R(f)
<1>1. n \in Nat
  BY FS_CardinalityType
<1>2. Along(reg0, k, link) = f[n].keys
  BY DEF Along
<1>3. R(f)
  <2> DEFINE d == <<reg0, link>>
  <2>1. PICK g : IsRun("Along", w, d, n, g)
    BY <1>1, Loops
  <2>2. R(g)
    BY <2>1 DEF IsRun, Step
  <2> QED
    BY <2>2
<1>4. f[0] = w /\ \A i \in Nat : i + 1 \in 0 .. n => f[i + 1] = Followed(reg0, f[i], link)
  <2> HIDE DEF w, f
  <2> QED
    BY <1>1, <1>3
<1> HIDE DEF f
<1> DEFINE Left(s) == From(S, dir, s.next)
           Good(s, i) == /\ s.next \in S \cup {NULL}
                         /\ Left(s) \subseteq From(S, dir, k)
                         /\ Ordered(s.keys, dir, From(S, dir, k) \ Left(s))
                         /\ \A u \in From(S, dir, k) \ Left(s) : \A v \in Left(s) : Beyond(dir, v, u)
                         /\ i + Cardinality(Left(s)) <= n
           D == {i \in Nat : i <= n => Good(f[i], i)}
<1>5. From(S, dir, k) \subseteq S /\ IsFiniteSet(S) /\ \A j : From(S, dir, j) \subseteq S \cup {j}
  <2>1. IsFiniteSet(S)
    BY FS_Subset
  <2> QED
    BY <2>1 DEF From, After
<1>6. ASSUME NEW j \in S \cup {NULL}
      PROVE  From(S, dir, j) \subseteq S /\ IsFiniteSet(From(S, dir, j)) /\ Cardinality(From(S, dir, j)) \in Nat
  <2>1. From(S, dir, j) \subseteq S
    BY DEF From, After
  <2> QED
    BY <1>5, <2>1, FS_Subset, FS_CardinalityType
<1>7. 0 \in D
  <2>1. f[0].next = k /\ f[0].keys = <<>>
    BY <1>4
  <2>2. Cardinality(From(S, dir, k)) <= n
    BY <1>5, FS_Subset
  <2>3. Left(f[0]) = From(S, dir, k) /\ From(S, dir, k) \ Left(f[0]) = {}
    BY <2>1
  <2>4. 0 + Cardinality(From(S, dir, k)) <= n
    BY <1>6, <2>2
  <2> HIDE DEF Left
  <2>5. Good(f[0], 0)
    BY <2>1, <2>3, <2>4, OrderedEmpty
  <2> QED
    BY <2>5
<1>8. ASSUME NEW i \in Nat, i \in D PROVE i + 1 \in D
  <2> SUFFICES ASSUME i + 1 <= n PROVE Good(f[i + 1], i + 1)
    OBVIOUS
  <2>1. i <= n /\ i + 1 \in 0 .. n
    BY <1>1
  <2>2. Good(f[i], i)
    BY <1>8, <2>1
  <2> DEFINE s == f[i]
             t == f[i + 1]
             j == s.next
  <2>3. t = Followed(reg0, s, link)
    BY <1>4, <2>1
  <2>4. CASE j = NULL
    <3>1. t = s
      BY <2>3, <2>4 DEF Followed
    <3>2. Left(s) = {} /\ Cardinality(Left(s)) = 0
      BY <2>4, FS_EmptySet DEF From
    <3>3. i + 1 + Cardinality(Left(s)) <= n
      BY <2>1, <3>2
    <3> QED
      BY <2>2, <3>1, <3>3
  <2>5. CASE j # NULL
    <3>1. j \in S /\ j \in Nat
      BY <2>2, <2>5
    <3>2. t.keys = Append(s.keys, j) /\ t.next = reg0.item[j][link]
      BY <2>3, <2>5 DEF Followed
    <3>3. /\ Left(t) = After(S, dir, j)
          /\ Left(s) = {j} \cup Left(t) /\ j \notin Left(t) /\ t.next \in S \cup {NULL}
      BY <3>1, <3>2, FromNext DEF Linking
    <3>4. Cardinality(Left(t)) = Cardinality(Left(s)) - 1
      <4>1. Left(t) = Left(s) \ {j} /\ j \in Left(s) /\ IsFiniteSet(Left(s))
        BY <1>6, <2>2, <3>3
      <4> HIDE DEF Left, s, t, j
      <4> QED
        BY <4>1, OneLess
    <3>5. Cardinality(Left(s)) \in Nat /\ Cardinality(Left(t)) \in Nat
      BY <1>6, <2>2, <3>3
    <3> DEFINE A == From(S, dir, k) \ Left(s)
               B == From(S, dir, k) \ Left(t)
    <3>6. B = A \cup {j} /\ Left(t) \subseteq From(S, dir, k)
      BY <2>2, <3>3
    <3>7. A \in SUBSET Int /\ \A u \in A : Beyond(dir, j, u)
      <4>1. j \in Left(s)
        BY <3>3
      <4>2. \A u \in A : \A v \in Left(s) : Beyond(dir, v, u)
        BY <2>2
      <4>3. A \in SUBSET Int
        BY <1>5
      <4> HIDE DEF Left, A, s, j
      <4> QED
        BY <4>1, <4>2, <4>3
    <3>8. Ordered(t.keys, dir, B)
      <4>1. Ordered(s.keys, dir, A)
        BY <2>2
      <4> HIDE DEF A, B, s, t, j
      <4> QED
        BY <3>1, <3>2, <3>6, <3>7, <4>1, OrderedAppend
    <3>9. ASSUME NEW u \in B, NEW v \in Left(t) PROVE Beyond(dir, v, u)
      <4>1. CASE u = j
        BY <3>3, <3>9, <4>1 DEF After
      <4>2. CASE u \in A
        <5>1. v \in Left(s)
          BY <3>3, <3>9
        <5> HIDE DEF Left
        <5> QED
          BY <2>2, <4>2, <5>1
      <4> QED
        BY <3>6, <3>9, <4>1, <4>2
    <3>10. i + 1 + Cardinality(Left(t)) <= n
      <4> HIDE DEF Left, n
      <4> QED
        BY <1>1, <2>2, <3>4, <3>5
    <3> HIDE DEF Left, s
    <3> QED
      BY <3>3, <3>6, <3>8, <3>9, <3>10
  <2> QED
    BY <2>4, <2>5
<1>9. Nat \subseteq D
  <2> HIDE DEF D
  <2> QED
    BY <1>7, <1>8, Induction
<1>10. Good(f[n], n)
  <2>1. n \in D
    <3> HIDE DEF D, n
    <3> QED
      BY <1>1, <1>9
  <2> HIDE DEF Good
  <2> QED
    BY <1>1, <2>1
<1>11. Left(f[n]) = {}
  <2>1. Cardinality(Left(f[n])) = 0
    <3>1. Cardinality(Left(f[n])) \in Nat
      BY <1>6, <1>10
    <3> HIDE DEF Left, n
    <3> QED
      BY <1>1, <1>10, <3>1
  <2>2. IsFiniteSet(Left(f[n]))
    BY <1>6, <1>10
  <2> HIDE DEF Left
  <2> QED
    BY <2>1, <2>2, FS_EmptySet
<1>12. Ordered(f[n].keys, dir, From(S, dir, k))
  <2>1. From(S, dir, k) \ Left(f[n]) = From(S, dir, k)
    BY <1>11
  <2> HIDE DEF Left
  <2> QED
    BY <1>10, <2>1
<1> QED
  BY <1>2, <1>12
-----------------------------------------------------------------------------
(* A registry whose links are in order.                                    *)

Link == Key \cup {NULL}
Info == [ident : Key, kind : Kind, name : DOMAIN Sloppy, armslevel : Nat, useless : BOOLEAN,
         indirect : BOOLEAN, ph_fl : SUBSET Flag, ph_ch : Link, named : BOOLEAN]
Node == [class : Int, info : Info, prev : Link, next : Link, chain : Link]

Chain(r, b) == {k \in Registered(r) : Hash[k] = b}

RegistryType(r) ==
    /\ r \in [head : Link, tail : Link, hash : [Bucket -> Link],
              item : UNION {[S -> Node] : S \in SUBSET Key}, nextclass : Nat, nextkey : Nat]
    /\ Registered(r) \subseteq Key /\ r.item \in [Registered(r) -> Node]

Sound(r) ==
    /\ RegistryType(r)
    /\ \A k \in Registered(r) : k < r.nextkey
    /\ IsFirst("forward", Registered(r), r.head) /\ Linking(r, Registered(r), "forward", "next")
    /\ IsFirst("reverse", Registered(r), r.tail) /\ Linking(r, Registered(r), "reverse", "prev")
    /\ \A b \in Bucket :
         IsFirst("forward", Chain(r, b), r.hash[b]) /\ Linking(r, Chain(r, b), "forward", "chain")

LEMMA SomeKeys ==
    ASSUME NEW r, RegistryType(r), NEW S \in SUBSET Registered(r)
    PROVE  /\ S \subseteq Key /\ S \subseteq Nat /\ S \subseteq Int /\ IsFiniteSet(S)
           /\ IsFiniteSet(Registered(r)) /\ NULL \notin S
           /\ Cardinality(Registered(r)) \in Nat
<1>1. IsFiniteSet(Key) /\ Key \subseteq Nat /\ NULL \notin Key
  BY RegistryAssumption, FS_Interval DEF Key, NULL
<1>2. IsFiniteSet(Registered(r))
  BY <1>1, FS_Subset DEF RegistryType
<1>3. Registered(r) \subseteq Key /\ S \subseteq Key
  BY DEF RegistryType
<1>4. IsFiniteSet(S) /\ Cardinality(Registered(r)) \in Nat
  BY <1>2, FS_Subset, FS_CardinalityType
<1>5. NULL \notin S /\ S \subseteq Nat
  BY <1>1, <1>3
<1>6. S \subseteq Int
  BY <1>5
<1> QED
  BY <1>1, <1>2, <1>3, <1>4, <1>5, <1>6

LEMMA FromFirst ==
    ASSUME NEW dir, NEW S \in SUBSET Nat, NEW f, IsFirst(dir, S, f)
    PROVE  From(S, dir, f) = S /\ f \in S \cup {NULL}
<1>1. CASE S = {}
  BY <1>1 DEF IsFirst, From
<1>2. CASE S # {}
  <2>1. f \in S /\ \A t \in S : t = f \/ Beyond(dir, t, f)
    BY <1>2 DEF IsFirst
  <2>2. f # NULL /\ f \in Nat
    BY <2>1 DEF NULL
  <2> QED
    BY <2>1, <2>2 DEF From, After
<1> QED
  BY <1>1, <1>2

\* What the three walks come by.
LEMMA SoundWalks ==
    ASSUME NEW r, Sound(r)
    PROVE  /\ Ordered(Along(r, r.head, "next"), "forward", Registered(r))
           /\ Ordered(Along(r, r.tail, "prev"), "reverse", Registered(r))
           /\ \A b \in Bucket : Ordered(Along(r, r.hash[b], "chain"), "forward", Chain(r, b))
<1>1. ASSUME NEW dir, NEW S \in SUBSET Registered(r), NEW link, NEW f,
             IsFirst(dir, S, f), Linking(r, S, dir, link)
      PROVE  Ordered(Along(r, f, link), dir, S)
  <2>1. S \subseteq Nat /\ IsFiniteSet(Registered(r))
    BY SomeKeys DEF Sound
  <2>2. From(S, dir, f) = S /\ f \in S \cup {NULL}
    BY <1>1, <2>1, FromFirst
  <2> QED
    BY <1>1, <2>1, <2>2, AlongOrdered
<1>2. \A b \in Bucket : Chain(r, b) \in SUBSET Registered(r)
  BY DEF Chain
<1> QED
  BY <1>1, <1>2 DEF Sound

\* An item is found by its number, and nothing else is.
LEMMA FindSound ==
    ASSUME NEW r, Sound(r), NEW k \in Link
    PROVE  FindByInt(r, k) = IF k \in Registered(r) THEN k ELSE NULL
<1>1. CASE k = NULL
  <2>1. k \notin Registered(r) /\ k < 0
    BY <1>1, SomeKeys DEF Sound, NULL
  <2> QED
    BY <1>1, <2>1 DEF FindByInt
<1>2. CASE k \in Key
  <2> DEFINE S == Chain(r, Hash[k])
  <2>1. k \in Nat /\ Hash[k] \in Bucket /\ ~(k < 0)
    BY <1>2, RegistryAssumption DEF Key
  <2>2. S \subseteq Nat /\ S \subseteq Registered(r)
    <3>1. S \in SUBSET Registered(r)
      BY DEF Chain
    <3> HIDE DEF S
    <3> QED
      BY <3>1, SomeKeys DEF Sound
  <2>3. IsFirst("forward", S \cap {k}, FindByInt(r, k))
    <3>1. Ordered(Along(r, r.hash[Hash[k]], "chain"), "forward", S)
      BY <2>1, SoundWalks
    <3> HIDE DEF S
    <3> QED
      BY <2>1, <2>2, <3>1, FirstOfOrdered DEF FindByInt
  <2>4. S \cap {k} = IF k \in Registered(r) THEN {k} ELSE {}
    BY DEF Chain
  <2> HIDE DEF S
  <2> QED
    BY <2>3, <2>4 DEF IsFirst
<1> QED
  BY <1>1, <1>2 DEF Link

\* The items of a class that pass a test.
Passing(r, class, passing) == {j \in Registered(r) \cap passing : r.item[j].class = class}

\* An iterator finds the first of them, or the first beyond an item.
LEMMA IterateSound ==
    ASSUME NEW r, Sound(r), NEW class, NEW dir \in Directions, NEW passing \in SUBSET Registered(r)
    PROVE  /\ IsFirst(dir, Passing(r, class, passing), Iterate(r, NULL, class, dir, passing))
           /\ \A k \in Registered(r) :
                IsFirst(dir, After(Passing(r, class, passing), dir, k), Iterate(r, k, class, dir, passing))
<1> DEFINE S == Registered(r)
           link == IF dir = "forward" THEN "next" ELSE "prev"
           end == IF dir = "forward" THEN r.head ELSE r.tail
           A == {j \in passing : r.item[j].class = class}
<1>1. S \subseteq Nat /\ IsFiniteSet(Registered(r)) /\ S \in SUBSET Registered(r) /\ NULL \notin S
  BY SomeKeys DEF Sound
<1>2. IsFirst(dir, S, end) /\ Linking(r, S, dir, link)
  BY DEF Sound, Directions
<1>3. ASSUME NEW k \in S \cup {NULL}, NEW start \in S \cup {NULL},
             start = IF k = NULL THEN end ELSE r.item[k][link]
      PROVE  IsFirst(dir, From(S, dir, start) \cap A, Iterate(r, k, class, dir, passing))
  <2>1. Iterate(r, k, class, dir, passing) = FirstOf(Along(r, start, link), A)
    BY <1>3 DEF Iterate
  <2>2. Ordered(Along(r, start, link), dir, From(S, dir, start))
    BY <1>1, <1>2, AlongOrdered
  <2>3. From(S, dir, start) \in SUBSET Nat
    BY <1>1 DEF From, After
  <2> HIDE DEF A
  <2> QED
    BY <2>1, <2>2, <2>3, FirstOfOrdered
<1>4. IsFirst(dir, Passing(r, class, passing), Iterate(r, NULL, class, dir, passing))
  <2>1. From(S, dir, end) = S /\ end \in S \cup {NULL}
    BY <1>1, <1>2, FromFirst
  <2>2. S \cap A = Passing(r, class, passing)
    BY DEF Passing
  <2> HIDE DEF S, A, link, end
  <2> QED
    BY <1>3, <2>1, <2>2
<1>5. ASSUME NEW k \in S
      PROVE  IsFirst(dir, After(Passing(r, class, passing), dir, k), Iterate(r, k, class, dir, passing))
  <2> DEFINE next == r.item[k][link]
  <2>1. IsFirst(dir, After(S, dir, k), next)
    BY <1>2 DEF Linking
  <2> HIDE DEF next
  <2>2. From(S, dir, next) = After(S, dir, k) /\ next \in S \cup {NULL}
    <3> HIDE DEF S
    <3> QED
      BY <1>1, <1>5, <2>1, FromNext
  <2>3. After(S, dir, k) \cap A = After(Passing(r, class, passing), dir, k)
    BY DEF Passing, After
  <2>4. k # NULL
    BY <1>1
  <2> HIDE DEF S, A, end
  <2> QED
    BY <1>3, <2>2, <2>3, <2>4 DEF next
<1> QED
  BY <1>4, <1>5
-----------------------------------------------------------------------------
(* Adding.                                                                 *)

\* The first item of the other direction is the one without a successor.
LEMMA LastHasNoNext ==
    ASSUME NEW dir \in Directions, NEW opp \in Directions, dir # opp, NEW S \in SUBSET Nat,
           NEW m, IsFirst(opp, S, m), NEW j \in S, NEW n, IsFirst(dir, After(S, dir, j), n)
    PROVE  n = NULL <=> j = m
<1>0. \A i, k \in Nat : Beyond(opp, i, k) <=> Beyond(dir, k, i)
  BY DEF Directions, Beyond
<1>1. m \in S /\ m \in Nat /\ \A t \in S : t = m \/ Beyond(dir, m, t)
  <2>1. m \in S /\ \A t \in S : t = m \/ Beyond(opp, t, m)
    BY DEF IsFirst
  <2> QED
    BY <1>0, <2>1
<1>2. CASE After(S, dir, j) = {}
  <2>1. n = NULL
    BY <1>2 DEF IsFirst
  <2>2. ~Beyond(dir, m, j)
    BY <1>1, <1>2 DEF After
  <2> QED
    BY <1>1, <2>1, <2>2
<1>3. CASE After(S, dir, j) # {}
  <2>1. n \in S /\ Beyond(dir, n, j) /\ n \in Nat /\ j \in Nat
    BY <1>3 DEF IsFirst, After
  <2>2. n # NULL
    BY <2>1 DEF NULL
  <2>3. j # m
    BY <1>1, <2>1 DEF Beyond
  <2> QED
    BY <2>2, <2>3
<1> QED
  BY <1>2, <1>3

LEMMA LastOfOrdered ==
    ASSUME NEW S \in SUBSET Nat, S # {}, NEW s, Ordered(s, "forward", S)
    PROVE  IsFirst("reverse", S, Last(s)) /\ s # <<>>
<1>1. s \in Seq(S) /\ Len(s) \in Nat /\ \A i \in 1 .. Len(s) : s[i] \in S /\ s[i] \in Int
  BY OrderedRange
<1>2. PICK u \in S : TRUE
  OBVIOUS
<1>3. Len(s) # 0 /\ s # <<>>
  <2>1. PICK i \in 1 .. Len(s) : s[i] = u
    BY DEF Ordered
  <2> QED
    BY <1>1, <2>1
<1>4. Last(s) = s[Len(s)] /\ Len(s) \in 1 .. Len(s)
  BY <1>1, <1>3 DEF Last
<1>5. ASSUME NEW t \in S PROVE t = s[Len(s)] \/ Beyond("reverse", t, s[Len(s)])
  <2>1. PICK i \in 1 .. Len(s) : s[i] = t
    BY DEF Ordered
  <2>2. i = Len(s) \/ i < Len(s)
    BY <1>1
  <2>3. i < Len(s) => Beyond("forward", s[Len(s)], s[i])
    BY <1>4 DEF Ordered
  <2> QED
    BY <2>1, <2>2, <2>3 DEF Beyond
<1> QED
  BY <1>1, <1>3, <1>4, <1>5 DEF IsFirst

\* The links of a set to which an element beyond all is added.
LEMMA LinkingWith ==
    ASSUME NEW reg0, NEW reg1, NEW S \in SUBSET Nat, NEW t \in Nat, \A u \in S : t > u, NEW link,
           Linking(reg0, S, "forward", link), reg1.item[t][link] = NULL,
           \A j \in S : reg1.item[j][link] = IF reg0.item[j][link] = NULL THEN t ELSE reg0.item[j][link]
    PROVE  Linking(reg1, S \cup {t}, "forward", link)
<1> SUFFICES ASSUME NEW j \in S \cup {t}
             PROVE  IsFirst("forward", After(S \cup {t}, "forward", j), reg1.item[j][link])
  BY DEF Linking
<1>1. CASE j = t
  <2>1. ~(t > t) /\ \A u \in S : ~(u > t)
    OBVIOUS
  <2>2. After(S \cup {t}, "forward", j) = {}
    BY <1>1, <2>1 DEF After, Beyond
  <2> QED
    BY <1>1, <2>2 DEF IsFirst
<1>2. CASE j \in S
  <2> DEFINE n == reg0.item[j][link]
             A == After(S, "forward", j)
  <2>1. After(S \cup {t}, "forward", j) = A \cup {t}
    BY <1>2 DEF After, Beyond
  <2>2. IsFirst("forward", A, n) /\ reg1.item[j][link] = IF n = NULL THEN t ELSE n
    BY <1>2 DEF Linking
  <2>3. A \subseteq Nat /\ \A u \in A : t > u
    BY DEF After
  <2> HIDE DEF n, A
  <2>4. CASE A = {}
    BY <2>1, <2>2, <2>4 DEF IsFirst
  <2>5. CASE A # {}
    <3>1. n \in A /\ \A u \in A : u = n \/ Beyond("forward", u, n)
      BY <2>2, <2>5 DEF IsFirst
    <3>2. n # NULL /\ Beyond("forward", t, n)
      BY <2>3, <3>1 DEF NULL, Beyond
    <3> QED
      BY <2>1, <2>2, <3>1, <3>2 DEF IsFirst
  <2> QED
    BY <2>4, <2>5
<1> QED
  BY <1>1, <1>2

LEMMA FirstWith ==
    ASSUME NEW S \in SUBSET Nat, NEW t \in Nat, \A u \in S : t > u, NEW f, IsFirst("forward", S, f)
    PROVE  /\ IsFirst("forward", S \cup {t}, IF f = NULL THEN t ELSE f)
           /\ f = NULL <=> S = {}
           /\ IsFirst("reverse", S \cup {t}, t)
<1>1. IsFirst("reverse", S \cup {t}, t)
  BY DEF IsFirst, Beyond
<1>2. CASE S = {}
  BY <1>1, <1>2 DEF IsFirst
<1>3. CASE S # {}
  <2>1. f \in S /\ \A u \in S : u = f \/ Beyond("forward", u, f)
    BY <1>3 DEF IsFirst
  <2>2. f # NULL /\ Beyond("forward", t, f)
    BY <2>1 DEF NULL, Beyond
  <2> QED
    BY <1>1, <1>3, <2>1, <2>2 DEF IsFirst
<1> QED
  BY <1>2, <1>3

\* The links backwards of such a set.
LEMMA LinkingBack ==
    ASSUME NEW reg0, NEW reg1, NEW S \in SUBSET Nat, NEW t \in Nat, \A u \in S : t > u, NEW link, NEW last,
           Linking(reg0, S, "reverse", link), IsFirst("reverse", S, last), reg1.item[t][link] = last,
           \A j \in S : reg1.item[j][link] = reg0.item[j][link]
    PROVE  Linking(reg1, S \cup {t}, "reverse", link)
<1> SUFFICES ASSUME NEW j \in S \cup {t}
             PROVE  IsFirst("reverse", After(S \cup {t}, "reverse", j), reg1.item[j][link])
  BY DEF Linking
<1>1. CASE j = t
  <2>1. \A u \in S \cup {t} : Beyond("reverse", u, j) <=> u \in S
    <3>1. ~Beyond("reverse", t, t) /\ \A u \in S : Beyond("reverse", u, t)
      BY DEF Beyond
    <3>2. t \notin S
      BY <3>1
    <3> QED
      BY <1>1, <3>1, <3>2
  <2>2. After(S \cup {t}, "reverse", j) = S
    BY <2>1 DEF After
  <2> QED
    BY <1>1, <2>2
<1>2. CASE j \in S
  <2>1. ~(j > t)
    BY <1>2
  <2>2. After(S \cup {t}, "reverse", j) = After(S, "reverse", j)
    BY <1>2, <2>1 DEF After, Beyond
  <2> QED
    BY <1>2, <2>2 DEF Linking
<1> QED
  BY <1>1, <1>2

\* An item with the greatest key belongs after the last one.
LEMMA PlaceLast ==
    ASSUME NEW r, Sound(r), Registered(r) # {}, NEW key \in Key, \A u \in Registered(r) : u < key
    PROVE  PlaceFor(r, key) = r.tail /\ r.tail \in Registered(r)
<1> DEFINE S == Registered(r)
           list == Along(r, r.head, "next")
           I == {i \in 1 .. Len(Tail(list)) : Tail(list)[i] > key}
<1>1. S \in SUBSET Nat /\ S \subseteq Int /\ key \in Nat
  <2>1. S \subseteq Nat /\ S \subseteq Int
    BY SomeKeys DEF Sound
  <2> QED
    BY <2>1 DEF Key
<1>2. Ordered(list, "forward", S)
  BY SoundWalks
<1>3. IsFirst("reverse", S, Last(list)) /\ list # <<>>
  <2> HIDE DEF list, S
  <2> QED
    BY <1>1, <1>2, LastOfOrdered DEF S
<1>4. IsFirst("reverse", S, r.tail)
  BY DEF Sound
<1>5. Last(list) = r.tail /\ r.tail \in S
  <2>1. Last(list) = r.tail
    <3> HIDE DEF list, S
    <3> QED
      BY <1>1, <1>3, <1>4, FirstUnique
  <2> QED
    BY <1>4, <2>1 DEF IsFirst
<1>6. I = {}
  <2>1. list \in Seq(S) /\ \A i \in 1 .. Len(list) : list[i] \in S /\ list[i] \in Int
    <3> HIDE DEF list, S
    <3> QED
      BY <1>1, <1>2, OrderedRange
  <2> HIDE DEF list
  <2>2. ASSUME NEW i \in 1 .. Len(Tail(list)) PROVE ~(Tail(list)[i] > key)
    <3>1. i + 1 \in 1 .. Len(list) /\ Tail(list)[i] = list[i + 1]
      BY <1>3, <2>1
    <3>2. list[i + 1] \in S /\ list[i + 1] \in Int
      BY <2>1, <3>1
    <3> HIDE DEF S
    <3>3. list[i + 1] < key
      BY <3>2 DEF S
    <3> QED
      BY <1>1, <3>1, <3>2, <3>3
  <2> QED
    BY <2>2
<1>7. SelectInSeq(Tail(list), LAMBDA k : k > key) = 0
  BY <1>6 DEF SelectInSeq
<1>8. PlaceFor(r, key) = Last(list)
  BY <1>7 DEF PlaceFor
<1> QED
  BY <1>5, <1>8
\* What is linked into the list.
LEMMA LinkedItems ==
    ASSUME NEW r, Sound(r), NEW key \in Key, \A u \in Registered(r) : u < key,
           NEW class \in Int, NEW info \in Info, NEW q, q = Linked(r, key, class, info)
    PROVE  /\ RegistryType(q) /\ Registered(q) = Registered(r) \cup {key}
           /\ q.hash = r.hash /\ q.nextkey = r.nextkey /\ q.nextclass = r.nextclass
           /\ q.tail = key /\ q.head = IF r.head = NULL THEN key ELSE r.head
           /\ q.item[key] = [class |-> class, info |-> info, prev |-> r.tail, next |-> NULL, chain |-> NULL]
           /\ \A j \in Registered(r) :
                /\ q.item[j].next = IF r.item[j].next = NULL THEN key ELSE r.item[j].next
                /\ q.item[j].prev = r.item[j].prev /\ q.item[j].chain = r.item[j].chain
                /\ q.item[j].class = r.item[j].class /\ q.item[j].info = r.item[j].info
<1> DEFINE S == Registered(r)
           node == [class |-> class, info |-> info, prev |-> r.tail, next |-> NULL, chain |-> NULL]
<1>1. S \in SUBSET Nat /\ S \subseteq Key /\ NULL \notin S /\ key \notin S /\ NULL \in Link /\ key \in Link
  <2>1. S \subseteq Nat /\ S \subseteq Key /\ NULL \notin S
    BY SomeKeys DEF Sound
  <2>2. key \notin S
    <3> SUFFICES ASSUME key \in S PROVE FALSE
      OBVIOUS
    <3>1. key < key /\ key \in Nat
      BY DEF Key
    <3> QED
      BY <3>1
  <2> QED
    BY <2>1, <2>2 DEF Link
<1>2. /\ r \in [head : Link, tail : Link, hash : [Bucket -> Link],
                item : UNION {[T -> Node] : T \in SUBSET Key}, nextclass : Nat, nextkey : Nat]
      /\ r.item \in [S -> Node]
  BY DEF Sound, RegistryType
<1>3. IsFirst("forward", S, r.head) /\ IsFirst("reverse", S, r.tail) /\ Linking(r, S, "forward", "next")
  BY DEF Sound
<1>4. node \in Node
  BY <1>1, <1>2 DEF Node
<1>5. ASSUME NEW item, item \in [S \cup {key} -> Node], NEW head \in Link,
             q = [r EXCEPT !.head = head, !.tail = key, !.item = item]
      PROVE  /\ RegistryType(q) /\ Registered(q) = S \cup {key} /\ q.item = item /\ q.head = head
             /\ q.hash = r.hash /\ q.nextkey = r.nextkey /\ q.nextclass = r.nextclass /\ q.tail = key
  <2>1. S \cup {key} \subseteq Key
    BY <1>1
  <2>2. item \in UNION {[T -> Node] : T \in SUBSET Key}
    BY <1>5, <2>1
  <2>3. q = [head |-> head, tail |-> key, hash |-> r.hash, item |-> item,
             nextclass |-> r.nextclass, nextkey |-> r.nextkey]
    BY <1>2, <1>5
  <2>4. q.item = item /\ DOMAIN q.item = S \cup {key}
    BY <1>5, <2>3
  <2> QED
    BY <1>1, <1>2, <1>5, <2>1, <2>2, <2>3, <2>4 DEF RegistryType, Registered
<1>6. CASE r.head = NULL
  <2>1. S = {} /\ r.tail = NULL
    BY <1>1, <1>3, <1>6 DEF IsFirst
  <2> DEFINE item == [x \in {key} |-> node]
  <2>2. q = [r EXCEPT !.head = key, !.tail = key, !.item = item]
    BY <1>6, <2>1 DEF Linked
  <2>3. item \in [S \cup {key} -> Node] /\ item[key] = node
    BY <1>4, <2>1
  <2> HIDE DEF item, node, S
  <2>4. /\ RegistryType(q) /\ Registered(q) = S \cup {key} /\ q.item = item /\ q.head = key
        /\ q.hash = r.hash /\ q.nextkey = r.nextkey /\ q.nextclass = r.nextclass /\ q.tail = key
    BY <1>1, <1>5, <2>2, <2>3
  <2>5. q.item[key] = node
    BY <2>3, <2>4
  <2> QED
    BY <1>6, <2>1, <2>4, <2>5 DEF node, S
<1>7. CASE r.head # NULL
  <2>1. S # {}
    BY <1>3, <1>7 DEF IsFirst
  <2>2. PlaceFor(r, key) = r.tail /\ r.tail \in S
    BY <2>1, PlaceLast
  <2>3. \A j \in S : r.item[j].next = NULL <=> j = r.tail
    <3> HIDE DEF S
    <3> QED
      BY <1>1, <1>3, LastHasNoNext DEF Linking, Directions
  <2>4. r.item[r.tail].next = NULL
    BY <2>2, <2>3
  <2> DEFINE old == [r.item EXCEPT ![r.tail].next = key]
             item == [x \in S \cup {key} |-> IF x = key THEN node ELSE old[x]]
  <2>5. q = [r EXCEPT !.item = item, !.tail = key]
    BY <1>7, <2>2, <2>4 DEF Linked
  <2>6. r.item[r.tail] \in Node /\ [r.item[r.tail] EXCEPT !.next = key] \in Node
    BY <1>1, <1>2, <2>2 DEF Node
  <2>7. old \in [S -> Node] /\ \A j \in S : old[j] = IF j = r.tail THEN [r.item[j] EXCEPT !.next = key] ELSE r.item[j]
    BY <1>2, <2>2, <2>6
  <2> HIDE DEF old
  <2>9. item \in [S \cup {key} -> Node] /\ item[key] = node /\ \A j \in S : item[j] = old[j]
    BY <1>1, <1>4, <2>7
  <2> HIDE DEF item
  <2>10. r.head \in Link /\ q = [r EXCEPT !.head = r.head, !.tail = key, !.item = item]
    BY <1>2, <2>5
  <2>11. /\ RegistryType(q) /\ Registered(q) = S \cup {key} /\ q.item = item /\ q.head = r.head
         /\ q.hash = r.hash /\ q.nextkey = r.nextkey /\ q.nextclass = r.nextclass /\ q.tail = key
    BY <1>5, <2>9, <2>10
  <2>12. ASSUME NEW j \in S
         PROVE  /\ q.item[j].next = IF r.item[j].next = NULL THEN key ELSE r.item[j].next
                /\ q.item[j].prev = r.item[j].prev /\ q.item[j].chain = r.item[j].chain
                /\ q.item[j].class = r.item[j].class /\ q.item[j].info = r.item[j].info
    <3>1. q.item[j] = IF j = r.tail THEN [r.item[j] EXCEPT !.next = key] ELSE r.item[j]
      BY <2>7, <2>9, <2>11
    <3>2. r.item[j] \in Node
      BY <1>2
    <3>3. r.item[j].next = NULL <=> j = r.tail
      BY <2>3
    <3> QED
      BY <3>1, <3>2, <3>3 DEF Node
  <2> QED
    BY <1>7, <2>9, <2>11, <2>12
<1> QED
  BY <1>6, <1>7
\* An item with a number greater than all is registered.
LEMMA InsertSound ==
    ASSUME NEW r, Sound(r), NEW key \in Key, key < r.nextkey, \A u \in Registered(r) : u < key,
           NEW class \in Int, NEW info \in Info, NEW p, p = InsertByInt(r, key, class, info)
    PROVE  /\ Sound(p) /\ Registered(p) = Registered(r) \cup {key}
           /\ p.nextkey = r.nextkey /\ p.nextclass = r.nextclass
           /\ p.item[key].class = class /\ p.item[key].info = info
           /\ \A j \in Registered(r) : p.item[j].class = r.item[j].class /\ p.item[j].info = r.item[j].info
<1> DEFINE S == Registered(r)
           q == Linked(r, key, class, info)
           b == Hash[key]
           C == Chain(r, b)
           chain == Along(q, q.hash[b], "chain")
<1>1. /\ RegistryType(q) /\ Registered(q) = S \cup {key}
      /\ q.hash = r.hash /\ q.nextkey = r.nextkey /\ q.nextclass = r.nextclass
      /\ q.tail = key /\ q.head = IF r.head = NULL THEN key ELSE r.head
      /\ q.item[key] = [class |-> class, info |-> info, prev |-> r.tail, next |-> NULL, chain |-> NULL]
      /\ \A j \in S :
           /\ q.item[j].next = IF r.item[j].next = NULL THEN key ELSE r.item[j].next
           /\ q.item[j].prev = r.item[j].prev /\ q.item[j].chain = r.item[j].chain
           /\ q.item[j].class = r.item[j].class /\ q.item[j].info = r.item[j].info
  <2> HIDE DEF q
  <2> QED
    BY LinkedItems DEF q
<1>2. p = Chained(q, key)
  BY DEF InsertByInt
<1> HIDE DEF q
<1>3. S \in SUBSET Nat /\ S \subseteq Key /\ NULL \notin S /\ key \in Nat /\ b \in Bucket /\ key \in Link /\ NULL \in Link
  <2>1. S \in SUBSET Nat /\ S \subseteq Key /\ NULL \notin S
    BY SomeKeys DEF Sound
  <2> QED
    BY <2>1, RegistryAssumption DEF Link, Key
<1>4. key \notin S /\ \A u \in S : u \in Nat /\ key > u
  BY <1>3
<1>5. \A c \in Bucket : Chain(r, c) \in SUBSET S
  BY DEF Chain
<1>6. C \in SUBSET Nat /\ C \subseteq S /\ IsFiniteSet(Registered(q)) /\ C \subseteq Registered(q)
  <2>1. IsFiniteSet(Registered(q))
    BY <1>1, SomeKeys
  <2>2. C \in SUBSET S
    BY <1>3, <1>5
  <2> HIDE DEF C, S
  <2> QED
    BY <1>1, <1>3, <2>1, <2>2
<1>7. Ordered(chain, "forward", C)
  <2>1. IsFirst("forward", C, q.hash[b]) /\ Linking(r, C, "forward", "chain")
    BY <1>1, <1>3 DEF Sound
  <2>2. Linking(q, C, "forward", "chain")
    <3> HIDE DEF C, S
    <3> QED
      BY <1>1, <1>6, <2>1 DEF Linking
  <2>3. From(C, "forward", q.hash[b]) = C /\ q.hash[b] \in C \cup {NULL}
    <3> HIDE DEF C, b
    <3> QED
      BY <1>6, <2>1, FromFirst
  <2> HIDE DEF C, b
  <2>4. Ordered(Along(q, q.hash[b], "chain"), "forward", From(C, "forward", q.hash[b]))
    BY <1>6, <2>2, <2>3, AlongOrdered
  <2> QED
    BY <2>3, <2>4
<1>8. /\ q \in [head : Link, tail : Link, hash : [Bucket -> Link],
                item : UNION {[T -> Node] : T \in SUBSET Key}, nextclass : Nat, nextkey : Nat]
      /\ q.item \in [S \cup {key} -> Node] /\ S \cup {key} \subseteq Key
  BY <1>1 DEF RegistryType
\* What the collision chain comes to.
<1>9. /\ RegistryType(p) /\ Registered(p) = S \cup {key}
      /\ p.head = q.head /\ p.tail = q.tail /\ p.nextkey = q.nextkey /\ p.nextclass = q.nextclass
      /\ p.hash = [q.hash EXCEPT ![b] = IF C = {} THEN key ELSE @]
      /\ \A j \in S \cup {key} :
           /\ p.item[j].class = q.item[j].class /\ p.item[j].info = q.item[j].info
           /\ p.item[j].next = q.item[j].next /\ p.item[j].prev = q.item[j].prev
           /\ p.item[j].chain = IF j \in C /\ q.item[j].chain = NULL THEN key ELSE q.item[j].chain
  <2>1. CASE C = {}
    <3>1. chain = <<>>
      <4>1. chain \in Seq(C)
        BY <1>7 DEF Ordered
      <4> HIDE DEF chain, C
      <4>2. Len(chain) \in Nat /\ Len(chain) = 0
        <5>1. Len(chain) \in Nat /\ \A i \in 1 .. Len(chain) : chain[i] \in C
          BY <4>1
        <5>2. Len(chain) > 0 => 1 \in 1 .. Len(chain)
          BY <5>1
        <5> QED
          BY <2>1, <5>1, <5>2
      <4> QED
        BY <4>1, <4>2
    <3>2. p = [q EXCEPT !.hash[b] = key]
      BY <1>2, <3>1 DEF Chained
    <3> HIDE DEF b, C
    <3>3. /\ p.item = q.item /\ p.head = q.head /\ p.tail = q.tail /\ p.nextkey = q.nextkey
          /\ p.nextclass = q.nextclass /\ p.hash = [q.hash EXCEPT ![b] = key]
      BY <1>8, <3>2
    <3>4. p \in [head : Link, tail : Link, hash : [Bucket -> Link],
                 item : UNION {[T -> Node] : T \in SUBSET Key}, nextclass : Nat, nextkey : Nat]
      BY <1>3, <1>8, <3>2
    <3>5. Registered(p) = S \cup {key} /\ RegistryType(p)
      BY <1>1, <1>8, <3>3, <3>4 DEF Registered, RegistryType
    <3> QED
      BY <2>1, <3>3, <3>5
  <2>2. CASE C # {}
    <3> DEFINE m == Last(chain)
    <3>1. IsFirst("reverse", C, m) /\ chain # <<>>
      <4> HIDE DEF chain, C
      <4> QED
        BY <1>6, <1>7, <2>2, LastOfOrdered
    <3>2. p = [q EXCEPT !.item[m].chain = key]
      BY <1>2, <3>1 DEF Chained
    <3> HIDE DEF m
    <3>3. m \in C /\ m \in S \cup {key}
      BY <1>6, <2>2, <3>1 DEF IsFirst
    <3>4. \A j \in C : q.item[j].chain = NULL <=> j = m
      <4>1. \A j \in C : IsFirst("forward", After(C, "forward", j), r.item[j].chain)
        BY <1>3 DEF Sound, Linking
      <4>2. \A j \in C : q.item[j].chain = r.item[j].chain
        BY <1>1, <1>6
      <4> HIDE DEF C, m
      <4> SUFFICES ASSUME NEW j \in C PROVE q.item[j].chain = NULL <=> j = m
        OBVIOUS
      <4> DEFINE n == r.item[j].chain
      <4>3. IsFirst("forward", After(C, "forward", j), n) /\ q.item[j].chain = n
        BY <4>1, <4>2
      <4> HIDE DEF n
      <4>4. n = NULL <=> j = m
        BY <1>6, <3>1, <4>3, LastHasNoNext DEF Directions
      <4> QED
        BY <4>3, <4>4
    <3> HIDE DEF b, C
    <3> DEFINE new == [q.item EXCEPT ![m] = [@ EXCEPT !.chain = key]]
    <3>5. /\ p.item = new /\ p.head = q.head /\ p.tail = q.tail /\ p.nextkey = q.nextkey
          /\ p.nextclass = q.nextclass /\ p.hash = q.hash
      BY <1>8, <3>2
    <3>6. q.item[m] \in Node /\ [q.item[m] EXCEPT !.chain = key] \in Node
      BY <1>3, <1>8, <3>3 DEF Node
    <3>7. /\ new \in [S \cup {key} -> Node]
          /\ \A j \in S \cup {key} : new[j] = IF j = m THEN [q.item[j] EXCEPT !.chain = key] ELSE q.item[j]
      BY <1>8, <3>3, <3>6
    <3> HIDE DEF new
    <3>8. p = [q EXCEPT !.item = new]
      BY <1>8, <3>2 DEF new
    <3>9. new \in UNION {[T -> Node] : T \in SUBSET Key}
      BY <1>8, <3>7
    <3>10. p \in [head : Link, tail : Link, hash : [Bucket -> Link],
                  item : UNION {[T -> Node] : T \in SUBSET Key}, nextclass : Nat, nextkey : Nat]
      BY <1>8, <3>8, <3>9
    <3>11. DOMAIN p.item = S \cup {key}
      BY <3>5, <3>7
    <3>12. Registered(p) = S \cup {key} /\ RegistryType(p)
      BY <1>8, <3>5, <3>7, <3>10, <3>11 DEF Registered, RegistryType
    <3>13. ASSUME NEW j \in S \cup {key}
           PROVE  /\ p.item[j].class = q.item[j].class /\ p.item[j].info = q.item[j].info
                  /\ p.item[j].next = q.item[j].next /\ p.item[j].prev = q.item[j].prev
                  /\ p.item[j].chain = IF j \in C /\ q.item[j].chain = NULL THEN key ELSE q.item[j].chain
      <4>1. p.item[j] = IF j = m THEN [q.item[j] EXCEPT !.chain = key] ELSE q.item[j]
        BY <3>5, <3>7
      <4>2. q.item[j] \in Node
        BY <1>8
      <4>3. j \in C /\ q.item[j].chain = NULL <=> j = m
        BY <3>3, <3>4
      <4> QED
        BY <4>1, <4>2, <4>3 DEF Node
    <3>14. p.hash = [q.hash EXCEPT ![b] = IF C = {} THEN key ELSE @]
      <4>1. q.hash \in [Bucket -> Link]
        BY <1>8
      <4> QED
        BY <1>3, <2>2, <3>5, <4>1
    <3> QED
      BY <3>5, <3>12, <3>13, <3>14
  <2> QED
    BY <2>1, <2>2
<1> HIDE DEF chain
<1>10. IsFirst("forward", S \cup {key}, p.head) /\ IsFirst("reverse", S \cup {key}, p.tail)
  <2>1. IsFirst("forward", S, r.head)
    BY DEF Sound
  <2> HIDE DEF S
  <2> DEFINE head == IF r.head = NULL THEN key ELSE r.head
  <2>2. IsFirst("forward", S \cup {key}, head) /\ IsFirst("reverse", S \cup {key}, key)
    BY <1>3, <1>4, <2>1, FirstWith
  <2>3. p.head = head /\ p.tail = key
    BY <1>1, <1>9
  <2> HIDE DEF head
  <2> QED
    BY <2>2, <2>3
<1>11. Linking(p, S \cup {key}, "forward", "next")
  <2>1. Linking(r, S, "forward", "next")
    BY DEF Sound
  <2>2. /\ p.item[key].next = NULL
        /\ \A j \in S : p.item[j].next = IF r.item[j].next = NULL THEN key ELSE r.item[j].next
    BY <1>1, <1>9
  <2> HIDE DEF S, b, C
  <2> QED
    BY <1>3, <1>4, <2>1, <2>2, LinkingWith
<1>12. Linking(p, S \cup {key}, "reverse", "prev")
  <2>1. Linking(r, S, "reverse", "prev") /\ IsFirst("reverse", S, r.tail)
    BY DEF Sound
  <2>2. p.item[key].prev = r.tail /\ \A j \in S : p.item[j].prev = r.item[j].prev
    BY <1>1, <1>9
  <2> HIDE DEF S, b, C
  <2> QED
    BY <1>3, <1>4, <2>1, <2>2, LinkingBack
<1>13. ASSUME NEW c \in Bucket
       PROVE  IsFirst("forward", Chain(p, c), p.hash[c]) /\ Linking(p, Chain(p, c), "forward", "chain")
  <2>1. IsFirst("forward", Chain(r, c), r.hash[c]) /\ Linking(r, Chain(r, c), "forward", "chain")
    BY DEF Sound
  <2>2. q.hash \in [Bucket -> Link] /\ q.hash = r.hash
    BY <1>1, <1>8
  <2>3. CASE c = b
    <3>1. Chain(p, c) = C \cup {key}
      BY <1>9, <2>3 DEF Chain
    <3>2. p.hash[c] = IF r.hash[c] = NULL THEN key ELSE r.hash[c]
      <4>1. C = Chain(r, c)
        BY <2>3
      <4> HIDE DEF C
      <4>2. r.hash[c] = NULL <=> C = {}
        BY <1>4, <1>6, <1>3, <2>1, <4>1, FirstWith
      <4> HIDE DEF b
      <4> QED
        BY <1>9, <1>3, <2>2, <2>3, <4>2
    <3>3. C = Chain(r, c) /\ \A u \in C : key > u
      BY <1>4, <1>6, <2>3
    <3>4. IsFirst("forward", C \cup {key}, p.hash[c])
      <4> HIDE DEF C
      <4> DEFINE first == IF r.hash[c] = NULL THEN key ELSE r.hash[c]
      <4>1. IsFirst("forward", C, r.hash[c])
        BY <2>1, <3>3
      <4>2. IsFirst("forward", C \cup {key}, first)
        BY <1>3, <1>6, <3>3, <4>1, FirstWith
      <4> HIDE DEF first
      <4> QED
        BY <3>2, <4>2 DEF first
    <3>5. /\ p.item[key].chain = NULL
          /\ \A j \in C : p.item[j].chain = IF r.item[j].chain = NULL THEN key ELSE r.item[j].chain
      <4>1. key \notin C
        BY <1>4, <1>6
      <4>2. q.item[key].chain = NULL /\ p.item[key].chain = NULL
        <5>1. q.item[key].chain = NULL
          BY <1>1
        <5> HIDE DEF C, S, b
        <5> QED
          BY <1>9, <4>1, <5>1
      <4> HIDE DEF C, S, b
      <4>3. ASSUME NEW j \in C
            PROVE  p.item[j].chain = IF r.item[j].chain = NULL THEN key ELSE r.item[j].chain
        <5>1. j \in S /\ q.item[j].chain = r.item[j].chain
          BY <1>1, <1>6
        <5> QED
          BY <1>9, <5>1
      <4> QED
        BY <4>2, <4>3
    <3>6. Linking(p, C \cup {key}, "forward", "chain")
      <4>1. Linking(r, C, "forward", "chain")
        BY <2>1, <3>3
      <4> HIDE DEF C
      <4> QED
        BY <1>3, <1>6, <3>3, <3>5, <4>1, LinkingWith
    <3> HIDE DEF C
    <3> QED
      BY <3>1, <3>4, <3>6
  <2>4. CASE c # b
    <3>1. Chain(p, c) = Chain(r, c)
      BY <1>9, <2>4 DEF Chain
    <3>2. p.hash[c] = r.hash[c]
      <4> HIDE DEF b, C
      <4> QED
        BY <1>9, <2>2, <2>4
    <3>3. \A j \in Chain(r, c) : p.item[j].chain = r.item[j].chain
      <4>1. \A j \in Chain(r, c) : j \in S /\ j \notin C
        BY <2>4 DEF Chain
      <4> HIDE DEF b, C, S
      <4> QED
        BY <1>1, <1>9, <4>1
    <3> QED
      BY <2>1, <3>1, <3>2, <3>3 DEF Linking
  <2> QED
    BY <2>3, <2>4
<1>14. \A k \in Registered(p) : k < p.nextkey
  BY <1>1, <1>9 DEF Sound
<1>15. Sound(p)
  BY <1>9, <1>10, <1>11, <1>12, <1>13, <1>14 DEF Sound
<1> HIDE DEF C, b
<1> QED
  BY <1>1, <1>9, <1>15
-----------------------------------------------------------------------------
(* Removing.                                                               *)

\* What becomes of the first item without one that was taken out.
LEMMA FirstWithout ==
    ASSUME NEW dir, NEW S \in SUBSET Nat, NEW f, IsFirst(dir, S, f),
           NEW key \in S, NEW after, IsFirst(dir, After(S, dir, key), after)
    PROVE  IsFirst(dir, S \ {key}, IF f = key THEN after ELSE f)
<1>1. f \in S /\ \A t \in S : t = f \/ Beyond(dir, t, f)
  BY DEF IsFirst
<1>2. CASE f = key
  <2>1. \A t \in S : t # key <=> Beyond(dir, t, key)
    BY <1>1, <1>2 DEF Beyond
  <2>2. S \ {key} = After(S, dir, key)
    BY <2>1 DEF After
  <2> QED
    BY <1>2, <2>2
<1>3. CASE f # key
  BY <1>1, <1>3 DEF IsFirst
<1> QED
  BY <1>2, <1>3

LEMMA LinkingWithout ==
    ASSUME NEW reg0, NEW reg1, NEW dir, NEW S \in SUBSET Nat, NEW key \in S, NEW link,
           Linking(reg0, S, dir, link),
           \A j \in S \ {key} :
              reg1.item[j][link] = IF reg0.item[j][link] = key THEN reg0.item[key][link] ELSE reg0.item[j][link]
    PROVE  Linking(reg1, S \ {key}, dir, link)
<1> SUFFICES ASSUME NEW j \in S \ {key}
             PROVE  IsFirst(dir, After(S \ {key}, dir, j), reg1.item[j][link])
  BY DEF Linking
<1> DEFINE A == After(S, dir, j)
           n == reg0.item[j][link]
           after == reg0.item[key][link]
<1>1. IsFirst(dir, A, n) /\ IsFirst(dir, After(S, dir, key), after)
  BY DEF Linking
<1>2. After(S \ {key}, dir, j) = A \ {key} /\ A \subseteq S /\ A \in SUBSET Nat
  BY DEF After
<1>3. reg1.item[j][link] = IF n = key THEN after ELSE n
  OBVIOUS
<1> HIDE DEF n, after
<1>4. CASE key \in A
  <2>1. \A i \in Nat : Beyond(dir, i, key) => Beyond(dir, i, j)
    <3>1. Beyond(dir, key, j) /\ key \in Nat /\ j \in Nat
      BY <1>4 DEF After
    <3> HIDE DEF A
    <3> QED
      BY <3>1 DEF Beyond
  <2>2. After(A, dir, key) = After(S, dir, key)
    BY <2>1 DEF After
  <2> HIDE DEF A
  <2> DEFINE first == IF n = key THEN after ELSE n
  <2>3. IsFirst(dir, A \ {key}, first)
    BY <1>1, <1>2, <1>4, <2>2, FirstWithout
  <2> HIDE DEF first
  <2> QED
    BY <1>2, <1>3, <2>3 DEF first
<1>5. CASE key \notin A
  <2>1. A \ {key} = A
    BY <1>5
  <2>2. n # key
    <3>1. key # NULL
      BY DEF NULL
    <3> HIDE DEF A
    <3> QED
      BY <1>1, <1>5, <3>1 DEF IsFirst
  <2> HIDE DEF A
  <2> QED
    BY <1>1, <1>2, <1>3, <2>1, <2>2
<1> QED
  BY <1>4, <1>5

\* The links of the two directions mirror each other.
LEMMA Mirror ==
    ASSUME NEW dir \in Directions, NEW opp \in Directions, dir # opp, NEW S \in SUBSET Nat,
           NEW j \in S, NEW k \in S, IsFirst(dir, After(S, dir, j), k),
           NEW p, IsFirst(opp, After(S, opp, k), p)
    PROVE  p = j
<1>1. \A a, b \in Nat : Beyond(opp, a, b) <=> Beyond(dir, b, a)
  BY DEF Directions, Beyond
<1>2. k # NULL /\ j \in Nat /\ k \in Nat
  BY DEF NULL
<1>3. Beyond(dir, k, j) /\ \A t \in S : Beyond(dir, t, j) => t = k \/ Beyond(dir, t, k)
  BY <1>2 DEF IsFirst, After
<1>4. j \in After(S, opp, k)
  BY <1>1, <1>3 DEF After
<1>5. p \in S /\ Beyond(dir, k, p) /\ (j = p \/ Beyond(dir, p, j))
  <2>1. p \in After(S, opp, k) /\ (j = p \/ Beyond(opp, j, p))
    BY <1>4 DEF IsFirst
  <2>2. p \in S /\ p \in Nat
    BY <2>1 DEF After
  <2> QED
    BY <1>1, <2>1, <2>2 DEF After
<1>6. p = k \/ Beyond(dir, p, k) => FALSE
  <2>1. p \in Nat
    BY <1>5
  <2> QED
    BY <1>2, <1>5, <2>1 DEF Beyond
<1> QED
  BY <1>3, <1>5, <1>6

LEMMA HeadOfOrdered ==
    ASSUME NEW dir, NEW S \in SUBSET Nat, S # {}, NEW s, Ordered(s, dir, S)
    PROVE  IsFirst(dir, S, Head(s))
<1>1. s \in Seq(S) /\ Len(s) \in Nat /\ \A i \in 1 .. Len(s) : s[i] \in S /\ s[i] \in Int
  BY OrderedRange
<1>2. PICK u \in S : TRUE
  OBVIOUS
<1>3. Len(s) # 0 /\ s # <<>>
  <2>1. PICK i \in 1 .. Len(s) : s[i] = u
    BY DEF Ordered
  <2> QED
    BY <1>1, <2>1
<1>4. Head(s) = s[1] /\ 1 \in 1 .. Len(s)
  BY <1>1, <1>3
<1>5. ASSUME NEW t \in S PROVE t = s[1] \/ Beyond(dir, t, s[1])
  <2>1. PICK i \in 1 .. Len(s) : s[i] = t
    BY DEF Ordered
  <2>2. i = 1 \/ 1 < i
    BY <1>1
  <2> QED
    BY <1>4, <2>1, <2>2 DEF Ordered
<1> QED
  BY <1>1, <1>4, <1>5 DEF IsFirst

With(q, k, node) == [q EXCEPT !.item[k] = node]

\* One item is changed.
LEMMA SetItem ==
    ASSUME NEW q, RegistryType(q), NEW k, NEW node, k \in Registered(q) => node \in Node,
           NEW p, p = With(q, k, node)
    PROVE  /\ RegistryType(p) /\ Registered(p) = Registered(q)
           /\ p.head = q.head /\ p.tail = q.tail /\ p.hash = q.hash
           /\ p.nextkey = q.nextkey /\ p.nextclass = q.nextclass
           /\ \A j \in Registered(q) : p.item[j] = IF j = k THEN node ELSE q.item[j]
<1> DEFINE S == Registered(q)
           new == [q.item EXCEPT ![k] = node]
<1>1. /\ q \in [head : Link, tail : Link, hash : [Bucket -> Link],
                item : UNION {[T -> Node] : T \in SUBSET Key}, nextclass : Nat, nextkey : Nat]
      /\ S \subseteq Key /\ q.item \in [S -> Node]
  BY DEF RegistryType
<1>2. new \in [S -> Node] /\ \A j \in S : new[j] = IF j = k THEN node ELSE q.item[j]
  <2> HIDE DEF S
  <2> QED
    BY <1>1 DEF S
<1>3. new \in UNION {[T -> Node] : T \in SUBSET Key}
  <2> HIDE DEF new
  <2> QED
    BY <1>1, <1>2
<1>4. p = [q EXCEPT !.item = new]
  BY <1>1 DEF With
<1> HIDE DEF new
<1>5. /\ p.head = q.head /\ p.tail = q.tail /\ p.hash = q.hash /\ p.item = new
      /\ p.nextkey = q.nextkey /\ p.nextclass = q.nextclass
  BY <1>1, <1>4
<1>6. p \in [head : Link, tail : Link, hash : [Bucket -> Link],
             item : UNION {[T -> Node] : T \in SUBSET Key}, nextclass : Nat, nextkey : Nat]
  BY <1>1, <1>3, <1>4
<1>7. DOMAIN p.item = S
  BY <1>2, <1>5
<1> QED
  BY <1>1, <1>2, <1>5, <1>6, <1>7 DEF RegistryType, Registered
\* The links of the list that go by an item.
LEMMA UnlinkedItems ==
    ASSUME NEW q, RegistryType(q), NEW key \in Registered(q), NEW p, p = Unlinked(q, key)
    PROVE  /\ RegistryType(p) /\ Registered(p) = Registered(q)
           /\ p.hash = q.hash /\ p.nextkey = q.nextkey /\ p.nextclass = q.nextclass
           /\ p.head = IF q.item[key].prev = NULL THEN q.item[key].next ELSE q.head
           /\ p.tail = IF q.item[key].next = NULL THEN q.item[key].prev ELSE q.tail
           /\ \A j \in Registered(q) :
                /\ p.item[j].next = IF j = q.item[key].prev THEN q.item[key].next ELSE q.item[j].next
                /\ p.item[j].prev = IF j = q.item[key].next THEN q.item[key].prev ELSE q.item[j].prev
                /\ p.item[j].chain = q.item[j].chain
                /\ p.item[j].class = q.item[j].class /\ p.item[j].info = q.item[j].info
<1> DEFINE S == Registered(q)
           prev == q.item[key].prev
           next == q.item[key].next
           one == IF prev = NULL THEN [q EXCEPT !.head = next] ELSE [q EXCEPT !.item[prev].next = next]
<1>1. NULL \notin S
  BY SomeKeys
<1>2. /\ q \in [head : Link, tail : Link, hash : [Bucket -> Link],
                item : UNION {[T -> Node] : T \in SUBSET Key}, nextclass : Nat, nextkey : Nat]
      /\ S \subseteq Key /\ q.item \in [S -> Node]
  BY DEF RegistryType
<1>3. prev \in Link /\ next \in Link
  BY <1>2 DEF Node
<1>4. p = IF next = NULL THEN [one EXCEPT !.tail = prev] ELSE [one EXCEPT !.item[next].prev = prev]
  BY DEF Unlinked
<1> HIDE DEF prev, next, S
<1>5. /\ RegistryType(one) /\ Registered(one) = S
      /\ one.hash = q.hash /\ one.nextkey = q.nextkey /\ one.nextclass = q.nextclass
      /\ one.head = (IF prev = NULL THEN next ELSE q.head) /\ one.tail = q.tail
      /\ \A j \in S :
           /\ one.item[j].next = (IF j = prev THEN next ELSE q.item[j].next)
           /\ one.item[j].prev = q.item[j].prev /\ one.item[j].chain = q.item[j].chain
           /\ one.item[j].class = q.item[j].class /\ one.item[j].info = q.item[j].info
  <2>1. CASE prev = NULL
    <3>1. one = [q EXCEPT !.head = next]
      BY <2>1
    <3>2. /\ one.item = q.item /\ one.hash = q.hash /\ one.nextkey = q.nextkey /\ one.nextclass = q.nextclass
          /\ one.head = next /\ one.tail = q.tail
      BY <1>2, <3>1
    <3>3. one \in [head : Link, tail : Link, hash : [Bucket -> Link],
                   item : UNION {[T -> Node] : T \in SUBSET Key}, nextclass : Nat, nextkey : Nat]
      BY <1>2, <1>3, <3>1
    <3> HIDE DEF one
    <3>4. RegistryType(one) /\ Registered(one) = S
      BY <1>2, <3>2, <3>3 DEF RegistryType, Registered, S
    <3> QED
      BY <1>1, <2>1, <3>2, <3>4
  <2>2. CASE prev # NULL
    <3> DEFINE node == [q.item[prev] EXCEPT !.next = next]
    <3>1. one = With(q, prev, node)
      BY <2>2 DEF With
    <3>2. prev \in S => node \in Node
      BY <1>2, <1>3 DEF Node
    <3> HIDE DEF one
    <3>3. /\ RegistryType(one) /\ Registered(one) = S /\ one.head = q.head /\ one.tail = q.tail
          /\ one.hash = q.hash /\ one.nextkey = q.nextkey /\ one.nextclass = q.nextclass
          /\ \A j \in S : one.item[j] = IF j = prev THEN node ELSE q.item[j]
      <4> HIDE DEF node
      <4> QED
        BY <3>1, <3>2, SetItem DEF S
    <3>4. ASSUME NEW j \in S
          PROVE  /\ one.item[j].next = (IF j = prev THEN next ELSE q.item[j].next)
                 /\ one.item[j].prev = q.item[j].prev /\ one.item[j].chain = q.item[j].chain
                 /\ one.item[j].class = q.item[j].class /\ one.item[j].info = q.item[j].info
      <4>1. one.item[j] = (IF j = prev THEN node ELSE q.item[j]) /\ q.item[j] \in Node
        BY <1>2, <3>3
      <4> QED
        BY <4>1 DEF Node
    <3> QED
      BY <2>2, <3>3, <3>4
  <2> QED
    BY <2>1, <2>2
<1> HIDE DEF one
<1>6. one.item \in [S -> Node]
  BY <1>5 DEF RegistryType
<1>7. CASE next = NULL
  <2>1. one \in [head : Link, tail : Link, hash : [Bucket -> Link],
                 item : UNION {[T -> Node] : T \in SUBSET Key}, nextclass : Nat, nextkey : Nat]
    BY <1>5 DEF RegistryType
  <2>2. /\ p.item = one.item /\ p.hash = one.hash /\ p.nextkey = one.nextkey /\ p.nextclass = one.nextclass
        /\ p.head = one.head /\ p.tail = prev
    BY <1>4, <1>7, <2>1
  <2>3. p \in [head : Link, tail : Link, hash : [Bucket -> Link],
               item : UNION {[T -> Node] : T \in SUBSET Key}, nextclass : Nat, nextkey : Nat]
    BY <1>3, <1>4, <1>7, <2>1
  <2>4. RegistryType(p) /\ Registered(p) = S
    BY <1>2, <1>5, <1>6, <2>2, <2>3 DEF RegistryType, Registered
  <2>5. \A j \in S : j # next
    BY <1>1, <1>7
  <2> QED
    BY <1>5, <1>7, <2>2, <2>4, <2>5 DEF S, prev, next
<1>8. CASE next # NULL
  <2> DEFINE node == [one.item[next] EXCEPT !.prev = prev]
  <2>1. p = With(one, next, node)
    BY <1>4, <1>8 DEF With
  <2>2. next \in S => node \in Node
    BY <1>3, <1>6 DEF Node
  <2>3. /\ RegistryType(p) /\ Registered(p) = S /\ p.head = one.head /\ p.tail = one.tail
        /\ p.hash = one.hash /\ p.nextkey = one.nextkey /\ p.nextclass = one.nextclass
        /\ \A j \in S : p.item[j] = IF j = next THEN node ELSE one.item[j]
    <3> HIDE DEF node
    <3> QED
      BY <1>5, <2>1, <2>2, SetItem
  <2>4. ASSUME NEW j \in S
        PROVE  /\ p.item[j].prev = (IF j = next THEN prev ELSE one.item[j].prev)
               /\ p.item[j].next = one.item[j].next /\ p.item[j].chain = one.item[j].chain
               /\ p.item[j].class = one.item[j].class /\ p.item[j].info = one.item[j].info
    <3>1. p.item[j] = (IF j = next THEN node ELSE one.item[j]) /\ one.item[j] \in Node
      BY <1>6, <2>3
    <3> QED
      BY <3>1 DEF Node
  <2> HIDE DEF node
  <2>5. ASSUME NEW j \in S
        PROVE  /\ p.item[j].prev = (IF j = next THEN prev ELSE q.item[j].prev)
               /\ p.item[j].next = (IF j = prev THEN next ELSE q.item[j].next)
               /\ p.item[j].chain = q.item[j].chain
               /\ p.item[j].class = q.item[j].class /\ p.item[j].info = q.item[j].info
    BY <1>5, <2>4
  <2> QED
    BY <1>5, <1>8, <2>3, <2>5 DEF S, prev, next
<1> QED
  BY <1>7, <1>8
\* The collision chain that goes by an item.
LEMMA UnchainedItems ==
    ASSUME NEW r, Sound(r), NEW key \in Registered(r), NEW p, p = Unchained(r, key)
    PROVE  /\ RegistryType(p) /\ Registered(p) = Registered(r)
           /\ p.head = r.head /\ p.tail = r.tail /\ p.nextkey = r.nextkey /\ p.nextclass = r.nextclass
           /\ \A c \in Bucket : p.hash[c] = IF r.hash[c] = key THEN r.item[key].chain ELSE r.hash[c]
           /\ \A j \in Registered(r) :
                /\ p.item[j].next = r.item[j].next /\ p.item[j].prev = r.item[j].prev
                /\ p.item[j].class = r.item[j].class /\ p.item[j].info = r.item[j].info
                /\ j # key => p.item[j].chain = IF r.item[j].chain = key THEN r.item[key].chain ELSE r.item[j].chain
<1> DEFINE S == Registered(r)
           b == Hash[key]
           C == Chain(r, b)
           chain == Along(r, r.hash[b], "chain")
           after == r.item[key].chain
           A == {k \in S : r.item[k].chain = key}
           pred == FirstOf(chain, A)
<1>1. S \in SUBSET Nat /\ S \subseteq Key /\ NULL \notin S /\ b \in Bucket /\ key \in Nat
  <2>1. S \in SUBSET Nat /\ S \subseteq Key /\ NULL \notin S
    BY SomeKeys DEF Sound
  <2> QED
    BY <2>1, RegistryAssumption
<1>2. RegistryType(r)
  BY DEF Sound
<1>3. /\ r \in [head : Link, tail : Link, hash : [Bucket -> Link],
                item : UNION {[T -> Node] : T \in SUBSET Key}, nextclass : Nat, nextkey : Nat]
      /\ r.item \in [S -> Node]
  BY <1>2 DEF RegistryType
<1>4. after \in Link
  BY <1>3 DEF Node
<1>5. \A c \in Bucket :
        IsFirst("forward", Chain(r, c), r.hash[c]) /\ Linking(r, Chain(r, c), "forward", "chain")
  BY DEF Sound
<1>6. \A c \in Bucket : Chain(r, c) \subseteq S /\ Chain(r, c) \in SUBSET Nat
  BY <1>1 DEF Chain
<1>7. key \in C /\ C # {} /\ C \in SUBSET Nat
  BY <1>1 DEF Chain
<1>8. ASSUME NEW j \in S, r.item[j].chain = key
      PROVE  j \in C /\ j < key /\ \A i \in C : i > j => i = key \/ i > key
  <2>1. Hash[j] \in Bucket /\ j \in Chain(r, Hash[j]) /\ j \in Nat
    BY <1>1, RegistryAssumption DEF Chain
  <2>2. IsFirst("forward", After(Chain(r, Hash[j]), "forward", j), key)
    BY <1>5, <1>8, <2>1 DEF Linking
  <2>3. key # NULL
    BY <1>1
  <2>4. key \in Chain(r, Hash[j]) /\ key > j
    BY <2>2, <2>3 DEF IsFirst, After, Beyond
  <2>5. Hash[j] = b
    BY <2>4 DEF Chain
  <2>6. \A i \in C : i > j => i = key \/ i > key
    BY <2>2, <2>5 DEF IsFirst, After, Beyond
  <2> QED
    BY <1>1, <2>1, <2>4, <2>5, <2>6
<1>9. \A c \in Bucket : r.hash[c] = key => c = b
  <2> SUFFICES ASSUME NEW c \in Bucket, r.hash[c] = key PROVE c = b
    OBVIOUS
  <2>1. key \in Chain(r, c)
    <3>1. key # NULL
      BY <1>1
    <3> QED
      BY <1>5, <3>1 DEF IsFirst
  <2> QED
    BY <2>1 DEF Chain
<1>10. Ordered(chain, "forward", C)
  BY <1>1, SoundWalks
<1>11. IsFirst("forward", C, r.hash[b]) /\ Head(chain) = r.hash[b]
  <2>1. IsFirst("forward", C, r.hash[b])
    BY <1>1, <1>5
  <2>2. IsFirst("forward", C, Head(chain))
    <3> HIDE DEF C, chain, b
    <3> QED
      BY <1>7, <1>10, HeadOfOrdered
  <2>3. C \in SUBSET Int
    BY <1>7
  <2> HIDE DEF C, chain, b
  <2> QED
    BY <2>1, <2>2, <2>3, FirstUnique
<1>12. IsFirst("forward", C \cap A, pred)
  <2> HIDE DEF C, chain, A, b
  <2> QED
    BY <1>7, <1>10, FirstOfOrdered
<1>13. p = IF Head(chain) = key THEN [r EXCEPT !.hash[b] = after] ELSE [r EXCEPT !.item[pred].chain = after]
  BY DEF Unchained
<1>14. CASE Head(chain) = key
  <2>1. p = [r EXCEPT !.hash = [r.hash EXCEPT ![b] = after]]
    BY <1>3, <1>13, <1>14
  <2>2. [r.hash EXCEPT ![b] = after] \in [Bucket -> Link]
    BY <1>1, <1>3, <1>4
  <2>3. \A c \in Bucket : [r.hash EXCEPT ![b] = after][c] = IF r.hash[c] = key THEN after ELSE r.hash[c]
    BY <1>1, <1>3, <1>9, <1>11, <1>14
  <2> DEFINE hash == [r.hash EXCEPT ![b] = after]
  <2> HIDE DEF hash
  <2>4. p = [r EXCEPT !.hash = hash]
    BY <2>1 DEF hash
  <2>5. hash \in [Bucket -> Link]
    BY <2>2 DEF hash
  <2>6. /\ p.item = r.item /\ p.head = r.head /\ p.tail = r.tail /\ p.nextkey = r.nextkey
        /\ p.nextclass = r.nextclass /\ p.hash = hash
    BY <1>3, <2>4
  <2>7. p \in [head : Link, tail : Link, hash : [Bucket -> Link],
               item : UNION {[T -> Node] : T \in SUBSET Key}, nextclass : Nat, nextkey : Nat]
    BY <1>3, <2>4, <2>5
  <2>8. RegistryType(p) /\ Registered(p) = S
    BY <1>2, <2>6, <2>7 DEF RegistryType, Registered
  <2>9. \A j \in S : r.item[j].chain # key
    <3> SUFFICES ASSUME NEW j \in S, r.item[j].chain = key PROVE FALSE
      OBVIOUS
    <3>1. j \in C /\ j < key /\ j \in Nat
      BY <1>1, <1>8
    <3>2. j = key \/ j > key
      <4> HIDE DEF C, chain, b
      <4> QED
        BY <1>11, <1>14, <3>1 DEF IsFirst, Beyond
    <3> QED
      BY <1>1, <3>1, <3>2
  <2>10. \A c \in Bucket : p.hash[c] = IF r.hash[c] = key THEN after ELSE r.hash[c]
    BY <2>3, <2>6 DEF hash
  <2> HIDE DEF after
  <2> QED
    BY <2>6, <2>8, <2>9, <2>10 DEF after
<1>15. CASE Head(chain) # key
  <2> DEFINE node == [r.item[pred] EXCEPT !.chain = after]
  <2>1. p = With(r, pred, node)
    BY <1>13, <1>15 DEF With
  <2>2. pred \in S => node \in Node
    <3> HIDE DEF pred, S
    <3> QED
      BY <1>3, <1>4 DEF Node
  <2>3. /\ RegistryType(p) /\ Registered(p) = S /\ p.head = r.head /\ p.tail = r.tail
        /\ p.hash = r.hash /\ p.nextkey = r.nextkey /\ p.nextclass = r.nextclass
        /\ \A j \in S : p.item[j] = IF j = pred THEN node ELSE r.item[j]
    <3> HIDE DEF node, pred
    <3> QED
      BY <1>2, <2>1, <2>2, SetItem
  <2>4. \A c \in Bucket : r.hash[c] # key
    BY <1>9, <1>11, <1>15
  <2>5. ASSUME NEW j \in S PROVE j = pred <=> r.item[j].chain = key
    <3>1. CASE r.item[j].chain = key
      <4>1. j \in C \cap A /\ j < key /\ j \in Nat
        BY <1>1, <1>8, <2>5, <3>1
      <4>2. pred \in C \cap A /\ (j = pred \/ j > pred)
        <5> HIDE DEF C, A, pred
        <5> QED
          BY <1>12, <4>1 DEF IsFirst, Beyond
      <4>3. pred \in S /\ r.item[pred].chain = key /\ \A i \in C : i > pred => i = key \/ i > key
        <5>1. pred \in S /\ r.item[pred].chain = key
          <6> HIDE DEF pred, C
          <6> QED
            BY <4>2
        <5> HIDE DEF pred, C
        <5> QED
          BY <1>8, <5>1
      <4>4. ~(j > pred)
        <5> HIDE DEF C, A, pred
        <5> QED
          BY <1>1, <4>1, <4>3
      <4> QED
        BY <3>1, <4>2, <4>4
    <3>2. CASE j = pred
      <4>1. pred \in C \cap A
        <5>1. pred # NULL
          BY <1>1, <3>2, <2>5
        <5> HIDE DEF C, A, pred
        <5> QED
          BY <1>12, <5>1 DEF IsFirst
      <4> HIDE DEF pred, C
      <4> QED
        BY <3>2, <4>1
    <3> QED
      BY <3>1, <3>2
  <2> HIDE DEF pred
  <2>6. ASSUME NEW j \in S
        PROVE  /\ p.item[j].next = r.item[j].next /\ p.item[j].prev = r.item[j].prev
               /\ p.item[j].class = r.item[j].class /\ p.item[j].info = r.item[j].info
               /\ p.item[j].chain = IF r.item[j].chain = key THEN after ELSE r.item[j].chain
    <3>1. p.item[j] = (IF r.item[j].chain = key THEN [r.item[j] EXCEPT !.chain = after] ELSE r.item[j])
      BY <2>3, <2>5, <2>6
    <3>2. r.item[j] \in Node
      BY <1>3, <2>6
    <3> QED
      BY <3>1, <3>2 DEF Node
  <2> HIDE DEF after
  <2> QED
    BY <2>3, <2>4, <2>6 DEF after
<1> QED
  BY <1>14, <1>15
\* An item is taken out.
LEMMA RemoveSound ==
    ASSUME NEW r, Sound(r), NEW key \in Registered(r), NEW p, p = RemoveByInt(r, key)
    PROVE  /\ Sound(p) /\ Registered(p) = Registered(r) \ {key}
           /\ p.nextkey = r.nextkey /\ p.nextclass = r.nextclass
           /\ \A j \in Registered(p) : p.item[j].class = r.item[j].class /\ p.item[j].info = r.item[j].info
<1> DEFINE S == Registered(r)
           T == S \ {key}
           prev == r.item[key].prev
           next == r.item[key].next
           after == r.item[key].chain
           u == Unchained(r, key)
           v == Unlinked(u, key)
<1>1. S \in SUBSET Nat /\ S \subseteq Key /\ NULL \notin S /\ key \in Link /\ key # NULL
  <2>1. S \in SUBSET Nat /\ S \subseteq Key /\ NULL \notin S
    BY SomeKeys DEF Sound
  <2> QED
    BY <2>1 DEF Link
<1>2. FindByInt(r, key) = key
  BY <1>1, FindSound
<1>3. p = [v EXCEPT !.item = Restrict(@, DOMAIN @ \ {key})]
  BY <1>1, <1>2 DEF RemoveByInt
<1>4. /\ RegistryType(u) /\ Registered(u) = S
      /\ u.head = r.head /\ u.tail = r.tail /\ u.nextkey = r.nextkey /\ u.nextclass = r.nextclass
      /\ \A c \in Bucket : u.hash[c] = IF r.hash[c] = key THEN after ELSE r.hash[c]
      /\ \A j \in S :
           /\ u.item[j].next = r.item[j].next /\ u.item[j].prev = r.item[j].prev
           /\ u.item[j].class = r.item[j].class /\ u.item[j].info = r.item[j].info
           /\ j # key => u.item[j].chain = IF r.item[j].chain = key THEN after ELSE r.item[j].chain
  <2> HIDE DEF u
  <2> QED
    BY UnchainedItems DEF u
<1> HIDE DEF u
<1>5. /\ RegistryType(v) /\ Registered(v) = S
      /\ v.hash = u.hash /\ v.nextkey = r.nextkey /\ v.nextclass = r.nextclass
      /\ v.head = (IF prev = NULL THEN next ELSE r.head) /\ v.tail = (IF next = NULL THEN prev ELSE r.tail)
      /\ \A j \in S :
           /\ v.item[j].next = IF j = prev THEN next ELSE r.item[j].next
           /\ v.item[j].prev = IF j = next THEN prev ELSE r.item[j].prev
           /\ v.item[j].chain = u.item[j].chain
           /\ v.item[j].class = r.item[j].class /\ v.item[j].info = r.item[j].info
  <2> DEFINE uprev == u.item[key].prev
             unext == u.item[key].next
  <2>1. key \in Registered(u) /\ uprev = prev /\ unext = next
    BY <1>4
  <2>2. /\ RegistryType(v) /\ Registered(v) = S
        /\ v.hash = u.hash /\ v.nextkey = u.nextkey /\ v.nextclass = u.nextclass
        /\ v.head = (IF uprev = NULL THEN unext ELSE u.head)
        /\ v.tail = (IF unext = NULL THEN uprev ELSE u.tail)
        /\ \A j \in S :
             /\ v.item[j].next = IF j = uprev THEN unext ELSE u.item[j].next
             /\ v.item[j].prev = IF j = unext THEN uprev ELSE u.item[j].prev
             /\ v.item[j].chain = u.item[j].chain
             /\ v.item[j].class = u.item[j].class /\ v.item[j].info = u.item[j].info
    <3>1. /\ RegistryType(v) /\ Registered(v) = Registered(u)
          /\ v.hash = u.hash /\ v.nextkey = u.nextkey /\ v.nextclass = u.nextclass
          /\ v.head = (IF uprev = NULL THEN unext ELSE u.head)
          /\ v.tail = (IF unext = NULL THEN uprev ELSE u.tail)
          /\ \A j \in Registered(u) :
               /\ v.item[j].next = IF j = uprev THEN unext ELSE u.item[j].next
               /\ v.item[j].prev = IF j = unext THEN uprev ELSE u.item[j].prev
               /\ v.item[j].chain = u.item[j].chain
               /\ v.item[j].class = u.item[j].class /\ v.item[j].info = u.item[j].info
      <4>1. RegistryType(u) /\ v = Unlinked(u, key)
        BY <1>4
      <4> HIDE DEF v, S
      <4> QED
        BY <2>1, <4>1, UnlinkedItems, SMTT(60)
    <3> HIDE DEF v, S, uprev, unext
    <3> QED
      BY <1>4, <3>1
  <2> HIDE DEF uprev, unext, prev, next, v, S
  <2> QED
    BY <1>4, <2>1, <2>2
<1> HIDE DEF v
<1>6. IsFirst("forward", After(S, "forward", key), next) /\ IsFirst("reverse", After(S, "reverse", key), prev)
  BY DEF Sound, Linking
<1>7. /\ IsFirst("forward", S, r.head) /\ IsFirst("reverse", S, r.tail)
      /\ Linking(r, S, "forward", "next") /\ Linking(r, S, "reverse", "prev")
  BY DEF Sound
<1>8. prev = NULL <=> r.head = key
  <2> HIDE DEF S, prev, next
  <2> QED
    BY <1>1, <1>6, <1>7, LastHasNoNext DEF Directions, S
<1>9. next = NULL <=> r.tail = key
  <2> HIDE DEF S, prev, next
  <2> QED
    BY <1>1, <1>6, <1>7, LastHasNoNext DEF Directions, S
<1>10. ASSUME NEW j \in S PROVE j = prev <=> r.item[j].next = key
  <2> DEFINE n == r.item[j].next
  <2>1. IsFirst("forward", After(S, "forward", j), n)
    BY <1>7 DEF Linking
  <2>2. key \in S
    OBVIOUS
  <2> HIDE DEF S, prev, next, n
  <2>3. n = key => prev = j
    BY <1>1, <1>6, <1>10, <2>1, <2>2, Mirror DEF Directions
  <2>4. j = prev => n = key
    BY <1>1, <1>6, <1>10, <2>1, <2>2, Mirror DEF Directions
  <2> QED
    BY <2>3, <2>4 DEF n
<1>11. ASSUME NEW j \in S PROVE j = next <=> r.item[j].prev = key
  <2> DEFINE n == r.item[j].prev
  <2>1. IsFirst("reverse", After(S, "reverse", j), n)
    BY <1>7 DEF Linking
  <2>2. key \in S
    OBVIOUS
  <2> HIDE DEF S, prev, next, n
  <2>3. n = key => next = j
    BY <1>1, <1>6, <1>11, <2>1, <2>2, Mirror DEF Directions
  <2>4. j = next => n = key
    BY <1>1, <1>6, <1>11, <2>1, <2>2, Mirror DEF Directions
  <2> QED
    BY <2>3, <2>4 DEF n
\* Without the item.
<1> DEFINE item == Restrict(v.item, DOMAIN v.item \ {key})
<1>12. /\ v \in [head : Link, tail : Link, hash : [Bucket -> Link],
                 item : UNION {[X -> Node] : X \in SUBSET Key}, nextclass : Nat, nextkey : Nat]
       /\ v.item \in [S -> Node] /\ DOMAIN v.item = S
  BY <1>5 DEF RegistryType, Registered
<1>13. item \in [T -> Node] /\ (\A j \in T : item[j] = v.item[j]) /\ DOMAIN item = T
  <2> HIDE DEF S
  <2> QED
    BY <1>12 DEF Restrict
<1>14. p = [v EXCEPT !.item = item]
  BY <1>3, <1>12
<1> HIDE DEF item
<1>15. item \in UNION {[X -> Node] : X \in SUBSET Key} /\ T \subseteq Key
  BY <1>1, <1>13
<1>16. /\ p.item = item /\ p.head = v.head /\ p.tail = v.tail /\ p.hash = v.hash
       /\ p.nextkey = v.nextkey /\ p.nextclass = v.nextclass
  BY <1>12, <1>14
<1>17. p \in [head : Link, tail : Link, hash : [Bucket -> Link],
              item : UNION {[X -> Node] : X \in SUBSET Key}, nextclass : Nat, nextkey : Nat]
  BY <1>12, <1>14, <1>15
<1>18. RegistryType(p) /\ Registered(p) = T
  BY <1>13, <1>15, <1>16, <1>17 DEF RegistryType, Registered
<1>19. ASSUME NEW j \in T
       PROVE  /\ p.item[j].next = IF r.item[j].next = key THEN next ELSE r.item[j].next
              /\ p.item[j].prev = IF r.item[j].prev = key THEN prev ELSE r.item[j].prev
              /\ p.item[j].chain = IF r.item[j].chain = key THEN after ELSE r.item[j].chain
              /\ p.item[j].class = r.item[j].class /\ p.item[j].info = r.item[j].info
  <2>1. j \in S /\ j # key /\ p.item[j] = v.item[j]
    BY <1>13, <1>16, <1>19
  <2>2. j = prev <=> r.item[j].next = key
    BY <1>10, <2>1
  <2>3. j = next <=> r.item[j].prev = key
    BY <1>11, <2>1
  <2> HIDE DEF S, T, prev, next, after
  <2> QED
    BY <1>4, <1>5, <2>1, <2>2, <2>3
<1>20. IsFirst("forward", T, p.head) /\ IsFirst("reverse", T, p.tail)
  <2> DEFINE head == IF r.head = key THEN next ELSE r.head
             tail == IF r.tail = key THEN prev ELSE r.tail
  <2>1. p.head = head /\ p.tail = tail
    BY <1>5, <1>8, <1>9, <1>16
  <2>2. key \in S
    OBVIOUS
  <2> HIDE DEF S, prev, next
  <2>3. IsFirst("forward", S \ {key}, head)
    BY <1>1, <1>6, <1>7, <2>2, FirstWithout
  <2>4. IsFirst("reverse", S \ {key}, tail)
    BY <1>1, <1>6, <1>7, <2>2, FirstWithout
  <2> HIDE DEF head, tail
  <2> QED
    BY <2>1, <2>3, <2>4
<1>21. Linking(p, T, "forward", "next") /\ Linking(p, T, "reverse", "prev")
  <2>1. /\ \A j \in S \ {key} : p.item[j].next = IF r.item[j].next = key THEN r.item[key].next ELSE r.item[j].next
        /\ \A j \in S \ {key} : p.item[j].prev = IF r.item[j].prev = key THEN r.item[key].prev ELSE r.item[j].prev
        /\ key \in S
    BY <1>19
  <2> HIDE DEF S, prev, next
  <2>2. Linking(p, S \ {key}, "forward", "next")
    BY <1>1, <1>7, <2>1, LinkingWithout
  <2>3. Linking(p, S \ {key}, "reverse", "prev")
    BY <1>1, <1>7, <2>1, LinkingWithout
  <2> QED
    BY <2>2, <2>3
<1>22. ASSUME NEW c \in Bucket
       PROVE  IsFirst("forward", Chain(p, c), p.hash[c]) /\ Linking(p, Chain(p, c), "forward", "chain")
  <2> DEFINE C == Chain(r, c)
             hash == IF r.hash[c] = key THEN after ELSE r.hash[c]
  <2>1. IsFirst("forward", C, r.hash[c]) /\ Linking(r, C, "forward", "chain")
    BY DEF Sound
  <2>2. C \in SUBSET Nat /\ C \subseteq S
    BY <1>1 DEF Chain
  <2>3. p.hash[c] = hash
    BY <1>4, <1>5, <1>16
  <2>4. Chain(p, c) = C \ {key}
    BY <1>18 DEF Chain
  <2>5. \A j \in C \ {key} : p.item[j].chain = IF r.item[j].chain = key THEN r.item[key].chain ELSE r.item[j].chain
    BY <1>19, <2>2
  <2> HIDE DEF C, S
  <2>6. CASE key \in C
    <3>1. IsFirst("forward", After(C, "forward", key), after)
      BY <2>1, <2>6 DEF Linking
    <3> HIDE DEF after
    <3>2. IsFirst("forward", C \ {key}, hash)
      BY <2>1, <2>2, <2>6, <3>1, FirstWithout
    <3> HIDE DEF hash
    <3>3. Linking(p, C \ {key}, "forward", "chain")
      BY <2>1, <2>2, <2>5, <2>6, LinkingWithout
    <3> QED
      BY <2>3, <2>4, <3>2, <3>3
  <2>7. CASE key \notin C
    <3>1. C \ {key} = C
      BY <2>7
    <3>2. hash = r.hash[c]
      BY <1>1, <2>1, <2>7 DEF IsFirst
    <3>3. ASSUME NEW j \in C PROVE p.item[j].chain = r.item[j].chain
      <4>1. IsFirst("forward", After(C, "forward", j), r.item[j].chain)
        BY <2>1 DEF Linking
      <4>2. r.item[j].chain # key
        BY <1>1, <2>7, <4>1 DEF IsFirst, After
      <4> QED
        BY <2>5, <3>1, <4>2
    <3> HIDE DEF hash
    <3> QED
      BY <2>1, <2>3, <2>4, <3>1, <3>2, <3>3 DEF Linking
  <2> QED
    BY <2>6, <2>7
<1>23. \A k \in Registered(p) : k < p.nextkey
  BY <1>5, <1>16, <1>18 DEF Sound
<1>24. Sound(p)
  <2> HIDE DEF T
  <2> QED
    BY <1>18, <1>20, <1>21, <1>22, <1>23 DEF Sound
<1> QED
  BY <1>5, <1>16, <1>18, <1>19, <1>24
\* All items of a class are taken out, and no others.
LEMMA EmptiedSound ==
    ASSUME NEW r, Sound(r), NEW class, NEW p, p = Emptied(r, class)
    PROVE  /\ Sound(p) /\ Registered(p) = {j \in Registered(r) : r.item[j].class # class}
           /\ p.nextkey = r.nextkey /\ p.nextclass = r.nextclass
           /\ \A j \in Registered(p) : p.item[j].class = r.item[j].class /\ p.item[j].info = r.item[j].info
<1> DEFINE n == Cardinality(Registered(r))
           w == [reg |-> r, next |-> FindFirst(r, class, "forward", Registered(r))]
           R(f) == f = [i \in 0 .. n |-> IF i = 0 THEN w ELSE EmptiedOne(f[i - 1], class)]
           f == CHOOSE f : R(f)
           Rest(q) == Passing(q, class, Registered(q))
           Kept(q) == /\ Sound(q) /\ Registered(q) \subseteq Registered(r)
                      /\ {j \in Registered(r) : r.item[j].class # class} \subseteq Registered(q)
                      /\ q.nextkey = r.nextkey /\ q.nextclass = r.nextclass
                      /\ \A j \in Registered(q) : q.item[j].class = r.item[j].class /\ q.item[j].info = r.item[j].info
           Good(s, i) == /\ Kept(s.reg)
                         /\ IsFirst("forward", Rest(s.reg), s.next)
                         /\ i + Cardinality(Rest(s.reg)) <= n
           D == {i \in Nat : i <= n => Good(f[i], i)}
<1>1. n \in Nat /\ IsFiniteSet(Registered(r))
  <2>1. Registered(r) \in SUBSET Registered(r)
    OBVIOUS
  <2> QED
    BY <2>1, SomeKeys DEF Sound
<1>2. p = f[n].reg
  BY DEF Emptied
<1>3. R(f)
  <2>1. PICK g : IsRun("Emptied", w, class, n, g)
    BY <1>1, Loops
  <2>2. R(g)
    BY <2>1 DEF IsRun, Step
  <2> QED
    BY <2>2
<1>4. f[0] = w /\ \A i \in Nat : i + 1 \in 0 .. n => f[i + 1] = EmptiedOne(f[i], class)
  <2> HIDE DEF w, f
  <2> QED
    BY <1>1, <1>3
<1> HIDE DEF f
<1>5. ASSUME NEW q, Sound(q), Registered(q) \subseteq Registered(r)
      PROVE  /\ Rest(q) \in SUBSET Nat /\ IsFiniteSet(Rest(q)) /\ Rest(q) \subseteq Registered(q)
             /\ Cardinality(Rest(q)) \in Nat /\ Cardinality(Rest(q)) <= n
             /\ Registered(q) \in SUBSET Registered(q)
  <2>1. Rest(q) \in SUBSET Registered(q) /\ Rest(q) \subseteq Registered(r)
    BY <1>5 DEF Passing
  <2>2. IsFiniteSet(Rest(q)) /\ Rest(q) \subseteq Nat
    BY <1>5, <2>1, SomeKeys DEF Sound
  <2> HIDE DEF Rest
  <2> QED
    BY <1>1, <2>1, <2>2, FS_Subset, FS_CardinalityType
<1>6. 0 \in D
  <2>1. f[0].reg = r /\ f[0].next = Iterate(r, NULL, class, "forward", Registered(r))
    BY <1>4 DEF FindFirst
  <2>2. IsFirst("forward", Rest(r), f[0].next)
    BY <1>5, <2>1, IterateSound DEF Directions
  <2>3. Kept(r)
    OBVIOUS
  <2>4. 0 + Cardinality(Rest(r)) <= n
    BY <1>5
  <2> HIDE DEF Rest, Kept
  <2> QED
    BY <2>1, <2>2, <2>3, <2>4
<1>7. ASSUME NEW i \in Nat, i \in D PROVE i + 1 \in D
  <2> SUFFICES ASSUME i + 1 <= n PROVE Good(f[i + 1], i + 1)
    OBVIOUS
  <2>1. i <= n /\ i + 1 \in 0 .. n
    BY <1>1
  <2>2. Good(f[i], i)
    BY <1>7, <2>1
  <2> DEFINE s == f[i]
             t == f[i + 1]
             q == s.reg
             k == s.next
  <2>3. t = EmptiedOne(s, class)
    BY <1>4, <2>1
  <2>4. Sound(q) /\ Registered(q) \subseteq Registered(r)
    BY <2>2
  <2>5. CASE k = NULL
    <3>1. t = s
      BY <2>3, <2>5 DEF EmptiedOne
    <3>2. Rest(q) = {}
      <4>1. NULL \notin Rest(q)
        BY <1>5, <2>4 DEF NULL
      <4> HIDE DEF Rest
      <4> QED
        BY <2>2, <2>5, <4>1 DEF IsFirst
    <3>3. Cardinality(Rest(q)) = 0
      BY <3>2, FS_EmptySet
    <3>4. i + 1 + Cardinality(Rest(q)) <= n
      BY <2>1, <3>3
    <3> HIDE DEF Rest, Kept
    <3> QED
      BY <2>2, <3>1, <3>4
  <2>6. CASE k # NULL
    <3>1. k \in Rest(q)
      <4> HIDE DEF Rest
      <4> QED
        BY <2>2, <2>6 DEF IsFirst
    <3>2. k \in Registered(q) /\ k \in Link /\ q.item[k].class = class
      <4>1. k \in Registered(q) /\ q.item[k].class = class
        BY <3>1 DEF Passing
      <4> QED
        BY <2>4, <4>1 DEF Sound, RegistryType, Link
    <3>3. t.reg = RemoveByInt(q, k) /\ t.next = FindNext(q, class, k, "forward", Registered(q))
      BY <2>3, <2>6 DEF EmptiedOne
    <3> HIDE DEF s, t, q, k
    <3>4. /\ Sound(t.reg) /\ Registered(t.reg) = Registered(q) \ {k}
          /\ t.reg.nextkey = q.nextkey /\ t.reg.nextclass = q.nextclass
          /\ \A j \in Registered(t.reg) : t.reg.item[j].class = q.item[j].class /\ t.reg.item[j].info = q.item[j].info
      BY <2>4, <3>2, <3>3, RemoveSound
    <3>5. Rest(t.reg) = Rest(q) \ {k}
      BY <3>4 DEF Passing
    <3>6. After(Rest(q), "forward", k) = Rest(q) \ {k}
      <4>1. IsFirst("forward", Rest(q), k)
        BY <2>2 DEF s, q, k
      <4>2. \A j \in Rest(q) : j # k <=> Beyond("forward", j, k)
        <5> HIDE DEF Rest
        <5>1. \A j \in Rest(q) : j = k \/ Beyond("forward", j, k)
          BY <3>1, <4>1 DEF IsFirst
        <5>2. Rest(q) \in SUBSET Nat
          BY <1>5, <2>4
        <5> QED
          BY <3>1, <5>1, <5>2 DEF Beyond
      <4> HIDE DEF Rest
      <4> QED
        BY <4>2 DEF After
    <3>7. IsFirst("forward", After(Rest(q), "forward", k), t.next)
      <4>1. FindByInt(q, k) = k
        BY <2>4, <3>2, FindSound
      <4>2. t.next = Iterate(q, k, class, "forward", Registered(q))
        BY <3>3, <4>1 DEF FindNext
      <4> QED
        BY <1>5, <2>4, <3>2, <4>2, IterateSound DEF Directions
    <3>8. Cardinality(Rest(t.reg)) = Cardinality(Rest(q)) - 1
      <4>1. IsFiniteSet(Rest(q))
        BY <1>5, <2>4
      <4> HIDE DEF Rest
      <4> QED
        BY <3>1, <3>5, <4>1, OneLess
    <3>9. i + 1 + Cardinality(Rest(t.reg)) <= n
      <4>1. Cardinality(Rest(q)) \in Nat /\ i + Cardinality(Rest(q)) <= n
        BY <1>5, <2>2, <2>4 DEF s, q
      <4> HIDE DEF Rest, n
      <4> QED
        BY <1>1, <3>8, <4>1
    <3>10. Kept(t.reg)
      <4>1. Kept(q)
        BY <2>2 DEF s, q
      <4>2. \A j \in Registered(r) : r.item[j].class # class => j # k
        BY <2>4, <3>2, <4>1
      <4> QED
        BY <3>4, <4>1, <4>2
    <3>11. IsFirst("forward", Rest(t.reg), t.next)
      <4> HIDE DEF Rest
      <4> QED
        BY <3>5, <3>6, <3>7
    <3> HIDE DEF Rest, Kept
    <3> QED
      BY <3>9, <3>10, <3>11 DEF t
  <2> QED
    BY <2>5, <2>6
<1>8. Nat \subseteq D
  <2> HIDE DEF D
  <2> QED
    BY <1>6, <1>7, Induction
<1>9. Good(f[n], n)
  <2>1. n \in D
    <3> HIDE DEF D, n
    <3> QED
      BY <1>1, <1>8
  <2> HIDE DEF Good
  <2> QED
    BY <1>1, <2>1
<1>10. Kept(p)
  BY <1>2, <1>9
<1>11. Rest(p) = {}
  <2>1. Cardinality(Rest(p)) \in Nat /\ IsFiniteSet(Rest(p))
    BY <1>5, <1>10
  <2>2. n + Cardinality(Rest(p)) <= n
    BY <1>2, <1>9
  <2>3. Cardinality(Rest(p)) = 0
    <3> HIDE DEF Rest, n
    <3> QED
      BY <1>1, <2>1, <2>2
  <2> HIDE DEF Rest
  <2> QED
    BY <2>1, <2>3, FS_EmptySet
<1>12. Registered(p) = {j \in Registered(r) : r.item[j].class # class}
  <2>1. \A j \in Registered(p) : p.item[j].class # class
    BY <1>11 DEF Passing
  <2> QED
    BY <1>10, <2>1
<1> QED
  BY <1>10, <1>12

-----------------------------------------------------------------------------
(* A weapon that is verified.                                              *)

\* Its child is there.
LEMMA VerifiedChild ==
    ASSUME NEW r, NEW info, NEW misread, info.kind = "weapon", IsPhoenix(info), Verified(r, info, misread)
    PROVE  Lookup(r, info.ph_ch) # NULL
<1> DEFINE infos == {info} \cup {r.item[k].info : k \in Registered(r)}
           n == MaxKey + 2
           w == [i \in infos |-> [above \in SUBSET Key |-> 0]]
           d == <<infos, r, misread>>
           Body(f, m) == [i \in infos |-> [above \in SUBSET Key |->
                            IF m = 0 THEN 0 ELSE Deeper(r, i, above, f[m - 1], misread)]]
           R(f) == f = [m \in 0 .. n |-> Body(f, m)]
           f == CHOOSE f : R(f)
<1>1. n \in Nat /\ n # 0 /\ n \in 0 .. n
  BY RegistryAssumption
<1>2. R(f)
  <2>1. PICK g : IsRun("Levels", w, d, n, g)
    BY <1>1, Loops
  <2>2. g = [m \in 0 .. n |-> IF m = 0 THEN w
                              ELSE [i \in infos |-> [above \in SUBSET Key |-> Deeper(r, i, above, g[m - 1], misread)]]]
    <3> HIDE DEF w, n, infos
    <3> QED
      BY <2>1 DEF IsRun, Step
  <2>3. \A m \in 0 .. n : g[m] = Body(g, m)
    <3> SUFFICES ASSUME NEW m \in 0 .. n PROVE g[m] = Body(g, m)
      OBVIOUS
    <3>1. CASE m = 0
      <4>1. g[m] = w
        BY <2>2, <3>1
      <4>2. Body(g, m) = w
        BY <3>1
      <4> QED
        BY <4>1, <4>2
    <3>2. CASE m # 0
      <4>1. g[m] = [i \in infos |-> [above \in SUBSET Key |-> Deeper(r, i, above, g[m - 1], misread)]]
        BY <2>2, <3>2
      <4>2. Body(g, m) = [i \in infos |-> [above \in SUBSET Key |-> Deeper(r, i, above, g[m - 1], misread)]]
        BY <3>2
      <4> QED
        BY <4>1, <4>2
    <3> QED
      BY <3>1, <3>2
  <2>4. R(g)
    <3> HIDE DEF Body, n, w
    <3> QED
      BY <2>2, <2>3
  <2> HIDE DEF R
  <2> QED
    BY <2>4
<1> HIDE DEF f
<1>3. Levels(r, info, misread) = f[n][info][{}]
  BY DEF Levels, f
<1>4. f[n] = Body(f, n)
  <2> HIDE DEF Body, n
  <2> QED
    BY <1>1, <1>2
<1>5. f[n][info][{}] = Deeper(r, info, {}, f[n - 1], misread)
  <2>1. info \in infos /\ {} \in SUBSET Key
    OBVIOUS
  <2> HIDE DEF infos, n
  <2> QED
    BY <1>1, <1>4, <2>1
<1>6. Deeper(r, info, {}, f[n - 1], misread) # 0
  BY <1>3, <1>5 DEF Verified
<1> QED
  BY <1>6 DEF Deeper
-----------------------------------------------------------------------------
(* The inductive invariant.                                                *)

LEMMA KindsAre ==
    /\ Kind = {"accessory", "scoring", "weapon"} /\ Len(Kinds) = 3
    /\ \A i \in 1 .. 3 : Kinds[i] \in Kind
    /\ \A k \in Kind : \E i \in 1 .. 3 : Kinds[i] = k
    /\ \A i, j \in 1 .. 3 : Kinds[i] = Kinds[j] => i = j
<1>1. Kinds = <<"accessory", "scoring", "weapon">>
  BY DEF Kinds
<1>2. DOMAIN Kinds = 1 .. 3 /\ Len(Kinds) = 3
  BY <1>1
<1>3. Kinds[1] = "accessory" /\ Kinds[2] = "scoring" /\ Kinds[3] = "weapon"
  BY <1>1
<1>4. \A i \in 1 .. 3 : i = 1 \/ i = 2 \/ i = 3
  OBVIOUS
<1>5. Kind = {Kinds[i] : i \in 1 .. 3}
  BY <1>2 DEF Kind, Range
<1>6. Kind = {"accessory", "scoring", "weapon"}
  BY <1>3, <1>4, <1>5
<1> QED
  BY <1>2, <1>3, <1>4, <1>5, <1>6

Config == [class : Nat, armslevel : Nat, uselessitems : BOOLEAN]

\* The children of a registry's weapons, as ChainsEnd has it of the registry.
Chains(r) ==
    \A k \in Registered(r) : IsPhoenix(r.item[k].info) /\ r.item[k].info.named =>
        LET child == r.item[k].info.ph_ch
        IN  child \in Registered(r) /\ child < k /\ r.item[child].class = r.item[k].class

\* No two kinds have the same class, and none has one not yet given.
ClassesDiffer(c, next) ==
    /\ \A k \in Kind : Exists(c[k]) => c[k].class < next
    /\ \A k, l \in Kind : Exists(c[k]) /\ Exists(c[l]) /\ c[k].class = c[l].class => k = l

\* Which configs there are.
ConfigsThere ==
    /\ stage = "create" => \A j \in 1 .. 3 : j < at \/ (j = at /\ Reading) => Exists(conf[Kinds[j]])
    /\ stage \in {"options", "play"} => \A k \in Kind : Exists(conf[k])

\* No item is kept in a place of the hash table that was never cleared.
Cleared(r) == \A k \in Registered(r) : Hash[k] \notin stray

DefinitionsInv ==
    /\ stage \in {"create", "options", "play", "free", "ended"} /\ at \in 1 .. 3
    /\ read \in Nat \cup {NULL}
    /\ conf \in [Kind -> {None} \cup Config]
    /\ Sound(reg) /\ Chains(reg) /\ Cleared(reg)
    /\ ClassesDiffer(conf, reg.nextclass)
    /\ ConfigsThere

LEMMA InitInvariant == Init => DefinitionsInv
<1> SUFFICES ASSUME Init PROVE DefinitionsInv
  OBVIOUS
<1>1. reg = EmptyRegistry /\ Registered(reg) = {}
  BY DEF Init, EmptyRegistry, Registered
<1>2. RegistryType(reg)
  <2>1. reg.item = [k \in {} |-> NULL] /\ reg.item \in [{} -> Node] /\ {} \in SUBSET Key
    BY <1>1 DEF EmptyRegistry
  <2>2. reg.item \in UNION {[T -> Node] : T \in SUBSET Key}
    BY <2>1
  <2>3. reg \in [head : Link, tail : Link, hash : [Bucket -> Link],
                 item : UNION {[T -> Node] : T \in SUBSET Key}, nextclass : Nat, nextkey : Nat]
    BY <1>1, <2>2 DEF EmptyRegistry, Link, FirstClass
  <2> QED
    BY <1>1, <2>1, <2>3 DEF RegistryType
<1>3. Sound(reg)
  <2>1. reg.head = NULL /\ reg.tail = NULL /\ \A b \in Bucket : reg.hash[b] = NULL /\ Chain(reg, b) = {}
    BY <1>1 DEF EmptyRegistry, Chain
  <2> QED
    BY <1>1, <1>2, <2>1 DEF Sound, IsFirst, Linking
<1>4. \A k \in Kind : ~Exists(conf[k])
  BY DEF Init, Exists
<1>5. conf \in [Kind -> {None} \cup Config]
  BY DEF Init
<1>6. Chains(reg) /\ Cleared(reg) /\ ClassesDiffer(conf, reg.nextclass)
  BY <1>1, <1>4 DEF Chains, Cleared, ClassesDiffer
<1>7. ConfigsThere
  BY DEF Init, ConfigsThere, Reading
<1> QED
  BY <1>3, <1>5, <1>6, <1>7 DEF Init, DefinitionsInv

Counted(r, class, key) == [r EXCEPT !.nextclass = class, !.nextkey = key]

\* A change of the counters disturbs nothing.
LEMMA CountersSound ==
    ASSUME NEW r, Sound(r), Chains(r), NEW p, NEW class \in Nat, NEW key \in Nat, key >= r.nextkey,
           p = Counted(r, class, key)
    PROVE  /\ Sound(p) /\ Chains(p) /\ Registered(p) = Registered(r) /\ p.item = r.item
           /\ p.nextclass = class /\ p.nextkey = key
<1>1. r \in [head : Link, tail : Link, hash : [Bucket -> Link],
             item : UNION {[T -> Node] : T \in SUBSET Key}, nextclass : Nat, nextkey : Nat]
  BY DEF Sound, RegistryType
<1> USE DEF Counted
<1>2. /\ p.head = r.head /\ p.tail = r.tail /\ p.hash = r.hash /\ p.item = r.item
      /\ p.nextclass = class /\ p.nextkey = key
  BY <1>1
<1>3. p \in [head : Link, tail : Link, hash : [Bucket -> Link],
             item : UNION {[T -> Node] : T \in SUBSET Key}, nextclass : Nat, nextkey : Nat]
  BY <1>1
<1>4. Registered(p) = Registered(r)
  BY <1>2 DEF Registered
<1>5. RegistryType(p)
  BY <1>2, <1>3, <1>4 DEF Sound, RegistryType
<1>6. \A k \in Registered(p) : k < p.nextkey
  <2>1. r.nextkey \in Nat /\ \A k \in Registered(r) : k \in Nat /\ k < r.nextkey
    <3>1. Registered(r) \in SUBSET Registered(r) /\ RegistryType(r)
      BY DEF Sound
    <3>2. Registered(r) \subseteq Nat
      BY <3>1, SomeKeys
    <3> QED
      BY <1>1, <3>2 DEF Sound
  <2> QED
    BY <1>2, <1>4, <2>1
<1>7. \A b \in Bucket : Chain(p, b) = Chain(r, b)
  BY <1>4 DEF Chain
<1>8. \A S, dir, link : Linking(p, S, dir, link) <=> Linking(r, S, dir, link)
  BY <1>2 DEF Linking
<1>9. Sound(p)
  BY <1>2, <1>4, <1>5, <1>6, <1>7, <1>8 DEF Sound
<1> QED
  BY <1>2, <1>4, <1>9 DEF Chains

\* What a name is found for.
LEMMA LookedUp ==
    ASSUME NEW r, Sound(r), NEW c, NEW name
    PROVE  LET k == LookupByName(r, c, name)
           IN  k \in Link /\ (k # NULL => k \in Registered(r) /\ r.item[k].class = c.class)
<1> DEFINE passing == {k \in Registered(r) : Sloppy[r.item[k].info.name] = Sloppy[name]}
           k == LookupByName(r, c, name)
<1>1. passing \in SUBSET Registered(r)
  OBVIOUS
<1>2. k = Iterate(r, NULL, c.class, "forward", passing)
  BY DEF LookupByName, FindFirst
<1> HIDE DEF passing, k
<1>3. IsFirst("forward", Passing(r, c.class, passing), k)
  BY <1>1, <1>2, IterateSound DEF Directions
<1>4. k = NULL \/ k \in Passing(r, c.class, passing)
  BY <1>3 DEF IsFirst
<1>5. k # NULL => k \in Registered(r) /\ r.item[k].class = c.class
  BY <1>4 DEF Passing
<1>6. k \in Link
  BY <1>4, <1>5 DEF Link, Sound, RegistryType
<1> QED
  BY <1>5, <1>6 DEF k
\* An item that is read leaves the registry as it should be, and the others
\* where they were.
LEMMA ReadStep ==
    ASSUME DefinitionsInv, NEW entry \in Entry, ReadItem(entry)
    PROVE  /\ Sound(reg') /\ Chains(reg') /\ Cleared(reg') /\ reg'.nextclass = reg.nextclass
           /\ \A j \in Registered(reg) : j \in Registered(reg') /\ reg'.item[j].info = reg.item[j].info
<1> DEFINE k == Kinds[at]
           ident == reg.nextkey
           numbered == [reg EXCEPT !.nextkey = @ + 1]
           child == ChildOf(reg, k, entry, ident)
           plain == InfoOf(entry, ident, child)
           class == conf[k].class
<1>1. Sound(reg) /\ Chains(reg) /\ Cleared(reg) /\ k \in Kind /\ class \in Int
  <2>1. k \in Kind
    BY KindsAre DEF DefinitionsInv
  <2>2. conf[k] \in {None} \cup Config
    BY <2>1 DEF DefinitionsInv
  <2> QED
    BY <2>1, <2>2 DEF DefinitionsInv, None, NULL, Config
<1>2. /\ reg \in [head : Link, tail : Link, hash : [Bucket -> Link],
                  item : UNION {[T -> Node] : T \in SUBSET Key}, nextclass : Nat, nextkey : Nat]
      /\ Registered(reg) \subseteq Key /\ reg.item \in [Registered(reg) -> Node]
  BY <1>1 DEF Sound, RegistryType
<1>3. ident \in Key /\ ident \in Nat /\ ident \in Link /\ NULL \in Link
  BY <1>2 DEF ReadItem, Link
<1>4. (\A u \in Registered(reg) : u < ident) /\ ident \notin Registered(reg)
  <2>1. \A u \in Registered(reg) : u < ident
    BY <1>1 DEF Sound
  <2> QED
    BY <1>3, <2>1
<1>5. /\ Sound(numbered) /\ Chains(numbered) /\ Registered(numbered) = Registered(reg)
      /\ numbered.item = reg.item /\ numbered.nextclass = reg.nextclass /\ numbered.nextkey = ident + 1
  <2> DEFINE new == ident + 1
             same == reg.nextclass
  <2>1. numbered = Counted(reg, same, new)
    BY <1>2 DEF Counted
  <2>2. new \in Nat /\ new >= reg.nextkey /\ same \in Nat
    BY <1>2, <1>3
  <2> HIDE DEF numbered, new, same
  <2>3. /\ Sound(numbered) /\ Chains(numbered) /\ Registered(numbered) = Registered(reg)
        /\ numbered.item = reg.item /\ numbered.nextclass = same /\ numbered.nextkey = new
    BY <1>1, <2>1, <2>2, CountersSound
  <2> QED
    BY <2>3 DEF new, same
<1>6. CASE reg' = reg
  BY <1>1, <1>6
<1>7. CASE reg' = numbered
  <2> HIDE DEF numbered
  <2>1. Cleared(reg')
    BY <1>1, <1>5, <1>7 DEF Cleared
  <2> QED
    BY <1>5, <1>7, <2>1
<1>8. ASSUME NEW ph_ch \in Remains(plain), NEW misread, NEW info, info = [plain EXCEPT !.ph_ch = ph_ch],
             Verified(reg, info, misread), Hash[ident] \notin stray,
             reg' = InsertByInt(numbered, ident, class, info)
      PROVE  /\ Sound(reg') /\ Chains(reg') /\ Cleared(reg') /\ reg'.nextclass = reg.nextclass
             /\ \A j \in Registered(reg) : j \in Registered(reg') /\ reg'.item[j].info = reg.item[j].info
  <2>1. child \in Link
    <3> DEFINE found1 == LookupByName(reg, conf[k], entry.child)
    <3>1. found1 \in Link
      BY <1>1, LookedUp
    <3> HIDE DEF found1
    <3> QED
      BY <1>3, <3>1 DEF ChildOf, found1
  <2>2. child # NULL => child = ident \/ (child \in Registered(reg) /\ reg.item[child].class = class)
    <3> DEFINE found1 == LookupByName(reg, conf[k], entry.child)
    <3>1. found1 # NULL => found1 \in Registered(reg) /\ reg.item[found1].class = class
      BY <1>1, LookedUp
    <3> HIDE DEF found1, class, ident, k
    <3> QED
      BY <3>1 DEF ChildOf, found1
  <2>3. /\ plain = [ident |-> ident, kind |-> entry.kind, name |-> entry.name, armslevel |-> entry.armslevel,
                    useless |-> entry.useless, indirect |-> entry.indirect, ph_fl |-> entry.ph_fl,
                    ph_ch |-> child, named |-> child # NULL]
        /\ entry \in [kind : Kind, name : DOMAIN Sloppy, armslevel : Nat, useless : BOOLEAN,
                      indirect : BOOLEAN, ph_fl : SUBSET Flag, child : DOMAIN Sloppy]
    BY DEF InfoOf, Entry
  <2> HIDE DEF child, ident
  <2>4. ph_ch \in Link
    <3>1. Garbage \subseteq Link
      BY DefinitionsAssumption DEF Link
    <3>2. plain.ph_ch = child
      BY <2>3
    <3> HIDE DEF plain
    <3> QED
      BY <2>1, <3>1, <3>2 DEF Remains
  <2>5. plain \in Info
    <3>1. (child # NULL) \in BOOLEAN
      OBVIOUS
    <3> QED
      BY <1>3, <2>1, <2>3, <3>1 DEF Info
  <2> HIDE DEF plain
  <2>6. /\ info \in Info /\ info.ph_ch = ph_ch /\ info.named = plain.named /\ info.ph_fl = plain.ph_fl
        /\ info.kind = plain.kind
    BY <1>8, <2>4, <2>5 DEF Info
  <2> HIDE DEF numbered, class
  <2>7. /\ Sound(reg') /\ Registered(reg') = Registered(reg) \cup {ident}
        /\ reg'.nextclass = reg.nextclass
        /\ reg'.item[ident].class = class /\ reg'.item[ident].info = info
        /\ \A j \in Registered(reg) : reg'.item[j].class = reg.item[j].class /\ reg'.item[j].info = reg.item[j].info
    <3>1. ident < numbered.nextkey /\ \A u \in Registered(numbered) : u < ident
      BY <1>3, <1>4, <1>5
    <3>2. /\ Sound(reg') /\ Registered(reg') = Registered(numbered) \cup {ident}
          /\ reg'.nextclass = numbered.nextclass
          /\ reg'.item[ident].class = class /\ reg'.item[ident].info = info
          /\ \A j \in Registered(numbered) :
               reg'.item[j].class = numbered.item[j].class /\ reg'.item[j].info = numbered.item[j].info
      BY <1>1, <1>3, <1>5, <1>8, <2>6, <3>1, InsertSound, SMTT(60)
    <3> QED
      BY <1>5, <3>2
  \* The new item's child.
  <2>8. ASSUME IsPhoenix(info), info.named
        PROVE  ph_ch \in Registered(reg) /\ ph_ch < ident /\ reg.item[ph_ch].class = class
    <3>1. child # NULL /\ plain.named /\ IsPhoenix(plain) /\ plain.ph_ch = child
      <4>1. plain.named = (child # NULL) /\ plain.ph_ch = child
        BY <2>3
      <4> QED
        BY <2>6, <2>8, <4>1 DEF IsPhoenix
    <3>2. ph_ch = child
      BY <1>8, <3>1 DEF Remains
    <3>3. info.kind = "weapon"
      <4>1. entry.ph_fl # {} => entry.kind = "weapon"
        BY DEF Entry
      <4>2. info.ph_fl = entry.ph_fl /\ info.kind = entry.kind
        BY <2>3, <2>6
      <4> QED
        BY <2>8, <4>1, <4>2 DEF IsPhoenix
    <3>4. Lookup(reg, ph_ch) # NULL
      BY <1>8, <2>6, <2>8, <3>3, VerifiedChild
    <3>5. ph_ch \in Registered(reg)
      BY <1>1, <2>4, <3>4, FindSound DEF Lookup
    <3>6. ph_ch # ident
      BY <1>4, <3>5
    <3> QED
      BY <1>4, <2>2, <3>1, <3>2, <3>5, <3>6
  <2>9. Chains(reg')
    <3> SUFFICES ASSUME NEW i \in Registered(reg'), IsPhoenix(reg'.item[i].info), reg'.item[i].info.named
                 PROVE  LET c == reg'.item[i].info.ph_ch
                        IN  c \in Registered(reg') /\ c < i /\ reg'.item[c].class = reg'.item[i].class
      BY DEF Chains
    <3>1. CASE i = ident
      BY <2>6, <2>7, <2>8, <3>1
    <3>2. CASE i \in Registered(reg)
      <4> DEFINE c == reg.item[i].info.ph_ch
      <4>1. reg'.item[i].info = reg.item[i].info /\ reg'.item[i].class = reg.item[i].class
        BY <2>7, <3>2
      <4>2. c \in Registered(reg) /\ c < i /\ reg.item[c].class = reg.item[i].class
        BY <1>1, <3>2, <4>1 DEF Chains
      <4>3. reg'.item[i].info.ph_ch = c
        BY <4>1
      <4> HIDE DEF c
      <4> QED
        BY <2>7, <4>1, <4>2, <4>3
    <3> QED
      BY <2>7, <3>1, <3>2
  <2>10. Cleared(reg')
    <3>1. Hash[ident] \notin stray
      BY <1>8 DEF ident
    <3> QED
      BY <1>1, <2>7, <3>1 DEF Cleared
  <2> QED
    BY <2>7, <2>9, <2>10
<1>9. ~Proper(reg, k, entry) => reg' = reg
  BY DEF ReadItem
<1>10. Proper(reg, k, entry) =>
        \E ph_ch \in Remains(plain), misread \in {0, 1} :
           LET info == [plain EXCEPT !.ph_ch = ph_ch]
               taken == Verified(reg, info, misread) /\ CanInsert(reg, ident)
           IN  \/ reg' = reg
               \/ taken /\ Hash[ident] \notin stray /\ reg' = InsertByInt(numbered, ident, class, info)
               \/ reg' = numbered
  <2> SUFFICES ASSUME Proper(reg, k, entry)
               PROVE  \E ph_ch \in Remains(plain), misread \in {0, 1} :
                         LET info == [plain EXCEPT !.ph_ch = ph_ch]
                             taken == Verified(reg, info, misread) /\ CanInsert(reg, ident)
                         IN  \/ reg' = reg
                             \/ taken /\ Hash[ident] \notin stray /\ reg' = InsertByInt(numbered, ident, class, info)
                             \/ reg' = numbered
    OBVIOUS
  <2>1. PICK ph_ch \in Remains(plain), misread \in {0, 1} :
           LET info == [plain EXCEPT !.ph_ch = ph_ch]
               taken == Verified(reg, info, misread) /\ CanInsert(reg, ident)
               followed == Sought(info) \cup (IF taken THEN {Hash[ident]} ELSE {})
           IN  \/ followed \cap stray # {} /\ reg' = reg
               \/ /\ followed \cap stray = {}
                  /\ IF taken THEN reg' = InsertByInt(numbered, ident, class, info)
                     ELSE reg' = numbered
    BY DEF ReadItem
  <2> HIDE DEF k, ident, numbered, plain, class
  <2> QED
    BY <2>1
<1> HIDE DEF k, ident, numbered, plain, class
<1> QED
  BY <1>6, <1>7, <1>8, <1>9, <1>10
\* Nothing of the other classes is disturbed by the destruction of one.
LEMMA DestroyStep ==
    ASSUME NEW r, Sound(r), Chains(r), NEW class, NEW p, p = Emptied(r, class)
    PROVE  Chains(p)
<1>1. /\ Registered(p) = {j \in Registered(r) : r.item[j].class # class}
      /\ \A j \in Registered(p) : p.item[j].class = r.item[j].class /\ p.item[j].info = r.item[j].info
  BY EmptiedSound
<1> SUFFICES ASSUME NEW i \in Registered(p), IsPhoenix(p.item[i].info), p.item[i].info.named
             PROVE  LET c == p.item[i].info.ph_ch
                    IN  c \in Registered(p) /\ c < i /\ p.item[c].class = p.item[i].class
  BY DEF Chains
<1> DEFINE c == r.item[i].info.ph_ch
<1>2. i \in Registered(r) /\ r.item[i].class # class /\ p.item[i].info = r.item[i].info /\ p.item[i].class = r.item[i].class
  BY <1>1
<1>3. c \in Registered(r) /\ c < i /\ r.item[c].class = r.item[i].class
  BY <1>2 DEF Chains
<1>4. p.item[i].info.ph_ch = c
  BY <1>2
<1> HIDE DEF c
<1>5. c \in Registered(p)
  BY <1>1, <1>2, <1>3
<1> QED
  BY <1>1, <1>2, <1>3, <1>4, <1>5

LEMMA AdvanceStep ==
    ASSUME DefinitionsInv, NEW next \in {"options", "play", "ended"}, Advance(next)
    PROVE  /\ at' \in 1 .. 3 /\ stage' \in {stage, next}
           /\ stage' = stage /\ stage # next => at' = at + 1
           /\ stage' # stage => at = 3
BY KindsAre DEF DefinitionsInv, Advance

LEMMA NextInvariant ==
    ASSUME DefinitionsInv, Next
    PROVE  DefinitionsInv'
<1> USE DEF DefinitionsInv
\* The registry stays as it is.
<1>0. ASSUME reg' = reg, UNCHANGED memory PROVE Cleared(reg)'
  BY <1>0 DEF memory, Cleared
<1>1. CASE Create
  <2> DEFINE k == Kinds[at]
             new == [class |-> reg.nextclass, armslevel |-> 0, uselessitems |-> TRUE]
             class == reg.nextclass + 1
             key == reg.nextkey
  <2>1. reg \in [head : Link, tail : Link, hash : [Bucket -> Link],
                 item : UNION {[T -> Node] : T \in SUBSET Key}, nextclass : Nat, nextkey : Nat]
    BY DEF Sound, RegistryType
  <2>2. reg' = Counted(reg, class, key) /\ class \in Nat /\ key \in Nat /\ key >= reg.nextkey
    <3>1. reg' = [reg EXCEPT !.nextclass = @ + 1]
      BY <1>1 DEF Create
    <3>2. reg' = Counted(reg, class, key)
      BY <2>1, <3>1 DEF Counted
    <3> QED
      BY <2>1, <3>2
  <2> HIDE DEF class, key
  <2>3. Sound(reg') /\ Chains(reg') /\ Registered(reg') = Registered(reg) /\ reg'.nextclass = class
    BY <2>2, CountersSound
  <2>4. new \in Config /\ k \in Kind /\ Exists(new) /\ conf' = [conf EXCEPT ![k] = new] /\ new.class = reg.nextclass
    <3>1. new \in Config /\ new.class # NULL
      BY <2>1 DEF Config, NULL
    <3>2. None.class = NULL
      BY DEF None
    <3> QED
      BY <1>1, <3>1, <3>2, KindsAre DEF Create, Exists
  <2> HIDE DEF new
  <2>5. conf' \in [Kind -> {None} \cup Config] /\ conf'[k] = new /\ \A l \in Kind : l # k => conf'[l] = conf[l]
    BY <2>4
  <2>6. ClassesDiffer(conf', reg'.nextclass)
    <3>1. \A l \in Kind : l # k /\ Exists(conf'[l]) => conf'[l].class < reg.nextclass /\ conf'[l].class \in Nat
      <4> SUFFICES ASSUME NEW l \in Kind, l # k, Exists(conf'[l])
                   PROVE  conf'[l].class < reg.nextclass /\ conf'[l].class \in Nat
        OBVIOUS
      <4>1. conf'[l] = conf[l] /\ conf[l] \in Config
        BY <2>5 DEF Exists
      <4> QED
        BY <4>1 DEF ClassesDiffer, Config
    <3>2. reg.nextclass \in Nat /\ reg'.nextclass = reg.nextclass + 1
      BY <2>1, <2>3 DEF class
    <3> HIDE DEF k
    <3>3. \A l \in Kind : Exists(conf'[l]) => conf'[l].class < reg'.nextclass
      BY <2>4, <2>5, <3>1, <3>2
    <3>4. ASSUME NEW l \in Kind, NEW m \in Kind, Exists(conf'[l]), Exists(conf'[m]), conf'[l].class = conf'[m].class
          PROVE  l = m
      <4>1. CASE l # k /\ m # k
        BY <2>5, <3>4, <4>1 DEF ClassesDiffer
      <4>2. CASE l = k
        BY <2>4, <2>5, <3>1, <3>2, <3>4, <4>2
      <4>3. CASE m = k
        BY <2>4, <2>5, <3>1, <3>2, <3>4, <4>3
      <4> QED
        BY <4>1, <4>2, <4>3
    <3> QED
      BY <3>3, <3>4 DEF ClassesDiffer
  <2>7. read' = 0 /\ read' # NULL /\ at' = at /\ stage' = stage /\ stage = "create"
    BY <1>1 DEF Create, Open, NULL
  <2>8. ConfigsThere'
    <3> SUFFICES ASSUME NEW j \in 1 .. 3, j <= at PROVE Exists(conf'[Kinds[j]])
      BY <2>7 DEF ConfigsThere
    <3>1. CASE j = at
      BY <2>4, <2>5, <3>1
    <3>2. CASE j < at
      <4>1. Exists(conf[Kinds[j]]) /\ Kinds[j] \in Kind
        BY <2>7, <3>2, KindsAre DEF ConfigsThere
      <4> HIDE DEF k
      <4> QED
        BY <2>4, <2>5, <4>1
    <3> QED
      BY <3>1, <3>2
  <2>9. Cleared(reg)'
    BY <1>1, <2>3 DEF Create, memory, Cleared
  <2> QED
    BY <2>3, <2>5, <2>6, <2>7, <2>8, <2>9
<1>2. CASE Read
  <2>1. PICK entry \in (IF stage = "create" THEN RootItems ELSE ListItems)[Kinds[at]] : ReadItem(entry)
    BY <1>2 DEF Read
  <2>2. entry \in Entry
    BY DefinitionsAssumption, KindsAre
  <2>3. Sound(reg') /\ Chains(reg') /\ Cleared(reg') /\ reg'.nextclass = reg.nextclass
    BY <2>1, <2>2, ReadStep
  <2>4. read' \in Nat /\ read' # NULL /\ read # NULL /\ at' = at /\ stage' = stage /\ conf' = conf
    BY <2>1 DEF ReadItem, Reading, NULL
  <2>5. ConfigsThere'
    BY <2>4 DEF ConfigsThere, Reading
  <2>6. Cleared(reg)'
    BY <2>1, <2>3 DEF ReadItem, Cleared
  <2> QED
    BY <2>3, <2>4, <2>5, <2>6
<1>3. CASE Created
  <2> DEFINE k == Kinds[at]
  <2>1. stage = "create" /\ read # NULL /\ read' = NULL /\ reg' = reg /\ k \in Kind
    BY <1>3, KindsAre DEF Created, Close, Reading
  <2>4. Cleared(reg)'
    BY <1>0, <1>3 DEF Created
  <2>2. CASE Usable(k)
    <3>1. conf' = conf /\ Advance("options")
      BY <1>3, <2>2 DEF Created
    <3>2. at' \in 1 .. 3 /\ stage' \in {stage, "options"} /\ (stage' = stage => at' = at + 1) /\ (stage' # stage => at = 3)
      BY <2>1, <3>1, AdvanceStep
    <3>3. \A j \in 1 .. 3 : j <= at => Exists(conf[Kinds[j]])
      BY <2>1 DEF ConfigsThere, Reading
    <3>4. ConfigsThere'
      <4>1. CASE stage' = stage
        <5> SUFFICES ASSUME NEW j \in 1 .. 3, j < at' PROVE Exists(conf'[Kinds[j]])
          BY <2>1, <4>1 DEF ConfigsThere, Reading
        <5>1. j <= at
          BY <3>2, <4>1
        <5> QED
          BY <3>1, <3>3, <5>1
      <4>2. CASE stage' # stage
        <5>1. at = 3 /\ stage' = "options"
          BY <3>2, <4>2
        <5>2. \A l \in Kind : Exists(conf[l])
          <6> SUFFICES ASSUME NEW l \in Kind PROVE Exists(conf[l])
            OBVIOUS
          <6>1. PICK i \in 1 .. 3 : Kinds[i] = l
            BY KindsAre
          <6>2. i <= at
            BY <5>1
          <6> QED
            BY <3>3, <6>1, <6>2
        <5> QED
          BY <3>1, <5>1, <5>2 DEF ConfigsThere
      <4> QED
        BY <4>1, <4>2
    <3> QED
      BY <2>1, <2>4, <3>1, <3>2, <3>4
  <2>3. CASE ~Usable(k)
    <3>1. conf' = [conf EXCEPT ![k] = None] /\ stage' = "ended" /\ at' = at
      BY <1>3, <2>3 DEF Created
    <3> HIDE DEF k
    <3>2. conf' \in [Kind -> {None} \cup Config] /\ \A l \in Kind : Exists(conf'[l]) => conf'[l] = conf[l] /\ Exists(conf[l])
      BY <2>1, <3>1 DEF Exists
    <3>3. ClassesDiffer(conf', reg'.nextclass)
      BY <2>1, <3>2 DEF ClassesDiffer
    <3>4. ConfigsThere'
      BY <3>1 DEF ConfigsThere
    <3> QED
      BY <2>1, <2>4, <3>1, <3>2, <3>3, <3>4
  <2> QED
    BY <2>2, <2>3
<1>4. CASE OpenList
  <2>1. stage = "options" /\ stage' = stage /\ at' = at /\ reg' = reg /\ conf' = conf /\ read' = 0
    BY <1>4 DEF OpenList, Open
  <2>2. ConfigsThere'
    BY <2>1 DEF ConfigsThere
  <2>3. Cleared(reg)'
    BY <1>0, <1>4 DEF OpenList
  <2> QED
    BY <2>1, <2>2, <2>3
<1>5. CASE Appended
  <2>1. stage = "options" /\ reg' = reg /\ conf' = conf /\ read' = NULL /\ Advance("play")
    BY <1>5 DEF Appended, Close
  <2>2. at' \in 1 .. 3 /\ stage' \in {stage, "play"}
    BY <2>1, AdvanceStep
  <2>3. ConfigsThere'
    BY <2>1, <2>2 DEF ConfigsThere
  <2>4. Cleared(reg)'
    BY <1>0, <1>5 DEF Appended
  <2> QED
    BY <2>1, <2>2, <2>3, <2>4
<1>6. CASE SetRules
  <2>1. PICK level \in ArmsLevel, useless \in BOOLEAN :
          conf' = [conf EXCEPT !["weapon"].armslevel = level, !["weapon"].uselessitems = useless]
    BY <1>6 DEF SetRules
  <2>2. stage = "play" /\ stage' = stage /\ at' = at /\ read' = read /\ reg' = reg
    BY <1>6 DEF SetRules
  <2>3. "weapon" \in Kind /\ conf["weapon"] \in Config /\ level \in Nat
    <3>1. "weapon" \in Kind
      BY KindsAre
    <3>2. Exists(conf["weapon"])
      BY <2>2, <3>1 DEF ConfigsThere
    <3> QED
      BY <3>1, <3>2, DefinitionsAssumption DEF Exists
  <2> DEFINE new == [conf["weapon"] EXCEPT !.armslevel = level, !.uselessitems = useless]
  <2>4. new \in Config /\ new.class = conf["weapon"].class
    BY <2>3 DEF Config
  <2>5. conf' = [conf EXCEPT !["weapon"] = new]
    BY <2>1, <2>3
  <2> HIDE DEF new
  <2>6. conf' \in [Kind -> {None} \cup Config] /\ conf'["weapon"] = new /\ \A l \in Kind : l # "weapon" => conf'[l] = conf[l]
    BY <2>3, <2>4, <2>5
  <2>7. Exists(new)
    <3>1. new.class # NULL /\ None.class = NULL
      BY <2>4 DEF Config, NULL, None
    <3> QED
      BY <3>1 DEF Exists
  <2>8. \A l \in Kind : Exists(conf[l]) /\ Exists(conf'[l]) /\ conf'[l].class = conf[l].class
    BY <2>2, <2>4, <2>6, <2>7 DEF ConfigsThere
  <2>9. ClassesDiffer(conf', reg'.nextclass)
    BY <2>2, <2>8 DEF ClassesDiffer
  <2>10. ConfigsThere'
    BY <2>2, <2>8 DEF ConfigsThere
  <2>11. Cleared(reg)'
    BY <1>0, <1>6 DEF SetRules
  <2> QED
    BY <2>2, <2>6, <2>9, <2>10, <2>11
<1>7. CASE Quit
  <2>1. stage' = "free" /\ at' = at /\ read' = read /\ reg' = reg /\ conf' = conf
    BY <1>7 DEF Quit
  <2>2. ConfigsThere'
    BY <2>1 DEF ConfigsThere
  <2>3. Cleared(reg)'
    BY <1>0, <1>7 DEF Quit
  <2> QED
    BY <2>1, <2>2, <2>3
<1>8. CASE Destroy
  <2> DEFINE k == Kinds[at]
             class == conf[k].class
  <2>1. /\ stage = "free" /\ reg' = Emptied(reg, class) /\ conf' = [conf EXCEPT ![k] = None]
        /\ Advance("ended") /\ read' = read /\ k \in Kind
    BY <1>8, KindsAre DEF Destroy
  <2>2. at' \in 1 .. 3 /\ stage' \in {stage, "ended"}
    BY <2>1, AdvanceStep
  <2> HIDE DEF k, class
  <2>3. /\ Sound(reg') /\ reg'.nextclass = reg.nextclass
        /\ Registered(reg') = {j \in Registered(reg) : reg.item[j].class # class}
    BY <2>1, EmptiedSound, SMTT(60)
  <2>4. Chains(reg')
    BY <2>1, DestroyStep
  <2>5. conf' \in [Kind -> {None} \cup Config] /\ \A l \in Kind : Exists(conf'[l]) => conf'[l] = conf[l] /\ Exists(conf[l])
    BY <2>1 DEF Exists
  <2>6. ClassesDiffer(conf', reg'.nextclass)
    BY <2>3, <2>5 DEF ClassesDiffer
  <2>7. ConfigsThere'
    BY <2>1, <2>2 DEF ConfigsThere
  <2>8. Cleared(reg)'
    BY <1>8, <2>3 DEF Destroy, memory, Cleared
  <2> QED
    BY <2>1, <2>2, <2>3, <2>4, <2>5, <2>6, <2>7, <2>8
<1> QED
  BY <1>1, <1>2, <1>3, <1>4, <1>5, <1>6, <1>7, <1>8 DEF Next

LEMMA StutterInvariant == DefinitionsInv /\ UNCHANGED vars => DefinitionsInv'
BY DEF DefinitionsInv, vars, ConfigsThere, Reading, Cleared

\* Whatever is read, taken out and walked through (sc_config_new,
\* sc_config_free), the registry stays sound and chains of weapons end.
THEOREM DefinitionsInvariant == Spec => []DefinitionsInv
<1>1. DefinitionsInv /\ [Next]_vars => DefinitionsInv'
  BY NextInvariant, StutterInvariant
<1> QED
  BY InitInvariant, <1>1, PTL DEF Spec

-----------------------------------------------------------------------------
(* The registry.                                                           *)

LEMMA SoundRegistry ==
    ASSUME Sound(reg), Cleared(reg)
    PROVE  RegistrySound
<1> DEFINE S == Registered(reg)
           list == Along(reg, reg.head, "next")
           back == Along(reg, reg.tail, "prev")
<1>1. S \in SUBSET Int /\ S \subseteq Link
  <2>1. S \in SUBSET S
    OBVIOUS
  <2>2. S \subseteq Int /\ S \subseteq Key
    BY <2>1, SomeKeys DEF Sound
  <2> QED
    BY <2>2 DEF Link
<1>2. Ordered(list, "forward", S) /\ Ordered(back, "reverse", S)
  BY SoundWalks
<1> HIDE DEF list, back
<1>3. list \in Seq(S) /\ Len(list) \in Nat /\ \A i \in 1 .. Len(list) : list[i] \in S /\ list[i] \in Int
  <2> HIDE DEF S
  <2> QED
    BY <1>1, <1>2, OrderedRange
<1>4. Range(list) = S
  <2>1. DOMAIN list = 1 .. Len(list)
    BY <1>3
  <2> QED
    BY <1>2, <1>3, <2>1 DEF Range, Ordered
<1>5. ASSUME NEW i \in 1 .. Len(list) - 1 PROVE list[i] < list[i + 1]
  <2>1. i \in 1 .. Len(list) /\ i + 1 \in 1 .. Len(list) /\ i < i + 1
    BY <1>3
  <2>2. Beyond("forward", list[i + 1], list[i])
    BY <1>2, <2>1 DEF Ordered
  <2> QED
    BY <1>3, <2>1, <2>2 DEF Beyond
<1>6. back = Reverse(list)
  <2>1. Ordered(Reverse(list), Opposite("forward"), S)
    <3> HIDE DEF S
    <3> QED
      BY <1>1, <1>2, OrderedReverse DEF Directions
  <2>2. Opposite("forward") = "reverse"
    BY DEF Opposite
  <2> HIDE DEF S
  <2> QED
    BY <1>1, <1>2, <2>1, <2>2, OrderedUnique
<1>7. \A k \in S : k < reg.nextkey /\ FindByInt(reg, k) = k
  BY <1>1, FindSound DEF Sound
<1> QED
  BY <1>4, <1>5, <1>6, <1>7 DEF RegistrySound, Cleared, list, back

\* The list forwards, the list backwards and the hash table tell the same,
\* after whatever adding and taking out, and whatever was in the memory of the
\* table at first: until something that nobody stored there is followed, no
\* item is where it might be (shashlist.c).
THEOREM RegistryAgrees == Spec => []RegistrySound
<1>1. DefinitionsInv => RegistrySound
  BY SoundRegistry DEF DefinitionsInv
<1> QED
  BY DefinitionsInvariant, <1>1, PTL

\* No chain of phoenix weapons goes on for ever (sc_phoenix_verify).
THEOREM ChildrenEnd == Spec => []ChainsEnd
<1>1. DefinitionsInv => ChainsEnd
  BY DEF DefinitionsInv, Chains, ChainsEnd, ChildNamed
<1> QED
  BY DefinitionsInvariant, <1>1, PTL

-----------------------------------------------------------------------------
(* What has been defined stays.                                            *)

\* What an iterator visits.
LEMMA OfClassOrdered ==
    ASSUME NEW r, Sound(r), NEW class
    PROVE  Ordered(OfClass(r, class), "forward", {j \in Registered(r) : r.item[j].class = class})
<1> DEFINE S == Registered(r)
           A == {j \in S : r.item[j].class = class}
           list == Along(r, r.head, "next")
<1>1. S \in SUBSET Int
  <2>1. S \in SUBSET S
    OBVIOUS
  <2> QED
    BY <2>1, SomeKeys DEF Sound
<1>2. Ordered(list, "forward", S)
  BY SoundWalks
<1>3. OfClass(r, class) = Among(list, A)
  BY DEF OfClass
<1>4. S \cap A = A
  OBVIOUS
<1> HIDE DEF S, A, list
<1>5. Ordered(Among(list, A), "forward", S \cap A)
  BY <1>1, <1>2, AmongOrdered
<1> QED
  BY <1>3, <1>4, <1>5 DEF A, S

LEMMA ItemsAre ==
    ASSUME Sound(reg), NEW k, Exists(conf[k]), NEW i \in Range(ItemsOf(k))
    PROVE  i \in Registered(reg) /\ reg.item[i].class = conf[k].class
<1> DEFINE s == ItemsOf(k)
           T == {j \in Registered(reg) : reg.item[j].class = conf[k].class}
<1>1. s = OfClass(reg, conf[k].class)
  BY DEF ItemsOf
<1>2. Ordered(s, "forward", T)
  BY <1>1, OfClassOrdered
<1>3. s \in Seq(T)
  BY <1>2 DEF Ordered
<1>4. i \in T
  <2> HIDE DEF s, T
  <2>1. PICK x \in DOMAIN s : i = s[x]
    BY DEF Range, s
  <2> QED
    BY <1>3, <2>1
<1> QED
  BY <1>4

KeptNow ==
    \A k \in Kind : Exists(conf[k]) =>
       IF Exists(conf'[k])
       THEN \A i \in Range(ItemsOf(k)) : i \in Registered(reg)' /\ reg'.item[i].info = reg.item[i].info
       ELSE stage = "free" => \A i \in Registered(reg)' : reg'.item[i].class # conf[k].class

LEMMA NextKeeps ==
    ASSUME DefinitionsInv, Next
    PROVE  KeptNow
<1>1. Sound(reg)
  BY DEF DefinitionsInv
\* It is enough to keep all items, unless a configuration is destroyed.
<1>2. ASSUME \A i \in Registered(reg) : i \in Registered(reg') /\ reg'.item[i].info = reg.item[i].info,
             stage = "free" => conf' = conf
      PROVE  KeptNow
  <2> SUFFICES ASSUME NEW k \in Kind, Exists(conf[k])
               PROVE  IF Exists(conf'[k])
                      THEN \A i \in Range(ItemsOf(k)) : i \in Registered(reg)' /\ reg'.item[i].info = reg.item[i].info
                      ELSE stage = "free" => \A i \in Registered(reg)' : reg'.item[i].class # conf[k].class
    BY DEF KeptNow
  <2>1. \A i \in Range(ItemsOf(k)) : i \in Registered(reg)
    BY <1>1, ItemsAre
  <2>2. stage = "free" => Exists(conf'[k])
    BY <1>2
  <2> QED
    BY <1>2, <2>1, <2>2
<1>3. CASE Create
  <2>1. stage # "free" /\ reg' = [reg EXCEPT !.nextclass = @ + 1]
    BY <1>3 DEF Create
  <2>2. reg'.item = reg.item
    BY <1>1, <2>1 DEF Sound, RegistryType
  <2> QED
    BY <1>2, <2>1, <2>2 DEF Registered
<1>4. CASE Read
  <2>1. PICK entry \in (IF stage = "create" THEN RootItems ELSE ListItems)[Kinds[at]] : ReadItem(entry)
    BY <1>4 DEF Read
  <2>2. entry \in Entry
    BY DefinitionsAssumption, KindsAre DEF DefinitionsInv
  <2>3. \A j \in Registered(reg) : j \in Registered(reg') /\ reg'.item[j].info = reg.item[j].info
    BY <2>1, <2>2, ReadStep
  <2>4. conf' = conf
    BY <2>1 DEF ReadItem
  <2> QED
    BY <1>2, <2>3, <2>4
<1>5. CASE Created \/ OpenList \/ Appended \/ SetRules \/ Quit
  <2>1. reg' = reg /\ (stage = "free" => conf' = conf)
    BY <1>5 DEF Created, OpenList, Appended, SetRules, Quit
  <2> QED
    BY <1>2, <2>1
<1>6. CASE Destroy
  <2> DEFINE d == Kinds[at]
             class == conf[d].class
  <2>1. stage = "free" /\ reg' = Emptied(reg, class) /\ conf' = [conf EXCEPT ![d] = None] /\ d \in Kind
    BY <1>6, KindsAre DEF Destroy, DefinitionsInv
  <2>2. conf \in [Kind -> {None} \cup Config] /\ ClassesDiffer(conf, reg.nextclass)
    BY DEF DefinitionsInv
  <2> HIDE DEF d
  <2>3. /\ Registered(reg') = {j \in Registered(reg) : reg.item[j].class # class}
        /\ \A j \in Registered(reg') : reg'.item[j].class = reg.item[j].class /\ reg'.item[j].info = reg.item[j].info
    <3> HIDE DEF class
    <3> QED
      BY <1>1, <2>1, EmptiedSound
  <2> SUFFICES ASSUME NEW k \in Kind, Exists(conf[k])
               PROVE  IF Exists(conf'[k])
                      THEN \A i \in Range(ItemsOf(k)) : i \in Registered(reg)' /\ reg'.item[i].info = reg.item[i].info
                      ELSE stage = "free" => \A i \in Registered(reg)' : reg'.item[i].class # conf[k].class
    BY DEF KeptNow
  <2>4. CASE k = d
    <3>1. ~Exists(conf'[k])
      BY <2>1, <2>2, <2>4 DEF Exists
    <3>2. \A i \in Registered(reg)' : reg'.item[i].class # conf[k].class
      BY <2>3, <2>4
    <3> QED
      BY <3>1, <3>2
  <2>5. CASE k # d
    <3>1. conf'[k] = conf[k] /\ Exists(conf'[k])
      BY <2>1, <2>2, <2>5
    <3>2. conf[k].class # class
      <4>1. CASE Exists(conf[d])
        BY <2>1, <2>2, <2>5, <4>1 DEF ClassesDiffer
      <4>2. CASE ~Exists(conf[d])
        <5>1. class = NULL
          BY <4>2 DEF Exists, None
        <5>2. conf[k] \in Config
          BY <2>2 DEF Exists
        <5> HIDE DEF class
        <5> QED
          BY <5>1, <5>2 DEF Config, NULL
      <4> QED
        BY <4>1, <4>2
    <3> HIDE DEF class
    <3>3. ASSUME NEW i \in Range(ItemsOf(k))
          PROVE  i \in Registered(reg)' /\ reg'.item[i].info = reg.item[i].info
      <4>1. i \in Registered(reg) /\ reg.item[i].class = conf[k].class
        BY <1>1, <3>3, ItemsAre
      <4> QED
        BY <2>3, <3>2, <4>1
    <3> QED
      BY <3>1, <3>3
  <2> QED
    BY <2>4, <2>5
<1> QED
  BY <1>3, <1>4, <1>5, <1>6 DEF Next

\* Definitions are kept until the configuration of their kind is destroyed,
\* which takes all of them and none of the others.
THEOREM DefinitionsAreKept == Spec => DefinitionsKept
<1>1. DefinitionsInv /\ [Next]_vars => [KeptNow]_vars
  BY NextKeeps
<1>2. [][KeptNow]_vars => DefinitionsKept
  BY DEF KeptNow, DefinitionsKept
<1> QED
  BY DefinitionsInvariant, <1>1, <1>2, PTL DEF Spec
-----------------------------------------------------------------------------
(* A walk comes by everything.                                             *)

\* Each element is followed by the first one beyond it, the last by none.
LEMMA NextOfOrdered ==
    ASSUME NEW dir, NEW T \in SUBSET Int, NEW s, Ordered(s, dir, T), NEW i \in 1 .. Len(s)
    PROVE  /\ i < Len(s) => IsFirst(dir, After(T, dir, s[i]), s[i + 1])
           /\ i = Len(s) => After(T, dir, s[i]) = {}
<1>1. s \in Seq(T) /\ Len(s) \in Nat /\ \A j \in 1 .. Len(s) : s[j] \in T /\ s[j] \in Int
  BY OrderedRange
<1>2. ASSUME NEW t \in T, Beyond(dir, t, s[i]) PROVE \E j \in 1 .. Len(s) : j > i /\ s[j] = t
  <2>1. PICK j \in 1 .. Len(s) : s[j] = t
    BY DEF Ordered
  <2>2. ~(j < i) /\ j # i
    <3>1. j < i => Beyond(dir, s[i], s[j])
      BY DEF Ordered
    <3>2. s[i] \in Int /\ s[j] \in Int
      BY <1>1
    <3> QED
      BY <1>2, <2>1, <3>1, <3>2 DEF Beyond
  <2> QED
    BY <2>1, <2>2
<1>3. CASE i = Len(s)
  <2>1. \A j \in 1 .. Len(s) : ~(j > i)
    BY <1>1, <1>3
  <2> QED
    BY <1>2, <1>3, <2>1 DEF After
<1>4. CASE i < Len(s)
  <2>1. i + 1 \in 1 .. Len(s) /\ i < i + 1
    BY <1>1, <1>4
  <2>2. s[i + 1] \in T /\ Beyond(dir, s[i + 1], s[i])
    BY <1>1, <2>1 DEF Ordered
  <2>3. ASSUME NEW t \in After(T, dir, s[i]) PROVE t = s[i + 1] \/ Beyond(dir, t, s[i + 1])
    <3>1. PICK j \in 1 .. Len(s) : j > i /\ s[j] = t
      BY <1>2, <2>3 DEF After
    <3>2. j = i + 1 \/ i + 1 < j
      BY <3>1
    <3> QED
      BY <2>1, <3>1, <3>2 DEF Ordered
  <2> QED
    BY <1>4, <2>2, <2>3 DEF IsFirst, After
<1> QED
  BY <1>1, <1>3, <1>4

\* Where NextOf goes.
LEMMA NextOfSound ==
    ASSUME NEW r, Sound(r), NEW c, NEW rules, NEW dir \in Directions,
           NEW V, V = Passing(r, c.class, AllViewable(r, c, rules))
    PROVE  /\ IsFirst(dir, V, First(r, c, rules, dir))
           /\ \A k \in V : \E next : /\ IsFirst(dir, After(V, dir, k), next)
                                     /\ NextOf(r, c, k, rules, dir) =
                                          IF next = NULL THEN First(r, c, rules, dir) ELSE next
<1> DEFINE passing == AllViewable(r, c, rules)
<1>1. passing \in SUBSET Registered(r)
  BY DEF AllViewable
<1>2. First(r, c, rules, dir) = Iterate(r, NULL, c.class, dir, passing)
  BY DEF First, FindFirst
<1>3. IsFirst(dir, V, First(r, c, rules, dir))
  <2> HIDE DEF passing
  <2> QED
    BY <1>1, <1>2, IterateSound DEF passing
<1>4. ASSUME NEW k \in V
      PROVE  \E next : /\ IsFirst(dir, After(V, dir, k), next)
                       /\ NextOf(r, c, k, rules, dir) = IF next = NULL THEN First(r, c, rules, dir) ELSE next
  <2> DEFINE next == Iterate(r, k, c.class, dir, passing)
  <2>1. k \in Registered(r) /\ k \in Link
    BY DEF Passing, Sound, RegistryType, Link
  <2>2. FindByInt(r, k) = k
    BY <2>1, FindSound
  <2>3. NextOf(r, c, k, rules, dir) = IF next = NULL THEN First(r, c, rules, dir) ELSE next
    BY <2>2 DEF NextOf, FindNext
  <2>4. IsFirst(dir, After(V, dir, k), next)
    <3>1. \A j \in Registered(r) :
            IsFirst(dir, After(Passing(r, c.class, passing), dir, j), Iterate(r, j, c.class, dir, passing))
      <4> HIDE DEF passing
      <4> QED
        BY <1>1, IterateSound
    <3> QED
      BY <2>1, <3>1
  <2> HIDE DEF next
  <2> QED
    BY <2>3, <2>4
<1> QED
  BY <1>3, <1>4

\* Walking n items on from the first comes by the n items there are.
LEMMA WalkVisits ==
    ASSUME Sound(reg), NEW c, NEW rules, NEW dir \in Directions, NEW seen, NEW first,
           Ordered(seen, dir, Passing(reg, c.class, AllViewable(reg, c, rules))),
           first = First(reg, c, rules, dir)
    PROVE  Visited(c, first, rules, dir, Len(seen)) = Append(seen, first)
<1> DEFINE V == Passing(reg, c.class, AllViewable(reg, c, rules))
           n == Len(seen)
           d == <<reg, c, rules, dir>>
           R(f) == f = [i \in 0 .. n |-> IF i = 0 THEN first ELSE NextOf(reg, c, f[i - 1], rules, dir)]
           f == CHOOSE f : R(f)
<1>1. V \in SUBSET Nat /\ V \in SUBSET Int
  <2>1. V \in SUBSET Registered(reg)
    BY DEF Passing
  <2> HIDE DEF V
  <2> QED
    BY <2>1, SomeKeys DEF Sound
<1>2. seen \in Seq(V) /\ n \in Nat /\ \A i \in 1 .. n : seen[i] \in V /\ seen[i] \in Int
  <2> HIDE DEF V
  <2> QED
    BY <1>1, OrderedRange DEF V
<1>3. /\ IsFirst(dir, V, first)
      /\ \A k \in V : \E next : /\ IsFirst(dir, After(V, dir, k), next)
                                /\ NextOf(reg, c, k, rules, dir) = IF next = NULL THEN first ELSE next
  <2> HIDE DEF V
  <2> QED
    BY NextOfSound DEF V
<1>4. R(f)
  <2>1. PICK g : IsRun("Visited", first, d, n, g)
    BY <1>2, Loops
  <2>2. R(g)
    BY <2>1 DEF IsRun, Step
  <2> QED
    BY <2>2
<1>5. f[0] = first /\ \A i \in Nat : i + 1 \in 0 .. n => f[i + 1] = NextOf(reg, c, f[i], rules, dir)
  <2> HIDE DEF f, n
  <2> QED
    BY <1>2, <1>4 DEF n
<1>6. Visited(c, first, rules, dir, n) = [i \in 1 .. n + 1 |-> f[i - 1]]
  BY DEF Visited
<1> HIDE DEF f
<1> DEFINE D == {i \in Nat : i < n => f[i] = seen[i + 1]}
<1>7. 0 \in D
  <2> SUFFICES ASSUME 0 < n PROVE f[0] = seen[1]
    OBVIOUS
  <2>1. 1 \in 1 .. n /\ V # {}
    <3>1. 1 \in 1 .. n
      BY <1>2
    <3> HIDE DEF V
    <3> QED
      BY <1>2, <3>1
  <2>2. IsFirst(dir, V, Head(seen)) /\ Head(seen) = seen[1]
    <3>1. Ordered(seen, dir, V)
      OBVIOUS
    <3> HIDE DEF V
    <3> QED
      BY <1>1, <1>2, <2>1, <3>1, HeadOfOrdered
  <2> HIDE DEF V
  <2>3. first = Head(seen)
    BY <1>1, <1>3, <2>2, FirstUnique
  <2> QED
    BY <1>5, <2>2, <2>3
\* What follows the item at a place.
<1>8. ASSUME NEW i \in Nat, i < n, f[i] = seen[i + 1]
      PROVE  f[i + 1] = IF i + 1 < n THEN seen[i + 2] ELSE first
  <2>1. i + 1 \in 0 .. n /\ i + 1 \in 1 .. n /\ (i + 1) + 1 = i + 2
    BY <1>2, <1>8
  <2>2. f[i + 1] = NextOf(reg, c, seen[i + 1], rules, dir) /\ seen[i + 1] \in V
    BY <1>2, <1>5, <1>8, <2>1
  <2>3. Ordered(seen, dir, V)
    OBVIOUS
  <2> HIDE DEF V, n
  <2>4. PICK next : /\ IsFirst(dir, After(V, dir, seen[i + 1]), next)
                    /\ f[i + 1] = IF next = NULL THEN first ELSE next
    BY <1>3, <2>2
  <2> DEFINE k == i + 1
  <2>5. k \in 1 .. Len(seen) /\ (k < Len(seen) <=> i + 1 < n) /\ (k = Len(seen) <=> i + 1 = n) /\ k + 1 = i + 2
    BY <2>1 DEF n
  <2> HIDE DEF k
  <2>6. /\ k < Len(seen) => IsFirst(dir, After(V, dir, seen[k]), seen[k + 1])
        /\ k = Len(seen) => After(V, dir, seen[k]) = {}
    BY <1>1, <2>3, <2>5, NextOfOrdered
  <2>7. CASE i + 1 < n
    <3>1. IsFirst(dir, After(V, dir, seen[i + 1]), seen[i + 2])
      BY <2>5, <2>6, <2>7 DEF k
    <3>2. After(V, dir, seen[i + 1]) \in SUBSET Int
      BY <1>1 DEF After
    <3>3. next = seen[i + 2]
      BY <2>4, <3>1, <3>2, FirstUnique
    <3>4. seen[i + 2] # NULL
      <4>1. i + 2 \in 1 .. n
        BY <2>1, <2>7, <1>2
      <4>2. seen[i + 2] \in Nat
        BY <1>1, <1>2, <4>1 DEF n
      <4> QED
        BY <4>2 DEF NULL
    <3> QED
      BY <2>4, <2>7, <3>3, <3>4
  <2>8. CASE ~(i + 1 < n)
    <3>1. i + 1 = n
      BY <1>2, <2>1, <2>8
    <3>2. After(V, dir, seen[i + 1]) = {}
      BY <2>5, <2>6, <3>1 DEF k
    <3>3. next = NULL
      BY <2>4, <3>2 DEF IsFirst
    <3> QED
      BY <2>4, <2>8, <3>3
  <2> QED
    BY <2>7, <2>8
<1>9. ASSUME NEW i \in Nat, i \in D PROVE i + 1 \in D
  <2> SUFFICES ASSUME i + 1 < n PROVE f[i + 1] = seen[(i + 1) + 1]
    OBVIOUS
  <2>1. i < n /\ (i + 1) + 1 = i + 2
    BY <1>2
  <2>2. f[i] = seen[i + 1]
    BY <1>9, <2>1
  <2> HIDE DEF n
  <2> QED
    BY <1>8, <2>1, <2>2
<1>10. Nat \subseteq D
  <2> HIDE DEF D
  <2> QED
    BY <1>7, <1>9, Induction
<1>11. \A i \in Nat : i < n => f[i] = seen[i + 1]
  BY <1>10
<1>12. f[n] = first
  <2>1. CASE n = 0
    BY <1>5, <2>1
  <2>2. CASE n # 0
    <3>1. n - 1 \in Nat /\ n - 1 < n /\ (n - 1) + 1 = n /\ ~(n < n)
      BY <1>2, <2>2
    <3>2. f[n - 1] = seen[(n - 1) + 1]
      BY <1>11, <3>1
    <3> DEFINE m == n - 1
    <3>3. f[m + 1] = IF m + 1 < n THEN seen[m + 2] ELSE first
      <4> HIDE DEF n, m
      <4> QED
        BY <1>8, <3>1, <3>2 DEF m
    <3> HIDE DEF n
    <3> QED
      BY <3>1, <3>3
  <2> QED
    BY <2>1, <2>2
<1>13. \A i \in 1 .. n + 1 : f[i - 1] = IF i = n + 1 THEN first ELSE seen[i]
  <2> SUFFICES ASSUME NEW i \in 1 .. n + 1 PROVE f[i - 1] = IF i = n + 1 THEN first ELSE seen[i]
    OBVIOUS
  <2>1. i - 1 \in Nat /\ (i - 1) + 1 = i /\ (i = n + 1 <=> i - 1 = n) /\ (i # n + 1 => i - 1 < n)
    BY <1>2
  <2> HIDE DEF n
  <2> QED
    BY <1>11, <1>12, <2>1
<1>14. Append(seen, first) = [i \in 1 .. n + 1 |-> IF i = n + 1 THEN first ELSE seen[i]]
  <2> DEFINE a == Append(seen, first)
             b == [i \in 1 .. n + 1 |-> IF i = n + 1 THEN first ELSE seen[i]]
  <2>1. first \in Int
    <3>1. NULL \in Int
      BY DEF NULL
    <3> HIDE DEF V
    <3>2. IsFirst(dir, V, first)
      BY <1>3
    <3>3. first = NULL \/ first \in V
      BY <3>2 DEF IsFirst
    <3> QED
      BY <1>1, <3>1, <3>3
  <2>2. seen \in Seq(Int)
    <3> HIDE DEF V
    <3> QED
      BY <1>1, <1>2
  <2>3. /\ a \in Seq(Int) /\ Len(a) = n + 1 /\ a[n + 1] = first
        /\ \A i \in 1 .. n : a[i] = seen[i]
    BY <2>1, <2>2
  <2>4. b \in [1 .. n + 1 -> Int] /\ n + 1 \in Nat
    BY <1>2, <2>1
  <2>5. b \in Seq(Int) /\ Len(b) = n + 1
    <3> HIDE DEF b, n
    <3> QED
      BY <2>4
  <2>6. \A i \in 1 .. n + 1 : a[i] = b[i]
    <3> SUFFICES ASSUME NEW i \in 1 .. n + 1 PROVE a[i] = b[i]
      OBVIOUS
    <3>1. i = n + 1 \/ (i \in 1 .. n /\ i # n + 1)
      BY <1>2
    <3> HIDE DEF a, n
    <3> QED
      BY <2>3, <3>1
  <2> HIDE DEF a, b
  <2>7. a = b
    BY <2>3, <2>5, <2>6, SeqEqual
  <2> QED
    BY <2>7 DEF a, b
<1> HIDE DEF n
<1>15. Visited(c, first, rules, dir, n) = Append(seen, first)
  BY <1>6, <1>13, <1>14
<1> QED
  BY <1>15 DEF n
LEMMA AllVisited ==
    ASSUME DefinitionsInv
    PROVE  EveryItemVisited
<1> SUFFICES ASSUME stage \in {"options", "play"}, NEW kind \in {"accessory", "weapon"},
                    NEW rules \in {{}, Rules}, NEW dir \in {"forward", "reverse"}
             PROVE  LET c == conf[kind]
                        seen == Among(IF dir = "forward" THEN ItemsOf(kind) ELSE Reverse(ItemsOf(kind)),
                                      AllViewable(reg, c, rules))
                        first == First(reg, c, rules, dir)
                    IN  Visited(c, first, rules, dir, Count(reg, c, rules)) = Append(seen, first)
  BY DEF EveryItemVisited
<1> DEFINE c == conf[kind]
           A == AllViewable(reg, c, rules)
           T == {j \in Registered(reg) : reg.item[j].class = c.class}
           all == OfClass(reg, c.class)
           seen == Among(IF dir = "forward" THEN all ELSE Reverse(all), A)
           first == First(reg, c, rules, dir)
           V == Passing(reg, c.class, A)
<1>1. Sound(reg) /\ Exists(c)
  <2>1. kind \in Kind
    BY KindsAre
  <2> QED
    BY <2>1 DEF DefinitionsInv, ConfigsThere
<1>2. ItemsOf(kind) = all
  BY <1>1 DEF ItemsOf
<1>3. T \in SUBSET Int
  <2>1. T \in SUBSET Registered(reg)
    OBVIOUS
  <2> HIDE DEF T
  <2> QED
    BY <1>1, <2>1, SomeKeys DEF Sound
<1>4. Ordered(all, "forward", T)
  BY <1>1, OfClassOrdered
<1>5. T \cap A = V
  BY DEF AllViewable, Passing
<1> HIDE DEF T, A, V, all
<1>6. Ordered(Among(all, A), "forward", V)
  BY <1>3, <1>4, <1>5, AmongOrdered
<1>7. V \in SUBSET Int
  BY <1>3, <1>5
<1>8. Count(reg, c, rules) = Len(Among(all, A))
  BY DEF Count, all, A
<1>9. Ordered(seen, dir, V) /\ Len(seen) = Len(Among(all, A))
  <2>1. CASE dir = "forward"
    BY <1>6, <2>1
  <2>2. CASE dir # "forward"
    <3>1. dir = "reverse" /\ Opposite("forward") = "reverse" /\ seen = Among(Reverse(all), A)
      BY <2>2 DEF Opposite
    <3>2. Ordered(Reverse(all), "reverse", T) /\ Ordered(Reverse(Among(all, A)), "reverse", V)
      BY <1>3, <1>4, <1>6, <1>7, <3>1, OrderedReverse DEF Directions
    <3>3. Ordered(seen, "reverse", V)
      BY <1>3, <1>5, <3>1, <3>2, AmongOrdered
    <3> HIDE DEF seen
    <3>4. seen = Reverse(Among(all, A))
      BY <1>7, <3>2, <3>3, OrderedUnique
    <3>5. Len(Reverse(Among(all, A))) = Len(Among(all, A))
      <4> DEFINE s == Among(all, A)
      <4>1. Len(s) \in Nat
        BY <1>6, <1>7, OrderedRange
      <4>2. Reverse(s) = [i \in 1 .. Len(s) |-> s[(Len(s) - i) + 1]]
        BY DEF Reverse
      <4> HIDE DEF s
      <4>3. DOMAIN Reverse(s) = 1 .. Len(s) /\ Reverse(s) \in Seq(V)
        <5>1. Ordered(Reverse(s), "reverse", V)
          BY <3>2 DEF s
        <5> QED
          BY <4>2, <5>1 DEF Ordered
      <4>4. Len(Reverse(s)) = Len(s)
        BY <4>1, <4>3
      <4> QED
        BY <4>4 DEF s
    <3> QED
      BY <3>1, <3>3, <3>4, <3>5
  <2> QED
    BY <2>1, <2>2
<1>10. dir \in Directions
  BY DEF Directions
<1> HIDE DEF seen, first
<1>11. Visited(c, first, rules, dir, Len(seen)) = Append(seen, first)
  <2> HIDE DEF c
  <2>1. Ordered(seen, dir, Passing(reg, c.class, AllViewable(reg, c, rules)))
    BY <1>9 DEF V, A
  <2> QED
    BY <1>1, <1>10, <2>1, WalkVisits DEF first
<1>12. Visited(c, first, rules, dir, Count(reg, c, rules)) = Append(seen, first)
  BY <1>8, <1>9, <1>11
<1> QED
  BY <1>2, <1>12 DEF seen, first, A

\* The loop of the shops, the computer players and the network comes by every
\* item once, in either direction, and ends where it began.
THEOREM WalksVisitAll == Spec => []EveryItemVisited
<1>1. DefinitionsInv => EveryItemVisited
  BY AllVisited
<1> QED
  BY DefinitionsInvariant, <1>1, PTL
=============================================================================
