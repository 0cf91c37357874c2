------------------------------ MODULE BasicLemmas ------------------------------
(***************************************************************************)
(* Lemmas that know nothing of the program: arithmetic of units, blocks    *)
(* and pages, least elements, induction over the natural numbers, and      *)
(* sequences that are joined.                                              *)
(* Induction is stated for sets, so that it can be cited with a set that   *)
(* is defined by the statement to be proved.                               *)
(***************************************************************************)
EXTENDS Integers, FiniteSetsExt, SequencesExt, SequenceTheorems, WellFoundedInduction, TLAPS

-----------------------------------------------------------------------------
(***************************************************************************)
(* Least elements, and induction.                                          *)
(***************************************************************************)

\* A set of natural numbers that is not empty has a least element.
LEMMA LeastElement ==
  ASSUME NEW S \in SUBSET Nat, S # {}
  PROVE  \E m \in S : \A n \in S : m <= n
<1> DEFINE R == OpToRel(<, Nat)
<1>1. IsWellFoundedOn(R, Nat)
  BY NatLessThanWellFounded
<1>2. \A x, y \in Nat : (<<y, x>> \in R) <=> y < x
  BY DEF OpToRel
<1> HIDE DEF R
<1>3. PICK m \in S : \A n \in S : ~(<<n, m>> \in R)
  BY <1>1, WFMin
<1>4. ASSUME NEW n \in S
      PROVE  m <= n
  <2>1. n \in Nat /\ m \in Nat
    OBVIOUS
  <2>2. ~(n < m)
    BY <1>2, <1>3, <2>1
  <2> QED BY <2>1, <2>2
<1> QED BY <1>4

\* It is the one that Min() returns.
LEMMA MinIsLeast ==
  ASSUME NEW S \in SUBSET Nat, S # {}
  PROVE  Min(S) \in S /\ \A n \in S : Min(S) <= n
<1>1. \E m \in S : \A n \in S : m <= n
  BY LeastElement
<1> QED BY <1>1 DEF Min

\* A bounded set of natural numbers that is not empty has a greatest element.
LEMMA MaxIsGreatest ==
  ASSUME NEW S \in SUBSET Nat, S # {}, NEW bound \in Nat, \A n \in S : n <= bound
  PROVE  Max(S) \in S /\ \A n \in S : n <= Max(S)
<1> DEFINE T == { bound - n : n \in S }
<1>1. T \in SUBSET Nat
  <2>1. \A n \in S : bound - n \in Nat
    OBVIOUS
  <2> QED BY <2>1
<1>2. T # {}
  <2>1. PICK n \in S : TRUE
    OBVIOUS
  <2>2. bound - n \in T
    BY <2>1
  <2> QED BY <2>2
<1>3. PICK t \in T : \A u \in T : t <= u
  <2> HIDE DEF T
  <2> QED BY <1>1, <1>2, LeastElement
<1>4. PICK m \in S : t = bound - m
  BY <1>3
<1>5. ASSUME NEW n \in S
      PROVE  m >= n
  <2>1. bound - n \in T
    BY <1>5
  <2>2. bound - m <= bound - n
    BY <1>3, <1>4, <2>1
  <2>3. m \in Nat /\ n \in Nat
    BY <1>4, <1>5
  <2> QED BY <2>2, <2>3
<1> QED BY <1>4, <1>5 DEF Max

\* A set that holds 0 and the successor of what it holds has all numbers in it.
LEMMA InductiveSet ==
  ASSUME NEW S \in SUBSET Nat, 0 \in S, \A n \in S : n + 1 \in S
  PROVE  S = Nat
<1>1. SUFFICES ASSUME Nat \ S # {} PROVE FALSE
  OBVIOUS
<1>2. PICK m \in Nat \ S : \A n \in Nat \ S : m <= n
  BY <1>1, LeastElement
<1>3. m # 0 /\ m - 1 \in Nat /\ m - 1 \in S
  BY <1>2
<1> QED BY <1>2, <1>3

\* Induction over the numbers up to m.
LEMMA BoundedInduction ==
  ASSUME NEW m \in Nat, NEW S, 0 \in S, \A i \in 1 .. m : i - 1 \in S => i \in S
  PROVE  \A i \in 0 .. m : i \in S
<1> DEFINE N == { n \in Nat : n <= m => n \in S }
<1>1. 0 \in N
  OBVIOUS
<1>2. ASSUME NEW n \in N PROVE n + 1 \in N
  <2>1. n \in Nat /\ n + 1 \in Nat /\ (n + 1) - 1 = n /\ (n <= m => n \in S)
    OBVIOUS
  <2>2. SUFFICES ASSUME n + 1 <= m PROVE n + 1 \in S
    BY <2>1
  <2>3. n + 1 \in 1 .. m /\ n \in S
    BY <2>1, <2>2
  <2> QED BY <2>1, <2>3
<1>3. N \in SUBSET Nat
  OBVIOUS
<1>4. N = Nat
  <2> HIDE DEF N
  <2> QED BY <1>1, <1>2, <1>3, InductiveSet
<1> QED BY <1>4

\* The function g over 0..m is defined by its first value, x, and by what F makes of
\* each value for the next.
Recurs(g, x, F, m) == g[0] = x /\ \A i \in 1 .. m : g[i] = F[<<i, g[i - 1]>>]

\* There is such a function.
LEMMA RecursionExists ==
  \A m \in Nat : \A T, x, F :
    x \in T /\ F \in [(1 .. m) \X T -> T] =>
      \E g \in [0 .. m -> T] : Recurs(g, x, F, m)
<1> TAKE m \in Nat
<1> TAKE T, x, F
<1> HAVE x \in T /\ F \in [(1 .. m) \X T -> T]
<1> DEFINE Upto(n) == \E g \in [0 .. n -> T] :
                        g[0] = x /\ \A i \in 1 .. n : g[i] = F[<<i, g[i - 1]>>]
           S == { n \in 0 .. m : Upto(n) }
<1>1. 0 \in S
  <2> DEFINE g == [i \in 0 .. 0 |-> x]
  <2>1. g \in [0 .. 0 -> T] /\ g[0] = x /\ \A i \in 1 .. 0 : g[i] = F[<<i, g[i - 1]>>]
    OBVIOUS
  <2> HIDE DEF g
  <2>2. Upto(0)
    BY <2>1
  <2> QED BY <2>2
<1>2. ASSUME NEW n \in 1 .. m, n - 1 \in S PROVE n \in S
  <2>1. PICK g \in [0 .. n - 1 -> T] :
          g[0] = x /\ \A i \in 1 .. n - 1 : g[i] = F[<<i, g[i - 1]>>]
    BY <1>2
  <2> DEFINE h == [i \in 0 .. n |-> IF i = n THEN F[<<n, g[n - 1]>>] ELSE g[i]]
  <2>2. g[n - 1] \in T
    BY <2>1
  <2>3. F[<<n, g[n - 1]>>] \in T
    BY <2>2
  <2>4. \A i \in 0 .. n : h[i] = IF i = n THEN F[<<n, g[n - 1]>>] ELSE g[i]
    OBVIOUS
  <2>5. \A i \in 0 .. n : i # n => i \in 0 .. n - 1
    OBVIOUS
  <2>6. h \in [0 .. n -> T]
    <3>1. \A i \in 0 .. n : i # n => g[i] \in T
      BY <2>5
    <3> QED BY <2>3, <3>1
  <2> HIDE DEF h
  <2>7. h[0] = x
    BY <2>1, <2>4
  <2>8. ASSUME NEW i \in 1 .. n PROVE h[i] = F[<<i, h[i - 1]>>]
    <3>1. i \in 0 .. n /\ i - 1 \in 0 .. n /\ i - 1 # n
      OBVIOUS
    <3>2. h[i - 1] = g[i - 1]
      BY <2>4, <3>1
    <3>3. CASE i = n
      BY <2>4, <3>1, <3>2, <3>3
    <3>4. CASE i # n
      <4>1. i \in 1 .. n - 1
        BY <3>4
      <4>2. h[i] = g[i]
        BY <2>4, <3>1, <3>4
      <4> QED BY <2>1, <3>2, <4>1, <4>2
    <3> QED BY <3>3, <3>4
  <2>9. Upto(n)
    BY <2>6, <2>7, <2>8
  <2> QED BY <2>9
<1>3. m \in S
  <2>1. \A i \in 1 .. m : i - 1 \in S => i \in S
    BY <1>2
  <2> HIDE DEF S
  <2>2. m \in 0 .. m
    OBVIOUS
  <2> QED BY <1>1, <2>1, <2>2, BoundedInduction
<1> QED BY <1>3 DEF Recurs

-----------------------------------------------------------------------------
(***************************************************************************)
(* Units.                                                                  *)
(***************************************************************************)

\* Quotient and remainder.
LEMMA DivMod ==
  ASSUME NEW n \in Nat, NEW d \in Nat \ {0}
  PROVE  n \div d \in Nat /\ n % d \in 0 .. d - 1 /\ n = (d * (n \div d)) + (n % d)
  OBVIOUS

\* Multiples are aligned.
LEMMA MultipleAligned ==
  ASSUME NEW k \in Nat, NEW d \in Nat \ {0}
  PROVE  (k * d) % d = 0
  OBVIOUS

\* An aligned unit that begins below an aligned limit ends at or below it.
LEMMA AlignedStep ==
  ASSUME NEW a \in Nat, NEW b \in Nat, NEW d \in Nat \ {0}, a % d = 0, b % d = 0, a < b
  PROVE  a + d <= b
<1> DEFINE x == a \div d
           y == b \div d
<1>1. x \in Nat /\ y \in Nat /\ a = d * x /\ b = d * y
  BY DivMod
<1>2. x < y
  BY <1>1
<1>3. x + 1 <= y
  BY <1>1, <1>2
<1>4. d * (x + 1) <= d * y
  BY <1>1, <1>3
<1> QED BY <1>1, <1>4

\* Sums of aligned numbers are aligned.
LEMMA AlignedSum ==
  ASSUME NEW a \in Nat, NEW b \in Nat, NEW d \in Nat \ {0}, a % d = 0, b % d = 0
  PROVE  (a + b) % d = 0
<1> DEFINE x == a \div d
           y == b \div d
<1>1. x \in Nat /\ y \in Nat /\ a = d * x /\ b = d * y
  BY DivMod
<1>2. a + b = (x + y) * d
  BY <1>1
<1>3. x + y \in Nat
  BY <1>1
<1> HIDE DEF x, y
<1> QED BY <1>2, <1>3, MultipleAligned

\* What is aligned to a multiple of d is aligned to d.
LEMMA AlignedDown ==
  ASSUME NEW a \in Nat, NEW d \in Nat \ {0}, NEW e \in Nat \ {0}, a % e = 0, e % d = 0
  PROVE  a % d = 0
<1> DEFINE x == a \div e
           y == e \div d
<1>1. x \in Nat /\ y \in Nat /\ a = e * x /\ e = d * y
  BY DivMod
<1>2. a = (y * x) * d
  BY <1>1
<1>3. y * x \in Nat
  BY <1>1
<1> HIDE DEF x, y
<1> QED BY <1>2, <1>3, MultipleAligned

\* There is one way to write a number as a multiple of d and less than d.
LEMMA UniqueRemainder ==
  ASSUME NEW n \in Nat, NEW d \in Nat \ {0}, NEW q \in Nat, NEW r \in 0 .. d - 1,
         n = (d * q) + r
  PROVE  n \div d = q /\ n % d = r
<1> DEFINE t == n \div d
           s == n % d
<1>1. t \in Nat /\ s \in 0 .. d - 1 /\ n = (d * t) + s
  BY DivMod
<1> HIDE DEF t, s
<1>2. ~(t < q)
  <2>1. SUFFICES ASSUME t + 1 <= q PROVE FALSE
    BY <1>1
  <2>2. d * (t + 1) <= d * q
    BY <1>1, <2>1
  <2>3. d * (t + 1) = (d * t) + d
    BY <1>1
  <2> QED BY <1>1, <2>2, <2>3
<1>3. ~(q < t)
  <2>1. SUFFICES ASSUME q + 1 <= t PROVE FALSE
    BY <1>1
  <2>2. d * (q + 1) <= d * t
    BY <1>1, <2>1
  <2>3. d * (q + 1) = (d * q) + d
    OBVIOUS
  <2> QED BY <1>1, <2>2, <2>3
<1>4. t = q
  BY <1>1, <1>2, <1>3
<1>5. s = r
  BY <1>1, <1>4
<1> QED BY <1>4, <1>5 DEF s, t

\* There is room for d between a multiple of d and the next multiple of e.
LEMMA RoomForStep ==
  ASSUME NEW a \in Nat, NEW d \in Nat \ {0}, NEW e \in Nat \ {0}, a % d = 0, e % d = 0
  PROVE  (a % e) + d <= e
<1> DEFINE x == a \div d
           y == e \div d
           q == a \div e
           r == a % e
           k == x - (y * q)
<1>1. x \in Nat /\ y \in Nat /\ a = d * x /\ e = d * y
  BY DivMod
<1>2. q \in Nat /\ r \in 0 .. e - 1 /\ a = (e * q) + r
  BY DivMod
<1> HIDE DEF x, y, q, r
<1>3. y * q \in Nat /\ k \in Int
  BY <1>1, <1>2
<1>4. r = d * k
  <2>1. e * q = d * (y * q)
    BY <1>1, <1>2
  <2>2. d * k = (d * x) - (d * (y * q))
    BY <1>1, <1>3
  <2> QED BY <1>1, <1>2, <2>1, <2>2
<1> HIDE DEF k
<1>5. k < y
  BY <1>1, <1>2, <1>3, <1>4
<1>6. d * (k + 1) <= d * y
  BY <1>1, <1>3, <1>5
<1>7. r + d <= e
  BY <1>1, <1>3, <1>4, <1>6
<1> QED BY <1>7 DEF r

\* A step of d from a multiple of d reaches the next multiple of e or stays below it.
LEMMA NextRemainder ==
  ASSUME NEW a \in Nat, NEW d \in Nat \ {0}, NEW e \in Nat \ {0}, a % d = 0, e % d = 0,
         (a + d) % e # 0
  PROVE  (a + d) % e = (a % e) + d
<1> DEFINE q == a \div e
           r == a % e
<1>1. q \in Nat /\ r \in 0 .. e - 1 /\ a = (e * q) + r
  BY DivMod
<1>2. r + d <= e
  BY RoomForStep
<1> HIDE DEF q, r
<1>3. r + d # e
  <2>1. SUFFICES ASSUME r + d = e PROVE FALSE
    OBVIOUS
  <2>2. a + d = (q + 1) * e /\ q + 1 \in Nat
    BY <1>1, <2>1
  <2> QED BY <2>2, MultipleAligned
<1>4. a + d \in Nat /\ r + d \in 0 .. e - 1 /\ a + d = (e * q) + (r + d)
  BY <1>1, <1>2, <1>3
<1>5. (a + d) % e = r + d
  BY <1>1, <1>4, UniqueRemainder
<1> QED BY <1>5 DEF r

\* Nor does it leave the multiple of e that it began in, unless it reaches the next.
LEMMA SameUnit ==
  ASSUME NEW a \in Nat, NEW d \in Nat \ {0}, NEW e \in Nat \ {0}, a % d = 0, e % d = 0,
         (a + d) % e # 0
  PROVE  (a + d) \div e = a \div e
<1> DEFINE q == a \div e
           r == a % e
           s == (a + d) % e
<1>1. q \in Nat /\ a = (e * q) + r
  BY DivMod
<1>2. a + d \in Nat /\ s \in 0 .. e - 1
  BY DivMod
<1>3. s = r + d
  BY NextRemainder
<1>4. r \in Nat
  BY DivMod
<1> HIDE DEF q, r, s
<1>5. a + d = (e * q) + s
  BY <1>1, <1>3, <1>4
<1>6. (a + d) \div e = q
  BY <1>1, <1>2, <1>5, UniqueRemainder
<1> QED BY <1>6 DEF q

\* A product grows with its factor.
LEMMA ProductGrows ==
  ASSUME NEW a \in Nat, NEW b \in Nat, NEW c \in Nat, b <= c
  PROVE  a * b \in Nat /\ a * c \in Nat /\ a * b <= a * c
<1> DEFINE d == c - b
<1>1. d \in Nat /\ c = b + d
  OBVIOUS
<1> HIDE DEF d
<1>2. a * c = (a * b) + (a * d)
  BY <1>1
<1>3. a * b \in Nat /\ a * d \in Nat /\ a * c \in Nat
  BY <1>1
<1> QED BY <1>2, <1>3

-----------------------------------------------------------------------------
(***************************************************************************)
(* Sequences.                                                              *)
(***************************************************************************)

LEMMA FunctionIsSeq ==
  ASSUME NEW S, NEW n \in Nat, NEW f \in [1 .. n -> S]
  PROVE  f \in Seq(S) /\ Len(f) = n
OBVIOUS

\* A sequence one longer than another that it agrees with.
LEMMA OneMore ==
  ASSUME NEW S, NEW s \in Seq(S), NEW x \in S, NEW t \in Seq(S), Len(t) = Len(s) + 1,
         \A i \in 1 .. Len(s) : t[i] = s[i], t[Len(s) + 1] = x
  PROVE  t = Append(s, x)
<1> DEFINE u == Append(s, x)
           n == Len(s)
<1>1. n \in Nat
  BY LenProperties
<1>2. u \in Seq(S) /\ Len(u) = n + 1 /\ u[n + 1] = x /\ \A i \in 1 .. n : u[i] = s[i]
  BY AppendProperties
<1>3. \A i \in 1 .. n : t[i] = s[i]
  OBVIOUS
<1>4. Len(t) = n + 1 /\ t[n + 1] = x
  OBVIOUS
<1> HIDE DEF u, n
<1>5. \A i \in 1 .. n + 1 : i \in 1 .. n \/ i = n + 1
  BY <1>1
<1>6. \A i \in 1 .. n + 1 : t[i] = u[i]
  BY <1>2, <1>3, <1>4, <1>5
<1>7. Len(t) = Len(u) /\ \A i \in 1 .. Len(t) : t[i] = u[i]
  BY <1>2, <1>4, <1>6
<1>8. t = u
  BY <1>2, <1>7, SeqEqual
<1> QED BY <1>8 DEF u

\* Writing the element after a part of a sequence appends to the part.
LEMMA AppendToPart ==
  ASSUME NEW S, NEW s \in Seq(S), NEW a \in 1 .. Len(s), NEW b \in a .. Len(s), NEW v \in S
  PROVE  SubSeq([s EXCEPT ![b] = v], a, b) = Append(SubSeq(s, a, b - 1), v)
<1> DEFINE u == [s EXCEPT ![b] = v]
<1>1. b \in 1 .. Len(s) /\ a \in Nat /\ b \in Nat /\ b - 1 \in Int /\ a \in Int
  OBVIOUS
<1>2. /\ u \in Seq(S) /\ Len(u) = Len(s)
      /\ \A j \in 1 .. Len(s) : u[j] = IF j = b THEN v ELSE s[j]
  BY <1>1, ExceptSeq
<1> HIDE DEF u
<1>3. u[b] = v
  BY <1>1, <1>2
<1>4. \A i \in a .. b - 1 : u[i] = s[i] /\ s[i] \in S /\ u[i] \in S
  <2>1. \A i \in a .. b - 1 : i \in 1 .. Len(s) /\ i # b
    BY <1>1
  <2>2. \A i \in 1 .. Len(s) : s[i] \in S
    BY ElementOfSeq
  <2> QED BY <1>2, <2>1, <2>2
<1> DEFINE p == SubSeq(s, a, b - 1)
           q == SubSeq(u, a, b - 1)
<1>5. p = q
  <2>1. /\ p \in Seq(S) /\ Len(p) = IF a <= b - 1 THEN b - 1 - a + 1 ELSE 0
        /\ \A i \in 1 .. b - 1 - a + 1 : p[i] = s[a + i - 1]
    BY <1>1, <1>4, SubSeqProperties
  <2>2. /\ q \in Seq(S) /\ Len(q) = IF a <= b - 1 THEN b - 1 - a + 1 ELSE 0
        /\ \A i \in 1 .. b - 1 - a + 1 : q[i] = u[a + i - 1]
    BY <1>1, <1>4, SubSeqProperties
  <2> HIDE DEF p, q
  <2>3. \A i \in 1 .. Len(p) : i \in 1 .. b - 1 - a + 1 /\ a + i - 1 \in a .. b - 1
    BY <1>1, <2>1
  <2>4. \A i \in 1 .. Len(p) : p[i] = q[i]
    BY <1>4, <2>1, <2>2, <2>3
  <2> QED BY <2>1, <2>2, <2>4, SeqEqual
<1>6. SubSeq(u, a, b) = q \o <<u[b]>>
  BY <1>1, <1>2, SubSeqRecursiveSecond
<1>7. p \in Seq(S)
  BY <1>1, <1>4, SubSeqProperties
<1> HIDE DEF p, q
<1>8. p \o <<v>> = Append(p, v)
  BY <1>7, AppendIsConcat
<1> QED BY <1>3, <1>5, <1>6, <1>8 DEF u, p

-----------------------------------------------------------------------------
(***************************************************************************)
(* Sequences that are joined.                                              *)
(***************************************************************************)

\* What the local function of FlattenSeq() is.
Joins(g, s, n) == g = [i \in 1 .. n |-> IF i = 1 THEN s[i] ELSE g[i-1] \o s[i]]

\* There is such a function.
LEMMA JoinsExist ==
  ASSUME NEW s, NEW n \in Nat
  PROVE  \E g : Joins(g, s, n)
<1> DEFINE N == { k \in Nat : \E g : Joins(g, s, k) }
<1>1. 0 \in N
  <2> DEFINE g == [i \in 1 .. 0 |-> s]
  <2>1. Joins(g, s, 0)
    BY DEF Joins
  <2> QED BY <2>1
<1>2. ASSUME NEW k \in N PROVE k + 1 \in N
  <2>1. PICK g : Joins(g, s, k)
    BY <1>2
  <2>2. k \in Nat
    BY <1>2
  <2>3. \A i \in 1 .. k : g[i] = IF i = 1 THEN s[i] ELSE g[i-1] \o s[i]
    BY <2>1 DEF Joins
  <2> DEFINE last == IF k = 0 THEN s[1] ELSE g[k] \o s[k + 1]
             h == [i \in 1 .. k + 1 |-> IF i = k + 1 THEN last ELSE g[i]]
  <2>4. \A i \in 1 .. k + 1 : h[i] = IF i = k + 1 THEN last ELSE g[i]
    OBVIOUS
  <2> HIDE DEF h
  <2>5. ASSUME NEW i \in 1 .. k + 1
        PROVE  h[i] = IF i = 1 THEN s[i] ELSE h[i-1] \o s[i]
    <3>1. CASE i = k + 1
      <4>1. i = 1 <=> k = 0
        BY <2>2, <3>1
      <4>2. k # 0 => h[k] = g[k] /\ i - 1 = k
        BY <2>2, <2>4, <3>1
      <4> QED BY <2>4, <3>1, <4>1, <4>2
    <3>2. CASE i # k + 1
      <4>1. i \in 1 .. k
        BY <2>2, <2>5, <3>2
      <4>2. i # 1 => i - 1 \in 1 .. k + 1 /\ i - 1 # k + 1
        BY <2>2, <4>1
      <4> QED BY <2>3, <2>4, <3>2, <4>1, <4>2
    <3> QED BY <3>1, <3>2
  <2>6. h = [i \in 1 .. k + 1 |-> h[i]]
    BY DEF h
  <2>7. Joins(h, s, k + 1)
    BY <2>5, <2>6 DEF Joins
  <2> QED BY <2>2, <2>7
<1>3. N \in SUBSET Nat
  OBVIOUS
<1> HIDE DEF N
<1>4. N = Nat
  BY <1>1, <1>2, <1>3, InductiveSet
<1> QED BY <1>4 DEF N

\* Two of them agree as far as what they join does.
LEMMA JoinsAgree ==
  \A n, m \in Nat : n <= m =>
    \A s, g, t, h :
      Joins(g, s, n) /\ Joins(h, t, m) /\ (\A i \in 1 .. n : s[i] = t[i])
        => \A i \in 1 .. n : g[i] = h[i]
<1> TAKE n, m \in Nat
<1> HAVE n <= m
<1> TAKE s, g, t, h
<1> HAVE Joins(g, s, n) /\ Joins(h, t, m) /\ (\A i \in 1 .. n : s[i] = t[i])
<1> DEFINE N == { k \in Nat : k \in 1 .. n => g[k] = h[k] }
<1>1. \A i \in 1 .. n : /\ g[i] = IF i = 1 THEN s[i] ELSE g[i-1] \o s[i]
                        /\ h[i] = IF i = 1 THEN t[i] ELSE h[i-1] \o t[i]
  <2>1. \A i \in 1 .. n : i \in 1 .. m
    OBVIOUS
  <2> QED BY <2>1 DEF Joins
<1>2. 0 \in N
  OBVIOUS
<1>3. ASSUME NEW k \in N PROVE k + 1 \in N
  <2>1. SUFFICES ASSUME k + 1 \in 1 .. n PROVE g[k + 1] = h[k + 1]
    OBVIOUS
  <2>2. k \in Nat /\ (k + 1) - 1 = k /\ (k + 1 # 1 => k \in 1 .. n)
    BY <2>1
  <2>3. k + 1 # 1 => g[k] = h[k]
    BY <2>2
  <2>4. s[k + 1] = t[k + 1]
    BY <2>1
  <2> QED BY <1>1, <2>1, <2>2, <2>3, <2>4
<1>4. N \in SUBSET Nat
  OBVIOUS
<1> HIDE DEF N
<1>5. N = Nat
  BY <1>2, <1>3, <1>4, InductiveSet
<1> QED BY <1>5 DEF N

\* What they yield are sequences.
LEMMA JoinsType ==
  ASSUME NEW S, NEW s \in Seq(Seq(S)), NEW n \in 0 .. Len(s), NEW g, Joins(g, s, n)
  PROVE  \A i \in 1 .. n : g[i] \in Seq(S)
<1> DEFINE N == { k \in Nat : k \in 1 .. n => g[k] \in Seq(S) }
<1>1. \A i \in 1 .. n : g[i] = IF i = 1 THEN s[i] ELSE g[i-1] \o s[i]
  BY DEF Joins
<1>2. 0 \in N
  OBVIOUS
<1>3. ASSUME NEW k \in N PROVE k + 1 \in N
  <2>1. SUFFICES ASSUME k + 1 \in 1 .. n PROVE g[k + 1] \in Seq(S)
    OBVIOUS
  <2>2. k \in Nat /\ (k + 1) - 1 = k /\ (k + 1 # 1 => k \in 1 .. n) /\ k + 1 \in 1 .. Len(s)
    BY <2>1
  <2>3. k + 1 # 1 => g[k] \in Seq(S)
    BY <2>2
  <2>4. s[k + 1] \in Seq(S)
    BY <2>2, ElementOfSeq
  <2>5. k + 1 # 1 => g[k] \o s[k + 1] \in Seq(S)
    BY <2>3, <2>4, ConcatProperties
  <2> QED BY <1>1, <2>1, <2>2, <2>4, <2>5
<1>4. N \in SUBSET Nat
  OBVIOUS
<1> HIDE DEF N
<1>5. N = Nat
  BY <1>2, <1>3, <1>4, InductiveSet
<1> QED BY <1>5 DEF N

LEMMA FlattenIs ==
  ASSUME NEW S, NEW s \in Seq(S), s # <<>>
  PROVE  \E g : Joins(g, s, Len(s)) /\ FlattenSeq(s) = g[Len(s)]
<1>1. Len(s) # 0 /\ Len(s) \in Nat
  OBVIOUS
<1>2. FlattenSeq(s) = (CHOOSE g : Joins(g, s, Len(s)))[Len(s)]
  BY <1>1 DEF FlattenSeq, Joins
<1>3. \E g : Joins(g, s, Len(s))
  BY <1>1, JoinsExist
<1> QED BY <1>2, <1>3

LEMMA FlattenEmpty == FlattenSeq(<<>>) = <<>>
BY DEF FlattenSeq

\* Sequences are joined one after the other.
LEMMA FlattenAppend ==
  ASSUME NEW S, NEW s \in Seq(Seq(S)), NEW x \in Seq(S)
  PROVE  /\ FlattenSeq(s) \in Seq(S)
         /\ FlattenSeq(Append(s, x)) = FlattenSeq(s) \o x
<1> DEFINE t == Append(s, x)
<1>1. /\ t \in Seq(Seq(S)) /\ t # <<>> /\ Len(t) = Len(s) + 1 /\ Len(s) \in Nat
      /\ t[Len(s) + 1] = x /\ \A i \in 1 .. Len(s) : t[i] = s[i]
  BY AppendProperties, LenProperties
<1> HIDE DEF t
<1>2. PICK h : Joins(h, t, Len(t)) /\ FlattenSeq(t) = h[Len(t)]
  BY <1>1, FlattenIs
<1>3. h[Len(t)] = IF Len(t) = 1 THEN t[1] ELSE h[Len(t) - 1] \o t[Len(t)]
  <2>1. Len(t) \in 1 .. Len(t)
    BY <1>1
  <2> QED BY <1>2, <2>1 DEF Joins
<1>4. CASE s = <<>>
  <2>1. Len(t) = 1 /\ FlattenSeq(s) = <<>>
    BY <1>1, <1>4, FlattenEmpty
  <2>2. FlattenSeq(t) = x
    BY <1>1, <1>2, <1>3, <2>1
  <2> QED BY <2>1, <2>2, ConcatEmptySeq, EmptySeq DEF t
<1>5. CASE s # <<>>
  <2>1. PICK g : Joins(g, s, Len(s)) /\ FlattenSeq(s) = g[Len(s)]
    BY <1>5, FlattenIs
  <2>2. Len(s) \in 1 .. Len(s) /\ Len(t) - 1 = Len(s) /\ Len(t) # 1
    BY <1>1, <1>5
  <2>3. \A i \in 1 .. Len(s) : g[i] = h[i]
    <3>1. Len(s) <= Len(t) /\ Len(t) \in Nat
      BY <1>1
    <3>2. \A i \in 1 .. Len(s) : s[i] = t[i]
      BY <1>1
    <3>3. Len(s) \in Nat /\ Joins(g, s, Len(s)) /\ Joins(h, t, Len(t))
      BY <1>1, <1>2, <2>1
    <3> QED BY <3>1, <3>2, <3>3, JoinsAgree
  <2>4. FlattenSeq(t) = FlattenSeq(s) \o x
    BY <1>1, <1>2, <1>3, <2>1, <2>2, <2>3
  <2>5. FlattenSeq(s) \in Seq(S)
    BY <2>1, <2>2, JoinsType
  <2> QED BY <2>4, <2>5 DEF t
<1> QED BY <1>4, <1>5

\* The first ones, joined, are the beginning of all of them, joined.
LEMMA FlattenPrefix ==
  ASSUME NEW S, NEW s \in Seq(Seq(S)), NEW k \in 0 .. Len(s)
  PROVE  \E r \in Seq(S) : FlattenSeq(s) = FlattenSeq(SubSeq(s, 1, k)) \o r
<1> DEFINE p(n) == SubSeq(s, 1, n)
           N == { m \in Nat : k + m <= Len(s) =>
                    \E r \in Seq(S) : FlattenSeq(p(k + m)) = FlattenSeq(p(k)) \o r }
<1>1. Len(s) \in Nat /\ k \in Nat /\ p(Len(s)) = s
  BY LenProperties, SubSeqFull
<1>2. ASSUME NEW n \in 0 .. Len(s) PROVE p(n) \in Seq(Seq(S))
  <2>1. \A i \in 1 .. n : i \in 1 .. Len(s)
    BY <1>1
  <2>2. \A i \in 1 .. n : s[i] \in Seq(S)
    BY <2>1, ElementOfSeq
  <2> QED BY <1>2, <2>2, SubSeqProperties
<1>3. \A n \in 0 .. Len(s) : FlattenSeq(p(n)) \in Seq(S)
  <2>1. <<>> \in Seq(S)
    BY EmptySeq
  <2> HIDE DEF p
  <2> QED BY <1>2, <2>1, FlattenAppend
<1>4. 0 \in N
  <2>1. p(k + 0) = p(k) /\ FlattenSeq(p(k)) \in Seq(S)
    BY <1>1, <1>3
  <2>2. FlattenSeq(p(k)) = FlattenSeq(p(k)) \o <<>> /\ <<>> \in Seq(S)
    BY <2>1, ConcatEmptySeq, EmptySeq
  <2> HIDE DEF p
  <2> QED BY <2>1, <2>2
<1> HIDE DEF p
<1>5. ASSUME NEW m \in N PROVE m + 1 \in N
  <2>0. m \in Nat /\ m + 1 \in Nat
    OBVIOUS
  <2>1. SUFFICES ASSUME k + (m + 1) <= Len(s)
                 PROVE  \E r \in Seq(S) : FlattenSeq(p(k + (m + 1))) = FlattenSeq(p(k)) \o r
    BY <2>0
  <2>2. /\ m \in Nat /\ k + m \in 0 .. Len(s) /\ k + (m + 1) \in 1 .. Len(s)
        /\ (k + (m + 1)) - 1 = k + m /\ k + m <= Len(s)
    BY <1>1, <2>1
  <2>3. PICK r \in Seq(S) : FlattenSeq(p(k + m)) = FlattenSeq(p(k)) \o r
    BY <2>2
  <2> DEFINE x == s[k + (m + 1)]
             n == k + (m + 1)
  <2>4. x \in Seq(S) /\ p(k + m) \in Seq(Seq(S)) /\ FlattenSeq(p(k)) \in Seq(S)
    BY <1>2, <1>3, <2>2, ElementOfSeq
  <2>5. p(n) = p(n - 1) \o <<x>>
    <3>1. n \in 1 .. Len(s) /\ 1 \in 1 .. Len(s) /\ n \in 1 .. n
      BY <1>1, <2>2
    <3> QED BY <3>1, SubSeqRecursiveSecond DEF p
  <2> HIDE DEF x
  <2>6. p(n) = Append(p(k + m), x)
    BY <2>2, <2>4, <2>5, AppendIsConcat
  <2>7. FlattenSeq(p(n)) = FlattenSeq(p(k + m)) \o x
    BY <2>4, <2>6, FlattenAppend
  <2>8. (FlattenSeq(p(k)) \o r) \o x = FlattenSeq(p(k)) \o (r \o x) /\ r \o x \in Seq(S)
    <3>1. FlattenSeq(p(k)) \in Seq(S) /\ r \in Seq(S) /\ x \in Seq(S)
      BY <2>3, <2>4
    <3> QED BY <3>1, ConcatAssociative, ConcatProperties
  <2> QED BY <2>3, <2>7, <2>8
<1>6. N \in SUBSET Nat
  OBVIOUS
<1>7. Len(s) - k \in Nat /\ k + (Len(s) - k) = Len(s) /\ k + (Len(s) - k) <= Len(s)
  BY <1>1
<1>8. N = Nat
  <2> HIDE DEF N
  <2> QED BY <1>4, <1>5, <1>6, InductiveSet
<1>9. \E r \in Seq(S) : FlattenSeq(p(k + (Len(s) - k))) = FlattenSeq(p(k)) \o r
  <2>1. Len(s) - k \in N
    <3> HIDE DEF N
    <3> QED BY <1>7, <1>8
  <2> QED BY <1>7, <2>1
<1> QED BY <1>1, <1>7, <1>9 DEF p
=============================================================================
