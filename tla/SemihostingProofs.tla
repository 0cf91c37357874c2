-------------------------- MODULE SemihostingProofs --------------------------
(***************************************************************************)
(* Proofs about Semihosting, for a buffer of any capacity, texts of any    *)
(* length and any number of calls.                                         *)
(*                                                                         *)
(* The argument: each call of line_write() lengthens the log and what is   *)
(* buffered by what is visible of the text it was given, wherever it cuts  *)
(* it; the proofs follow how visible_of() distributes over such cuts.      *)
(***************************************************************************)
EXTENDS Semihosting, BasicLemmas

\* The inductive invariant.
IInv == TypeOK /\ LogIsComplete

-----------------------------------------------------------------------------
(***************************************************************************)
(* Sequences.                                                              *)
(***************************************************************************)

\* A sequence is what precedes a cut and what follows it.
LEMMA Cut ==
  ASSUME NEW S, NEW s \in Seq(S), NEW n \in 0 .. Len(s)
  PROVE  /\ SubSeq(s, 1, n) \in Seq(S) /\ SubSeq(s, n + 1, Len(s)) \in Seq(S)
         /\ Len(SubSeq(s, 1, n)) = n
         /\ Len(SubSeq(s, n + 1, Len(s))) = Len(s) - n
         /\ \A i \in 1 .. Len(s) - n : SubSeq(s, n + 1, Len(s))[i] = s[n + i]
         /\ SubSeq(s, 1, n) \o SubSeq(s, n + 1, Len(s)) = s
<1> DEFINE m == Len(s)
<1>1. m \in Nat /\ n \in Nat /\ n <= m
  BY LenProperties
<1>2. \A i \in 1 .. m : s[i] \in S
  BY ElementOfSeq
<1> HIDE DEF m
<1>3. \A i \in 1 .. n : i \in 1 .. m
  BY <1>1
<1>4. \A i \in n + 1 .. m : i \in 1 .. m
  BY <1>1
<1>5. SubSeq(s, 1, n) \in Seq(S) /\ Len(SubSeq(s, 1, n)) = n
  <2>1. \A i \in 1 .. n : s[i] \in S
    BY <1>2, <1>3
  <2>2. SubSeq(s, 1, n) \in Seq(S) /\ Len(SubSeq(s, 1, n)) = IF 1 <= n THEN n - 1 + 1 ELSE 0
    BY <1>1, <2>1, SubSeqProperties
  <2> QED BY <1>1, <2>2
<1>6. /\ SubSeq(s, n + 1, m) \in Seq(S)
      /\ Len(SubSeq(s, n + 1, m)) = m - n
      /\ \A i \in 1 .. m - n : SubSeq(s, n + 1, m)[i] = s[n + i]
  <2>1. \A i \in n + 1 .. m : s[i] \in S
    BY <1>2, <1>4
  <2>2. n + 1 \in Int /\ m \in Int
    BY <1>1
  <2>3. /\ SubSeq(s, n + 1, m) \in Seq(S)
        /\ Len(SubSeq(s, n + 1, m)) = IF n + 1 <= m THEN m - (n + 1) + 1 ELSE 0
        /\ \A i \in 1 .. m - (n + 1) + 1 : SubSeq(s, n + 1, m)[i] = s[(n + 1) + i - 1]
    BY <2>1, <2>2, SubSeqProperties
  <2>4. m - (n + 1) + 1 = m - n /\ ~(n + 1 <= m) => m - n = 0
    BY <1>1
  <2>5. \A i \in 1 .. m - n : (n + 1) + i - 1 = n + i
    BY <1>1
  <2>6. m - (n + 1) + 1 = m - n
    BY <1>1
  <2> QED BY <1>1, <2>3, <2>4, <2>5, <2>6
<1>7. SubSeq(s, 1, n) \o SubSeq(s, n + 1, m) = s
  <2>1. 1 \in 1 .. m + 1 /\ n \in 1 - 1 .. m /\ m \in n .. m
    BY <1>1
  <2>2. SubSeq(s, 1, n) \o SubSeq(s, n + 1, m) = SubSeq(s, 1, m)
    BY <2>1, ConcatAdjacentSubSeq DEF m
  <2>3. SubSeq(s, 1, m) = s
    BY SubSeqFull DEF m
  <2> QED BY <2>2, <2>3
<1> QED BY <1>5, <1>6, <1>7 DEF m

\* The sequences that f makes of the elements of s, joined.
FlattenMap(f, s) == FlattenSeq([i \in DOMAIN s |-> f[s[i]]])

LEMMA FlattenMapType ==
  ASSUME NEW A, NEW S, NEW f \in [A -> Seq(S)], NEW s \in Seq(A)
  PROVE  FlattenMap(f, s) \in Seq(S)
<1> DEFINE n == Len(s)
           p == [i \in DOMAIN s |-> f[s[i]]]
<1>1. n \in Nat /\ DOMAIN s = 1 .. n /\ \A i \in 1 .. n : s[i] \in A
  BY LenProperties, ElementOfSeq
<1> HIDE DEF n
<1>2. p \in [1 .. n -> Seq(S)]
  BY <1>1
<1>3. FlattenMap(f, s) = FlattenSeq(p)
  BY DEF FlattenMap
<1> HIDE DEF p
<1>4. p \in Seq(Seq(S)) /\ <<>> \in Seq(S)
  BY <1>1, <1>2, FunctionIsSeq, EmptySeq
<1>5. FlattenSeq(p) \in Seq(S)
  BY <1>4, FlattenAppend
<1> QED BY <1>3, <1>5

LEMMA FlattenMapAppend ==
  \A A, S, f, s, x :
    f \in [A -> Seq(S)] /\ s \in Seq(A) /\ x \in A
    => FlattenMap(f, Append(s, x)) = FlattenMap(f, s) \o f[x]
<1> TAKE A, S, f, s, x
<1>0. HAVE f \in [A -> Seq(S)] /\ s \in Seq(A) /\ x \in A
<1> DEFINE n == Len(s)
           d == Append(s, x)
           p == [i \in DOMAIN s |-> f[s[i]]]
           q == [i \in DOMAIN d |-> f[d[i]]]
<1>1. n \in Nat /\ DOMAIN s = 1 .. n /\ \A i \in 1 .. n : s[i] \in A
  BY <1>0, LenProperties, ElementOfSeq
<1>2. /\ d \in Seq(A) /\ Len(d) = n + 1 /\ d[n + 1] = x
      /\ \A i \in 1 .. n : d[i] = s[i]
  BY <1>0, AppendProperties
<1>3. DOMAIN d = 1 .. n + 1 /\ \A i \in 1 .. n + 1 : d[i] \in A
  BY <1>2, LenProperties, ElementOfSeq
<1> HIDE DEF d, n
<1>4. p \in Seq(Seq(S)) /\ Len(p) = n /\ \A i \in 1 .. n : p[i] = f[s[i]]
  <2>1. p \in [1 .. n -> Seq(S)] /\ \A i \in 1 .. n : p[i] = f[s[i]]
    BY <1>0, <1>1
  <2> HIDE DEF p
  <2> QED BY <1>1, <2>1, FunctionIsSeq
<1>5. q \in Seq(Seq(S)) /\ Len(q) = n + 1 /\ \A i \in 1 .. n + 1 : q[i] = f[d[i]]
  <2>1. q \in [1 .. n + 1 -> Seq(S)] /\ \A i \in 1 .. n + 1 : q[i] = f[d[i]]
    BY <1>0, <1>3
  <2>2. n + 1 \in Nat
    BY <1>1
  <2> HIDE DEF q
  <2> QED BY <2>1, <2>2, FunctionIsSeq
<1>6. FlattenMap(f, s) = FlattenSeq(p) /\ FlattenMap(f, d) = FlattenSeq(q)
  BY DEF FlattenMap
<1> HIDE DEF p, q
<1>7. q = Append(p, f[x])
  <2>1. \A i \in 1 .. n : i \in 1 .. n + 1
    BY <1>1
  <2>2. n + 1 \in 1 .. n + 1
    BY <1>1
  <2>3. \A i \in 1 .. Len(p) : q[i] = p[i]
    BY <1>2, <1>4, <1>5, <2>1
  <2>4. q[Len(p) + 1] = f[x] /\ Len(q) = Len(p) + 1
    BY <1>2, <1>4, <1>5, <2>2
  <2>5. f[x] \in Seq(S)
    BY <1>0
  <2> QED BY <1>4, <1>5, <2>3, <2>4, <2>5, OneMore
<1>8. FlattenSeq(q) = FlattenSeq(p) \o f[x]
  <2>1. f[x] \in Seq(S)
    BY <1>0
  <2> QED BY <1>4, <1>7, <2>1, FlattenAppend
<1> QED BY <1>6, <1>8 DEF d

-----------------------------------------------------------------------------
(***************************************************************************)
(* What is visible.                                                        *)
(***************************************************************************)

LEMMA ShownType == \A b \in Text : shown(b) \in Seq(Visible)
<1> SUFFICES ASSUME NEW b \in Text PROVE shown(b) \in Seq(Visible)
  OBVIOUS
<1>1. CASE b \in Visible
  BY <1>1 DEF shown
<1>2. CASE b \notin Visible
  BY <1>2, EmptySeq DEF shown
<1> QED BY <1>1, <1>2

LEMMA VisibleEmpty == visible_of(<<>>) = <<>>
<1>1. [i \in DOMAIN <<>> |-> shown(<<>>[i])] = <<>>
  OBVIOUS
<1> QED BY <1>1, FlattenEmpty DEF visible_of

\* A byte adds what is visible of it.
LEMMA VisibleAppend ==
  ASSUME NEW s \in Seq(Text), NEW b \in Text
  PROVE  /\ visible_of(s) \in Seq(Visible)
         /\ visible_of(Append(s, b)) = visible_of(s) \o shown(b)
<1> DEFINE f == [x \in Text |-> shown(x)]
<1>1. f \in [Text -> Seq(Visible)] /\ \A x \in Text : f[x] = shown(x)
  BY ShownType
<1> HIDE DEF f
<1>2. ASSUME NEW t \in Seq(Text)
      PROVE  visible_of(t) = FlattenMap(f, t)
  <2>1. \A i \in DOMAIN t : t[i] \in Text
    BY <1>2, LenProperties, ElementOfSeq
  <2>2. [i \in DOMAIN t |-> shown(t[i])] = [i \in DOMAIN t |-> f[t[i]]]
    BY <1>1, <2>1
  <2> QED BY <2>2 DEF visible_of, FlattenMap
<1>3. Append(s, b) \in Seq(Text)
  BY AppendProperties
<1>4. FlattenMap(f, s) \in Seq(Visible) /\ FlattenMap(f, Append(s, b)) = FlattenMap(f, s) \o f[b]
  <2>1. f \in [Text -> Seq(Visible)] /\ s \in Seq(Text) /\ b \in Text
    BY <1>1
  <2>2. FlattenMap(f, s) \in Seq(Visible)
    BY <2>1, FlattenMapType
  <2>3. FlattenMap(f, Append(s, b)) = FlattenMap(f, s) \o f[b]
    BY <2>1, FlattenMapAppend
  <2> QED BY <2>2, <2>3
<1> QED BY <1>1, <1>2, <1>3, <1>4

LEMMA VisibleType ==
  ASSUME NEW s \in Seq(Text)
  PROVE  visible_of(s) \in Seq(Visible)
<1>1. CASE Text = {}
  <2>1. s = <<>>
    BY <1>1
  <2> QED BY <2>1, VisibleEmpty, EmptySeq
<1>2. CASE Text # {}
  <2>1. PICK b \in Text : TRUE
    BY <1>2
  <2> QED BY <2>1, VisibleAppend
<1> QED BY <1>1, <1>2

\* The visible parts of two texts are joined like the texts.
LEMMA VisibleConcat ==
  \A s, t \in Seq(Text) : visible_of(s \o t) = visible_of(s) \o visible_of(t)
<1> DEFINE N == { n \in Nat : \A s, t \in Seq(Text) :
                    Len(t) = n => visible_of(s \o t) = visible_of(s) \o visible_of(t) }
<1>1. 0 \in N
  <2>1. SUFFICES ASSUME NEW s \in Seq(Text), NEW t \in Seq(Text), Len(t) = 0
                 PROVE  visible_of(s \o t) = visible_of(s) \o visible_of(t)
    OBVIOUS
  <2>2. t = <<>>
    BY <2>1, EmptySeq
  <2>3. s \o t = s
    BY <2>2, ConcatEmptySeq
  <2>4. visible_of(t) = <<>> /\ visible_of(s) \in Seq(Visible)
    BY <2>2, VisibleEmpty, VisibleType
  <2> QED BY <2>3, <2>4, ConcatEmptySeq
<1>2. ASSUME NEW n \in N PROVE n + 1 \in N
  <2>0. n \in Nat /\ n + 1 \in Nat
    OBVIOUS
  <2>1. SUFFICES ASSUME NEW s \in Seq(Text), NEW t \in Seq(Text), Len(t) = n + 1
                 PROVE  visible_of(s \o t) = visible_of(s) \o visible_of(t)
    BY <2>0
  <2>2. t # <<>>
    BY <2>0, <2>1, EmptySeq
  <2>3. PICK u \in Seq(Text), x \in Text : t = Append(u, x)
    BY <2>2, SequenceEmptyOrAppend
  <2>4. Len(u) = n
    <3>1. Len(t) = Len(u) + 1 /\ Len(u) \in Nat
      BY <2>3, AppendProperties, LenProperties
    <3> QED BY <2>0, <2>1, <3>1
  <2>5. visible_of(s \o u) = visible_of(s) \o visible_of(u)
    BY <2>4
  <2>6. s \o u \in Seq(Text)
    BY ConcatProperties
  <2>7. s \o t = Append(s \o u, x)
    <3>1. t = u \o <<x>> /\ <<x>> \in Seq(Text)
      BY <2>3, AppendIsConcat
    <3>2. (s \o u) \o <<x>> = s \o (u \o <<x>>)
      BY <3>1, ConcatAssociative
    <3>3. Append(s \o u, x) = (s \o u) \o <<x>>
      BY <2>6, AppendIsConcat
    <3> QED BY <3>1, <3>2, <3>3
  <2>8. visible_of(s \o t) = (visible_of(s) \o visible_of(u)) \o shown(x)
    BY <2>5, <2>6, <2>7, VisibleAppend
  <2>9. visible_of(t) = visible_of(u) \o shown(x)
    BY <2>3, VisibleAppend
  <2>10. visible_of(s) \in Seq(Visible) /\ visible_of(u) \in Seq(Visible) /\ shown(x) \in Seq(Visible)
    BY VisibleType, ShownType
  <2>11. (visible_of(s) \o visible_of(u)) \o shown(x) = visible_of(s) \o (visible_of(u) \o shown(x))
    BY <2>10, ConcatAssociative
  <2> QED BY <2>8, <2>9, <2>11
<1>3. N \in SUBSET Nat
  OBVIOUS
<1>4. N = Nat
  <2> HIDE DEF N
  <2> QED BY <1>1, <1>2, <1>3, InductiveSet
<1> SUFFICES ASSUME NEW s \in Seq(Text), NEW t \in Seq(Text)
             PROVE  visible_of(s \o t) = visible_of(s) \o visible_of(t)
  OBVIOUS
<1>5. Len(t) \in N
  <2>1. Len(t) \in Nat
    BY LenProperties
  <2> HIDE DEF N
  <2> QED BY <1>4, <2>1
<1> QED BY <1>5

\* Nothing is visible of newlines.
LEMMA VisibleNone ==
  \A t \in Seq(Text) : (\A i \in 1 .. Len(t) : t[i] \notin Visible) => visible_of(t) = <<>>
<1> DEFINE N == { n \in Nat : \A t \in Seq(Text) :
                    /\ Len(t) = n
                    /\ \A i \in 1 .. n : t[i] \notin Visible
                    => visible_of(t) = <<>> }
<1>1. 0 \in N
  <2>1. SUFFICES ASSUME NEW t \in Seq(Text), Len(t) = 0
                 PROVE  visible_of(t) = <<>>
    OBVIOUS
  <2>2. t = <<>>
    BY <2>1, EmptySeq
  <2> QED BY <2>2, VisibleEmpty
<1>2. ASSUME NEW n \in N PROVE n + 1 \in N
  <2>0. n \in Nat /\ n + 1 \in Nat /\ n + 1 \in 1 .. n + 1 /\ \A i \in 1 .. n : i \in 1 .. n + 1
    OBVIOUS
  <2>1. SUFFICES ASSUME NEW t \in Seq(Text), Len(t) = n + 1,
                        \A i \in 1 .. n + 1 : t[i] \notin Visible
                 PROVE  visible_of(t) = <<>>
    BY <2>0
  <2>2. t # <<>>
    BY <2>0, <2>1, EmptySeq
  <2>3. PICK u \in Seq(Text), x \in Text : t = Append(u, x)
    BY <2>2, SequenceEmptyOrAppend
  <2>4. Len(u) = n
    <3>1. Len(t) = Len(u) + 1 /\ Len(u) \in Nat
      BY <2>3, AppendProperties, LenProperties
    <3> QED BY <2>0, <2>1, <3>1
  <2>5. x \notin Visible /\ \A i \in 1 .. n : u[i] \notin Visible
    <3>1. t[n + 1] = x /\ \A i \in 1 .. n : t[i] = u[i]
      BY <2>3, <2>4, AppendProperties
    <3> QED BY <2>0, <2>1, <3>1
  <2>6. visible_of(u) = <<>>
    BY <2>4, <2>5
  <2>7. shown(x) = <<>>
    BY <2>5 DEF shown
  <2>8. visible_of(t) = <<>> \o <<>>
    BY <2>3, <2>6, <2>7, VisibleAppend
  <2> QED BY <2>8
<1>3. N \in SUBSET Nat
  OBVIOUS
<1>4. N = Nat
  <2> HIDE DEF N
  <2> QED BY <1>1, <1>2, <1>3, InductiveSet
<1> SUFFICES ASSUME NEW t \in Seq(Text), \A i \in 1 .. Len(t) : t[i] \notin Visible
             PROVE  visible_of(t) = <<>>
  OBVIOUS
<1>5. Len(t) \in N
  <2>1. Len(t) \in Nat
    BY LenProperties
  <2> HIDE DEF N
  <2> QED BY <1>4, <2>1
<1> QED BY <1>5

-----------------------------------------------------------------------------
(***************************************************************************)
(* The log.                                                                *)
(***************************************************************************)

LEMMA LastNewline ==
  ASSUME NEW s \in Seq(Text)
  PROVE  /\ last_newline(s) \in 0 .. Len(s)
         /\ \A i \in 1 .. Len(s) - last_newline(s) : s[last_newline(s) + i] # Newline
<1> DEFINE m == Len(s)
           I == { i \in 1 .. m : s[i] = Newline }
           n == last_newline(s)
<1>1. m \in Nat
  BY LenProperties
<1>2. n = IF I # {} THEN Max(I) ELSE 0
  BY DEF last_newline, SelectLastInSeq
<1>3. I \in SUBSET Nat /\ (\A i \in I : i <= m) /\ I \subseteq 1 .. m
  BY <1>1
<1>4. \A i \in 1 .. m : s[i] = Newline => i \in I
  OBVIOUS
<1> HIDE DEF I, m, n
<1>5. n \in 0 .. m /\ \A i \in I : i <= n
  <2>1. CASE I = {}
    BY <1>1, <1>2, <2>1
  <2>2. CASE I # {}
    <3>1. Max(I) \in I /\ \A i \in I : i <= Max(I)
      BY <1>1, <1>3, <2>2, MaxIsGreatest
    <3>2. n = Max(I) /\ Max(I) \in 1 .. m
      BY <1>2, <1>3, <2>2, <3>1
    <3>3. n \in 1 .. m /\ \A i \in I : i <= n
      BY <3>1, <3>2
    <3> QED BY <1>1, <3>3
  <2> QED BY <2>1, <2>2
<1>6. ASSUME NEW i \in 1 .. m - n
      PROVE  s[n + i] # Newline
  <2>1. n + i \in 1 .. m /\ ~(n + i <= n)
    BY <1>1, <1>5
  <2> QED BY <1>4, <1>5, <2>1
<1> QED BY <1>5, <1>6 DEF m, n

\* Only what is not visible is cut off the end of an entry.
LEMMA LoggedVisible ==
  ASSUME NEW s \in Seq(Text)
  PROVE  logged(s) \in Seq(Text) /\ visible_of(logged(s)) = visible_of(s)
<1> DEFINE m == Len(s)
           I == { i \in 1 .. m : s[i] \in Visible }
           n == IF I # {} THEN Max(I) ELSE 0
           a == SubSeq(s, 1, n)
           b == SubSeq(s, n + 1, m)
<1>1. m \in Nat
  BY LenProperties
<1>2. logged(s) = a
  BY DEF logged, SelectLastInSeq
<1>3. I \in SUBSET Nat /\ (\A i \in I : i <= m) /\ I \subseteq 1 .. m
  BY <1>1
<1>4. \A i \in 1 .. m : s[i] \in Visible => i \in I
  OBVIOUS
<1> HIDE DEF I
<1>5. n \in 0 .. m /\ \A i \in I : i <= n
  <2>1. CASE I = {}
    BY <1>1, <2>1
  <2>2. CASE I # {}
    <3>1. Max(I) \in I /\ \A i \in I : i <= Max(I)
      BY <1>1, <1>3, <2>2, MaxIsGreatest
    <3>2. n = Max(I) /\ Max(I) \in 1 .. m
      BY <1>3, <2>2, <3>1
    <3> HIDE DEF n
    <3>3. n \in 1 .. m /\ \A i \in I : i <= n
      BY <3>1, <3>2
    <3> QED BY <1>1, <3>3
  <2> QED BY <2>1, <2>2
<1> HIDE DEF n
<1>6. /\ a \in Seq(Text) /\ b \in Seq(Text) /\ a \o b = s /\ Len(b) = m - n
      /\ \A i \in 1 .. m - n : b[i] = s[n + i]
  BY <1>5, Cut
<1> HIDE DEF a, b, m
<1>7. ASSUME NEW i \in 1 .. m - n
      PROVE  s[n + i] \notin Visible
  <2>1. n + i \in 1 .. m /\ ~(n + i <= n)
    BY <1>1, <1>5
  <2> QED BY <1>4, <1>5, <2>1
<1>8. visible_of(b) = <<>>
  BY <1>6, <1>7, VisibleNone
<1>9. visible_of(s) = visible_of(a) \o <<>>
  BY <1>6, <1>8, VisibleConcat
<1>10. visible_of(a) \in Seq(Visible)
  BY <1>6, VisibleType
<1>11. visible_of(s) = visible_of(a)
  BY <1>9, <1>10, ConcatEmptySeq
<1> QED BY <1>2, <1>6, <1>11

\* An entry lengthens the log by what is visible of it.
LEMMA LogAppend ==
  ASSUME NEW e \in Seq(Seq(Text)), NEW x \in Seq(Text)
  PROVE  /\ log_of(e) \in Seq(Text)
         /\ Append(e, x) \in Seq(Seq(Text))
         /\ visible_of(log_of(Append(e, x))) = visible_of(log_of(e)) \o visible_of(x)
<1> DEFINE f == [y \in Seq(Text) |-> logged(y)]
<1>1. f \in [Seq(Text) -> Seq(Text)] /\ \A y \in Seq(Text) : f[y] = logged(y)
  BY LoggedVisible
<1> HIDE DEF f
<1>2. ASSUME NEW t \in Seq(Seq(Text))
      PROVE  log_of(t) = FlattenMap(f, t)
  <2>1. \A i \in DOMAIN t : t[i] \in Seq(Text)
    BY <1>2, LenProperties, ElementOfSeq
  <2>2. [i \in DOMAIN t |-> logged(t[i])] = [i \in DOMAIN t |-> f[t[i]]]
    BY <1>1, <2>1
  <2> QED BY <2>2 DEF log_of, FlattenMap
<1>3. Append(e, x) \in Seq(Seq(Text))
  BY AppendProperties
<1>4. FlattenMap(f, e) \in Seq(Text) /\ FlattenMap(f, Append(e, x)) = FlattenMap(f, e) \o f[x]
  <2>1. f \in [Seq(Text) -> Seq(Text)] /\ e \in Seq(Seq(Text)) /\ x \in Seq(Text)
    BY <1>1
  <2>2. FlattenMap(f, e) \in Seq(Text)
    BY <2>1, FlattenMapType
  <2>3. FlattenMap(f, Append(e, x)) = FlattenMap(f, e) \o f[x]
    BY <2>1, FlattenMapAppend
  <2> QED BY <2>2, <2>3
<1>5. log_of(e) \in Seq(Text) /\ log_of(Append(e, x)) = log_of(e) \o logged(x)
  BY <1>1, <1>2, <1>3, <1>4
<1>6. logged(x) \in Seq(Text) /\ visible_of(logged(x)) = visible_of(x)
  BY LoggedVisible
<1>7. visible_of(log_of(e) \o logged(x)) = visible_of(log_of(e)) \o visible_of(logged(x))
  BY <1>5, <1>6, VisibleConcat
<1> QED BY <1>3, <1>5, <1>6, <1>7

LEMMA LogType ==
  ASSUME NEW e \in Seq(Seq(Text))
  PROVE  log_of(e) \in Seq(Text)
<1>1. <<>> \in Seq(Text)
  BY EmptySeq
<1> QED BY <1>1, LogAppend

-----------------------------------------------------------------------------
(***************************************************************************)
(* The LineWriter.                                                         *)
(***************************************************************************)

LEMMA VisibleIsText ==
  ASSUME NEW s \in Seq(Visible)
  PROVE  s \in Seq(Text)
<1>1. Visible \subseteq Text
  BY DEF Text
<1> QED BY <1>1, SeqMonotonic

\* What is written and what is buffered, seen together.
LEMMA LogAndBuffer ==
  ASSUME NEW e \in Seq(Seq(Text)), NEW b \in Seq(Text)
  PROVE  visible_of(log_of(e) \o b) = visible_of(log_of(e)) \o visible_of(b)
<1>1. log_of(e) \in Seq(Text)
  BY LogType
<1> QED BY <1>1, VisibleConcat

\* A flush moves the buffer to the log.
LEMMA Flushed ==
  ASSUME entries \in Seq(Seq(Text)), buffer \in Seq(Visible)
  PROVE  /\ flushed(entries) \in Seq(Seq(Text))
         /\ visible_of(log_of(flushed(entries))) = visible_of(log_of(entries)) \o visible_of(buffer)
<1>1. buffer \in Seq(Text)
  BY VisibleIsText
<1>2. CASE buffer = <<>>
  <2>1. flushed(entries) = entries
    BY <1>2 DEF flushed
  <2>2. visible_of(log_of(entries)) \in Seq(Visible)
    BY LogType, VisibleType
  <2>3. visible_of(buffer) = <<>>
    BY <1>2, VisibleEmpty
  <2> QED BY <2>1, <2>2, <2>3, ConcatEmptySeq
<1>3. CASE buffer # <<>>
  <2>1. flushed(entries) = Append(entries, buffer)
    BY <1>3 DEF flushed
  <2> QED BY <1>1, <2>1, LogAppend
<1> QED BY <1>2, <1>3

\* An entry written at once follows what was buffered.
LEMMA FlushedLine ==
  ASSUME entries \in Seq(Seq(Text)), buffer \in Seq(Visible), NEW x \in Seq(Text)
  PROVE  /\ flushed(entries) \o <<x>> \in Seq(Seq(Text))
         /\ visible_of(log_of(flushed(entries) \o <<x>>))
              = (visible_of(log_of(entries)) \o visible_of(buffer)) \o visible_of(x)
<1>1. /\ flushed(entries) \in Seq(Seq(Text))
      /\ visible_of(log_of(flushed(entries))) = visible_of(log_of(entries)) \o visible_of(buffer)
  BY Flushed
<1>2. flushed(entries) \o <<x>> = Append(flushed(entries), x)
  <2> DEFINE S == Seq(Text)
  <2>1. flushed(entries) \in Seq(S) /\ x \in S
    BY <1>1
  <2> HIDE DEF S
  <2> QED BY <2>1, AppendIsConcat
<1>3. /\ Append(flushed(entries), x) \in Seq(Seq(Text))
      /\ visible_of(log_of(Append(flushed(entries), x)))
           = visible_of(log_of(flushed(entries))) \o visible_of(x)
  BY <1>1, LogAppend
<1> QED BY <1>1, <1>2, <1>3

\* A text is its complete lines and a rest without a newline.
LEMMA Lines ==
  ASSUME NEW text \in Seq(Text)
  PROVE  LET n    == last_newline(text)
             head == SubSeq(text, 1, n)
             tail == SubSeq(text, n + 1, Len(text))
         IN  /\ n \in 0 .. Len(text) /\ Len(text) \in Nat
             /\ head \in Seq(Text)
             /\ tail \in Seq(Visible) /\ Len(tail) = Len(text) - n
             /\ head \o tail = text
             /\ n = 0 => tail = text
             /\ visible_of(text) = visible_of(head) \o visible_of(tail)
<1> DEFINE n == last_newline(text)
           m == Len(text)
           head == SubSeq(text, 1, n)
           tail == SubSeq(text, n + 1, m)
<1>1. m \in Nat
  BY LenProperties
<1>2. n \in 0 .. m /\ \A i \in 1 .. m - n : text[n + i] # Newline
  BY LastNewline
<1> HIDE DEF n
<1>3. /\ head \in Seq(Text) /\ tail \in Seq(Text) /\ Len(tail) = m - n
      /\ \A i \in 1 .. m - n : tail[i] = text[n + i]
      /\ head \o tail = text
  BY <1>2, Cut
<1>4. n = 0 => tail = text
  BY SubSeqFull
<1> HIDE DEF head, tail, m
<1>5. tail \in Seq(Visible)
  <2>1. ASSUME NEW i \in 1 .. m - n
        PROVE  tail[i] \in Visible
    <3>1. tail[i] \in Text
      BY <1>3, <2>1, ElementOfSeq
    <3>2. tail[i] # Newline
      BY <1>2, <1>3, <2>1
    <3> QED BY <3>1, <3>2 DEF Text
  <2>2. tail \in [1 .. m - n -> Visible]
    <3>1. tail \in [1 .. m - n -> Text]
      BY <1>3, LenProperties
    <3> QED BY <2>1, <3>1
  <2>3. m - n \in Nat
    BY <1>1, <1>2
  <2> QED BY <2>2, <2>3, FunctionIsSeq
<1>6. visible_of(text) = visible_of(head) \o visible_of(tail)
  BY <1>3, VisibleConcat
<1> QED BY <1>1, <1>2, <1>3, <1>4, <1>5, <1>6 DEF n, m, head, tail

\* Three visible texts after one another.
LEMMA Three ==
  ASSUME NEW a \in Seq(Visible), NEW b \in Seq(Visible), NEW c \in Seq(Visible)
  PROVE  (a \o b) \o c = a \o (b \o c) /\ a \o b \in Seq(Visible)
BY ConcatAssociative, ConcatProperties

\* A call of line_write() keeps the buffer within bounds and free of newlines, and
\* lengthens what is logged and buffered by what is visible of the text it takes.
LEMMA LineWrite ==
  ASSUME TypeOK, NEW text \in Seq(Text), line_write(text)
  PROVE  /\ entries' \in Seq(Seq(Text)) /\ buffer' \in Seq(Visible) /\ Len(buffer') <= CAPACITY
         /\ visible_of(log_of(entries') \o buffer')
              = visible_of(log_of(entries) \o buffer) \o visible_of(passed_on(text))
<1> DEFINE n == last_newline(text)
           m == Len(text)
           head == SubSeq(text, 1, n)
           tail == SubSeq(text, n + 1, m)
           L == visible_of(log_of(entries))
           B == visible_of(buffer)
<1>1. /\ n \in 0 .. m /\ m \in Nat
      /\ head \in Seq(Text)
      /\ tail \in Seq(Visible) /\ Len(tail) = m - n
      /\ n = 0 => tail = text
      /\ visible_of(text) = visible_of(head) \o visible_of(tail)
  BY Lines
<1>2. passed_on(text) = IF n > 0 /\ m - n >= CAPACITY THEN head ELSE text
  BY DEF passed_on
<1>3. IF Len(tail) >= CAPACITY
      THEN /\ entries' = flushed(entries) \o (IF n > 0 THEN << head >> ELSE << text >>)
           /\ buffer' = <<>>
      ELSE /\ entries' = (IF flushes(text) THEN flushed(entries) ELSE entries)
                           \o (IF n > 0 THEN << head >> ELSE <<>>)
           /\ buffer' = (IF flushes(text) THEN <<>> ELSE buffer) \o tail
  BY DEF line_write
<1>4. flushes(text) <=> n > 0 \/ Len(buffer) + m > CAPACITY
  BY DEF flushes
<1>5. /\ entries \in Seq(Seq(Text)) /\ buffer \in Seq(Visible) /\ Len(buffer) <= CAPACITY
      /\ Len(buffer) \in Nat /\ CAPACITY \in Nat \ {0}
  BY SemihostingAssumption, LenProperties DEF TypeOK
<1>6. tail \in Seq(Text) /\ buffer \in Seq(Text) /\ <<>> \in Seq(Text) /\ <<>> \in Seq(Visible)
  BY <1>1, <1>5, VisibleIsText, EmptySeq
<1> HIDE DEF n, m, head, tail
<1>7. /\ L \in Seq(Visible) /\ B \in Seq(Visible) /\ visible_of(head) \in Seq(Visible)
      /\ visible_of(tail) \in Seq(Visible) /\ visible_of(text) \in Seq(Visible)
  BY <1>1, <1>5, <1>6, LogType, VisibleType
<1>8. visible_of(log_of(entries) \o buffer) = L \o B
  BY <1>5, <1>6, LogAndBuffer
<1>9. SUFFICES /\ entries' \in Seq(Seq(Text)) /\ buffer' \in Seq(Visible) /\ Len(buffer') <= CAPACITY
               /\ visible_of(log_of(entries')) \o visible_of(buffer')
                    = (L \o B) \o visible_of(passed_on(text))
  <2>1. buffer' \in Seq(Visible) => buffer' \in Seq(Text)
    BY VisibleIsText
  <2>2. entries' \in Seq(Seq(Text)) /\ buffer' \in Seq(Visible)
        => visible_of(log_of(entries') \o buffer') = visible_of(log_of(entries')) \o visible_of(buffer')
    BY <2>1, LogAndBuffer
  <2> HIDE DEF L, B
  <2> QED BY <1>8, <2>2
<1> HIDE DEF L, B
<1>10. ASSUME NEW x \in Seq(Text), entries' = flushed(entries) \o <<x>>, buffer' = <<>>,
              passed_on(text) = x
       PROVE  /\ entries' \in Seq(Seq(Text)) /\ buffer' \in Seq(Visible) /\ Len(buffer') <= CAPACITY
              /\ visible_of(log_of(entries')) \o visible_of(buffer')
                   = (L \o B) \o visible_of(passed_on(text))
  <2>1. entries' \in Seq(Seq(Text)) /\ visible_of(log_of(entries')) = (L \o B) \o visible_of(x)
    BY <1>5, <1>10, FlushedLine DEF L, B
  <2>2. buffer' \in Seq(Visible) /\ Len(buffer') <= CAPACITY /\ visible_of(buffer') = <<>>
    <3>1. Len(<<>>) = 0
      OBVIOUS
    <3> QED BY <1>5, <1>6, <1>10, <3>1, VisibleEmpty
  <2>3. (L \o B) \o visible_of(x) \in Seq(Visible)
    <3>1. visible_of(x) \in Seq(Visible)
      BY <1>10, VisibleType
    <3>2. L \o B \in Seq(Visible)
      BY <1>7, ConcatProperties
    <3> QED BY <3>1, <3>2, ConcatProperties
  <2>4. ((L \o B) \o visible_of(x)) \o <<>> = (L \o B) \o visible_of(x)
    BY <2>3, ConcatEmptySeq
  <2> QED BY <1>10, <2>1, <2>2, <2>4
<1>11. CASE Len(tail) >= CAPACITY /\ n > 0
  <2>1. entries' = flushed(entries) \o <<head>> /\ buffer' = <<>> /\ passed_on(text) = head
    BY <1>1, <1>2, <1>3, <1>11
  <2> QED BY <1>1, <1>10, <2>1
<1>12. CASE Len(tail) >= CAPACITY /\ ~(n > 0)
  <2>1. entries' = flushed(entries) \o <<text>> /\ buffer' = <<>> /\ passed_on(text) = text
    BY <1>1, <1>2, <1>3, <1>12
  <2> QED BY <1>10, <2>1
<1>13. CASE ~(Len(tail) >= CAPACITY)
  <2>1. /\ passed_on(text) = text /\ Len(tail) \in Nat /\ Len(tail) <= CAPACITY
        /\ entries' = (IF flushes(text) THEN flushed(entries) ELSE entries)
                        \o (IF n > 0 THEN << head >> ELSE <<>>)
        /\ buffer' = (IF flushes(text) THEN <<>> ELSE buffer) \o tail
    <3>1. Len(tail) = m - n /\ m - n \in Nat
      BY <1>1
    <3>2. m - n < CAPACITY /\ CAPACITY \in Nat
      BY <1>5, <1>13, <3>1
    <3>3. passed_on(text) = text
      BY <1>2, <3>1, <3>2
    <3>4. Len(tail) \in Nat /\ Len(tail) <= CAPACITY
      BY <3>1, <3>2
    <3> QED BY <1>3, <1>13, <3>3, <3>4
  <2>2. <<>> \o tail = tail
    BY <1>1, ConcatEmptySeq
  <2>3. CASE n > 0
    <3>1. entries' = flushed(entries) \o <<head>> /\ buffer' = tail
      BY <1>4, <2>1, <2>2, <2>3
    <3>2. entries' \in Seq(Seq(Text)) /\ visible_of(log_of(entries')) = (L \o B) \o visible_of(head)
      BY <1>1, <1>5, <3>1, FlushedLine DEF L, B
    <3>3. ((L \o B) \o visible_of(head)) \o visible_of(tail)
            = (L \o B) \o (visible_of(head) \o visible_of(tail))
      <4>1. L \o B \in Seq(Visible)
        BY <1>7, ConcatProperties
      <4> QED BY <1>7, <4>1, Three
    <3> QED BY <1>1, <2>1, <3>1, <3>2, <3>3
  <2>4. CASE ~(n > 0) /\ flushes(text)
    <3>1. tail = text /\ buffer' = tail /\ entries' = flushed(entries) \o <<>>
      BY <1>1, <2>1, <2>2, <2>4
    <3>2. /\ flushed(entries) \in Seq(Seq(Text))
          /\ visible_of(log_of(flushed(entries))) = L \o B
      BY <1>5, Flushed DEF L, B
    <3>3. entries' = flushed(entries)
      BY <3>1, <3>2, ConcatEmptySeq
    <3> QED BY <1>1, <2>1, <3>1, <3>2, <3>3
  <2>5. CASE ~(n > 0) /\ ~flushes(text)
    <3>1. tail = text /\ buffer' = buffer \o tail /\ entries' = entries \o <<>>
      BY <1>1, <2>1, <2>5
    <3>2. entries' = entries
      BY <1>5, <3>1, ConcatEmptySeq
    <3>3. Len(buffer) + m <= CAPACITY /\ Len(tail) = m
      BY <1>1, <1>4, <1>5, <2>5
    <3>4. buffer' \in Seq(Visible) /\ Len(buffer') = Len(buffer) + Len(tail)
      BY <1>1, <1>5, <3>1, ConcatProperties
    <3>5. visible_of(buffer') = B \o visible_of(tail)
      BY <1>6, <3>1, VisibleConcat DEF B
    <3>6. L \o (B \o visible_of(tail)) = (L \o B) \o visible_of(tail)
      <4>1. L \in Seq(Visible) /\ B \in Seq(Visible) /\ visible_of(tail) \in Seq(Visible)
        BY <1>7
      <4> QED BY <4>1, Three
    <3>7. Len(buffer') <= CAPACITY
      BY <3>3, <3>4
    <3>8. visible_of(log_of(entries')) = L
      BY <3>2 DEF L
    <3> QED BY <1>5, <2>1, <3>1, <3>2, <3>4, <3>5, <3>6, <3>7, <3>8
  <2> QED BY <2>3, <2>4, <2>5
<1> QED BY <1>11, <1>12, <1>13

-----------------------------------------------------------------------------
(***************************************************************************)
(* The calls.                                                              *)
(***************************************************************************)

LEMMA BoundedIsSeq ==
  ASSUME NEW S, NEW k \in Nat, NEW t \in BoundedSeq(S, k)
  PROVE  t \in Seq(S) /\ Len(t) \in 0 .. k
<1>1. PICK n \in 0 .. k : t \in [1 .. n -> S]
  BY DEF BoundedSeq, SeqOf
<1>2. n \in Nat
  BY <1>1
<1>3. t \in Seq(S) /\ Len(t) = n
  BY <1>1, <1>2, FunctionIsSeq
<1> QED BY <1>1, <1>3

\* A text that is written is a text, even if it goes nowhere.
LEMMA WriteCall ==
  ASSUME NEW c \in Calls, c.call = "SYS_WRITE"
  PROVE  c.text \in Seq(Text) /\ Len(c.text) \in 0 .. MaxText
<1>1. c \in Write
  BY DEF Calls, Open, Exit, Wrong
<1>2. c.text \in BoundedSeq(Text, MaxText) \/ c.text \in BoundedSeq({Newline}, MaxText)
  BY <1>1 DEF Write
<1>3. MaxText \in Nat
  BY SemihostingAssumption
<1>4. CASE c.text \in BoundedSeq(Text, MaxText)
  BY <1>3, <1>4, BoundedIsSeq
<1>5. CASE c.text \in BoundedSeq({Newline}, MaxText)
  <2>1. c.text \in Seq({Newline}) /\ Len(c.text) \in 0 .. MaxText
    BY <1>3, <1>5, BoundedIsSeq
  <2>2. {Newline} \subseteq Text
    BY DEF Text
  <2> QED BY <2>1, <2>2, SeqMonotonic
<1> QED BY <1>2, <1>4, <1>5

LEMMA PrintedByType ==
  ASSUME NEW c \in Calls
  PROVE  printed_by(c) \in Seq(Text)
<1>1. CASE c.call = "SYS_WRITE" /\ c.fd = FILENO_STDIO_MAGIC
  <2>1. c.text \in Seq(Text)
    BY <1>1, WriteCall
  <2>2. passed_on(c.text) \in Seq(Text)
    BY <2>1, Lines DEF passed_on
  <2> QED BY <1>1, <2>2 DEF printed_by
<1>2. CASE ~(c.call = "SYS_WRITE" /\ c.fd = FILENO_STDIO_MAGIC)
  BY <1>2, EmptySeq DEF printed_by
<1> QED BY <1>1, <1>2

\* What the first n calls of a guest print.
PrintedUpTo(g, n) == FlattenSeq([i \in 1 .. n |-> printed_by(g[i])])

LEMMA PrintedGrows ==
  ASSUME NEW g \in Seq(Calls), NEW n \in Nat, n < Len(g)
  PROVE  /\ PrintedUpTo(g, n) \in Seq(Text)
         /\ PrintedUpTo(g, n + 1) = PrintedUpTo(g, n) \o printed_by(g[n + 1])
<1> DEFINE S == Seq(Text)
           p == [i \in 1 .. n |-> printed_by(g[i])]
           q == [i \in 1 .. n + 1 |-> printed_by(g[i])]
           x == printed_by(g[n + 1])
<1>1. n \in Nat /\ n + 1 \in Nat /\ Len(g) \in Nat /\ n + 1 \in 1 .. n + 1
  BY LenProperties
<1>2. \A i \in 1 .. n + 1 : i \in 1 .. Len(g)
  BY <1>1
<1>3. \A i \in 1 .. n + 1 : printed_by(g[i]) \in S
  BY <1>2, ElementOfSeq, PrintedByType
<1>4. \A i \in 1 .. n : i \in 1 .. n + 1
  BY <1>1
<1> HIDE DEF S
<1>5. p \in [1 .. n -> S] /\ \A i \in 1 .. n : p[i] = printed_by(g[i])
  BY <1>3, <1>4
<1>6. q \in [1 .. n + 1 -> S] /\ \A i \in 1 .. n + 1 : q[i] = printed_by(g[i])
  BY <1>3
<1>7. PrintedUpTo(g, n) = FlattenSeq(p) /\ PrintedUpTo(g, n + 1) = FlattenSeq(q)
  BY DEF PrintedUpTo
<1>8. x \in S
  BY <1>1, <1>3
<1>9. q[n + 1] = x /\ \A i \in 1 .. n : q[i] = p[i]
  BY <1>1, <1>4, <1>5, <1>6
<1> HIDE DEF p, q, x
<1>10. p \in Seq(S) /\ Len(p) = n /\ q \in Seq(S) /\ Len(q) = n + 1
  BY <1>1, <1>5, <1>6, FunctionIsSeq
<1>11. q = Append(p, x)
  BY <1>8, <1>9, <1>10, OneMore
<1>12. p \in Seq(Seq(Text)) /\ x \in Seq(Text)
  BY <1>8, <1>10 DEF S
<1>13. FlattenSeq(p) \in Seq(Text) /\ FlattenSeq(q) = FlattenSeq(p) \o x
  BY <1>11, <1>12, FlattenAppend
<1> QED BY <1>7, <1>13 DEF x

\* The next call adds what is visible of what it prints.
LEMMA VisiblePrinted ==
  ASSUME NEW g \in Seq(Calls), NEW n \in Nat, n < Len(g)
  PROVE  visible_of(PrintedUpTo(g, n + 1))
           = visible_of(PrintedUpTo(g, n)) \o visible_of(printed_by(g[n + 1]))
<1>1. /\ PrintedUpTo(g, n) \in Seq(Text)
      /\ PrintedUpTo(g, n + 1) = PrintedUpTo(g, n) \o printed_by(g[n + 1])
  BY PrintedGrows
<1>2. printed_by(g[n + 1]) \in Seq(Text)
  <2>1. n + 1 \in 1 .. Len(g)
    BY LenProperties
  <2> QED BY <2>1, ElementOfSeq, PrintedByType
<1> QED BY <1>1, <1>2, VisibleConcat

-----------------------------------------------------------------------------
(***************************************************************************)
(* The invariant.                                                          *)
(***************************************************************************)

\* In the terms of the lemmas.
Complete(e, b, g, n) == visible_of(log_of(e) \o b) = visible_of(PrintedUpTo(g, n))

LEMMA LogIsCompleteIs ==
  LogIsComplete <=> Complete(entries, buffer, guest, pc) /\ (status = "ended" => buffer = <<>>)
BY DEF LogIsComplete, Complete, PrintedUpTo, printed

LEMMA InitInv == Init => IInv
<1> SUFFICES ASSUME Init PROVE IInv
  OBVIOUS
<1>1. guest \in BoundedSeq(Calls, MaxCalls) /\ MaxCalls \in Nat /\ CAPACITY \in Nat \ {0}
  BY SemihostingAssumption DEF Init
<1>2. guest \in Seq(Calls) /\ Len(guest) \in Nat
  BY <1>1, BoundedIsSeq
<1>3. TypeOK
  <2>1. pc \in 0 .. Len(guest) /\ r0 \in 0 .. MaxText
    BY <1>2, SemihostingAssumption DEF Init
  <2>2. entries \in Seq(Seq(Text)) /\ buffer \in Seq(Visible) /\ Len(buffer) = 0
    BY EmptySeq DEF Init
  <2>3. status \in {"running", "stopped", "ended", "aborted"}
    BY DEF Init
  <2> QED BY <1>1, <1>2, <2>1, <2>2, <2>3 DEF TypeOK
<1>4. log_of(entries) \o buffer = <<>>
  <2>1. [i \in DOMAIN <<>> |-> logged(<<>>[i])] = <<>>
    OBVIOUS
  <2>2. log_of(<<>>) = <<>>
    BY <2>1, FlattenEmpty DEF log_of
  <2>3. <<>> \o <<>> = <<>>
    OBVIOUS
  <2> QED BY <2>2, <2>3 DEF Init
<1>5. PrintedUpTo(guest, pc) = <<>>
  <2>1. [i \in 1 .. 0 |-> printed_by(guest[i])] = <<>>
    OBVIOUS
  <2> QED BY <2>1, FlattenEmpty DEF Init, PrintedUpTo
<1>6. LogIsComplete
  BY <1>4, <1>5, LogIsCompleteIs DEF Complete, Init
<1> QED BY <1>3, <1>6 DEF IInv

\* A call that prints nothing of its own.
LEMMA SilentCall ==
  ASSUME IInv, pc < Len(guest), printed_by(guest[pc + 1]) = <<>>, pc' = pc + 1,
         UNCHANGED <<guest, buffer, entries>>, status # "ended", status' # "ended"
  PROVE  LogIsComplete'
<1>1. guest \in Seq(Calls) /\ pc \in Nat
  BY LenProperties DEF IInv, TypeOK
<1>2. visible_of(PrintedUpTo(guest, pc + 1)) = visible_of(PrintedUpTo(guest, pc)) \o <<>>
  BY <1>1, VisiblePrinted, VisibleEmpty
<1>3. visible_of(PrintedUpTo(guest, pc)) \in Seq(Visible)
  BY <1>1, PrintedGrows, VisibleType
<1>4. visible_of(PrintedUpTo(guest, pc + 1)) = visible_of(PrintedUpTo(guest, pc))
  BY <1>2, <1>3, ConcatEmptySeq
<1>5. Complete(entries, buffer, guest, pc)
  BY LogIsCompleteIs DEF IInv
<1>6. Complete(entries, buffer, guest, pc + 1)
  BY <1>4, <1>5 DEF Complete
<1>7. Complete(entries', buffer', guest', pc')
  BY <1>6
<1>8. LogIsComplete' <=> Complete(entries', buffer', guest', pc') /\ (status' = "ended" => buffer' = <<>>)
  BY DEF LogIsComplete, Complete, PrintedUpTo, printed
<1> QED BY <1>7, <1>8

\* Every step keeps the invariant.
LEMMA NextInv == IInv /\ [Next]_vars => IInv'
<1> SUFFICES ASSUME IInv, [Next]_vars PROVE IInv'
  OBVIOUS
<1>1. /\ guest \in Seq(Calls) /\ Len(guest) \in Nat /\ pc \in 0 .. Len(guest)
      /\ entries \in Seq(Seq(Text)) /\ buffer \in Seq(Visible) /\ Len(buffer) <= CAPACITY
      /\ r0 \in {FILENO_STDIO_MAGIC, NO_FILE} \cup 0 .. MaxText
      /\ status \in {"running", "stopped", "ended", "aborted"}
      /\ CAPACITY \in Nat \ {0} /\ MaxText \in Nat
  BY SemihostingAssumption, LenProperties DEF IInv, TypeOK
<1>2. Complete(entries, buffer, guest, pc) /\ (status = "ended" => buffer = <<>>)
  BY LogIsCompleteIs DEF IInv
<1>3. LogIsComplete' <=> Complete(entries', buffer', guest', pc') /\ (status' = "ended" => buffer' = <<>>)
  BY DEF LogIsComplete, Complete, PrintedUpTo, printed
<1>4. ASSUME pc < Len(guest)
      PROVE  call \in Calls /\ pc + 1 \in 0 .. Len(guest) /\ call = guest[pc + 1]
  <2>1. pc + 1 \in 1 .. Len(guest) /\ pc + 1 \in 0 .. Len(guest)
    BY <1>1, <1>4
  <2> QED BY <1>1, <2>1, ElementOfSeq DEF call
<1>5. CASE sys_open
  <2>1. /\ status = "running" /\ pc < Len(guest) /\ call.call = "SYS_OPEN"
        /\ r0' \in {FILENO_STDIO_MAGIC, NO_FILE} /\ pc' = pc + 1
        /\ UNCHANGED <<guest, buffer, entries>> /\ status' = status
    BY <1>5 DEF sys_open, bkpt, advance_pc
  <2>2. printed_by(guest[pc + 1]) = <<>>
    BY <1>4, <2>1 DEF printed_by
  <2>3. LogIsComplete'
    BY <2>1, <2>2, SilentCall
  <2>4. TypeOK'
    BY <1>1, <1>4, <2>1 DEF TypeOK
  <2> QED BY <2>3, <2>4 DEF IInv
<1>6. CASE sys_write
  <2>1. /\ status = "running" /\ pc < Len(guest) /\ call.call = "SYS_WRITE"
        /\ pc' = pc + 1 /\ guest' = guest /\ status' = status
    BY <1>6 DEF sys_write, bkpt, advance_pc
  <2>2. call \in Calls /\ call.text \in Seq(Text) /\ Len(call.text) \in 0 .. MaxText
    BY <1>4, <2>1, WriteCall
  <2>3. CASE call.fd = FILENO_STDIO_MAGIC
    <3>1. r0' = 0 /\ line_write(call.text)
      BY <1>6, <2>3 DEF sys_write
    <3>2. /\ entries' \in Seq(Seq(Text)) /\ buffer' \in Seq(Visible) /\ Len(buffer') <= CAPACITY
          /\ visible_of(log_of(entries') \o buffer')
               = visible_of(log_of(entries) \o buffer) \o visible_of(passed_on(call.text))
      <4>1. TypeOK
        BY DEF IInv
      <4> QED BY <2>2, <3>1, <4>1, LineWrite
    <3>3. TypeOK'
      <4>1. r0' \in 0 .. MaxText /\ pc' \in 0 .. Len(guest')
        BY <1>1, <1>4, <2>1, <3>1
      <4> QED BY <1>1, <2>1, <3>2, <4>1 DEF TypeOK
    <3>4. printed_by(guest[pc + 1]) = passed_on(call.text)
      BY <1>4, <2>1, <2>3 DEF printed_by
    <3>5. visible_of(PrintedUpTo(guest, pc + 1))
            = visible_of(PrintedUpTo(guest, pc)) \o visible_of(passed_on(call.text))
      <4>1. guest \in Seq(Calls) /\ pc \in Nat /\ pc < Len(guest)
        BY <1>1, <2>1
      <4>2. visible_of(PrintedUpTo(guest, pc + 1))
              = visible_of(PrintedUpTo(guest, pc)) \o visible_of(printed_by(guest[pc + 1]))
        BY <4>1, VisiblePrinted
      <4> QED BY <3>4, <4>2
    <3>6. Complete(entries', buffer', guest', pc')
      BY <1>2, <2>1, <3>2, <3>5 DEF Complete
    <3>7. LogIsComplete'
      BY <1>3, <2>1, <3>6
    <3> QED BY <3>3, <3>7 DEF IInv
  <2>4. CASE call.fd # FILENO_STDIO_MAGIC
    <3>1. r0' = Len(call.text) /\ UNCHANGED <<buffer, entries>>
      BY <1>6, <2>4 DEF sys_write
    <3>2. printed_by(guest[pc + 1]) = <<>>
      BY <1>4, <2>1, <2>4 DEF printed_by
    <3>3. LogIsComplete'
      BY <2>1, <3>1, <3>2, SilentCall
    <3>4. TypeOK'
      <4>1. r0' \in 0 .. MaxText /\ pc' \in 0 .. Len(guest')
        BY <1>1, <1>4, <2>1, <2>2, <3>1
      <4> QED BY <1>1, <2>1, <3>1, <4>1 DEF TypeOK
    <3> QED BY <3>3, <3>4 DEF IInv
  <2> QED BY <2>3, <2>4
<1>7. CASE angel_report_exception
  <2>1. /\ status = "running" /\ pc < Len(guest) /\ call.call = "ANGEL_REPORT_EXCEPTION"
        /\ pc' = pc + 1 /\ status' = "stopped" /\ UNCHANGED <<guest, r0, buffer, entries>>
    BY <1>7 DEF angel_report_exception, bkpt, advance_pc
  <2>2. printed_by(guest[pc + 1]) = <<>>
    BY <1>4, <2>1 DEF printed_by
  <2>3. LogIsComplete'
    BY <2>1, <2>2, SilentCall
  <2>4. TypeOK'
    BY <1>1, <1>4, <2>1 DEF TypeOK
  <2> QED BY <2>3, <2>4 DEF IInv
<1>8. CASE panics
  <2>1. status' = "aborted" /\ UNCHANGED <<guest, pc, r0, buffer, entries>>
    BY <1>8 DEF panics
  <2>2. LogIsComplete'
    BY <1>2, <1>3, <2>1
  <2>3. TypeOK'
    BY <1>1, <2>1 DEF TypeOK
  <2> QED BY <2>2, <2>3 DEF IInv
<1>9. CASE main_returns
  <2>1. /\ entries' = flushed(entries) /\ buffer' = <<>> /\ status' = "ended"
        /\ UNCHANGED <<guest, pc, r0>>
    BY <1>9 DEF main_returns
  <2>2. /\ flushed(entries) \in Seq(Seq(Text))
        /\ visible_of(log_of(flushed(entries))) = visible_of(log_of(entries)) \o visible_of(buffer)
    BY <1>1, Flushed
  <2>3. log_of(entries') \o buffer' = log_of(flushed(entries))
    <3>1. log_of(flushed(entries)) \in Seq(Text)
      BY <2>2, LogType
    <3> QED BY <2>1, <3>1, ConcatEmptySeq
  <2>4. visible_of(log_of(entries) \o buffer) = visible_of(log_of(entries)) \o visible_of(buffer)
    BY <1>1, VisibleIsText, LogAndBuffer
  <2>5. Complete(entries', buffer', guest', pc')
    BY <1>2, <2>1, <2>2, <2>3, <2>4 DEF Complete
  <2>6. LogIsComplete'
    BY <1>3, <2>1, <2>5
  <2>7. TypeOK'
    <3>1. buffer' \in Seq(Visible) /\ Len(buffer') <= CAPACITY
      <4>1. <<>> \in Seq(Visible) /\ Len(<<>>) = 0
        BY EmptySeq
      <4> QED BY <1>1, <2>1, <4>1
    <3> QED BY <1>1, <2>1, <2>2, <3>1 DEF TypeOK
  <2> QED BY <2>6, <2>7 DEF IInv
<1>10. CASE UNCHANGED vars
  <2>1. UNCHANGED <<guest, pc, r0, buffer, entries, status>>
    BY <1>10 DEF vars
  <2>2. LogIsComplete'
    BY <1>2, <1>3, <2>1
  <2>3. TypeOK'
    BY <1>1, <2>1 DEF TypeOK
  <2> QED BY <2>2, <2>3 DEF IInv
<1> QED BY <1>5, <1>6, <1>7, <1>8, <1>9, <1>10 DEF Next

THEOREM Invariance == Spec => []IInv
<1> QED BY InitInv, NextInv, PTL DEF Spec

\* The variables keep their types whatever the guest calls; in particular the
\* LineWriter holds neither a complete line nor more than its capacity.
THEOREM TypeCorrect == Spec => []TypeOK
<1>1. IInv => TypeOK
  BY DEF IInv
<1> QED BY <1>1, Invariance, PTL

\* The log and the buffer hold everything the guest printed, once and in order,
\* however its texts were cut by newlines, by the capacity of the LineWriter and by
\* calls.
THEOREM LogAlwaysComplete == Spec => []LogIsComplete
<1>1. IInv => LogIsComplete
  BY DEF IInv
<1> QED BY <1>1, Invariance, PTL
=============================================================================
