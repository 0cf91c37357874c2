----------------------------- MODULE LoadingProofs -----------------------------
(***************************************************************************)
(* Proofs about Loading, for files of any number and length, any geometry  *)
(* of the address space and any memory map.                                *)
(*                                                                         *)
(* The argument: a record, like a segment, is a piece of memory, and of a  *)
(* list of pieces the last one that covers an address says what is there.  *)
(* Merging two pieces that touch changes nothing of what a list says, so   *)
(* the segments say what the records do; and writing a list of pieces to   *)
(* memory one by one leaves there what the list says.                      *)
(***************************************************************************)
EXTENDS Loading, BasicLemmas

Piece == [address : Nat, data : Seq(Nat)]

\* The records a file may have.
Record ==
  [kind : {"data"}, offset : 0 .. OFFSETS - 1, value : Values]
    \cup [kind : {"segment", "linear"}, base : Bases]
    \cup [kind : {"start"}]
    \cup [kind : {"phdr"}, type : Types, paddr : Paddrs, value : Values]

\* Piece p says something of address x.
covers(p, x) == x - p.address \in 0 .. Len(p.data) - 1

\* What the list ps says of address x: <<>>, or the one byte it holds.
Says(ps, x) ==
  LET telling == { i \in DOMAIN ps : covers(ps[i], x) }
  IN  IF telling = {} THEN <<>>
      ELSE << ps[Max(telling)].data[x - ps[Max(telling)].address + 1] >>

\* What is at an address of which a list says b, and where old was before.
over(b, old) == IF b = <<>> THEN old ELSE b[1]

\* A record as a piece: empty if it says nothing.
tells(r) == r.kind = "data" \/ (r.kind = "phdr" /\ r.type = PT_LOAD)

piece(rs, i) ==
  IF tells(rs[i]) THEN Segment(first_at(rs, i), rs[i].value) ELSE Segment(0, <<>>)

pieces(rs) == [i \in DOMAIN rs |-> piece(rs, i)]

\* The segments, the one that is being read among them.
all_segments == Append(segments, Segment(segment_start, segment_buf))

-----------------------------------------------------------------------------
(***************************************************************************)
(* Lists of pieces.                                                        *)
(***************************************************************************)

\* The last of some places.
LEMMA NewLast ==
  ASSUME NEW n \in Nat, NEW C \in SUBSET (1 .. n)
  PROVE  /\ Max(C \cup {n + 1}) = n + 1
         /\ C # {} => Max(C) \in C
<1>1. C \in SUBSET Nat /\ \A i \in C : i <= n
  OBVIOUS
<1>2. C # {} => Max(C) \in C
  BY <1>1, MaxIsGreatest
<1> DEFINE D == C \cup {n + 1}
<1>3. D \in SUBSET Nat /\ D # {} /\ n + 1 \in Nat /\ \A i \in D : i <= n + 1
  BY <1>1
<1>4. n + 1 \in D /\ \A i \in D : i \in C \/ i = n + 1
  OBVIOUS
<1> HIDE DEF D
<1>5. Max(D) \in D /\ \A i \in D : i <= Max(D)
  BY <1>3, MaxIsGreatest
<1>6. Max(D) = n + 1
  <2>1. n + 1 <= Max(D) /\ Max(D) <= n + 1 /\ Max(D) \in Nat
    BY <1>3, <1>4, <1>5
  <2> QED BY <1>3, <2>1
<1> QED BY <1>2, <1>6 DEF D

LEMMA SaysNothing == \A x : Says(<<>>, x) = <<>>
<1> SUFFICES ASSUME NEW x PROVE Says(<<>>, x) = <<>>
  OBVIOUS
<1>1. { i \in DOMAIN <<>> : covers(<<>>[i], x) } = {}
  OBVIOUS
<1> QED BY <1>1 DEF Says

\* A piece at the end of a list says what it covers, and the list the rest.
LEMMA SaysAppend ==
  ASSUME NEW ps \in Seq(Piece), NEW p \in Piece, NEW x \in Nat
  PROVE  Says(Append(ps, p), x)
           = IF covers(p, x) THEN << p.data[x - p.address + 1] >> ELSE Says(ps, x)
<1> DEFINE qs == Append(ps, p)
           n == Len(ps)
           C == { i \in DOMAIN ps : covers(ps[i], x) }
           D == { i \in DOMAIN qs : covers(qs[i], x) }
<1>1. n \in Nat /\ DOMAIN ps = 1 .. n
  BY LenProperties
<1>2. qs \in Seq(Piece) /\ Len(qs) = n + 1 /\ qs[n + 1] = p /\ \A i \in 1 .. n : qs[i] = ps[i]
  BY AppendProperties
<1>3. DOMAIN qs = 1 .. n + 1
  BY <1>2, LenProperties
<1> HIDE DEF qs, n
<1>4. C \in SUBSET (1 .. n) /\ \A i \in C : qs[i] = ps[i]
  BY <1>1, <1>2
<1>5. D = IF covers(p, x) THEN C \cup {n + 1} ELSE C
  <2>1. \A i : i \in 1 .. n + 1 <=> i \in 1 .. n \/ i = n + 1
    BY <1>1
  <2>2. \A i \in 1 .. n : i \in D <=> i \in C
    BY <1>1, <1>2, <1>3, <2>1
  <2>3. n + 1 \in D <=> covers(p, x)
    BY <1>1, <1>2, <1>3, <2>1
  <2>4. \A i \in D : i \in 1 .. n \/ i = n + 1
    BY <1>3, <2>1
  <2>5. n + 1 \notin C /\ \A i \in C : i \in 1 .. n
    BY <1>1
  <2> HIDE DEF C, D
  <2>6. \A i : i \in D <=> i \in C \/ (i = n + 1 /\ covers(p, x))
    BY <2>2, <2>3, <2>4, <2>5
  <2>7. CASE covers(p, x)
    <3>1. \A i : i \in D <=> i \in C \cup {n + 1}
      BY <2>6, <2>7
    <3>2. D = C \cup {n + 1}
      BY <3>1
    <3> QED BY <2>7, <3>2
  <2>8. CASE ~covers(p, x)
    <3>1. D = C
      BY <2>6, <2>8
    <3> QED BY <2>8, <3>1
  <2> QED BY <2>7, <2>8
<1>6. /\ Says(ps, x) = IF C = {} THEN <<>> ELSE << ps[Max(C)].data[x - ps[Max(C)].address + 1] >>
      /\ Says(qs, x) = IF D = {} THEN <<>> ELSE << qs[Max(D)].data[x - qs[Max(D)].address + 1] >>
  BY DEF Says
<1> HIDE DEF C, D
<1>7. Max(C \cup {n + 1}) = n + 1 /\ (C # {} => Max(C) \in C)
  BY <1>1, <1>4, NewLast
<1>8. CASE covers(p, x)
  <2>1. D # {} /\ Max(D) = n + 1
    BY <1>5, <1>7, <1>8
  <2> QED BY <1>2, <1>6, <1>8, <2>1 DEF qs
<1>9. CASE ~covers(p, x)
  <2>1. D = C
    BY <1>5, <1>9
  <2>2. C # {} => qs[Max(C)] = ps[Max(C)]
    BY <1>4, <1>7
  <2> QED BY <1>6, <1>9, <2>1, <2>2 DEF qs
<1> QED BY <1>8, <1>9

\* An empty piece says nothing.
LEMMA SaysAppendEmpty ==
  ASSUME NEW ps \in Seq(Piece), NEW p \in Piece, p.data = <<>>, NEW x \in Nat
  PROVE  Says(Append(ps, p), x) = Says(ps, x)
<1>1. ~covers(p, x)
  <2>1. Len(p.data) = 0
    BY EmptySeq
  <2>2. x - p.address \in Int
    BY DEF Piece
  <2> QED BY <2>1, <2>2 DEF covers
<1> QED BY <1>1, SaysAppend

\* Two pieces of which one begins where the other ends say the same as one.
LEMMA SaysMerged ==
  ASSUME NEW ps \in Seq(Piece), NEW p \in Piece, NEW q \in Piece,
         q.address = p.address + Len(p.data), NEW x \in Nat
  PROVE  Says(Append(ps, Segment(p.address, p.data \o q.data)), x)
           = Says(Append(Append(ps, p), q), x)
<1> DEFINE a == p.address
           d == p.data
           e == q.data
           m == Segment(a, d \o e)
<1>1. a \in Nat /\ d \in Seq(Nat) /\ e \in Seq(Nat)
  BY DEF Piece
<1>2. Len(d) \in Nat /\ Len(e) \in Nat /\ q.address = a + Len(d)
  BY <1>1, LenProperties
<1>3. /\ d \o e \in Seq(Nat) /\ Len(d \o e) = Len(d) + Len(e)
      /\ \A i \in 1 .. Len(d) + Len(e) : (d \o e)[i] = IF i <= Len(d) THEN d[i] ELSE e[i - Len(d)]
  <2> HIDE DEF a, d, e, m
  <2> QED BY <1>1, ConcatProperties
<1>4. m \in Piece /\ m.address = a /\ m.data = d \o e
  BY <1>1, <1>3 DEF Piece, Segment
<1>5. Append(ps, p) \in Seq(Piece)
  BY AppendProperties
<1>6. /\ Says(Append(ps, m), x)
           = IF covers(m, x) THEN << m.data[x - a + 1] >> ELSE Says(ps, x)
      /\ Says(Append(Append(ps, p), q), x)
           = IF covers(q, x) THEN << e[x - q.address + 1] >>
             ELSE IF covers(p, x) THEN << d[x - a + 1] >> ELSE Says(ps, x)
  BY <1>4, <1>5, SaysAppend
<1>7. /\ covers(m, x) <=> x - a \in 0 .. Len(d) + Len(e) - 1
      /\ covers(p, x) <=> x - a \in 0 .. Len(d) - 1
      /\ covers(q, x) <=> x - (a + Len(d)) \in 0 .. Len(e) - 1
  BY <1>2, <1>3, <1>4 DEF covers
<1> DEFINE k == Len(d)
           l == Len(e)
<1>8. k \in Nat /\ l \in Nat /\ x - a \in Int
  BY <1>1, <1>2
<1> HIDE DEF a, d, e, m, k, l
<1>9. /\ covers(m, x) <=> covers(p, x) \/ covers(q, x)
      /\ ~(covers(p, x) /\ covers(q, x))
  <2>1. /\ covers(m, x) <=> x - a \in 0 .. k + l - 1
        /\ covers(p, x) <=> x - a \in 0 .. k - 1
        /\ covers(q, x) <=> x - (a + k) \in 0 .. l - 1
    BY <1>7 DEF k, l
  <2> QED BY <1>1, <1>8, <2>1
<1>10. covers(q, x) => m.data[x - a + 1] = e[x - q.address + 1]
  <2>1. SUFFICES ASSUME x - (a + k) \in 0 .. l - 1
                 PROVE  (d \o e)[x - a + 1] = e[x - (a + k) + 1]
    BY <1>2, <1>4, <1>7 DEF k, l
  <2>3. \A i \in 1 .. k + l : ~(i <= k) => (d \o e)[i] = e[i - k]
    BY <1>3 DEF k, l
  <2> DEFINE y == x - a + 1
             z == x - (a + k) + 1
  <2>4. y \in 1 .. k + l /\ ~(y <= k) /\ y - k = z
    <3>1. y = x - a + 1 /\ z = x - (a + k) + 1 /\ a \in Nat
      BY <1>1
    <3>2. x \in Nat /\ k \in Nat /\ l \in Nat
      BY <1>8
    <3> HIDE DEF y, z
    <3> QED BY <2>1, <3>1, <3>2
  <2> HIDE DEF y, z
  <2>5. (d \o e)[y] = e[z]
    BY <2>3, <2>4
  <2> QED BY <2>5 DEF y, z
<1>11. covers(p, x) => m.data[x - a + 1] = d[x - a + 1]
  <2>1. SUFFICES ASSUME x - a \in 0 .. k - 1
                 PROVE  (d \o e)[x - a + 1] = d[x - a + 1]
    BY <1>4, <1>7 DEF k
  <2>2. x - a + 1 \in 1 .. k + l /\ x - a + 1 <= k
    BY <1>1, <1>8, <2>1
  <2> QED BY <1>3, <2>2 DEF k, l
<1>12. Says(Append(ps, m), x) = Says(Append(Append(ps, p), q), x)
  BY <1>6, <1>9, <1>10, <1>11
<1> QED BY <1>12 DEF m, a, d, e

-----------------------------------------------------------------------------
(***************************************************************************)
(* Records.                                                                *)
(***************************************************************************)

extends(r) == r.kind \in {"segment", "linear"}
base_of(r) == r.base * (IF r.kind = "segment" THEN PARAGRAPH ELSE OFFSETS)

LEMMA RecordIs ==
  ASSUME NEW r \in Record
  PROVE  /\ r.kind = "data" => r.offset \in 0 .. OFFSETS - 1
         /\ r.kind = "phdr" => r.paddr \in Nat
         /\ tells(r) => r.value \in Seq(Nat)
         /\ extends(r) => r.base \in Nat /\ base_of(r) \in Nat /\ base_of(r) + OFFSETS <= ADDRESSES
<1>1. CASE r \in [kind : {"data"}, offset : 0 .. OFFSETS - 1, value : Values]
  <2>1. r.kind = "data" /\ r.offset \in 0 .. OFFSETS - 1 /\ r.value \in Values
    BY <1>1
  <2>2. r.value \in Seq(Nat)
    BY <2>1, HexAssumption
  <2> QED BY <2>1, <2>2 DEF extends
<1>2. CASE r \in [kind : {"segment", "linear"}, base : Bases]
  <2>1. r.kind \in {"segment", "linear"} /\ r.base \in Bases
    BY <1>2
  <2>2. /\ r.base \in Nat /\ r.base * OFFSETS + OFFSETS <= ADDRESSES
        /\ PARAGRAPH \in Nat /\ OFFSETS \in Nat /\ ADDRESSES \in Nat /\ PARAGRAPH <= OFFSETS
    BY <2>1, HexAssumption
  <2>3. r.base * PARAGRAPH <= r.base * OFFSETS /\ r.base * PARAGRAPH \in Nat /\ r.base * OFFSETS \in Nat
    BY <2>2, ProductGrows
  <2>4. base_of(r) \in Nat /\ base_of(r) <= r.base * OFFSETS
    BY <2>3 DEF base_of
  <2>5. base_of(r) + OFFSETS <= ADDRESSES
    <3> DEFINE p == r.base * OFFSETS
    <3>1. p \in Nat /\ p + OFFSETS <= ADDRESSES /\ base_of(r) <= p
      BY <2>2, <2>3, <2>4
    <3> HIDE DEF p
    <3> QED BY <2>2, <2>4, <3>1
  <2> QED BY <2>1, <2>2, <2>4, <2>5 DEF tells
<1>3. CASE r \in [kind : {"start"}]
  BY <1>3 DEF tells, extends
<1>4. CASE r \in [kind : {"phdr"}, type : Types, paddr : Paddrs, value : Values]
  <2>1. r.kind = "phdr" /\ r.paddr \in Paddrs /\ r.value \in Values
    BY <1>4
  <2>2. r.value \in Seq(Nat) /\ r.paddr \in Nat
    BY <2>1, HexAssumption, LoadingAssumption
  <2> QED BY <2>1, <2>2 DEF extends
<1> QED BY <1>1, <1>2, <1>3, <1>4 DEF Record

\* The base of a record is that of the last extended address before it.
LEMMA BaseAt ==
  ASSUME NEW rs \in Seq(Record), NEW k \in 1 .. Len(rs) + 1
  PROVE  LET E == { j \in 1 .. k - 1 : extends(rs[j]) }
         IN  /\ base_at(rs, k) = IF E = {} THEN 0 ELSE base_of(rs[Max(E)])
             /\ E # {} => Max(E) \in E
<1> DEFINE E == { j \in 1 .. k - 1 : extends(rs[j]) }
           last == IF E # {} THEN Max(E) ELSE 0
<1>1. k - 1 \in Nat
  BY LenProperties
<1>2. E # {} => Max(E) \in E
  <2>1. E \in SUBSET (1 .. k - 1)
    OBVIOUS
  <2> HIDE DEF E
  <2> QED BY <1>1, <2>1, NewLast
<1>3. base_at(rs, k)
        = IF last = 0 THEN 0
          ELSE rs[last].base * (IF rs[last].kind = "segment" THEN PARAGRAPH ELSE OFFSETS)
  BY DEF base_at, SelectLastInSubSeq, extends
<1>4. E # {} => last # 0
  BY <1>1, <1>2
<1> QED BY <1>2, <1>3, <1>4 DEF base_of

LEMMA BaseType ==
  ASSUME NEW rs \in Seq(Record), NEW k \in 1 .. Len(rs) + 1
  PROVE  base_at(rs, k) \in Nat /\ base_at(rs, k) + OFFSETS <= ADDRESSES
<1> DEFINE E == { j \in 1 .. k - 1 : extends(rs[j]) }
<1>1. base_at(rs, k) = IF E = {} THEN 0 ELSE base_of(rs[Max(E)])
  BY BaseAt
<1>2. E # {} => Max(E) \in E
  BY BaseAt
<1>3. \A j \in E : rs[j] \in Record /\ extends(rs[j])
  <2>1. \A j \in 1 .. k - 1 : j \in 1 .. Len(rs)
    BY LenProperties
  <2> QED BY <2>1, ElementOfSeq
<1>4. 0 + OFFSETS <= ADDRESSES /\ 0 \in Nat
  BY HexAssumption
<1> HIDE DEF E
<1> QED BY <1>1, <1>2, <1>3, <1>4, RecordIs

\* Further records do not change the bases of those before.
LEMMA BaseStays ==
  ASSUME NEW rs \in Seq(Record), NEW r \in Record, NEW k \in 1 .. Len(rs) + 1
  PROVE  base_at(Append(rs, r), k) = base_at(rs, k)
<1> DEFINE qs == Append(rs, r)
           n == Len(rs)
           E == { j \in 1 .. k - 1 : extends(rs[j]) }
           F == { j \in 1 .. k - 1 : extends(qs[j]) }
<1>1. n \in Nat /\ k \in 1 .. n + 1
  BY LenProperties
<1>2. qs \in Seq(Record) /\ Len(qs) = n + 1 /\ \A j \in 1 .. n : qs[j] = rs[j]
  BY AppendProperties
<1> HIDE DEF qs, n
<1>3. \A j \in 1 .. k - 1 : j \in 1 .. n
  BY <1>1
<1>4. E = F /\ \A j \in E : qs[j] = rs[j]
  BY <1>2, <1>3
<1>5. k \in 1 .. Len(qs) + 1
  BY <1>1, <1>2
<1>6. base_at(rs, k) = IF E = {} THEN 0 ELSE base_of(rs[Max(E)])
  BY BaseAt
<1>7. E # {} => Max(E) \in E
  BY BaseAt
<1>8. base_at(qs, k) = IF F = {} THEN 0 ELSE base_of(qs[Max(F)])
  BY <1>2, <1>5, BaseAt
<1> HIDE DEF E, F
<1>9. base_at(qs, k) = base_at(rs, k)
  BY <1>4, <1>6, <1>7, <1>8
<1> QED BY <1>9 DEF qs

\* An extended address record sets the base of the next one.
LEMMA BaseNext ==
  ASSUME NEW rs \in Seq(Record), NEW r \in Record
  PROVE  base_at(Append(rs, r), Len(rs) + 2)
           = IF extends(r) THEN base_of(r) ELSE base_at(rs, Len(rs) + 1)
<1> DEFINE qs == Append(rs, r)
           n == Len(rs)
           E == { j \in 1 .. n : extends(rs[j]) }
           F == { j \in 1 .. n + 1 : extends(qs[j]) }
<1>1. n \in Nat /\ (n + 1) - 1 = n /\ (n + 2) - 1 = n + 1 /\ n + 1 \in 1 .. n + 1
  BY LenProperties
<1>2. qs \in Seq(Record) /\ Len(qs) = n + 1 /\ qs[n + 1] = r /\ \A j \in 1 .. n : qs[j] = rs[j]
  BY AppendProperties
<1>3. base_at(rs, n + 1) = (IF E = {} THEN 0 ELSE base_of(rs[Max(E)])) /\ (E # {} => Max(E) \in E)
  BY <1>1, BaseAt
<1> HIDE DEF qs
<1>4. base_at(qs, n + 2) = IF F = {} THEN 0 ELSE base_of(qs[Max(F)])
  <2> HIDE DEF n
  <2>1. n + 2 \in 1 .. Len(qs) + 1
    BY <1>1, <1>2
  <2> QED BY <1>1, <1>2, <2>1, BaseAt
<1> HIDE DEF n
<1>5. E \in SUBSET (1 .. n) /\ \A j \in E : qs[j] = rs[j]
  BY <1>2
<1>6. \A j : j \in F <=> j \in E \/ (j = n + 1 /\ extends(r))
  <2>1. \A j : j \in 1 .. n + 1 <=> j \in 1 .. n \/ j = n + 1
    BY <1>1
  <2> QED BY <1>2, <2>1
<1> HIDE DEF E, F
<1>7. CASE extends(r)
  <2>1. \A j : j \in F <=> j \in E \cup {n + 1}
    BY <1>6, <1>7
  <2>2. F = E \cup {n + 1}
    BY <2>1
  <2>3. Max(F) = n + 1 /\ F # {}
    BY <1>1, <1>5, <2>2, NewLast
  <2> QED BY <1>2, <1>4, <1>7, <2>3 DEF qs, n
<1>8. CASE ~extends(r)
  <2>1. F = E
    BY <1>6, <1>8
  <2>2. E # {} => qs[Max(E)] = rs[Max(E)]
    BY <1>3, <1>5
  <2> QED BY <1>3, <1>4, <1>8, <2>1, <2>2 DEF qs, n
<1> QED BY <1>7, <1>8

\* Where a record that says something belongs does not depend on what follows it.
LEMMA FirstAt ==
  ASSUME NEW rs \in Seq(Record), NEW k \in 1 .. Len(rs), tells(rs[k])
  PROVE  first_at(rs, k) \in Nat
<1>1. rs[k] \in Record /\ k \in 1 .. Len(rs) + 1
  <2>1. Len(rs) \in Nat
    BY LenProperties
  <2> QED BY <2>1, ElementOfSeq
<1>2. CASE rs[k].kind = "phdr"
  <2>1. rs[k].paddr \in Nat /\ ADDRESSES \in Nat \ {0}
    BY <1>1, <1>2, RecordIs, HexAssumption
  <2> DEFINE a == rs[k].paddr
  <2>2. a % ADDRESSES \in Nat
    <3>1. a \in Nat
      BY <2>1
    <3> HIDE DEF a
    <3> QED BY <2>1, <3>1, DivMod
  <2> QED BY <1>2, <2>2 DEF first_at
<1>3. CASE rs[k].kind # "phdr"
  <2>1. rs[k].offset \in Nat
    BY <1>1, <1>3, RecordIs, HexAssumption DEF tells
  <2>2. base_at(rs, k) \in Nat
    BY <1>1, BaseType
  <2> QED BY <1>3, <2>1, <2>2 DEF first_at
<1> QED BY <1>2, <1>3

LEMMA PieceType ==
  ASSUME NEW rs \in Seq(Record), NEW k \in 1 .. Len(rs)
  PROVE  piece(rs, k) \in Piece
<1>1. rs[k] \in Record
  BY ElementOfSeq
<1>2. CASE tells(rs[k])
  <2>1. first_at(rs, k) \in Nat /\ rs[k].value \in Seq(Nat)
    BY <1>1, <1>2, FirstAt, RecordIs
  <2> QED BY <1>2, <2>1 DEF piece, Piece, Segment
<1>3. CASE ~tells(rs[k])
  <2>1. <<>> \in Seq(Nat)
    BY EmptySeq
  <2> QED BY <1>3, <2>1 DEF piece, Piece, Segment
<1> QED BY <1>2, <1>3

LEMMA PiecesType ==
  ASSUME NEW rs \in Seq(Record)
  PROVE  /\ pieces(rs) \in Seq(Piece) /\ Len(pieces(rs)) = Len(rs)
         /\ \A i \in 1 .. Len(rs) : pieces(rs)[i] = piece(rs, i)
<1>1. Len(rs) \in Nat /\ DOMAIN rs = 1 .. Len(rs)
  BY LenProperties
<1>2. pieces(rs) \in [1 .. Len(rs) -> Piece] /\ \A i \in 1 .. Len(rs) : pieces(rs)[i] = piece(rs, i)
  BY <1>1, PieceType DEF pieces
<1> QED BY <1>1, <1>2, FunctionIsSeq

\* A further record is a further piece.
LEMMA PiecesAppend ==
  ASSUME NEW rs \in Seq(Record), NEW r \in Record
  PROVE  /\ pieces(Append(rs, r)) = Append(pieces(rs), piece(Append(rs, r), Len(rs) + 1))
         /\ piece(Append(rs, r), Len(rs) + 1) \in Piece
<1> DEFINE qs == Append(rs, r)
           n == Len(rs)
           ps == pieces(rs)
           p == piece(qs, n + 1)
<1>1. n \in Nat
  BY LenProperties
<1>2. /\ qs \in Seq(Record) /\ Len(qs) = n + 1 /\ qs[n + 1] = r
      /\ \A i \in 1 .. n : qs[i] = rs[i]
  BY AppendProperties
<1>3. \A i \in 1 .. n : base_at(qs, i) = base_at(rs, i)
  <2>1. \A i \in 1 .. n : i \in 1 .. Len(rs) + 1
    BY <1>1
  <2> QED BY <2>1, BaseStays
<1> HIDE DEF qs
<1>4. \A i \in 1 .. n : piece(qs, i) = piece(rs, i)
  <2> HIDE DEF n
  <2> QED BY <1>2, <1>3 DEF piece, first_at
<1>5. ps \in Seq(Piece) /\ Len(ps) = n /\ \A i \in 1 .. n : ps[i] = piece(rs, i)
  BY PiecesType
<1>6. /\ pieces(qs) \in Seq(Piece) /\ Len(pieces(qs)) = n + 1
      /\ \A i \in 1 .. n + 1 : pieces(qs)[i] = piece(qs, i)
  BY <1>2, PiecesType
<1>7. p \in Piece
  <2>1. n + 1 \in 1 .. Len(qs)
    BY <1>1, <1>2
  <2> QED BY <1>2, <2>1, PieceType
<1>8. pieces(qs)[n + 1] = p /\ \A i \in 1 .. n : pieces(qs)[i] = ps[i]
  <2>1. n + 1 \in 1 .. n + 1 /\ \A i \in 1 .. n : i \in 1 .. n + 1
    BY <1>1
  <2> HIDE DEF n, ps
  <2> QED BY <1>4, <1>5, <1>6, <2>1
<1> HIDE DEF n, ps, p
<1>9. pieces(qs) = Append(ps, p)
  BY <1>5, <1>6, <1>7, <1>8, OneMore
<1> QED BY <1>7, <1>9 DEF qs, n, ps, p

\* The records that say something of an address are the pieces that cover it.
LEMMA Covering ==
  ASSUME NEW rs \in Seq(Record), NEW x \in Nat
  PROVE  covering(rs, x) = { i \in DOMAIN pieces(rs) : covers(pieces(rs)[i], x) }
<1>1. DOMAIN rs = 1 .. Len(rs)
  BY LenProperties
<1>2. DOMAIN pieces(rs) = DOMAIN rs /\ \A i \in DOMAIN rs : pieces(rs)[i] = piece(rs, i)
  BY <1>1 DEF pieces
<1>3. ASSUME NEW i \in DOMAIN rs
      PROVE  i \in covering(rs, x) <=> covers(piece(rs, i), x)
  <2>1. CASE tells(rs[i])
    BY <2>1 DEF tells, covering, covers, piece, Segment
  <2>2. CASE ~tells(rs[i])
    <3>1. piece(rs, i).address = 0 /\ Len(piece(rs, i).data) = 0
      BY <2>2, EmptySeq DEF piece, Segment
    <3>2. ~covers(piece(rs, i), x)
      BY <3>1 DEF covers
    <3> QED BY <2>2, <3>2 DEF tells, covering
  <2> QED BY <2>1, <2>2
<1>4. covering(rs, x) \subseteq DOMAIN rs
  BY DEF covering
<1> QED BY <1>2, <1>3, <1>4

-----------------------------------------------------------------------------
(***************************************************************************)
(* Files.                                                                  *)
(***************************************************************************)

LEMMA SaidNothing == \A x : said(<<>>, x) = Unwritten
<1> SUFFICES ASSUME NEW x PROVE said(<<>>, x) = Unwritten
  OBVIOUS
<1>1. { n \in DOMAIN <<>> : covering(<<>>[n], x) # {} } = {}
  OBVIOUS
<1> QED BY <1>1 DEF said

\* A further file says what its records say, and where they say nothing what the
\* files before it do.
LEMMA SaidAppend ==
  ASSUME NEW fs \in Seq(Seq(Record)), NEW rs \in Seq(Record), NEW x \in Nat
  PROVE  said(Append(fs, rs), x) = over(Says(pieces(rs), x), said(fs, x))
<1> DEFINE F == Seq(Record)
           gs == Append(fs, rs)
           n == Len(fs)
           C == { i \in DOMAIN fs : covering(fs[i], x) # {} }
           D == { i \in DOMAIN gs : covering(gs[i], x) # {} }
           byte(f) == f[Max(covering(f, x))].value[x - first_at(f, Max(covering(f, x))) + 1]
<1>1. n \in Nat /\ DOMAIN fs = 1 .. n
  BY LenProperties
<1>2. gs \in Seq(F) /\ Len(gs) = n + 1 /\ gs[n + 1] = rs /\ \A i \in 1 .. n : gs[i] = fs[i]
  <2>1. fs \in Seq(F) /\ rs \in F
    OBVIOUS
  <2> HIDE DEF F
  <2> QED BY <2>1, AppendProperties
<1>3. DOMAIN gs = 1 .. n + 1
  BY <1>2, LenProperties
<1>4. /\ said(fs, x) = IF C = {} THEN Unwritten ELSE byte(fs[Max(C)])
      /\ said(gs, x) = IF D = {} THEN Unwritten ELSE byte(gs[Max(D)])
  BY DEF said
<1> HIDE DEF gs, n, F
<1>5. C \in SUBSET (1 .. n) /\ \A i \in C : gs[i] = fs[i]
  BY <1>1, <1>2
<1>6. \A i : i \in D <=> i \in C \/ (i = n + 1 /\ covering(rs, x) # {})
  <2>1. \A i : i \in 1 .. n + 1 <=> i \in 1 .. n \/ i = n + 1
    BY <1>1
  <2> QED BY <1>1, <1>2, <1>3, <2>1
<1> HIDE DEF C, D
<1>7. Max(C \cup {n + 1}) = n + 1 /\ (C # {} => Max(C) \in C)
  BY <1>1, <1>5, NewLast
<1>8. Says(pieces(rs), x) = IF covering(rs, x) = {} THEN <<>> ELSE << byte(rs) >>
  <2> DEFINE K == covering(rs, x)
  <2>1. K = { i \in DOMAIN pieces(rs) : covers(pieces(rs)[i], x) }
    BY Covering
  <2>2. Says(pieces(rs), x) = IF K = {} THEN <<>>
          ELSE << pieces(rs)[Max(K)].data[x - pieces(rs)[Max(K)].address + 1] >>
    BY <2>1 DEF Says
  <2>3. ASSUME K # {}
        PROVE  pieces(rs)[Max(K)] = Segment(first_at(rs, Max(K)), rs[Max(K)].value)
    <3>1. K \in SUBSET (1 .. Len(rs)) /\ Len(rs) \in Nat /\ DOMAIN rs = 1 .. Len(rs)
      BY LenProperties DEF covering
    <3>2. Max(K) \in K
      <4> HIDE DEF K
      <4> QED BY <2>3, <3>1, NewLast
    <3>3. tells(rs[Max(K)]) /\ Max(K) \in 1 .. Len(rs)
      BY <3>1, <3>2 DEF covering, tells
    <3>4. pieces(rs)[Max(K)] = piece(rs, Max(K))
      BY <3>1, <3>3 DEF pieces
    <3> QED BY <3>3, <3>4 DEF piece
  <2> QED BY <2>2, <2>3 DEF Segment
<1> HIDE DEF byte
<1>9. CASE covering(rs, x) # {}
  <2>1. \A i : i \in D <=> i \in C \cup {n + 1}
    BY <1>6, <1>9
  <2>2. D = C \cup {n + 1}
    BY <2>1
  <2>3. said(gs, x) = byte(rs)
    BY <1>2, <1>4, <1>7, <2>2
  <2>4. over(Says(pieces(rs), x), said(fs, x)) = byte(rs)
    BY <1>8, <1>9 DEF over
  <2> QED BY <2>3, <2>4 DEF gs
<1>10. CASE covering(rs, x) = {}
  <2>1. D = C
    BY <1>6, <1>10
  <2>2. C # {} => gs[Max(C)] = fs[Max(C)]
    BY <1>5, <1>7
  <2>3. said(gs, x) = said(fs, x)
    BY <1>4, <2>1, <2>2
  <2>4. over(Says(pieces(rs), x), said(fs, x)) = said(fs, x)
    BY <1>8, <1>10 DEF over
  <2> QED BY <2>3, <2>4 DEF gs
<1> QED BY <1>9, <1>10

-----------------------------------------------------------------------------
(***************************************************************************)
(* The invariant.                                                          *)
(***************************************************************************)

Typed ==
  /\ TypeOK
  /\ read \in Seq(Record) /\ earlier \in Seq(Seq(Record))
  /\ segments \in Seq(Piece) /\ segment_buf \in Seq(Nat)

\* Every segment begins in the address space.
InSpace ==
  /\ address_base + OFFSETS <= ADDRESSES
  /\ segment_start < ADDRESSES
  /\ \A i \in DOMAIN segments : segments[i].address < ADDRESSES

\* The parser has the base that holds for the next record.
BaseStands == file = "ihex" /\ status = "reading" => address_base = base_at(read, Len(read) + 1)

\* The segments say what the records say.
SegmentsSay ==
  file = "ihex" =>
    /\ status = "reading" => \A x \in Nat : Says(all_segments, x) = Says(pieces(read), x)
    /\ status = "loading" => \A x \in Nat : Says(segments, x) = Says(pieces(read), x)

\* What is in memory, from the first file to the last.
MemoryHolds ==
  \A x \in Mapped :
    /\ status = "reading" /\ file = "ihex" => memory[x] = said(earlier, x)
    /\ status = "loading"
         => memory[x] = over(Says(SubSeq(segments, 1, loaded), x), said(earlier, x))
    /\ (status = "reading" /\ file = "elf") \/ status \in {"Ok", "running"}
         => memory[x] = over(Says(pieces(read), x), said(earlier, x))

\* The CPU starts with what was in memory.
Started == status = "running" => cpu = <<vector(0), vector(1)>>

\* Segments are written when all of a hex file is read.
Phases ==
  /\ status = "loading" => file = "ihex"
  /\ status = "reading" => loaded = 0

IInv == Typed /\ InSpace /\ BaseStands /\ SegmentsSay /\ MemoryHolds /\ Started /\ Phases

\* What the definitions above say of the variables, in a form the steps below use.
LEMMA InvFacts ==
  ASSUME IInv
  PROVE  /\ left \in 0 .. MaxRecords /\ Len(earlier) < MaxFiles
         /\ address_base \in Nat /\ segment_start \in Nat /\ loaded \in 0 .. Len(segments)
         /\ DOMAIN memory = Mapped
         /\ status \in {"reading", "loading", "Ok", "Err", "running"} /\ file \in {"elf", "ihex"}
         /\ (status = "running") = (cpu # Stopped)
         /\ \A i \in 1 .. Len(segments) : Len(segments[i].data) > 0
         /\ read \in Seq(Record) /\ earlier \in Seq(Seq(Record))
         /\ segments \in Seq(Piece) /\ segment_buf \in Seq(Nat)
         /\ Len(segments) \in Nat /\ Len(read) \in Nat /\ Len(segment_buf) \in Nat
<1>1. Typed
  BY DEF IInv
<1>2. read \in Seq(Record) /\ segments \in Seq(Piece) /\ segment_buf \in Seq(Nat)
  BY <1>1 DEF Typed
<1>3. Len(segments) \in Nat /\ Len(read) \in Nat /\ Len(segment_buf) \in Nat
      /\ DOMAIN segments = 1 .. Len(segments)
  BY <1>2, LenProperties
<1> QED BY <1>1, <1>2, <1>3 DEF Typed, TypeOK

\* Pushing the segment that is being read changes nothing of what is said.
LEMMA PushedSays ==
  ASSUME IInv
  PROVE  /\ pushed \in Seq(Piece) /\ Len(pushed) \in Nat /\ Len(segments) <= Len(pushed)
         /\ \A i \in 1 .. Len(pushed) : Len(pushed[i].data) > 0
         /\ \A i \in 1 .. Len(pushed) : pushed[i].address < ADDRESSES
         /\ \A x \in Nat : Says(pushed, x) = Says(all_segments, x)
         /\ Segment(segment_start, segment_buf) \in Piece
<1> DEFINE p == Segment(segment_start, segment_buf)
           n == Len(segments)
<1>1. /\ segment_start \in Nat /\ segments \in Seq(Piece) /\ segment_buf \in Seq(Nat) /\ n \in Nat
      /\ \A i \in 1 .. n : Len(segments[i].data) > 0
      /\ Len(segment_buf) \in Nat /\ DOMAIN segments = 1 .. n
  BY InvFacts, LenProperties
<1>2. segment_start < ADDRESSES /\ \A i \in 1 .. n : segments[i].address < ADDRESSES
  BY <1>1 DEF IInv, InSpace
<1>3. p \in Piece /\ p.data = segment_buf /\ p.address = segment_start
  BY <1>1 DEF Piece, Segment
<1>4. all_segments = Append(segments, p)
  BY DEF all_segments
<1> HIDE DEF p, n
<1>5. CASE segment_buf = <<>>
  <2>1. pushed = segments
    BY <1>5 DEF pushed
  <2>2. \A x \in Nat : Says(segments, x) = Says(all_segments, x)
    BY <1>1, <1>3, <1>4, <1>5, SaysAppendEmpty
  <2> QED BY <1>1, <1>2, <1>3, <2>1, <2>2 DEF n, p
<1>6. CASE segment_buf # <<>>
  <2>1. pushed = all_segments
    BY <1>4, <1>6 DEF pushed, p
  <2>2. /\ all_segments \in Seq(Piece) /\ Len(all_segments) = n + 1
        /\ all_segments[n + 1] = p /\ \A i \in 1 .. n : all_segments[i] = segments[i]
    BY <1>1, <1>3, <1>4, AppendProperties DEF n
  <2>3. Len(segment_buf) > 0
    BY <1>1, <1>6, EmptySeq
  <2>4. \A i \in 1 .. n + 1 : i \in 1 .. n \/ i = n + 1
    BY <1>1
  <2>5. \A i \in 1 .. n + 1 : Len(all_segments[i].data) > 0 /\ all_segments[i].address < ADDRESSES
    BY <1>1, <1>2, <1>3, <2>2, <2>3, <2>4
  <2> QED BY <1>1, <1>3, <2>1, <2>2, <2>5 DEF n, p
<1> QED BY <1>5, <1>6

\* Writing a piece to memory leaves there what a list says with it at its end.
LEMMA Written ==
  ASSUME NEW m, NEW ps \in Seq(Piece), NEW p \in Piece, NEW x \in Mapped, NEW old,
         m[x] = over(Says(ps, x), old)
  PROVE  written(m, p.address, p.data)[x] = over(Says(Append(ps, p), x), old)
<1>1. x \in Nat
  BY HexAssumption
<1>2. p.address \in Nat /\ p.data \in Seq(Nat)
  BY DEF Piece
<1>3. Len(p.data) \in Nat
  BY <1>2, LenProperties
<1>4. covers(p, x) <=> p.address <= x /\ x < p.address + Len(p.data)
  <2> DEFINE a == p.address
             l == Len(p.data)
  <2>1. covers(p, x) <=> x - a \in 0 .. l - 1
    BY DEF covers
  <2>2. a \in Nat /\ l \in Nat
    BY <1>2, <1>3
  <2> HIDE DEF a, l
  <2>3. x - a \in 0 .. l - 1 <=> a <= x /\ x < a + l
    BY <1>1, <2>2
  <2> QED BY <2>1, <2>3 DEF a, l
<1>5. written(m, p.address, p.data)[x] = IF covers(p, x) THEN p.data[x - p.address + 1] ELSE m[x]
  BY <1>4 DEF written
<1>6. Says(Append(ps, p), x) = IF covers(p, x) THEN << p.data[x - p.address + 1] >> ELSE Says(ps, x)
  BY <1>1, SaysAppend
<1>7. CASE covers(p, x)
  BY <1>5, <1>6, <1>7 DEF over
<1>8. CASE ~covers(p, x)
  BY <1>5, <1>6, <1>8 DEF over
<1> QED BY <1>7, <1>8

-----------------------------------------------------------------------------
(***************************************************************************)
(* Steps.                                                                  *)
(***************************************************************************)

LEMMA MappedIsNat == Mapped \subseteq Nat
BY HexAssumption

\* When no record is read there is no base, no piece and nothing said.
LEMMA NoRecord ==
  /\ base_at(<<>>, Len(<<>>) + 1) = 0
  /\ pieces(<<>>) = <<>>
  /\ \A x \in Nat : Says(Append(<<>>, Segment(0, <<>>)), x) = Says(<<>>, x)
<1>1. /\ <<>> \in Seq(Record) /\ <<>> \in Seq(Piece) /\ <<>> \in Seq(Nat)
      /\ Len(<<>>) = 0 /\ DOMAIN <<>> = {}
  BY EmptySeq
<1>2. base_at(<<>>, Len(<<>>) + 1) = 0
  <2> DEFINE rs == <<>>
  <2>1. rs \in Seq(Record) /\ Len(rs) = 0
    BY <1>1
  <2> HIDE DEF rs
  <2>2. 1 .. 1 - 1 = {} /\ 1 \in 1 .. Len(rs) + 1 /\ Len(rs) + 1 = 1
    BY <2>1
  <2>3. { j \in 1 .. 1 - 1 : extends(rs[j]) } = {}
    BY <2>2
  <2>4. base_at(rs, 1) = 0
    BY <2>1, <2>2, <2>3, BaseAt
  <2> QED BY <2>2, <2>4 DEF rs
<1>3. pieces(<<>>) = <<>>
  BY <1>1 DEF pieces
<1>4. ASSUME NEW x \in Nat
      PROVE  Says(Append(<<>>, Segment(0, <<>>)), x) = Says(<<>>, x)
  <2> DEFINE p == Segment(0, <<>>)
             ps == <<>>
  <2>1. p \in Piece /\ p.data = <<>> /\ ps \in Seq(Piece)
    BY <1>1 DEF Segment, Piece
  <2> HIDE DEF p, ps
  <2>2. Says(Append(ps, p), x) = Says(ps, x)
    BY <2>1, SaysAppendEmpty
  <2> QED BY <2>2 DEF p, ps
<1> QED BY <1>2, <1>3, <1>4

LEMMA InitInv == Init => IInv
<1> SUFFICES ASSUME Init PROVE IInv
  OBVIOUS
<1>1. /\ OFFSETS \in Nat \ {0} /\ ADDRESSES \in Nat \ {0} /\ OFFSETS <= ADDRESSES
      /\ MaxRecords \in Nat /\ MaxFiles \in Nat \ {0}
  BY HexAssumption, LoadingAssumption
<1>2. /\ read = <<>> /\ earlier = <<>> /\ segments = <<>> /\ segment_buf = <<>>
      /\ address_base = 0 /\ segment_start = 0 /\ loaded = 0 /\ left = MaxRecords
      /\ status = "reading" /\ file \in {"elf", "ihex"} /\ cpu = Stopped
      /\ memory = [x \in Mapped |-> Unwritten]
  BY DEF Init, HexInit
<1>3. /\ <<>> \in Seq(Record) /\ <<>> \in Seq(Seq(Record)) /\ <<>> \in Seq(Piece) /\ <<>> \in Seq(Nat)
      /\ Len(<<>>) = 0 /\ DOMAIN <<>> = {}
  BY EmptySeq
<1>4. TypeOK
  BY <1>1, <1>2, <1>3 DEF TypeOK
<1>5. Typed
  BY <1>2, <1>3, <1>4 DEF Typed
<1>6. InSpace
  BY <1>1, <1>2, <1>3 DEF InSpace
<1>7. BaseStands
  BY <1>2, NoRecord DEF BaseStands
<1>8. pieces(read) = <<>>
  BY <1>2, NoRecord
<1>9. SegmentsSay
  <2>1. all_segments = Append(<<>>, Segment(0, <<>>))
    BY <1>2 DEF all_segments
  <2> QED BY <1>2, <1>8, <2>1, NoRecord DEF SegmentsSay
<1>10. MemoryHolds
  <2>1. \A x \in Mapped : memory[x] = Unwritten
    BY <1>2
  <2>2. \A x : said(earlier, x) = Unwritten /\ Says(pieces(read), x) = <<>>
    BY <1>2, <1>8, SaidNothing, SaysNothing
  <2> QED BY <1>2, <2>1, <2>2 DEF MemoryHolds, over
<1>11. Started /\ Phases
  BY <1>2 DEF Started, Phases
<1> QED BY <1>5, <1>6, <1>7, <1>9, <1>10, <1>11 DEF IInv

\* A step that leaves the parser and the records alone.
LEMMA ParserStands ==
  ASSUME IInv, UNCHANGED <<address_base, segment_start, segment_buf, segments, read, earlier, file>>,
         status' = "reading" => status = "reading"
  PROVE  /\ InSpace' /\ BaseStands'
         /\ read' \in Seq(Record) /\ earlier' \in Seq(Seq(Record))
         /\ segments' \in Seq(Piece) /\ segment_buf' \in Seq(Nat)
<1>1. read \in Seq(Record) /\ earlier \in Seq(Seq(Record)) /\ segments \in Seq(Piece)
      /\ segment_buf \in Seq(Nat)
  BY InvFacts
<1>2. InSpace /\ BaseStands
  BY DEF IInv
<1>3. InSpace'
  BY <1>2 DEF InSpace
<1>4. BaseStands'
  BY <1>2 DEF BaseStands
<1> QED BY <1>1, <1>3, <1>4

\* One that leaves the memory and the CPU alone too, and goes nowhere with them.
LEMMA NothingWritten ==
  ASSUME IInv, UNCHANGED <<address_base, segment_start, segment_buf, segments, read, earlier, file>>,
         UNCHANGED <<left, loaded, memory, cpu>>, status' \in {status, "Err"}, status # "running"
  PROVE  IInv'
<1>1. InSpace' /\ BaseStands' /\ Typed'
  <2>1. /\ InSpace' /\ BaseStands'
        /\ read' \in Seq(Record) /\ earlier' \in Seq(Seq(Record))
        /\ segments' \in Seq(Piece) /\ segment_buf' \in Seq(Nat)
    BY ParserStands
  <2>2. TypeOK'
    <3>1. TypeOK
      BY DEF IInv, Typed
    <3>2. status' # "running" /\ status' \in {"reading", "loading", "Ok", "Err", "running"}
      BY <3>1 DEF TypeOK
    <3> QED BY <3>1, <3>2 DEF TypeOK
  <2> QED BY <2>1, <2>2 DEF Typed
<1>2. SegmentsSay'
  <2>1. SegmentsSay
    BY DEF IInv
  <2> QED BY <2>1 DEF SegmentsSay, all_segments
<1>3. MemoryHolds'
  <2>1. MemoryHolds
    BY DEF IInv
  <2>2. CASE status' = status
    BY <2>1, <2>2 DEF MemoryHolds
  <2>3. CASE status' = "Err"
    BY <2>3 DEF MemoryHolds
  <2> QED BY <2>2, <2>3
<1>4. Started' /\ Phases'
  <2>1. Phases
    BY DEF IInv
  <2> QED BY <2>1 DEF Started, Phases
<1> QED BY <1>1, <1>2, <1>3, <1>4 DEF IInv

\* load_elf(): a header is loaded where its address says, or passed over.
LEMMA HeaderInv ==
  ASSUME IInv, program_header
  PROVE  IInv'
<1>1. PICK type \in Types, paddr \in Paddrs, value \in Values :
        LET phdr == [kind |-> "phdr", type |-> type, paddr |-> paddr, value |-> value]
        IN  /\ yield(phdr)
            /\ IF loadable(phdr) THEN load_segment(Segment(paddr, value))
               ELSE UNCHANGED <<memory, status>>
  BY DEF program_header
<1> DEFINE r == [kind |-> "phdr", type |-> type, paddr |-> paddr, value |-> value]
           p == piece(Append(read, r), Len(read) + 1)
<1>2. /\ file = "elf" /\ file' = file /\ status = "reading" /\ left > 0 /\ left' = left - 1
      /\ read' = Append(read, r) /\ UNCHANGED <<address_base, segment_start, segment_buf, segments>>
      /\ UNCHANGED <<loaded, earlier, cpu>>
      /\ IF loadable(r) THEN load_segment(Segment(paddr, value)) ELSE UNCHANGED <<memory, status>>
  BY <1>1 DEF program_header, yield, parser, main
<1>3. r \in Record /\ value \in Seq(Nat) /\ paddr \in Nat
  BY HexAssumption, LoadingAssumption DEF Record
<1>4. /\ read \in Seq(Record) /\ read' \in Seq(Record) /\ read'[Len(read) + 1] = r
      /\ Len(read) \in Nat
  BY <1>2, <1>3, InvFacts, AppendProperties
<1>5. pieces(read') = Append(pieces(read), p) /\ p \in Piece /\ pieces(read) \in Seq(Piece)
  BY <1>2, <1>3, <1>4, PiecesAppend, PiecesType
<1>6. status' \in {"reading", "Err"}
  BY <1>2 DEF load_segment
<1>7. Typed'
  <2>1. left' \in 0 .. MaxRecords
    BY <1>2, InvFacts, HexAssumption
  <2>2. DOMAIN memory' = Mapped
    BY <1>2, InvFacts DEF load_segment, written
  <2>3. status' # "running" /\ cpu' = Stopped
    BY <1>2, <1>6, InvFacts
  <2>4. TypeOK
    BY DEF IInv, Typed
  <2>5. TypeOK'
    BY <1>2, <1>6, <2>1, <2>2, <2>3, <2>4 DEF TypeOK
  <2> QED BY <1>2, <1>4, <2>5, InvFacts DEF Typed
<1>8. InSpace' /\ BaseStands' /\ SegmentsSay' /\ Started' /\ Phases'
  <2>1. InSpace /\ Phases
    BY DEF IInv
  <2>2. InSpace'
    BY <1>2, <2>1 DEF InSpace
  <2> QED BY <1>2, <1>6, <2>1, <2>2 DEF BaseStands, SegmentsSay, Started, Phases
<1>9. MemoryHolds'
  <2>1. SUFFICES ASSUME NEW x \in Mapped, status' = "reading"
                 PROVE  memory'[x] = over(Says(pieces(read'), x), said(earlier', x))
    BY <1>2, <1>6 DEF MemoryHolds
  <2>2. memory[x] = over(Says(pieces(read), x), said(earlier, x)) /\ x \in Nat
    BY <1>2, MappedIsNat DEF IInv, MemoryHolds
  <2>3. CASE loadable(r)
    <3>1. memory' = written(memory, paddr % ADDRESSES, value)
      BY <1>2, <2>1, <2>3 DEF load_segment, Segment
    <3>2. p = Segment(paddr % ADDRESSES, value)
      <4>1. tells(r) /\ r.kind = "phdr" /\ r.paddr = paddr /\ r.value = value
        BY <2>3 DEF loadable, tells
      <4> HIDE DEF r
      <4> QED BY <1>2, <1>4, <4>1 DEF piece, first_at
    <3>3. p.address = paddr % ADDRESSES /\ p.data = value
      BY <3>2 DEF Segment
    <3> HIDE DEF p
    <3>4. memory'[x] = over(Says(Append(pieces(read), p), x), said(earlier, x))
      BY <1>5, <2>2, <3>1, <3>3, Written
    <3> QED BY <1>2, <1>5, <3>4
  <2>4. CASE ~loadable(r)
    <3>1. memory' = memory
      BY <1>2, <2>4
    <3>2. p.data = <<>>
      <4>1. r.value = value /\ r.kind = "phdr" /\ r.type = type
        OBVIOUS
      <4>2. ~tells(r) \/ value = <<>>
        BY <2>4, <4>1 DEF loadable, tells
      <4> HIDE DEF r
      <4> QED BY <1>2, <1>4, <4>1, <4>2 DEF piece, Segment
    <3> HIDE DEF p
    <3>3. Says(pieces(read'), x) = Says(pieces(read), x)
      BY <1>5, <2>2, <3>2, SaysAppendEmpty
    <3> QED BY <1>2, <2>2, <3>1, <3>3
  <2> QED BY <2>3, <2>4
<1> QED BY <1>7, <1>8, <1>9 DEF IInv

\* A record of a hex file is read, and nothing is written.
LEMMA RecordRead ==
  ASSUME IInv, NEW r \in Record, file = "ihex", yield(r),
         UNCHANGED <<loaded, memory, status, main>>
  PROVE  /\ read' = Append(read, r) /\ read' \in Seq(Record) /\ read'[Len(read) + 1] = r
         /\ Len(read') = Len(read) + 1
         /\ pieces(read') = Append(pieces(read), piece(read', Len(read) + 1))
         /\ piece(read', Len(read) + 1) \in Piece /\ pieces(read) \in Seq(Piece)
         /\ base_at(read', Len(read') + 1) = IF extends(r) THEN base_of(r) ELSE address_base
         /\ base_at(read', Len(read) + 1) = address_base
         /\ status = "reading" /\ left' \in 0 .. MaxRecords
         /\ MemoryHolds' /\ Started' /\ Phases'
<1>1. /\ file' = file /\ status = "reading" /\ status' = status /\ left > 0 /\ left' = left - 1
      /\ read' = Append(read, r) /\ memory' = memory /\ loaded' = loaded
      /\ earlier' = earlier /\ cpu' = cpu
  BY DEF yield, main
<1>2. read \in Seq(Record) /\ Len(read) \in Nat
  BY InvFacts
<1>3. read' \in Seq(Record) /\ read'[Len(read) + 1] = r /\ Len(read') = Len(read) + 1
  BY <1>1, <1>2, AppendProperties
<1>4. /\ pieces(read') = Append(pieces(read), piece(read', Len(read) + 1))
      /\ piece(read', Len(read) + 1) \in Piece /\ pieces(read) \in Seq(Piece)
  BY <1>1, <1>2, PiecesAppend, PiecesType
<1>5. address_base = base_at(read, Len(read) + 1)
  BY <1>1 DEF IInv, BaseStands
<1>6. base_at(read', Len(read) + 2) = IF extends(r) THEN base_of(r) ELSE address_base
  BY <1>1, <1>2, <1>5, BaseNext
<1>7. base_at(read', Len(read) + 1) = address_base
  <2>1. Len(read) + 1 \in 1 .. Len(read) + 1
    BY <1>2
  <2> QED BY <1>1, <1>2, <1>5, <2>1, BaseStays
<1>8. Len(read') + 1 = Len(read) + 2
  BY <1>2, <1>3
<1>9. left' \in 0 .. MaxRecords
  BY <1>1, InvFacts, HexAssumption
<1>10. MemoryHolds'
  <2>1. MemoryHolds
    BY DEF IInv
  <2> QED BY <1>1, <2>1 DEF MemoryHolds
<1>11. Started' /\ Phases'
  <2>1. Phases
    BY DEF IInv
  <2> QED BY <1>1, <2>1 DEF Started, Phases
<1> QED BY <1>1, <1>3, <1>4, <1>6, <1>7, <1>8, <1>9, <1>10, <1>11

\* A record that says nothing of the memory at most sets the base.
LEMMA QuietRecord ==
  ASSUME IInv, NEW r \in Record, ~tells(r), file = "ihex", yield(r),
         address_base' = IF extends(r) THEN base_of(r) ELSE address_base,
         UNCHANGED <<segment_start, segment_buf, segments, loaded, memory, status, main>>
  PROVE  IInv'
<1> DEFINE p == piece(read', Len(read) + 1)
<1>1. /\ read' \in Seq(Record) /\ read'[Len(read) + 1] = r
      /\ pieces(read') = Append(pieces(read), p) /\ p \in Piece /\ pieces(read) \in Seq(Piece)
      /\ base_at(read', Len(read') + 1) = (IF extends(r) THEN base_of(r) ELSE address_base)
      /\ status = "reading" /\ left' \in 0 .. MaxRecords
      /\ MemoryHolds' /\ Started' /\ Phases'
  BY RecordRead
<1>2. /\ file' = file /\ earlier' = earlier /\ cpu' = cpu /\ status' = status /\ memory' = memory
      /\ loaded' = loaded /\ segments' = segments /\ segment_buf' = segment_buf
      /\ segment_start' = segment_start
  BY DEF main
<1>3. address_base' \in Nat /\ address_base' + OFFSETS <= ADDRESSES
  <2>1. address_base \in Nat /\ address_base + OFFSETS <= ADDRESSES
    BY InvFacts DEF IInv, InSpace
  <2> QED BY <2>1, RecordIs
<1>4. Typed'
  <2>1. TypeOK
    BY DEF IInv, Typed
  <2>2. TypeOK'
    BY <1>1, <1>2, <1>3, <2>1 DEF TypeOK
  <2> QED BY <1>1, <1>2, <2>2, InvFacts DEF Typed
<1>5. InSpace'
  <2>1. InSpace
    BY DEF IInv
  <2> QED BY <1>2, <1>3, <2>1 DEF InSpace
<1>6. BaseStands'
  BY <1>1 DEF BaseStands
<1>7. SegmentsSay'
  <2>1. all_segments' = all_segments
    BY <1>2 DEF all_segments
  <2>2. p.data = <<>>
    BY <1>1 DEF piece, Segment
  <2> HIDE DEF p
  <2>3. ASSUME NEW x \in Nat PROVE Says(pieces(read'), x) = Says(pieces(read), x)
    BY <1>1, <2>2, <2>3, SaysAppendEmpty
  <2>4. \A x \in Nat : Says(all_segments, x) = Says(pieces(read), x)
    BY <1>1 DEF IInv, SegmentsSay
  <2> QED BY <1>1, <1>2, <2>1, <2>3, <2>4 DEF SegmentsSay
<1> QED BY <1>1, <1>4, <1>5, <1>6, <1>7 DEF IInv

LEMMA ExtendedAddressInv ==
  ASSUME IInv, file = "ihex", extended_address, UNCHANGED main
  PROVE  IInv'
<1>1. PICK base \in Bases, kind \in {"segment", "linear"} :
        /\ yield([kind |-> kind, base |-> base])
        /\ address_base' = IF kind = "segment" THEN base * PARAGRAPH ELSE base * OFFSETS
  BY DEF extended_address
<1> DEFINE r == [kind |-> kind, base |-> base]
<1>2. r \in Record /\ ~tells(r) /\ extends(r)
  BY DEF Record, tells, extends
<1>3. address_base' = base_of(r)
  BY <1>1 DEF base_of
<1>4. UNCHANGED <<segment_start, segment_buf, segments, loaded, memory, status, main>>
  BY DEF extended_address
<1>5. yield(r)
  BY <1>1
<1> HIDE DEF r
<1> QED BY <1>2, <1>3, <1>4, <1>5, QuietRecord

LEMMA OtherRecordInv ==
  ASSUME IInv, file = "ihex", other_record, UNCHANGED main
  PROVE  IInv'
<1> DEFINE r == [kind |-> "start"]
<1>1. r \in Record /\ ~tells(r) /\ ~extends(r)
  BY DEF Record, tells, extends
<1>2. yield(r) /\ address_base' = address_base
      /\ UNCHANGED <<segment_start, segment_buf, segments, loaded, memory, status, main>>
  BY DEF other_record, parser
<1> HIDE DEF r
<1> QED BY <1>1, <1>2, QuietRecord

\* What two lists say alike they say alike with a further piece.
LEMMA SaysAlike ==
  ASSUME NEW ps \in Seq(Piece), NEW qs \in Seq(Piece), NEW p \in Piece, NEW x \in Nat,
         Says(ps, x) = Says(qs, x)
  PROVE  Says(Append(ps, p), x) = Says(Append(qs, p), x)
<1>1. Says(Append(ps, p), x)
        = IF covers(p, x) THEN << p.data[x - p.address + 1] >> ELSE Says(ps, x)
  BY SaysAppend
<1>2. Says(Append(qs, p), x)
        = IF covers(p, x) THEN << p.data[x - p.address + 1] >> ELSE Says(qs, x)
  BY SaysAppend
<1> QED BY <1>1, <1>2

\* A data record goes on where the segment that is being read ends, or begins one.
LEMMA DataInv ==
  ASSUME IInv, file = "ihex", data, UNCHANGED main
  PROVE  IInv'
<1>1. PICK offset \in 0 .. OFFSETS - 1, value \in Values :
        LET addr == address_base + offset
        IN  /\ yield([kind |-> "data", offset |-> offset, value |-> value])
            /\ IF continues_segment(addr)
               THEN /\ segment_buf' = segment_buf \o value
                    /\ UNCHANGED <<segment_start, segments>>
               ELSE /\ segments' = pushed
                    /\ segment_buf' = value
                    /\ segment_start' = addr
  BY DEF data
<1> DEFINE addr == address_base + offset
           r == [kind |-> "data", offset |-> offset, value |-> value]
           s == Segment(segment_start, segment_buf)
           p == Segment(addr, value)
<1>2. /\ IF addr = segment_start + Len(segment_buf)
         THEN segment_buf' = segment_buf \o value /\ segment_start' = segment_start /\ segments' = segments
         ELSE segments' = pushed /\ segment_buf' = value /\ segment_start' = addr
      /\ yield(r) /\ address_base' = address_base
      /\ UNCHANGED <<loaded, memory, status, main>>
  BY <1>1 DEF data, continues_segment
<1>3. r \in Record /\ tells(r) /\ ~extends(r) /\ r.kind = "data" /\ r.value = value /\ r.offset = offset
  BY DEF Record, tells, extends
<1> HIDE DEF r
<1>4. /\ read' \in Seq(Record) /\ read'[Len(read) + 1] = r
      /\ pieces(read') = Append(pieces(read), piece(read', Len(read) + 1))
      /\ piece(read', Len(read) + 1) \in Piece /\ pieces(read) \in Seq(Piece)
      /\ base_at(read', Len(read') + 1) = address_base
      /\ base_at(read', Len(read) + 1) = address_base
      /\ status = "reading" /\ left' \in 0 .. MaxRecords
      /\ MemoryHolds' /\ Started' /\ Phases'
  BY <1>2, <1>3, RecordRead
<1>5. piece(read', Len(read) + 1) = p
  BY <1>3, <1>4 DEF piece, first_at
<1>6. p \in Piece /\ p.address = addr /\ p.data = value
  BY <1>4, <1>5 DEF Segment
<1>7. /\ segment_start \in Nat /\ segment_buf \in Seq(Nat) /\ segments \in Seq(Piece)
      /\ address_base \in Nat /\ Len(segment_buf) \in Nat /\ value \in Seq(Nat) /\ Len(segments) \in Nat
      /\ DOMAIN segments = 1 .. Len(segments) /\ loaded \in 0 .. Len(segments)
      /\ \A i \in 1 .. Len(segments) : Len(segments[i].data) > 0
  BY InvFacts, HexAssumption, LenProperties
<1>8. /\ address_base + OFFSETS <= ADDRESSES /\ segment_start < ADDRESSES
      /\ \A i \in 1 .. Len(segments) : segments[i].address < ADDRESSES
  BY <1>7 DEF IInv, InSpace
<1>9. addr \in Nat /\ addr < ADDRESSES
  BY <1>7, <1>8, HexAssumption
<1>10. /\ pushed \in Seq(Piece) /\ Len(pushed) \in Nat /\ Len(segments) <= Len(pushed)
       /\ \A i \in 1 .. Len(pushed) : Len(pushed[i].data) > 0
       /\ \A i \in 1 .. Len(pushed) : pushed[i].address < ADDRESSES
       /\ \A x \in Nat : Says(pushed, x) = Says(all_segments, x)
       /\ s \in Piece /\ DOMAIN pushed = 1 .. Len(pushed)
  BY PushedSays, LenProperties
<1>11. s.address = segment_start /\ s.data = segment_buf /\ all_segments = Append(segments, s)
  BY DEF Segment, all_segments
<1> DEFINE goes_on == addr = segment_start + Len(segment_buf)
<1>12. /\ goes_on => segment_buf' = segment_buf \o value /\ segment_start' = segment_start
                       /\ segments' = segments
       /\ ~goes_on => segments' = pushed /\ segment_buf' = value /\ segment_start' = addr
  BY <1>2
<1>13. segment_buf \o value \in Seq(Nat)
  BY <1>7, ConcatProperties
<1>14. /\ segments' \in Seq(Piece) /\ segment_buf' \in Seq(Nat) /\ segment_start' \in Nat
       /\ segment_start' < ADDRESSES /\ loaded \in 0 .. Len(segments')
       /\ DOMAIN segments' = 1 .. Len(segments')
       /\ \A i \in 1 .. Len(segments') : Len(segments'[i].data) > 0
       /\ \A i \in 1 .. Len(segments') : segments'[i].address < ADDRESSES
  <2> HIDE DEF addr, goes_on
  <2>1. loaded \in 0 .. Len(pushed)
    BY <1>7, <1>10
  <2>2. CASE goes_on
    BY <1>7, <1>8, <1>12, <1>13, <2>2
  <2>3. CASE ~goes_on
    BY <1>7, <1>9, <1>10, <1>12, <2>1, <2>3
  <2> QED BY <2>2, <2>3
<1>15. Typed'
  <2>1. TypeOK
    BY DEF IInv, Typed
  <2>2. /\ file' = file /\ earlier' = earlier /\ cpu' = cpu /\ status' = status /\ memory' = memory
        /\ loaded' = loaded /\ address_base' = address_base
    BY <1>2 DEF main
  <2>3. TypeOK'
    BY <1>4, <1>14, <2>1, <2>2 DEF TypeOK
  <2> QED BY <1>4, <1>14, <2>2, <2>3, InvFacts DEF Typed
<1>16. InSpace'
  BY <1>2, <1>8, <1>14 DEF InSpace
<1>17. BaseStands'
  BY <1>2, <1>4 DEF BaseStands
<1>18. ASSUME NEW x \in Nat
       PROVE  Says(all_segments', x) = Says(pieces(read'), x)
  <2>1. Says(all_segments, x) = Says(pieces(read), x)
    BY <1>4 DEF IInv, SegmentsSay
  <2>2. all_segments' = Append(segments', Segment(segment_start', segment_buf'))
    BY DEF all_segments
  <2>3. all_segments \in Seq(Piece)
    BY <1>7, <1>10, <1>11, AppendProperties
  <2>4. pieces(read') = Append(pieces(read), p)
    BY <1>4, <1>5
  <2>5. CASE goes_on
    <3>1. all_segments' = Append(segments, Segment(s.address, s.data \o p.data))
      BY <1>6, <1>11, <1>12, <2>2, <2>5
    <3>2. p.address = s.address + Len(s.data)
      BY <1>6, <1>11, <2>5
    <3> HIDE DEF s, p
    <3>3. Says(all_segments', x) = Says(Append(Append(segments, s), p), x)
      BY <1>6, <1>7, <1>10, <3>1, <3>2, SaysMerged
    <3>4. Says(Append(all_segments, p), x) = Says(Append(pieces(read), p), x)
      BY <1>4, <1>6, <2>1, <2>3, SaysAlike
    <3> QED BY <1>11, <2>4, <3>3, <3>4
  <2>6. CASE ~goes_on
    <3>1. all_segments' = Append(pushed, p)
      BY <1>12, <2>2, <2>6
    <3> HIDE DEF s, p
    <3>2. Says(pushed, x) = Says(pieces(read), x)
      BY <1>10, <2>1
    <3>3. Says(Append(pushed, p), x) = Says(Append(pieces(read), p), x)
      BY <1>4, <1>6, <1>10, <3>2, SaysAlike
    <3> QED BY <2>4, <3>1, <3>3
  <2> QED BY <2>5, <2>6
<1>19. SegmentsSay'
  <2>1. status' = "reading"
    BY <1>2, <1>4
  <2> QED BY <1>18, <2>1 DEF SegmentsSay
<1> QED BY <1>4, <1>15, <1>16, <1>17, <1>19 DEF IInv

\* The end of a hex file: its segments are complete, and none of them is written.
LEMMA EndOfFileInv ==
  ASSUME IInv, file = "ihex", end_of_file, UNCHANGED main
  PROVE  IInv'
<1>1. /\ status = "reading" /\ status' = "loading" /\ segments' = pushed /\ file' = file
      /\ UNCHANGED <<read, left, address_base, segment_start, segment_buf, loaded, memory, earlier, cpu>>
  BY DEF end_of_file, main
<1>2. /\ pushed \in Seq(Piece) /\ Len(pushed) \in Nat
      /\ \A i \in 1 .. Len(pushed) : Len(pushed[i].data) > 0
      /\ \A i \in 1 .. Len(pushed) : pushed[i].address < ADDRESSES
      /\ \A x \in Nat : Says(pushed, x) = Says(all_segments, x)
      /\ DOMAIN pushed = 1 .. Len(pushed)
  BY PushedSays, LenProperties
<1>3. loaded = 0
  BY <1>1 DEF IInv, Phases
<1>4. Typed'
  <2>1. TypeOK
    BY DEF IInv, Typed
  <2>2. cpu = Stopped
    BY <1>1, InvFacts
  <2>3. TypeOK'
    BY <1>1, <1>2, <1>3, <2>1, <2>2 DEF TypeOK
  <2> QED BY <1>1, <1>2, <2>3, InvFacts DEF Typed
<1>5. InSpace'
  <2>1. InSpace
    BY DEF IInv
  <2> QED BY <1>1, <1>2, <2>1 DEF InSpace
<1>6. SegmentsSay'
  <2>1. \A x \in Nat : Says(all_segments, x) = Says(pieces(read), x)
    BY <1>1 DEF IInv, SegmentsSay
  <2> QED BY <1>1, <1>2, <2>1 DEF SegmentsSay
<1>7. MemoryHolds'
  <2>1. SUFFICES ASSUME NEW x \in Mapped
                 PROVE  memory[x] = over(Says(SubSeq(pushed, 1, 0), x), said(earlier, x))
    BY <1>1, <1>3 DEF MemoryHolds
  <2>2. memory[x] = said(earlier, x)
    BY <1>1 DEF IInv, MemoryHolds
  <2>3. SubSeq(pushed, 1, 0) = <<>>
    BY SubSeqEmpty
  <2>4. Says(SubSeq(pushed, 1, 0), x) = <<>>
    BY <2>3, SaysNothing
  <2> QED BY <2>2, <2>4 DEF over
<1>8. BaseStands' /\ Started' /\ Phases'
  BY <1>1 DEF BaseStands, Started, Phases
<1> QED BY <1>4, <1>5, <1>6, <1>7, <1>8 DEF IInv

\* The next segment is written over what is there, or the program ends.
LEMMA LoadNextInv ==
  ASSUME IInv, file = "ihex", load_next, UNCHANGED main
  PROVE  IInv'
<1> DEFINE p == segments[loaded + 1]
           done == SubSeq(segments, 1, loaded)
<1>1. /\ status = "loading" /\ loaded < Len(segments) /\ load_segment(p) /\ loaded' = loaded + 1
      /\ file' = file
      /\ UNCHANGED <<address_base, segment_start, segment_buf, segments, read, left, earlier, cpu>>
  BY DEF load_next, main, parser
<1>2. /\ segments \in Seq(Piece) /\ Len(segments) \in Nat /\ DOMAIN segments = 1 .. Len(segments)
      /\ loaded \in Nat
  BY InvFacts, LenProperties
<1>3. loaded + 1 \in 1 .. Len(segments) /\ loaded' \in 0 .. Len(segments)
      /\ 1 \in 1 .. Len(segments) /\ loaded + 1 \in 1 .. loaded + 1 /\ (loaded + 1) - 1 = loaded
  BY <1>1, <1>2
<1>4. p \in Piece /\ p.address \in Nat /\ p.address < ADDRESSES
  <2>1. p \in Piece
    BY <1>2, <1>3, ElementOfSeq
  <2>2. p.address < ADDRESSES
    BY <1>2, <1>3 DEF IInv, InSpace
  <2> QED BY <2>1, <2>2 DEF Piece
<1>5. p.address % ADDRESSES = p.address
  <2> DEFINE a == p.address
  <2>1. a \in Nat /\ a < ADDRESSES /\ ADDRESSES \in Nat \ {0}
    BY <1>4, HexAssumption
  <2> HIDE DEF a
  <2>2. a % ADDRESSES = a
    BY <2>1
  <2> QED BY <2>2 DEF a
<1>6. /\ status' \in {"loading", "Err"}
      /\ memory' = written(memory, p.address, p.data) \/ memory' = memory
      /\ status' = "loading" => memory' = written(memory, p.address, p.data)
  <2> HIDE DEF p
  <2> QED BY <1>1, <1>5 DEF load_segment
<1>7. InSpace' /\ BaseStands' /\ Typed'
  <2> HIDE DEF p, done
  <2>1. /\ InSpace' /\ BaseStands'
        /\ read' \in Seq(Record) /\ earlier' \in Seq(Seq(Record))
        /\ segments' \in Seq(Piece) /\ segment_buf' \in Seq(Nat)
    BY <1>1, <1>6, ParserStands
  <2>2. TypeOK'
    <3>1. TypeOK
      BY DEF IInv, Typed
    <3>2. DOMAIN memory' = Mapped
      BY <1>6, <3>1 DEF written, TypeOK
    <3>3. cpu' = Stopped
      BY <1>1, InvFacts
    <3> QED BY <1>1, <1>3, <1>6, <3>1, <3>2, <3>3 DEF TypeOK
  <2> QED BY <2>1, <2>2 DEF Typed
<1>8. SegmentsSay' /\ Started' /\ Phases'
  <2> HIDE DEF p, done
  <2>1. SegmentsSay /\ Phases
    BY DEF IInv
  <2> QED BY <1>1, <1>6, <2>1 DEF SegmentsSay, Started, Phases
<1>9. MemoryHolds'
  <2>1. SUFFICES ASSUME NEW x \in Mapped, status' = "loading"
                 PROVE  memory'[x] = over(Says(SubSeq(segments, 1, loaded + 1), x), said(earlier, x))
    BY <1>1, <1>6 DEF MemoryHolds
  <2>2. memory[x] = over(Says(done, x), said(earlier, x))
    BY <1>1 DEF IInv, MemoryHolds
  <2>3. memory' = written(memory, p.address, p.data)
    BY <1>6, <2>1
  <2>4. SubSeq(segments, 1, loaded + 1) = SubSeq(segments, 1, (loaded + 1) - 1) \o <<p>>
    BY <1>2, <1>3, SubSeqRecursiveSecond
  <2>5. done \in Seq(Piece)
    <3>1. \A i \in 1 .. loaded : i \in 1 .. Len(segments)
      BY <1>2, <1>3
    <3>2. \A i \in 1 .. loaded : segments[i] \in Piece
      BY <1>2, <3>1, ElementOfSeq
    <3> QED BY <1>2, <3>2, SubSeqProperties
  <2>6. SubSeq(segments, 1, (loaded + 1) - 1) = done
    BY <1>3
  <2> HIDE DEF p, done
  <2>7. SubSeq(segments, 1, loaded + 1) = Append(done, p)
    BY <1>4, <2>4, <2>5, <2>6, AppendIsConcat
  <2>8. memory'[x] = over(Says(Append(done, p), x), said(earlier, x))
    BY <1>4, <2>2, <2>3, <2>5, Written
  <2> QED BY <2>7, <2>8
<1> QED BY <1>7, <1>8, <1>9 DEF IInv

\* All segments are written.
LEMMA LoadIhexInv ==
  ASSUME IInv, file = "ihex", load_ihex, UNCHANGED main
  PROVE  IInv'
<1>1. /\ status = "loading" /\ status' = "Ok" /\ loaded = Len(segments) /\ file' = file
      /\ UNCHANGED <<address_base, segment_start, segment_buf, segments, read, left, loaded, memory>>
      /\ UNCHANGED <<earlier, cpu>>
  BY DEF load_ihex, main, parser
<1>2. InSpace' /\ BaseStands' /\ Typed'
  <2>1. /\ InSpace' /\ BaseStands'
        /\ read' \in Seq(Record) /\ earlier' \in Seq(Seq(Record))
        /\ segments' \in Seq(Piece) /\ segment_buf' \in Seq(Nat)
    BY <1>1, ParserStands
  <2>2. TypeOK'
    <3>1. TypeOK /\ cpu = Stopped
      BY <1>1, InvFacts DEF IInv, Typed
    <3> QED BY <1>1, <3>1 DEF TypeOK
  <2> QED BY <2>1, <2>2 DEF Typed
<1>3. MemoryHolds'
  <2>1. SUFFICES ASSUME NEW x \in Mapped
                 PROVE  memory[x] = over(Says(pieces(read), x), said(earlier, x))
    BY <1>1 DEF MemoryHolds
  <2>2. memory[x] = over(Says(SubSeq(segments, 1, loaded), x), said(earlier, x))
    BY <1>1 DEF IInv, MemoryHolds
  <2>3. SubSeq(segments, 1, loaded) = segments
    BY <1>1, InvFacts, SubSeqFull
  <2>4. Says(segments, x) = Says(pieces(read), x)
    BY <1>1, MappedIsNat DEF IInv, SegmentsSay
  <2> QED BY <2>2, <2>3, <2>4
<1>4. SegmentsSay' /\ Started' /\ Phases'
  BY <1>1 DEF SegmentsSay, Started, Phases
<1> QED BY <1>2, <1>3, <1>4 DEF IInv

\* All program headers of an ELF file are seen.
LEMMA LoadElfInv ==
  ASSUME IInv, load_elf
  PROVE  IInv'
<1>1. /\ status = "reading" /\ status' = "Ok" /\ file = "elf" /\ file' = file
      /\ UNCHANGED <<address_base, segment_start, segment_buf, segments, read, left, loaded, memory>>
      /\ UNCHANGED <<earlier, cpu>>
  BY DEF load_elf, main, parser
<1>2. InSpace' /\ BaseStands' /\ Typed'
  <2>1. /\ InSpace' /\ BaseStands'
        /\ read' \in Seq(Record) /\ earlier' \in Seq(Seq(Record))
        /\ segments' \in Seq(Piece) /\ segment_buf' \in Seq(Nat)
    BY <1>1, ParserStands
  <2>2. TypeOK'
    <3>1. TypeOK /\ cpu = Stopped
      BY <1>1, InvFacts DEF IInv, Typed
    <3> QED BY <1>1, <3>1 DEF TypeOK
  <2> QED BY <2>1, <2>2 DEF Typed
<1>3. MemoryHolds'
  <2>1. MemoryHolds
    BY DEF IInv
  <2> QED BY <1>1, <2>1 DEF MemoryHolds
<1>4. SegmentsSay' /\ Started' /\ Phases'
  BY <1>1 DEF SegmentsSay, Started, Phases
<1> QED BY <1>2, <1>3, <1>4 DEF IInv

LEMMA BadFileInv ==
  ASSUME IInv, bad_file
  PROVE  IInv'
<1>1. /\ status = "reading" /\ status' = "Err"
      /\ UNCHANGED <<address_base, segment_start, segment_buf, segments, read, earlier, file>>
      /\ UNCHANGED <<left, loaded, memory, cpu>>
  BY DEF bad_file, main, parser
<1>2. status' \in {status, "Err"} /\ status # "running"
  BY <1>1
<1> QED BY <1>1, <1>2, NothingWritten

\* The next file is read from its beginning, over what the files before it left.
LEMMA NextFileInv ==
  ASSUME IInv, next_file
  PROVE  IInv'
<1>1. /\ status = "Ok" /\ Len(earlier) + 1 < MaxFiles /\ earlier' = Append(earlier, read)
      /\ file' \in {"elf", "ihex"} /\ read' = <<>> /\ status' = "reading"
      /\ address_base' = 0 /\ segment_start' = 0 /\ segment_buf' = <<>> /\ segments' = <<>>
      /\ loaded' = 0 /\ left' = left /\ memory' = memory /\ cpu' = cpu
  BY DEF next_file, next_kinds, segments_starts
<1>2. earlier \in Seq(Seq(Record)) /\ read \in Seq(Record) /\ cpu = Stopped
  BY <1>1, InvFacts
<1>3. earlier' \in Seq(Seq(Record)) /\ Len(earlier') = Len(earlier) + 1
  <2> DEFINE F == Seq(Record)
  <2>1. earlier \in Seq(F) /\ read \in F
    BY <1>2
  <2> HIDE DEF F
  <2>2. Append(earlier, read) \in Seq(F) /\ Len(Append(earlier, read)) = Len(earlier) + 1
    BY <2>1, AppendProperties
  <2> QED BY <1>1, <2>2 DEF F
<1>4. /\ <<>> \in Seq(Record) /\ <<>> \in Seq(Piece) /\ <<>> \in Seq(Nat)
      /\ Len(<<>>) = 0 /\ DOMAIN <<>> = {}
  BY EmptySeq
<1>5. Typed'
  <2>1. TypeOK
    BY DEF IInv, Typed
  <2>2. TypeOK'
    BY <1>1, <1>2, <1>3, <1>4, <2>1 DEF TypeOK
  <2> QED BY <1>1, <1>3, <1>4, <2>2 DEF Typed
<1>6. InSpace'
  BY <1>1, <1>4, HexAssumption DEF InSpace
<1>7. BaseStands'
  BY <1>1, NoRecord DEF BaseStands
<1>8. pieces(read') = <<>>
  BY <1>1, NoRecord
<1>9. SegmentsSay'
  <2>1. all_segments' = Append(<<>>, Segment(0, <<>>))
    BY <1>1 DEF all_segments
  <2> QED BY <1>1, <1>8, <2>1, NoRecord DEF SegmentsSay
<1>10. MemoryHolds'
  <2>1. ASSUME NEW x \in Mapped PROVE memory[x] = said(earlier', x)
    <3>1. memory[x] = over(Says(pieces(read), x), said(earlier, x)) /\ x \in Nat
      BY <1>1, MappedIsNat DEF IInv, MemoryHolds
    <3>2. said(Append(earlier, read), x) = over(Says(pieces(read), x), said(earlier, x))
      BY <1>2, <3>1, SaidAppend
    <3> QED BY <1>1, <3>1, <3>2
  <2>2. ASSUME NEW x \in Mapped
        PROVE  over(Says(pieces(read'), x), said(earlier', x)) = said(earlier', x)
    BY <1>8, SaysNothing DEF over
  <2> QED BY <1>1, <2>1, <2>2 DEF MemoryHolds
<1>11. Started' /\ Phases'
  BY <1>1 DEF Started, Phases
<1> QED BY <1>5, <1>6, <1>7, <1>9, <1>10, <1>11 DEF IInv

\* The CPU starts.
LEMMA RunInv ==
  ASSUME IInv, run
  PROVE  IInv'
<1>1. /\ status = "Ok" /\ status' = "running" /\ cpu' = <<vector(0), vector(1)>> /\ file' = file
      /\ UNCHANGED <<address_base, segment_start, segment_buf, segments, read, left, loaded, memory>>
      /\ earlier' = earlier
  BY DEF run, main, parser
<1>2. InSpace' /\ BaseStands' /\ Typed'
  <2>1. /\ InSpace' /\ BaseStands'
        /\ read' \in Seq(Record) /\ earlier' \in Seq(Seq(Record))
        /\ segments' \in Seq(Piece) /\ segment_buf' \in Seq(Nat)
    BY <1>1, ParserStands
  <2>2. TypeOK'
    <3>1. TypeOK
      BY DEF IInv, Typed
    <3>2. cpu' # Stopped
      BY <1>1 DEF Stopped
    <3> QED BY <1>1, <3>1, <3>2 DEF TypeOK
  <2> QED BY <2>1, <2>2 DEF Typed
<1>3. MemoryHolds'
  <2>1. MemoryHolds
    BY DEF IInv
  <2> QED BY <1>1, <2>1 DEF MemoryHolds
<1>4. Started'
  BY <1>1 DEF Started, vector
<1>5. SegmentsSay' /\ Phases'
  BY <1>1 DEF SegmentsSay, Phases
<1> QED BY <1>2, <1>3, <1>4, <1>5 DEF IInv

LEMMA NextInv == IInv /\ [Next]_vars => IInv'
<1> SUFFICES ASSUME IInv, [Next]_vars PROVE IInv'
  OBVIOUS
<1>1. CASE program_header
  BY <1>1, HeaderInv
<1>2. CASE load_elf
  BY <1>2, LoadElfInv
<1>3. CASE hex
  <2>1. file = "ihex" /\ UNCHANGED main
    BY <1>3 DEF hex
  <2>2. CASE data
    BY <2>1, <2>2, DataInv
  <2>3. CASE extended_address
    BY <2>1, <2>3, ExtendedAddressInv
  <2>4. CASE other_record
    BY <2>1, <2>4, OtherRecordInv
  <2>5. CASE end_of_file
    BY <2>1, <2>5, EndOfFileInv
  <2>6. CASE load_next
    BY <2>1, <2>6, LoadNextInv
  <2>7. CASE load_ihex
    BY <2>1, <2>7, LoadIhexInv
  <2> QED BY <1>3, <2>2, <2>3, <2>4, <2>5, <2>6, <2>7 DEF hex, HexNext
<1>4. CASE bad_file
  BY <1>4, BadFileInv
<1>5. CASE next_file
  BY <1>5, NextFileInv
<1>6. CASE run
  BY <1>6, RunInv
<1>7. CASE UNCHANGED vars
  BY <1>7 DEF vars, main, parser, IInv, Typed, TypeOK, InSpace, BaseStands, SegmentsSay,
              all_segments, MemoryHolds, Started, vector, Phases
<1> QED BY <1>1, <1>2, <1>3, <1>4, <1>5, <1>6, <1>7 DEF Next

\* A file is loaded, and the CPU started, in the states the invariant describes.
THEOREM Invariance == Spec => []IInv
BY InitInv, NextInv, PTL DEF Spec

\* The variables have their types, and no segment is empty, however many files
\* and records there are.
THEOREM TypeCorrect == Spec => []TypeOK
<1>1. IInv => TypeOK
  BY DEF IInv, Typed
<1> QED BY <1>1, Invariance, PTL

LEMMA MemoryInv == IInv => MemoryIsWhatTheFilesSay
<1> SUFFICES ASSUME IInv PROVE MemoryIsWhatTheFilesSay
  OBVIOUS
<1>1. ASSUME status \in {"Ok", "running"}, NEW x \in Mapped
      PROVE  memory[x] = said(Append(earlier, read), x)
  <2>1. memory[x] = over(Says(pieces(read), x), said(earlier, x)) /\ x \in Nat
    BY <1>1, MappedIsNat DEF IInv, MemoryHolds
  <2>2. earlier \in Seq(Seq(Record)) /\ read \in Seq(Record)
    BY InvFacts
  <2> QED BY <2>1, <2>2, SaidAppend
<1>2. ASSUME status = "running", NEW i \in {1, 2}, NEW b \in 1 .. VECTOR
      PROVE  cpu[i][b] = said(Append(earlier, read), (i - 1) * VECTOR + b - 1)
  <2> DEFINE x == (i - 1) * VECTOR + b - 1
  <2>1. cpu = <<vector(0), vector(1)>>
    BY <1>2 DEF IInv, Started
  <2>2. cpu[i] = vector(i - 1)
    BY <2>1
  <2>3. cpu[i][b] = memory[x]
    BY <2>2 DEF vector
  <2>4. x \in 0 .. 2 * VECTOR - 1
    <3>1. VECTOR \in Nat
      BY LoadingAssumption
    <3>2. (i - 1) * VECTOR = 0 \/ (i - 1) * VECTOR = VECTOR
      BY <3>1
    <3> QED BY <3>1, <3>2
  <2>5. x \in Mapped
    BY <2>4, LoadingAssumption
  <2> HIDE DEF x
  <2>6. memory[x] = said(Append(earlier, read), x)
    BY <1>1, <1>2, <2>5
  <2> QED BY <2>3, <2>6 DEF x
<1> QED BY <1>1, <1>2 DEF MemoryIsWhatTheFilesSay

\* When main() has loaded its files, each address holds what the last file with
\* something to say of it says, in it the last record, and what the files do not
\* mention is unwritten: whatever the order of the records, however the segments
\* that segments() makes of them touch or overlap; and run() starts the CPU at
\* the vectors the files give.
THEOREM MemoryIsLoaded == Spec => []MemoryIsWhatTheFilesSay
BY Invariance, MemoryInv, PTL
=============================================================================
