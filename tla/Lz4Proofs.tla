------------------------------- MODULE Lz4Proofs -------------------------------
(***************************************************************************)
(* Proofs about Lz4, for inputs of every length and lengths of every size. *)
(*                                                                         *)
(* The argument: the bytes that extend a length are what an encoder writes *)
(* for the sum they add up to, so each call that the decoder makes stands  *)
(* for the bytes it has read, and what was read stays a prefix of the      *)
(* input that ends where the rest begins.                                  *)
(***************************************************************************)
EXTENDS Lz4, BasicLemmas

Halves == 0 .. NIBBLE
Calls  == Literals \cup Backrefs

-----------------------------------------------------------------------------
(***************************************************************************)
(* Numbers.                                                                *)
(***************************************************************************)

LEMMA Numbers ==
  /\ HALF \in Nat /\ HALF >= 2 /\ NIBBLE = HALF - 1 /\ NIBBLE \in Nat
  /\ MAX_BYTE \in Nat /\ MAX_BYTE + 1 = HALF * HALF /\ MAX_BYTE > NIBBLE
  /\ MIN_MATCH \in Nat /\ USIZE_MAX \in Nat
<1>1. NIBBLE \in Nat /\ NIBBLE >= 1 /\ MIN_MATCH \in Nat /\ USIZE_MAX \in Nat
  BY FormatAssumption
<1>2. HALF \in Nat /\ HALF >= 2 /\ NIBBLE = HALF - 1
  BY <1>1 DEF HALF
<1>3. HALF * HALF \in Nat /\ HALF * HALF >= HALF + HALF
  <2>1. HALF = 2 + (HALF - 2) /\ HALF - 2 \in Nat
    BY <1>2
  <2>2. HALF * HALF = HALF + HALF + HALF * (HALF - 2)
    BY <1>2
  <2>3. HALF * (HALF - 2) \in Nat
    BY <1>2, <2>1
  <2> QED BY <1>2, <2>2, <2>3
<1>4. MAX_BYTE = HALF * HALF - 1
  BY DEF MAX_BYTE
<1>5. MAX_BYTE \in Nat /\ MAX_BYTE + 1 = HALF * HALF /\ MAX_BYTE > NIBBLE
  <2> DEFINE square == HALF * HALF
  <2>1. square \in Nat /\ square >= HALF + HALF /\ MAX_BYTE = square - 1
    BY <1>3, <1>4
  <2> HIDE DEF square
  <2>2. MAX_BYTE \in Nat /\ MAX_BYTE + 1 = square /\ MAX_BYTE > NIBBLE
    BY <1>2, <2>1
  <2> QED BY <2>2 DEF square
<1> QED BY <1>1, <1>2, <1>5

\* A number below d * d has two digits to the base d.
LEMMA Digits ==
  ASSUME NEW d \in Nat \ {0}, NEW n \in Nat, n < d * d
  PROVE  n \div d \in 0 .. d - 1 /\ n % d \in 0 .. d - 1 /\ n = (d * (n \div d)) + (n % d)
<1> DEFINE q == n \div d
           r == n % d
<1>1. q \in Nat /\ r \in 0 .. d - 1 /\ n = (d * q) + r
  BY DivMod
<1> HIDE DEF q, r
<1>2. ~(q >= d)
  <2>1. SUFFICES ASSUME q >= d PROVE FALSE
    OBVIOUS
  <2>2. q = d + (q - d) /\ q - d \in Nat
    BY <1>1, <2>1
  <2>3. d * q = (d * d) + d * (q - d)
    BY <1>1, <2>2
  <2>4. d * (q - d) \in Nat /\ d * d \in Nat /\ d * q \in Nat
    BY <1>1, <2>2
  <2> QED BY <1>1, <2>3, <2>4
<1> QED BY <1>1, <1>2 DEF q, r

\* Two digits make a number below d * d, and are its digits.
LEMMA FromDigits ==
  ASSUME NEW d \in Nat \ {0}, NEW a \in 0 .. d - 1, NEW b \in 0 .. d - 1
  PROVE  /\ (d * a) + b \in 0 .. d * d - 1
         /\ ((d * a) + b) \div d = a /\ ((d * a) + b) % d = b
<1>1. a \in Nat /\ b \in Nat /\ d * a \in Nat /\ d - 1 - a \in Nat /\ d \in Nat
  OBVIOUS
<1>2. d * d = (d * a) + d * (d - 1 - a) + d
  OBVIOUS
<1>3. d * (d - 1 - a) \in Nat
  BY <1>1
<1>4. (d * a) + b < d * d
  BY <1>1, <1>2, <1>3
<1>5. (d * a) + b \in 0 .. d * d - 1
  <2>1. d * d \in Nat
    OBVIOUS
  <2> QED BY <1>1, <1>4, <2>1
<1>6. ((d * a) + b) \div d = a /\ ((d * a) + b) % d = b
  BY <1>1, UniqueRemainder
<1> QED BY <1>5, <1>6

-----------------------------------------------------------------------------
(***************************************************************************)
(* Lengths.                                                                *)
(***************************************************************************)

LEMMA DropType ==
  ASSUME NEW S, NEW s \in Seq(S), NEW n \in 0 .. Len(s)
  PROVE  /\ drop(s, n) \in Seq(S) /\ Len(drop(s, n)) = Len(s) - n
         /\ SubSeq(s, 1, n) \in Seq(S) /\ s = SubSeq(s, 1, n) \o drop(s, n)
<1>1. Len(s) \in Nat /\ n \in Nat /\ n + 1 \in Int /\ 1 \in Int /\ Len(s) \in Int /\ n \in Int
  BY LenProperties
<1>2. \A i \in 1 .. Len(s) : s[i] \in S
  BY ElementOfSeq
<1>3. \A i \in n + 1 .. Len(s) : i \in 1 .. Len(s)
  BY <1>1
<1>4. \A i \in 1 .. n : i \in 1 .. Len(s)
  BY <1>1
<1>5. drop(s, n) \in Seq(S) /\ Len(drop(s, n)) = IF n + 1 <= Len(s) THEN Len(s) - (n + 1) + 1 ELSE 0
  BY <1>1, <1>2, <1>3, SubSeqProperties DEF drop
<1>6. Len(drop(s, n)) = Len(s) - n
  BY <1>1, <1>5
<1>7. SubSeq(s, 1, n) \in Seq(S)
  BY <1>1, <1>2, <1>4, SubSeqProperties
<1>8. SubSeq(s, 1, n) \o SubSeq(s, n + 1, Len(s)) = SubSeq(s, 1, Len(s))
  <2>1. 1 \in 1 .. Len(s) + 1 /\ n \in 1 - 1 .. Len(s) /\ Len(s) \in n .. Len(s)
    BY <1>1
  <2> QED BY <2>1, ConcatAdjacentSubSeq
<1>9. SubSeq(s, 1, Len(s)) = s
  BY SubSeqFull
<1> QED BY <1>5, <1>6, <1>7, <1>8, <1>9 DEF drop

\* The bytes that extend a length: all but the last are 255.
LEMMA ExtensionIs ==
  ASSUME NEW s \in Seq(Byte), extension(s) # 0
  PROVE  /\ extension(s) \in 1 .. Len(s) /\ s[extension(s)] \in 0 .. MAX_BYTE - 1
         /\ \A i \in 1 .. extension(s) - 1 : s[i] = MAX_BYTE
<1> DEFINE last == { i \in DOMAIN s : s[i] # MAX_BYTE }
           e == extension(s)
<1>1. DOMAIN s = 1 .. Len(s) /\ Len(s) \in Nat /\ \A i \in 1 .. Len(s) : s[i] \in Byte
  BY LenProperties, ElementOfSeq
<1>2. last # {} /\ e = Min(last)
  BY DEF extension
<1>3. last \in SUBSET Nat
  BY <1>1
<1>4. e \in last /\ \A n \in last : e <= n
  <2> HIDE DEF last, e
  <2> QED BY <1>2, <1>3, MinIsLeast
<1>5. e \in 1 .. Len(s) /\ s[e] # MAX_BYTE
  BY <1>1, <1>4
<1>6. s[e] \in Byte
  BY <1>1, <1>5
<1>7. s[e] \in 0 .. MAX_BYTE - 1
  BY <1>5, <1>6, Numbers DEF Byte
<1>8. ASSUME NEW i \in 1 .. e - 1 PROVE s[i] = MAX_BYTE
  <2>1. i \in 1 .. Len(s) /\ ~(e <= i)
    BY <1>1, <1>5, <1>8
  <2>2. i \notin last
    BY <1>4, <2>1
  <2> QED BY <1>1, <2>1, <2>2
<1> QED BY <1>5, <1>7, <1>8 DEF e

\* What an encoder writes for a length that takes k bytes of 255 and one of b.
LEMMA ExtensionOf ==
  ASSUME NEW k \in Nat, NEW b \in 0 .. MAX_BYTE - 1
  PROVE  /\ NIBBLE + k * MAX_BYTE + b \in Nat
         /\ half_of(NIBBLE + k * MAX_BYTE + b) = NIBBLE
         /\ extension_of(NIBBLE + k * MAX_BYTE + b) = [i \in 1 .. k |-> MAX_BYTE] \o <<b>>
<1> DEFINE n == NIBBLE + k * MAX_BYTE + b
           m == (MAX_BYTE * k) + b
<1>1. MAX_BYTE \in Nat \ {0} /\ b \in Nat /\ NIBBLE \in Nat
  BY Numbers
<1>2. MAX_BYTE * k \in Nat /\ k * MAX_BYTE = MAX_BYTE * k
  BY <1>1
<1>3. n \in Nat /\ n - NIBBLE = m /\ m \in Nat /\ n >= NIBBLE
  BY <1>1, <1>2
<1>4. m \div MAX_BYTE = k /\ m % MAX_BYTE = b
  BY <1>1, <1>3, UniqueRemainder
<1>5. half_of(n) = NIBBLE
  <2> HIDE DEF n
  <2>1. {n, NIBBLE} \in SUBSET Nat /\ {n, NIBBLE} # {}
    BY <1>1, <1>3
  <2>2. Min({n, NIBBLE}) \in {n, NIBBLE} /\ \A x \in {n, NIBBLE} : Min({n, NIBBLE}) <= x
    BY <2>1, MinIsLeast
  <2>3. Min({n, NIBBLE}) = NIBBLE
    BY <1>1, <1>3, <2>2
  <2> QED BY <2>3 DEF half_of
<1>6. ~(n < NIBBLE)
  BY <1>1, <1>3
<1> HIDE DEF n, m
<1>7. extension_of(n) = [i \in 1 .. k |-> MAX_BYTE] \o <<b>>
  BY <1>3, <1>4, <1>6 DEF extension_of
<1> QED BY <1>3, <1>5, <1>7 DEF n

\* A length below 15 is not extended.
LEMMA ShortLength ==
  ASSUME NEW n \in 0 .. NIBBLE - 1
  PROVE  half_of(n) = n /\ extension_of(n) = <<>>
<1>1. NIBBLE \in Nat /\ n \in Nat /\ n < NIBBLE
  BY Numbers
<1>2. {n, NIBBLE} \in SUBSET Nat /\ {n, NIBBLE} # {}
  BY <1>1
<1>3. Min({n, NIBBLE}) \in {n, NIBBLE} /\ \A x \in {n, NIBBLE} : Min({n, NIBBLE}) <= x
  BY <1>2, MinIsLeast
<1>4. Min({n, NIBBLE}) = n
  BY <1>1, <1>3
<1> QED BY <1>1, <1>4 DEF half_of, extension_of

\* What the decoder reads as a length is what an encoder writes for it.
LEMMA LengthRead ==
  ASSUME NEW len \in Halves, NEW s \in Seq(Byte), has_length(len, s)
  PROVE  /\ extended(len, s) \in Nat /\ half_of(extended(len, s)) = len
         /\ extension_of(extended(len, s)) \in Seq(Byte)
         /\ after_length(len, s) \in Seq(Byte)
         /\ s = extension_of(extended(len, s)) \o after_length(len, s)
<1>1. NIBBLE \in Nat /\ MAX_BYTE \in Nat
  BY Numbers
<1>2. CASE len # NIBBLE
  <2>1. extended(len, s) = len /\ after_length(len, s) = s
    BY <1>2 DEF extended, after_length
  <2>2. len \in 0 .. NIBBLE - 1
    BY <1>1, <1>2 DEF Halves
  <2>3. half_of(len) = len /\ extension_of(len) = <<>> /\ len \in Nat
    BY <1>1, <2>2, ShortLength
  <2>4. <<>> \o s = s /\ <<>> \in Seq(Byte)
    BY ConcatEmptySeq, EmptySeq
  <2> QED BY <2>1, <2>3, <2>4
<1>3. CASE len = NIBBLE
  <2> DEFINE e == extension(s)
  <2>1. /\ e \in 1 .. Len(s) /\ s[e] \in 0 .. MAX_BYTE - 1
        /\ \A i \in 1 .. e - 1 : s[i] = MAX_BYTE
    BY <1>3, ExtensionIs DEF has_length
  <2>2. extended(len, s) = NIBBLE + (e - 1) * MAX_BYTE + s[e] /\ after_length(len, s) = drop(s, e)
    BY <1>3 DEF extended, after_length
  <2>3. Len(s) \in Nat
    BY LenProperties
  <2>4. e - 1 \in Nat /\ e \in 0 .. Len(s)
    BY <2>1, <2>3
  <2> DEFINE x == [i \in 1 .. e - 1 |-> MAX_BYTE] \o <<s[e]>>
  <2> HIDE DEF e
  <2>5. /\ extended(len, s) \in Nat /\ half_of(extended(len, s)) = NIBBLE
        /\ extension_of(extended(len, s)) = x
    BY <2>1, <2>2, <2>4, ExtensionOf
  <2>6. /\ drop(s, e) \in Seq(Byte) /\ SubSeq(s, 1, e) \in Seq(Byte)
        /\ s = SubSeq(s, 1, e) \o drop(s, e)
    BY <2>4, DropType
  <2>7. x = SubSeq(s, 1, e)
    <3>1. SubSeq(s, 1, e) = SubSeq(s, 1, e - 1) \o <<s[e]>>
      <4>1. e \in 1 .. Len(s) /\ 1 \in 1 .. Len(s) /\ e \in 1 .. Len(s)
        BY <2>1, <2>3
      <4> QED BY <4>1, SubSeqRecursiveSecond
    <3>2. SubSeq(s, 1, e - 1) = [i \in 1 .. e - 1 |-> MAX_BYTE]
      <4>1. SubSeq(s, 1, e - 1) = [i \in 1 .. e - 1 |-> s[i]]
        BY <2>1, <2>3, <2>4
      <4> QED BY <2>1, <4>1
    <3> QED BY <3>1, <3>2
  <2> QED BY <1>3, <2>2, <2>5, <2>6, <2>7
<1> QED BY <1>2, <1>3

LEMMA HalfType == ASSUME NEW n \in Nat PROVE half_of(n) \in Halves
<1>1. NIBBLE \in Nat
  BY Numbers
<1>2. CASE n < NIBBLE
  <2>1. n \in 0 .. NIBBLE - 1
    BY <1>1, <1>2
  <2> QED BY <1>1, <2>1, ShortLength DEF Halves
<1>3. CASE ~(n < NIBBLE)
  <2>1. {n, NIBBLE} \in SUBSET Nat /\ {n, NIBBLE} # {}
    BY <1>1
  <2>2. Min({n, NIBBLE}) \in {n, NIBBLE} /\ \A x \in {n, NIBBLE} : Min({n, NIBBLE}) <= x
    BY <2>1, MinIsLeast
  <2>3. half_of(n) = NIBBLE
    BY <1>1, <1>3, <2>2 DEF half_of
  <2> QED BY <1>1, <2>3 DEF Halves
<1> QED BY <1>2, <1>3

LEMMA ExtensionType == ASSUME NEW n \in Nat PROVE extension_of(n) \in Seq(Byte)
<1>1. NIBBLE \in Nat /\ MAX_BYTE \in Nat \ {0}
  BY Numbers
<1>2. CASE n < NIBBLE
  BY <1>2, EmptySeq DEF extension_of
<1>3. CASE ~(n < NIBBLE)
  <2> DEFINE m == n - NIBBLE
             k == m \div MAX_BYTE
             b == m % MAX_BYTE
  <2>1. m \in Nat
    BY <1>1, <1>3
  <2> HIDE DEF m
  <2>2. k \in Nat /\ b \in 0 .. MAX_BYTE - 1
    BY <1>1, <2>1, DivMod
  <2>3. extension_of(n) = [i \in 1 .. k |-> MAX_BYTE] \o <<b>>
    BY <1>3 DEF extension_of, m
  <2> HIDE DEF k, b
  <2>4. MAX_BYTE \in Byte /\ b \in Byte
    BY <1>1, <2>2 DEF Byte
  <2>5. [i \in 1 .. k |-> MAX_BYTE] \in Seq(Byte) /\ <<b>> \in Seq(Byte)
    BY <2>2, <2>4
  <2> QED BY <2>3, <2>5, ConcatProperties
<1> QED BY <1>2, <1>3

-----------------------------------------------------------------------------
(***************************************************************************)
(* What the encoder writes.                                                *)
(***************************************************************************)

\* Literals and back references take turns.
Turns(c) == \A i \in 1 .. Len(c) - 1 : c[i].call # c[i+1].call

\* The bytes of a call; low is the other half of the token of literals.
bytes(x, low) ==
  IF x.call = "literal"
  THEN <<HALF * half_of(Len(x.data)) + low>> \o extension_of(Len(x.data)) \o x.data
  ELSE <<x.offset % (MAX_BYTE + 1), x.offset \div (MAX_BYTE + 1)>>
         \o extension_of(x.length - MIN_MATCH)

\* The half of the token before a back reference is of its length.
low_of(c, i, low) == IF i = Len(c) THEN low ELSE half_of(c[i+1].length - MIN_MATCH)

LEMMA BytesOf ==
  ASSUME NEW c, NEW i, NEW low
  PROVE  bytes_of(c, i, low) = bytes(c[i], low_of(c, i, low))
BY DEF bytes_of, bytes, low_of

LEMMA BytesType ==
  ASSUME NEW x \in Calls, NEW low, x.call = "literal" => low \in Halves
  PROVE  bytes(x, low) \in Seq(Byte)
<1>1. NIBBLE \in Nat /\ HALF \in Nat \ {0} /\ MAX_BYTE \in Nat /\ MAX_BYTE + 1 = HALF * HALF
      /\ NIBBLE = HALF - 1 /\ MIN_MATCH \in Nat /\ USIZE_MAX \in Nat
  BY Numbers
<1>2. CASE x \in Literals
  <2>1. x.call = "literal" /\ x.data \in Seq(Byte) /\ Len(x.data) \in Nat
    BY <1>2, LenProperties DEF Literals
  <2>2. half_of(Len(x.data)) \in 0 .. HALF - 1 /\ low \in 0 .. HALF - 1
    BY <1>1, <2>1, HalfType DEF Halves
  <2>3. (HALF * half_of(Len(x.data))) + low \in 0 .. HALF * HALF - 1
    BY <1>1, <2>2, FromDigits
  <2>4. (HALF * half_of(Len(x.data))) + low \in Byte
    BY <2>3 DEF Byte, MAX_BYTE
  <2>5. <<(HALF * half_of(Len(x.data))) + low>> \in Seq(Byte)
    BY <2>4
  <2>6. extension_of(Len(x.data)) \in Seq(Byte)
    BY <2>1, ExtensionType
  <2> DEFINE token == <<(HALF * half_of(Len(x.data))) + low>>
             lengths == extension_of(Len(x.data))
  <2> HIDE DEF token, lengths
  <2>7. token \o lengths \in Seq(Byte)
    BY <2>5, <2>6, ConcatProperties DEF token, lengths
  <2>8. token \o lengths \o x.data \in Seq(Byte)
    BY <2>1, <2>7, ConcatProperties
  <2> QED BY <2>1, <2>8 DEF bytes, token, lengths
<1>3. CASE x \in Backrefs
  <2>1. x.call # "literal" /\ x.offset \in 0 .. (MAX_BYTE + 1) * (MAX_BYTE + 1) - 1
        /\ x.length \in MIN_MATCH .. USIZE_MAX
    BY <1>3 DEF Backrefs
  <2>2. x.length - MIN_MATCH \in Nat
    BY <1>1, <2>1
  <2>3. extension_of(x.length - MIN_MATCH) \in Seq(Byte)
    BY <2>2, ExtensionType
  <2> DEFINE d == MAX_BYTE + 1
  <2>4. d \in Nat \ {0} /\ d - 1 = MAX_BYTE /\ x.offset \in 0 .. d * d - 1
    BY <1>1, <2>1
  <2> HIDE DEF d
  <2>5. x.offset \in Nat /\ x.offset < d * d
    <3>1. d * d \in Nat
      BY <2>4
    <3> QED BY <2>4, <3>1
  <2>6. x.offset \div d \in 0 .. d - 1 /\ x.offset % d \in 0 .. d - 1
    BY <2>4, <2>5, Digits
  <2>7. x.offset \div d \in Byte /\ x.offset % d \in Byte
    BY <2>4, <2>6 DEF Byte
  <2>8. <<x.offset % d, x.offset \div d>> \in Seq(Byte)
    BY <2>7
  <2>9. <<x.offset % d, x.offset \div d>> \o extension_of(x.length - MIN_MATCH) \in Seq(Byte)
    BY <2>3, <2>8, ConcatProperties
  <2> QED BY <2>1, <2>9 DEF bytes, d
<1> QED BY <1>2, <1>3 DEF Calls

\* Every call of a list is written as bytes.
LEMMA BytesOfType ==
  ASSUME NEW c \in Seq(Calls), Turns(c), NEW low \in Halves, NEW i \in 1 .. Len(c)
  PROVE  bytes_of(c, i, low) \in Seq(Byte)
<1>1. c[i] \in Calls /\ Len(c) \in Nat
  BY ElementOfSeq, LenProperties
<1>2. ASSUME c[i].call = "literal", i # Len(c)
      PROVE  low_of(c, i, low) \in Halves
  <2>1. i \in 1 .. Len(c) - 1 /\ i + 1 \in 1 .. Len(c)
    BY <1>1, <1>2
  <2>2. c[i+1] \in Calls /\ c[i+1].call # "literal"
    BY <1>2, <2>1, ElementOfSeq DEF Turns
  <2>3. c[i+1] \in Backrefs
    BY <2>2 DEF Calls, Literals
  <2>4. c[i+1].length \in MIN_MATCH .. USIZE_MAX
    BY <2>3 DEF Backrefs
  <2>5. c[i+1].length - MIN_MATCH \in Nat
    BY <2>4, Numbers
  <2> QED BY <1>2, <2>5, HalfType DEF low_of
<1>3. c[i].call = "literal" => low_of(c, i, low) \in Halves
  BY <1>2 DEF low_of
<1> QED BY <1>1, <1>3, BytesOf, BytesType

\* A further call adds its bytes, if the last token was of its length.
LEMMA EncodeAppend ==
  ASSUME NEW c \in Seq(Calls), NEW x \in Calls, Turns(Append(c, x)),
         NEW low \in Halves, NEW next \in Halves,
         c # <<>> /\ c[Len(c)].call = "literal" => low = half_of(x.length - MIN_MATCH)
  PROVE  /\ encode(c, low) \in Seq(Byte)
         /\ encode(Append(c, x), next) = encode(c, low) \o bytes(x, next)
<1> DEFINE d == Append(c, x)
           n == Len(c)
           s == [i \in DOMAIN c |-> bytes_of(c, i, low)]
           t == [i \in DOMAIN d |-> bytes_of(d, i, next)]
<1>1. /\ d \in Seq(Calls) /\ Len(d) = n + 1 /\ n \in Nat
      /\ d[n + 1] = x /\ \A i \in 1 .. n : d[i] = c[i]
  BY AppendProperties, LenProperties
<1>2. DOMAIN c = 1 .. n /\ DOMAIN d = 1 .. n + 1
  BY <1>1, LenProperties
<1>3. Turns(c)
  <2>1. SUFFICES ASSUME NEW i \in 1 .. n - 1 PROVE c[i].call # c[i+1].call
    BY DEF Turns
  <2>2. i \in 1 .. Len(d) - 1 /\ i \in 1 .. n /\ i + 1 \in 1 .. n
    BY <1>1, <2>1
  <2>3. d[i].call # d[i+1].call
    BY <2>2 DEF Turns
  <2> QED BY <1>1, <2>2, <2>3
<1>4. s \in Seq(Seq(Byte)) /\ Len(s) = n
  <2>1. \A i \in 1 .. n : bytes_of(c, i, low) \in Seq(Byte)
    BY <1>3, BytesOfType
  <2>2. s \in [1 .. n -> Seq(Byte)]
    BY <1>2, <2>1
  <2> QED BY <1>1, <2>2
<1>5. bytes(x, next) \in Seq(Byte)
  BY BytesType
<1>6. \A i \in 1 .. n : bytes_of(d, i, next) = bytes_of(c, i, low)
  <2>1. SUFFICES ASSUME NEW i \in 1 .. n PROVE bytes_of(d, i, next) = bytes_of(c, i, low)
    OBVIOUS
  <2>2. d[i] = c[i] /\ i # Len(d)
    BY <1>1, <2>1
  <2>3. c[i].call = "literal" => low_of(d, i, next) = low_of(c, i, low)
    <3>1. CASE i = n
      <4>1. c # <<>> /\ d[i+1] = x
        BY <1>1, <2>1, <3>1
      <4> QED BY <2>2, <3>1, <4>1 DEF low_of
    <3>2. CASE i # n
      <4>1. i + 1 \in 1 .. n
        BY <1>1, <2>1, <3>2
      <4> QED BY <1>1, <2>2, <3>2, <4>1 DEF low_of
    <3> QED BY <3>1, <3>2
  <2>4. bytes(d[i], low_of(d, i, next)) = bytes(c[i], low_of(c, i, low))
    BY <2>2, <2>3 DEF bytes
  <2> QED BY <2>4, BytesOf
<1>7. bytes_of(d, n + 1, next) = bytes(x, next)
  BY <1>1, BytesOf DEF low_of
<1>8. t = Append(s, bytes(x, next))
  <2> DEFINE u == Append(s, bytes(x, next))
  <2>1. /\ u \in Seq(Seq(Byte)) /\ Len(u) = n + 1 /\ u[n + 1] = bytes(x, next)
        /\ \A i \in 1 .. n : u[i] = s[i]
    BY <1>4, <1>5, AppendProperties
  <2>2. DOMAIN u = 1 .. n + 1
    BY <2>1, LenProperties
  <2>3. \A i \in 1 .. n + 1 : t[i] = u[i]
    <3>1. \A i \in 1 .. n + 1 : i \in 1 .. n \/ i = n + 1
      BY <1>1
    <3>2. \A i \in 1 .. n : t[i] = s[i]
      BY <1>1, <1>2, <1>6
    <3>3. t[n + 1] = bytes(x, next)
      BY <1>1, <1>2, <1>7
    <3> QED BY <2>1, <3>1, <3>2, <3>3
  <2>4. t \in Seq(Seq(Byte)) /\ Len(t) = n + 1
    <3>1. \A i \in 1 .. n + 1 : bytes_of(d, i, next) \in Seq(Byte)
      BY <1>1, BytesOfType
    <3>2. t \in [1 .. n + 1 -> Seq(Byte)]
      BY <1>2, <3>1
    <3> QED BY <1>1, <3>2
  <2> QED BY <2>1, <2>3, <2>4, SeqEqual
<1>9. encode(c, low) = FlattenSeq(s) /\ encode(d, next) = FlattenSeq(t)
  BY DEF encode
<1> HIDE DEF s, t
<1> QED BY <1>4, <1>5, <1>8, <1>9, FlattenAppend

LEMMA EncodeType ==
  ASSUME NEW c \in Seq(Calls), Turns(c), NEW low \in Halves
  PROVE  encode(c, low) \in Seq(Byte)
<1> DEFINE s == [i \in DOMAIN c |-> bytes_of(c, i, low)]
<1>1. \A i \in 1 .. Len(c) : bytes_of(c, i, low) \in Seq(Byte)
  BY BytesOfType
<1>2. DOMAIN c = 1 .. Len(c) /\ Len(c) \in Nat
  BY LenProperties
<1>3. s \in [1 .. Len(c) -> Seq(Byte)]
  BY <1>1, <1>2
<1>4. s \in Seq(Seq(Byte)) /\ <<>> \in Seq(Byte)
  BY <1>2, <1>3, EmptySeq
<1>5. encode(c, low) = FlattenSeq(s)
  BY DEF encode
<1> HIDE DEF s
<1> QED BY <1>4, <1>5, FlattenAppend

\* The blocks of an encoder.
LEMMA BlockTurns ==
  ASSUME NEW c \in Blocks
  PROVE  c \in Seq(Calls) /\ Turns(c)
<1>1. c \in Seq(Calls) /\ Len(c) \in Nat /\ DOMAIN c = 1 .. Len(c)
  BY BlocksAssumption, LenProperties DEF Calls
<1>2. \A i \in 1 .. Len(c) : c[i].call = IF i % 2 = 1 THEN "literal" ELSE "backref"
  BY <1>1, BlocksAssumption DEF Literals, Backrefs
<1>3. ASSUME NEW i \in 1 .. Len(c) - 1 PROVE c[i].call # c[i+1].call
  <2>1. i \in 1 .. Len(c) /\ i + 1 \in 1 .. Len(c) /\ (i % 2 = 1 <=> ~((i + 1) % 2 = 1))
    BY <1>1, <1>3
  <2> QED BY <1>2, <2>1
<1> QED BY <1>1, <1>3 DEF Turns

-----------------------------------------------------------------------------
(***************************************************************************)
(* What the decoder reads.                                                 *)
(***************************************************************************)

\* The literals that are read, and what is left after them.
read_length == extended(token_literals, Tail(rest))
read_after  == after_length(token_literals, Tail(rest))
read_data   == SubSeq(read_after, 1, read_length)
read_rest   == drop(read_after, read_length)

LEMMA LiteralRead ==
  ASSUME rest \in Seq(Byte), literals_readable
  PROVE  /\ Literal(read_data) \in Calls /\ token_match \in Halves /\ read_rest \in Seq(Byte)
         /\ read_length \in Nat /\ read_length <= Len(read_after) /\ Len(read_data) = read_length
         /\ read_after \in Seq(Byte)
         /\ rest = bytes(Literal(read_data), token_match) \o read_rest
<1>1. NIBBLE = HALF - 1 /\ HALF \in Nat \ {0} /\ MAX_BYTE + 1 = HALF * HALF /\ MAX_BYTE \in Nat
  BY Numbers
<1>2. /\ rest # <<>> /\ has_length(token_literals, Tail(rest))
      /\ holds(read_after, read_length)
  BY DEF literals_readable, read_after, read_length
<1>3. Head(rest) \in Byte /\ Tail(rest) \in Seq(Byte)
  BY <1>2, HeadTailProperties
<1>4. Head(rest) \in Nat /\ Head(rest) < HALF * HALF
  BY <1>1, <1>3 DEF Byte
<1>5. /\ token_literals \in Halves /\ token_match \in Halves
      /\ Head(rest) = (HALF * token_literals) + token_match
  BY <1>1, <1>4, Digits DEF token_literals, token_match, Halves
<1>6. /\ read_length \in Nat /\ half_of(read_length) = token_literals
      /\ extension_of(read_length) \in Seq(Byte) /\ read_after \in Seq(Byte)
      /\ Tail(rest) = extension_of(read_length) \o read_after
  BY <1>2, <1>3, <1>5, LengthRead DEF read_length, read_after
<1>7. read_length \in 0 .. Len(read_after) /\ read_length <= Len(read_after)
  <2>1. Len(read_after) \in Nat
    BY <1>6, LenProperties
  <2> QED BY <1>2, <1>6, <2>1 DEF holds
<1>8. /\ read_rest \in Seq(Byte) /\ read_data \in Seq(Byte) /\ read_after = read_data \o read_rest
  BY <1>6, <1>7, DropType DEF read_rest, read_data
<1>9. Len(read_data) = read_length
  <2>1. Len(read_after) \in Nat /\ \A i \in 1 .. Len(read_after) : read_after[i] \in Byte
    BY <1>6, LenProperties, ElementOfSeq
  <2>2. \A i \in 1 .. read_length : read_after[i] \in Byte
    BY <1>6, <1>7, <2>1
  <2>3. 1 \in Int /\ read_length \in Int
    BY <1>6
  <2>4. Len(read_data) = IF 1 <= read_length THEN read_length - 1 + 1 ELSE 0
    BY <2>2, <2>3, SubSeqProperties DEF read_data
  <2> QED BY <1>6, <2>4
<1>10. Literal(read_data) \in Calls /\ Literal(read_data).call = "literal"
       /\ Literal(read_data).data = read_data
  BY <1>8 DEF Literal, Calls, Literals
<1> DEFINE token == <<Head(rest)>>
           lengths == extension_of(read_length)
<1>11. bytes(Literal(read_data), token_match) = token \o lengths \o read_data
  BY <1>5, <1>6, <1>9, <1>10 DEF bytes
<1>12. token \in Seq(Byte) /\ rest = token \o Tail(rest)
  <2>1. token \in Seq(Byte)
    BY <1>3
  <2> QED BY <1>2, <2>1
<1> HIDE DEF token, lengths
<1>13. (token \o lengths \o read_data) \o read_rest = token \o (lengths \o (read_data \o read_rest))
  <2>1. token \in Seq(Byte) /\ lengths \in Seq(Byte)
    BY <1>6, <1>12 DEF lengths
  <2>2. read_data \in Seq(Byte) /\ read_rest \in Seq(Byte)
    BY <1>8
  <2> DEFINE start == token \o lengths
             end   == read_data \o read_rest
  <2>3. start \in Seq(Byte) /\ end \in Seq(Byte)
    BY <2>1, <2>2, ConcatProperties
  <2>4. (start \o read_data) \o read_rest = start \o end
    <3> HIDE DEF start
    <3> QED BY <2>2, <2>3, ConcatAssociative
  <2>5. (token \o lengths) \o end = token \o (lengths \o end)
    <3> HIDE DEF end
    <3> QED BY <2>1, <2>3, ConcatAssociative
  <2> QED BY <2>4, <2>5 DEF start, end
<1>14. rest = token \o (lengths \o (read_data \o read_rest))
  BY <1>6, <1>8, <1>12 DEF lengths
<1>15. rest = bytes(Literal(read_data), token_match) \o read_rest
  BY <1>11, <1>13, <1>14
<1> QED BY <1>5, <1>6, <1>7, <1>8, <1>9, <1>10, <1>15

\* The back reference that is read, and what is left after it.
read_match == Backref(offset, extended(pending, drop(rest, 2)) + MIN_MATCH)
match_rest == after_length(pending, drop(rest, 2))

LEMMA MatchRead ==
  ASSUME rest \in Seq(Byte), pending \in Halves, match_readable
  PROVE  /\ read_match \in Calls /\ match_rest \in Seq(Byte)
         /\ half_of(read_match.length - MIN_MATCH) = pending
         /\ \A low : rest = bytes(read_match, low) \o match_rest
<1>1. /\ NIBBLE \in Nat /\ MAX_BYTE \in Nat /\ MIN_MATCH \in Nat /\ USIZE_MAX \in Nat
      /\ Len(rest) \in Nat
  BY Numbers, LenProperties
<1>2. 2 \in 0 .. Len(rest) /\ 1 \in 1 .. Len(rest) /\ 2 \in 1 .. Len(rest)
  BY <1>1 DEF match_readable, holds
<1>3. /\ drop(rest, 2) \in Seq(Byte) /\ SubSeq(rest, 1, 2) \in Seq(Byte)
      /\ rest = SubSeq(rest, 1, 2) \o drop(rest, 2)
  BY <1>2, DropType
<1>4. rest[1] \in Byte /\ rest[2] \in Byte
  BY <1>2, ElementOfSeq
<1> DEFINE length == extended(pending, drop(rest, 2))
           base == MAX_BYTE + 1
<1>5. /\ length \in Nat /\ half_of(length) = pending /\ extension_of(length) \in Seq(Byte)
      /\ match_rest \in Seq(Byte) /\ drop(rest, 2) = extension_of(length) \o match_rest
  BY <1>3, LengthRead DEF match_readable, match_rest
<1>6. length + MIN_MATCH <= USIZE_MAX
  BY DEF match_readable, no_overflow
<1> HIDE DEF length
<1>7. length + MIN_MATCH \in MIN_MATCH .. USIZE_MAX /\ (length + MIN_MATCH) - MIN_MATCH = length
  BY <1>1, <1>5, <1>6
<1>8. base \in Nat \ {0} /\ rest[1] \in 0 .. base - 1 /\ rest[2] \in 0 .. base - 1
  BY <1>1, <1>4 DEF Byte
<1> HIDE DEF base
<1>9. offset = (base * rest[2]) + rest[1]
  <2>1. rest[1] \in Nat /\ base * rest[2] \in Nat
    BY <1>8
  <2>2. offset = rest[1] + (base * rest[2])
    BY DEF offset, base
  <2> DEFINE high == base * rest[2]
  <2>3. rest[1] \in Nat /\ high \in Nat /\ offset = rest[1] + high
    BY <2>1, <2>2
  <2> HIDE DEF high
  <2>4. offset = high + rest[1]
    BY <2>3
  <2> QED BY <2>4 DEF high
<1>10. /\ offset \in 0 .. base * base - 1
       /\ offset \div base = rest[2] /\ offset % base = rest[1]
  BY <1>8, <1>9, FromDigits
<1>11. /\ read_match.call = "backref" /\ read_match.offset = offset
       /\ read_match.length = length + MIN_MATCH /\ read_match \in Backrefs
  BY <1>7, <1>10 DEF read_match, Backref, Backrefs, length, base
<1>12. \A low : bytes(read_match, low) = <<rest[1], rest[2]>> \o extension_of(length)
  BY <1>7, <1>10, <1>11 DEF bytes, base
<1>13. SubSeq(rest, 1, 2) = <<rest[1], rest[2]>>
  <2> DEFINE p == SubSeq(rest, 1, 2)
             q == <<rest[1], rest[2]>>
  <2>1. \A i \in 1 .. 2 : rest[i] \in Byte
    BY <1>4
  <2>2. p \in Seq(Byte) /\ Len(p) = 2 /\ \A i \in 1 .. 2 : p[i] = rest[1 + i - 1]
    BY <2>1, SubSeqProperties
  <2>3. q \in Seq(Byte) /\ Len(q) = 2 /\ q[1] = rest[1] /\ q[2] = rest[2]
    BY <1>4
  <2> HIDE DEF p, q
  <2>4. \A i \in 1 .. 2 : p[i] = q[i]
    BY <2>2, <2>3
  <2>5. p = q
    BY <2>2, <2>3, <2>4, SeqEqual
  <2> QED BY <2>5 DEF p, q
<1>14. <<rest[1], rest[2]>> \o (extension_of(length) \o match_rest)
         = (<<rest[1], rest[2]>> \o extension_of(length)) \o match_rest
  <2> DEFINE pair == <<rest[1], rest[2]>>
             lengths == extension_of(length)
  <2>1. pair \in Seq(Byte) /\ lengths \in Seq(Byte) /\ match_rest \in Seq(Byte)
    BY <1>4, <1>5
  <2> HIDE DEF pair, lengths
  <2>2. (pair \o lengths) \o match_rest = pair \o (lengths \o match_rest)
    BY <2>1, ConcatAssociative
  <2> QED BY <2>2 DEF pair, lengths
<1>15. rest = (<<rest[1], rest[2]>> \o extension_of(length)) \o match_rest
  BY <1>3, <1>5, <1>13, <1>14
<1> QED BY <1>5, <1>7, <1>11, <1>12, <1>15 DEF Calls

-----------------------------------------------------------------------------
(***************************************************************************)
(* The invariant.                                                          *)
(***************************************************************************)

\* A token follows a back reference, or is the first; a match follows literals.
Alternating ==
  /\ Turns(calls)
  /\ status = "token" => calls = <<>> \/ calls[Len(calls)].call = "backref"
  /\ status = "match" => calls # <<>> /\ calls[Len(calls)].call = "literal"

\* The inductive invariant.
IInv == TypeOK /\ Alternating /\ CallsEncodeInput

\* A call of the other kind keeps the turns.
LEMMA TurnsAppend ==
  ASSUME NEW c \in Seq(Calls), Turns(c), NEW x \in Calls,
         c = <<>> \/ c[Len(c)].call # x.call
  PROVE  /\ Append(c, x) \in Seq(Calls) /\ Turns(Append(c, x))
         /\ Append(c, x) # <<>> /\ Append(c, x)[Len(Append(c, x))] = x
<1> DEFINE d == Append(c, x)
<1>1. /\ d \in Seq(Calls) /\ Len(d) = Len(c) + 1 /\ Len(c) \in Nat /\ d # <<>>
      /\ d[Len(c) + 1] = x /\ \A i \in 1 .. Len(c) : d[i] = c[i]
  BY AppendProperties, LenProperties
<1> HIDE DEF d
<1>2. ASSUME NEW i \in 1 .. Len(d) - 1 PROVE d[i].call # d[i+1].call
  <2>1. i \in 1 .. Len(c) /\ d[i] = c[i]
    BY <1>1, <1>2
  <2>2. CASE i = Len(c)
    <3>1. c # <<>>
      BY <2>1, <2>2
    <3> QED BY <1>1, <2>1, <2>2, <3>1
  <2>3. CASE i # Len(c)
    <3>1. i \in 1 .. Len(c) - 1 /\ i + 1 \in 1 .. Len(c)
      BY <1>1, <2>1, <2>3
    <3> QED BY <1>1, <2>1, <3>1 DEF Turns
  <2> QED BY <2>2, <2>3
<1> QED BY <1>1, <1>2 DEF Turns, d

LEMMA InitIInv == Init => IInv
<1> SUFFICES ASSUME Init PROVE IInv
  OBVIOUS
<1>1. NIBBLE \in Nat /\ MaxSource \in Nat /\ 0 \in Halves
  BY Numbers, FormatAssumption DEF Halves
<1>2. source \in Seq(Byte)
  <2>1. CASE source \in BoundedSeq(Byte, MaxSource)
    <3>1. PICK m \in 0 .. MaxSource : source \in [1 .. m -> Byte]
      BY <2>1 DEF BoundedSeq, SeqOf
    <3> QED BY <1>1, <3>1
  <2>2. CASE source \in Encodings
    BY <1>1, <2>2, BlockTurns, EncodeType DEF Encodings
  <2> QED BY <2>1, <2>2 DEF Init
<1>3. calls = <<>> /\ pending = 0 /\ status = "token" /\ rest = source
  BY DEF Init
<1>4. TypeOK
  <2>1. <<>> \in Seq(Literals \cup Backrefs)
    BY EmptySeq
  <2>2. pending \in 0 .. NIBBLE
    BY <1>1, <1>3
  <2> QED BY <1>2, <1>3, <2>1, <2>2 DEF TypeOK
<1>5. Alternating
  <2>1. Len(<<>>) = 0
    BY EmptySeq
  <2> QED BY <1>3, <2>1 DEF Alternating, Turns
<1>6. encode(<<>>, 0) = <<>>
  <2>1. [i \in DOMAIN <<>> |-> bytes_of(<<>>, i, 0)] = <<>>
    BY EmptySeq
  <2> QED BY <2>1, FlattenEmpty DEF encode
<1>7. CallsEncodeInput
  <2>1. <<>> \o rest = rest
    BY <1>2, <1>3, ConcatEmptySeq
  <2> QED BY <1>3, <1>6, <2>1 DEF CallsEncodeInput
<1> QED BY <1>4, <1>5, <1>7 DEF IInv

LEMMA LiteralsStep == IInv /\ literals => IInv'
<1> SUFFICES ASSUME IInv, literals PROVE IInv'
  OBVIOUS
<1> DEFINE x == Literal(read_data)
<1>1. /\ calls' = Append(calls, x) /\ rest' = read_rest /\ pending' = token_match
      /\ status' = IF Len(read_after) = read_length THEN "Some" ELSE "match"
      /\ source' = source /\ status = "token" /\ literals_readable
  BY DEF literals, read_length, read_after, read_data, read_rest
<1>2. /\ source \in Seq(Byte) /\ rest \in Seq(Byte) /\ pending \in Halves /\ calls \in Seq(Calls)
      /\ Turns(calls) /\ source = encode(calls, pending) \o rest
      /\ calls = <<>> \/ calls[Len(calls)].call = "backref"
  BY <1>1 DEF IInv, TypeOK, Alternating, CallsEncodeInput, Halves, Calls
<1>3. /\ x \in Calls /\ token_match \in Halves /\ read_rest \in Seq(Byte)
      /\ read_length \in Nat /\ read_after \in Seq(Byte) /\ read_length <= Len(read_after)
      /\ rest = bytes(x, token_match) \o read_rest
  BY <1>1, <1>2, LiteralRead
<1>4. x.call = "literal"
  BY DEF Literal
<1> HIDE DEF x
<1>5. /\ calls' \in Seq(Calls) /\ Turns(calls') /\ calls' # <<>> /\ calls'[Len(calls')] = x
  BY <1>1, <1>2, <1>3, <1>4, TurnsAppend
<1>6. /\ encode(calls, pending) \in Seq(Byte)
      /\ encode(calls', token_match) = encode(calls, pending) \o bytes(x, token_match)
  <2>1. ~(calls # <<>> /\ calls[Len(calls)].call = "literal")
    BY <1>2
  <2> QED BY <1>1, <1>2, <1>3, <1>5, <2>1, EncodeAppend
<1>7. bytes(x, token_match) \in Seq(Byte)
  BY <1>3, BytesType
<1>8. source = encode(calls', pending') \o rest'
  <2> DEFINE e == encode(calls, pending)
             b == bytes(x, token_match)
  <2> HIDE DEF e, b
  <2>1. (e \o b) \o read_rest = e \o (b \o read_rest)
    BY <1>3, <1>6, <1>7, ConcatAssociative DEF e, b
  <2> QED BY <1>1, <1>2, <1>3, <1>6, <2>1 DEF e, b
<1>9. TypeOK'
  BY <1>1, <1>2, <1>3, <1>5 DEF TypeOK, Halves, Calls
<1>10. Alternating'
  BY <1>1, <1>4, <1>5 DEF Alternating, Turns
<1>11. status' = "Some" => source = encode(calls', pending')
  <2>1. SUFFICES ASSUME Len(read_after) = read_length PROVE source = encode(calls', pending')
    BY <1>1
  <2>2. read_length \in 0 .. Len(read_after) /\ Len(read_after) - read_length = 0
    BY <1>3, <2>1
  <2>3. Len(read_rest) = 0
    BY <1>3, <2>2, DropType DEF read_rest
  <2>4. read_rest = <<>>
    BY <1>3, <2>3
  <2>5. encode(calls', pending') \in Seq(Byte)
    BY <1>1, <1>3, <1>5, EncodeType
  <2>6. encode(calls', pending') \o <<>> = encode(calls', pending')
    BY <2>5, ConcatEmptySeq
  <2> QED BY <1>1, <1>8, <2>4, <2>6
<1>12. CallsEncodeInput'
  BY <1>1, <1>8, <1>11 DEF CallsEncodeInput, encode, bytes_of
<1> QED BY <1>9, <1>10, <1>12 DEF IInv

LEMMA MatchStep == IInv /\ match => IInv'
<1> SUFFICES ASSUME IInv, match PROVE IInv'
  OBVIOUS
<1> DEFINE x == read_match
<1>1. /\ calls' = Append(calls, x) /\ rest' = match_rest /\ pending' = pending
      /\ status' = "token" /\ source' = source /\ status = "match" /\ match_readable
  BY DEF match, read_match, match_rest
<1>2. /\ source \in Seq(Byte) /\ rest \in Seq(Byte) /\ pending \in Halves /\ calls \in Seq(Calls)
      /\ Turns(calls) /\ source = encode(calls, pending) \o rest
      /\ calls # <<>> /\ calls[Len(calls)].call = "literal"
  BY <1>1 DEF IInv, TypeOK, Alternating, CallsEncodeInput, Halves, Calls
<1>3. /\ x \in Calls /\ match_rest \in Seq(Byte) /\ half_of(x.length - MIN_MATCH) = pending
      /\ rest = bytes(x, pending) \o match_rest
  BY <1>1, <1>2, MatchRead
<1>4. x.call = "backref"
  BY DEF read_match, Backref
<1> HIDE DEF x
<1>5. /\ calls' \in Seq(Calls) /\ Turns(calls') /\ calls' # <<>> /\ calls'[Len(calls')] = x
  BY <1>1, <1>2, <1>3, <1>4, TurnsAppend
<1>6. /\ encode(calls, pending) \in Seq(Byte)
      /\ encode(calls', pending) = encode(calls, pending) \o bytes(x, pending)
  BY <1>1, <1>2, <1>3, <1>5, EncodeAppend
<1>7. bytes(x, pending) \in Seq(Byte)
  BY <1>2, <1>3, BytesType
<1>8. source = encode(calls', pending') \o rest'
  <2> DEFINE e == encode(calls, pending)
             b == bytes(x, pending)
  <2> HIDE DEF e, b
  <2>1. (e \o b) \o match_rest = e \o (b \o match_rest)
    BY <1>3, <1>6, <1>7, ConcatAssociative DEF e, b
  <2> QED BY <1>1, <1>2, <1>3, <1>6, <2>1 DEF e, b
<1>9. TypeOK'
  BY <1>1, <1>2, <1>3, <1>5 DEF TypeOK, Halves, Calls
<1>10. Alternating'
  BY <1>1, <1>4, <1>5 DEF Alternating, Turns
<1>11. CallsEncodeInput'
  BY <1>1, <1>8 DEF CallsEncodeInput, encode, bytes_of
<1> QED BY <1>9, <1>10, <1>11 DEF IInv

LEMMA NextIInv == IInv /\ [Next]_vars => IInv'
<1> SUFFICES ASSUME IInv, [Next]_vars PROVE IInv'
  OBVIOUS
<1>1. CASE literals
  BY <1>1, LiteralsStep
<1>2. CASE match
  BY <1>2, MatchStep
<1>3. CASE malformed \/ sink_refuses
  <2>1. /\ status' \in {"None", "refused"} /\ UNCHANGED <<source, rest, pending, calls>>
    BY <1>3 DEF malformed, sink_refuses
  <2> QED BY <2>1 DEF IInv, TypeOK, Alternating, Turns, CallsEncodeInput
<1>4. CASE UNCHANGED vars
  <2>1. UNCHANGED <<source, rest, pending, status, calls>>
    BY <1>4 DEF vars
  <2> QED BY <2>1 DEF IInv, TypeOK, Alternating, Turns, CallsEncodeInput, encode, bytes_of
<1> QED BY <1>1, <1>2, <1>3, <1>4 DEF Next

THEOREM Invariance == Spec => []IInv
<1>1. IInv /\ [Next]_vars => IInv'
  BY NextIInv
<1> QED BY InitIInv, <1>1, PTL DEF Spec

\* The variables have their types: the sink is handed bytes, u16 offsets, and
\* lengths whose additions did not overflow.
THEOREM TypeCorrect == Spec => []TypeOK
<1>1. IInv => TypeOK
  BY DEF IInv
<1> QED BY Invariance, <1>1, PTL

\* Whatever the input, what decompress() has consumed of it is what an encoder
\* would write for the calls it made; a block it accepts is one from end to end.
THEOREM CallsAreInput == Spec => []CallsEncodeInput
<1>1. IInv => CallsEncodeInput
  BY DEF IInv
<1> QED BY Invariance, <1>1, PTL

-----------------------------------------------------------------------------
(***************************************************************************)
(* The decoder follows the encoder.                                        *)
(***************************************************************************)

\* Sequences that are joined can be taken apart again.
LEMMA SplitJoin ==
  ASSUME NEW S, NEW x \in Seq(S), NEW t \in Seq(S)
  PROVE  drop(x \o t, Len(x)) = t /\ SubSeq(x \o t, 1, Len(x)) = x
<1> DEFINE n == Len(x)
           m == Len(x \o t)
<1>1. n \in Nat /\ Len(t) \in Nat /\ m = n + Len(t)
  BY LenProperties, ConcatProperties
<1>2. drop(x \o t, n) = t
  <2>1. CASE t = <<>>
    <3>1. n + 1 \in Int /\ m \in Int /\ m < n + 1
      BY <1>1, <2>1
    <3> HIDE DEF n, m
    <3>2. SubSeq(x \o t, n + 1, m) = <<>>
      BY <3>1, SubSeqEmpty
    <3> QED BY <2>1, <3>2 DEF drop, m
  <2>2. CASE t # <<>>
    <3>1. Len(t) > 0
      BY <2>2
    <3>2. n + 1 \in Len(x) + 1 .. Len(x) + Len(t) /\ m \in Len(x) + 1 .. Len(x) + Len(t)
      BY <1>1, <3>1
    <3>3. (n + 1) - Len(x) = 1 /\ m - Len(x) = Len(t)
      BY <1>1
    <3> HIDE DEF m
    <3>4. SubSeq(x \o t, n + 1, m) = SubSeq(t, (n + 1) - Len(x), m - Len(x))
      BY <3>2, SubSeqOfConcat2
    <3> QED BY <3>3, <3>4, SubSeqFull DEF drop, m
  <2> QED BY <2>1, <2>2
<1>3. SubSeq(x \o t, 1, n) = x
  <2>1. CASE x = <<>>
    <3>1. n = 0 /\ 0 < 1
      BY <2>1
    <3> QED BY <2>1, <3>1, SubSeqEmpty
  <2>2. CASE x # <<>>
    <3>1. 1 \in 1 .. Len(x) /\ n \in 1 .. Len(x)
      BY <1>1, <2>2
    <3>2. SubSeq(x \o t, 1, n) = SubSeq(x, 1, n)
      BY <3>1, SubSeqOfConcat1
    <3> QED BY <3>2, SubSeqFull
  <2> QED BY <2>1, <2>2
<1> QED BY <1>2, <1>3

\* What an encoder writes for a length is read as that length.
LEMMA LengthWritten ==
  ASSUME NEW n \in Nat, n <= USIZE_MAX, NEW t \in Seq(Byte),
         NEW s, s = extension_of(n) \o t
  PROVE  /\ has_length(half_of(n), s) /\ extended(half_of(n), s) = n
         /\ after_length(half_of(n), s) = t
<1>1. NIBBLE \in Nat /\ MAX_BYTE \in Nat \ {0} /\ Len(t) \in Nat
  BY Numbers, LenProperties
<1>2. CASE n < NIBBLE
  <2>1. half_of(n) = n /\ s = t /\ n # NIBBLE
    <3>1. n \in 0 .. NIBBLE - 1
      BY <1>1, <1>2
    <3> QED BY <1>1, <1>2, <3>1, ShortLength, ConcatEmptySeq
  <2> QED BY <2>1 DEF has_length, extended, after_length
<1>3. CASE ~(n < NIBBLE)
  <2> DEFINE m == n - NIBBLE
             k == m \div MAX_BYTE
             b == m % MAX_BYTE
             x == [i \in 1 .. k |-> MAX_BYTE] \o <<b>>
  <2>1. m \in Nat
    BY <1>1, <1>3
  <2> HIDE DEF m
  <2>2. k \in Nat /\ b \in 0 .. MAX_BYTE - 1 /\ m = (MAX_BYTE * k) + b
    BY <1>1, <2>1, DivMod
  <2>3. extension_of(n) = x
    BY <1>3 DEF extension_of, m
  <2> HIDE DEF k, b
  <2>4. n = NIBBLE + k * MAX_BYTE + b
    <3>1. n = NIBBLE + m
      BY <1>1 DEF m
    <3>2. MAX_BYTE * k \in Nat /\ k * MAX_BYTE = MAX_BYTE * k
      BY <1>1, <2>2
    <3> QED BY <1>1, <2>2, <3>1, <3>2
  <2>5. half_of(n) = NIBBLE
    BY <2>2, <2>4, ExtensionOf
  <2>6. /\ x \in Seq(Byte) /\ Len(x) = k + 1 /\ x[k + 1] = b
        /\ \A i \in 1 .. k : x[i] = MAX_BYTE
    <3>1. MAX_BYTE \in Byte /\ b \in Byte
      BY <1>1, <2>2 DEF Byte
    <3> DEFINE y == [i \in 1 .. k |-> MAX_BYTE]
    <3>2. y \in Seq(Byte) /\ Len(y) = k /\ \A i \in 1 .. k : y[i] = MAX_BYTE
      BY <2>2, <3>1
    <3> HIDE DEF y
    <3>3. x = Append(y, b)
      BY <3>1, <3>2, AppendIsConcat DEF y
    <3> HIDE DEF x
    <3> QED BY <2>2, <3>1, <3>2, <3>3, AppendProperties
  <2> HIDE DEF x
  <2>7. /\ s \in Seq(Byte) /\ Len(s) = (k + 1) + Len(t)
        /\ \A i \in 1 .. k + 1 : s[i] = x[i]
        /\ \A i \in 1 .. Len(t) : s[(k + 1) + i] = t[i]
    <3>1. s = x \o t
      BY <2>3
    <3>2. /\ s \in Seq(Byte) /\ Len(s) = Len(x) + Len(t)
          /\ \A i \in 1 .. Len(x) + Len(t) : s[i] = IF i <= Len(x) THEN x[i] ELSE t[i - Len(x)]
      BY <2>6, <3>1, ConcatProperties
    <3>3. \A i \in 1 .. k + 1 : i \in 1 .. Len(x) + Len(t) /\ i <= Len(x)
      BY <1>1, <2>2, <2>6
    <3>4. \A i \in 1 .. Len(t) : /\ (k + 1) + i \in 1 .. Len(x) + Len(t)
                                 /\ ~((k + 1) + i <= Len(x)) /\ ((k + 1) + i) - Len(x) = i
      BY <1>1, <2>2, <2>6
    <3> QED BY <2>6, <3>2, <3>3, <3>4
  <2>8. s[k + 1] = b /\ \A i \in 1 .. k : s[i] = MAX_BYTE
    <3>1. k + 1 \in 1 .. k + 1 /\ \A i \in 1 .. k : i \in 1 .. k + 1
      BY <2>2
    <3> QED BY <2>6, <2>7, <3>1
  <2>9. extension(s) = k + 1
    <3> DEFINE last == { i \in DOMAIN s : s[i] # MAX_BYTE }
    <3>1. DOMAIN s = 1 .. Len(s)
      BY <2>7, LenProperties
    <3>2. k + 1 \in last
      <4>1. k + 1 \in 1 .. Len(s) /\ b # MAX_BYTE
        BY <1>1, <2>2, <2>7
      <4> QED BY <2>8, <3>1, <4>1
    <3>3. \A i \in last : k + 1 <= i
      <4>1. SUFFICES ASSUME NEW i \in last, ~(k + 1 <= i) PROVE FALSE
        OBVIOUS
      <4>2. i \in 1 .. k
        BY <1>1, <2>2, <2>7, <3>1, <4>1
      <4> QED BY <2>8, <4>1, <4>2
    <3>4. last \in SUBSET Nat /\ last # {}
      BY <2>7, <3>1, <3>2
    <3>5. extension(s) = Min(last)
      BY <3>2 DEF extension
    <3> HIDE DEF last
    <3>6. Min(last) \in last /\ \A i \in last : Min(last) <= i
      BY <3>4, MinIsLeast
    <3>7. Min(last) \in Nat /\ k + 1 \in Nat /\ Min(last) <= k + 1 /\ k + 1 <= Min(last)
      BY <2>2, <3>2, <3>3, <3>4, <3>6
    <3> QED BY <3>5, <3>7
  <2>10. extended(NIBBLE, s) = n
    <3>1. (k + 1) - 1 = k
      BY <2>2
    <3> QED BY <2>4, <2>8, <2>9, <3>1 DEF extended
  <2>11. has_length(NIBBLE, s)
    <3>1. k + 1 # 0
      BY <2>2
    <3> QED BY <2>9, <2>10, <3>1 DEF has_length, no_overflow
  <2>12. drop(s, k + 1) = t
    BY <2>3, <2>6, SplitJoin
  <2> QED BY <2>5, <2>9, <2>10, <2>11, <2>12 DEF after_length
<1> QED BY <1>2, <1>3

\* No call is written as nothing.
LEMMA BytesNotEmpty ==
  ASSUME NEW x \in Calls, NEW low \in Halves
  PROVE  bytes(x, low) # <<>>
<1>1. CASE x \in Literals
  <2>1. x.call = "literal" /\ x.data \in Seq(Byte) /\ Len(x.data) \in Nat
    BY <1>1, LenProperties DEF Literals
  <2> DEFINE token == <<HALF * half_of(Len(x.data)) + low>>
             lengths == extension_of(Len(x.data))
  <2>2. lengths \in Seq(Byte)
    BY <2>1, ExtensionType
  <2>3. HALF * half_of(Len(x.data)) + low \in Byte
    <3>1. NIBBLE = HALF - 1 /\ HALF \in Nat \ {0} /\ MAX_BYTE + 1 = HALF * HALF
      BY Numbers
    <3>2. half_of(Len(x.data)) \in 0 .. HALF - 1 /\ low \in 0 .. HALF - 1
      BY <2>1, <3>1, HalfType DEF Halves
    <3> QED BY <3>1, <3>2, FromDigits DEF Byte, MAX_BYTE
  <2>4. token \in Seq(Byte) /\ Len(token) = 1
    BY <2>3
  <2> HIDE DEF token, lengths
  <2>5. token \o lengths \in Seq(Byte) /\ Len(token \o lengths) = 1 + Len(lengths)
    BY <2>2, <2>4, ConcatProperties
  <2> DEFINE start == token \o lengths
  <2>6. start \in Seq(Byte) /\ Len(start) >= 1
    <3>1. Len(lengths) \in Nat
      BY <2>2, LenProperties
    <3> QED BY <2>5, <3>1
  <2>7. start \o x.data \in Seq(Byte) /\ Len(start \o x.data) # 0
    <3> HIDE DEF start
    <3>1. Len(start \o x.data) = Len(start) + Len(x.data) /\ start \o x.data \in Seq(Byte)
      BY <2>1, <2>6, ConcatProperties
    <3>2. Len(start) \in Nat
      BY <2>6, LenProperties
    <3> QED BY <2>1, <2>6, <3>1, <3>2
  <2>8. token \o lengths \o x.data # <<>>
    BY <2>7, EmptySeq
  <2> QED BY <2>1, <2>8 DEF bytes, token, lengths
<1>2. CASE x \in Backrefs
  <2>1. x.call # "literal" /\ x.length \in MIN_MATCH .. USIZE_MAX
    BY <1>2 DEF Backrefs
  <2>2. x.length - MIN_MATCH \in Nat
    BY <2>1, Numbers
  <2> DEFINE a == x.offset % (MAX_BYTE + 1)
             b == x.offset \div (MAX_BYTE + 1)
             lengths == extension_of(x.length - MIN_MATCH)
  <2>3. lengths \in Seq(Byte)
    BY <2>2, ExtensionType
  <2> DEFINE S == Byte \cup {a, b}
  <2>4. <<a, b>> \in Seq(S) /\ Len(<<a, b>>) = 2
    <3> HIDE DEF a, b
    <3> QED OBVIOUS
  <2>5. lengths \in Seq(S)
    BY <2>3, SeqMonotonic
  <2> HIDE DEF a, b, lengths, S
  <2>6. Len(<<a, b>> \o lengths) = 2 + Len(lengths)
    BY <2>4, <2>5, ConcatProperties
  <2>7. Len(<<a, b>> \o lengths) # 0
    BY <2>3, <2>6, LenProperties
  <2>8. <<a, b>> \o lengths # <<>>
    BY <2>7, EmptySeq
  <2> QED BY <2>1, <2>8 DEF bytes, a, b, lengths
<1> QED BY <1>1, <1>2 DEF Calls

\* The first k calls of a list.
Prefix(c, k) == SubSeq(c, 1, k)

LEMMA PrefixIs ==
  ASSUME NEW c \in Seq(Calls), Turns(c), NEW k \in 0 .. Len(c)
  PROVE  /\ Prefix(c, k) \in Seq(Calls) /\ Len(Prefix(c, k)) = k /\ Turns(Prefix(c, k))
         /\ \A i \in 1 .. k : Prefix(c, k)[i] = c[i]
         /\ k < Len(c) => Prefix(c, k + 1) = Append(Prefix(c, k), c[k+1])
         /\ k = Len(c) => Prefix(c, k) = c
<1> DEFINE p == Prefix(c, k)
<1>1. Len(c) \in Nat /\ k \in Nat /\ \A i \in 1 .. Len(c) : c[i] \in Calls
  BY LenProperties, ElementOfSeq
<1>2. \A i \in 1 .. k : c[i] \in Calls
  BY <1>1
<1>3. /\ p \in Seq(Calls) /\ Len(p) = IF 1 <= k THEN k - 1 + 1 ELSE 0
      /\ \A i \in 1 .. k - 1 + 1 : p[i] = c[1 + i - 1]
  BY <1>1, <1>2, SubSeqProperties DEF Prefix
<1> HIDE DEF p
<1>4. Len(p) = k /\ \A i \in 1 .. k : p[i] = c[i]
  BY <1>1, <1>3
<1>5. Turns(p)
  <2>1. SUFFICES ASSUME NEW i \in 1 .. k - 1 PROVE p[i].call # p[i+1].call
    BY <1>4 DEF Turns
  <2>2. i \in 1 .. Len(c) - 1 /\ i \in 1 .. k /\ i + 1 \in 1 .. k
    BY <1>1, <2>1
  <2> QED BY <1>4, <2>2 DEF Turns
<1>6. ASSUME k < Len(c) PROVE Prefix(c, k + 1) = Append(p, c[k+1])
  <2>1. k + 1 \in 1 .. Len(c) /\ 1 \in 1 .. Len(c) /\ k + 1 \in 1 .. k + 1 /\ (k + 1) - 1 = k
    BY <1>1, <1>6
  <2>2. SubSeq(c, 1, k + 1) = SubSeq(c, 1, (k + 1) - 1) \o <<c[k+1]>>
    BY <2>1, SubSeqRecursiveSecond
  <2>3. c[k+1] \in Calls
    BY <1>1, <2>1
  <2>4. Append(p, c[k+1]) = p \o <<c[k+1]>>
    BY <1>3, <2>3, AppendIsConcat
  <2> QED BY <2>1, <2>2, <2>4 DEF Prefix, p
<1>7. k = Len(c) => p = c
  BY SubSeqFull DEF Prefix, p
<1> QED BY <1>3, <1>4, <1>5, <1>6, <1>7 DEF p

\* What is written for a list begins with what is written for its first calls.
LEMMA EncodePrefix ==
  \A c \in Seq(Calls), low \in Halves : Turns(c) =>
    \A k \in 0 .. Len(c) : \A l :
      (k > 0 /\ c[k].call = "literal" => l = low_of(c, k, low))
        => \E r \in Seq(Byte) : encode(c, low) = encode(Prefix(c, k), l) \o r
<1> TAKE c \in Seq(Calls), low \in Halves
<1> HAVE Turns(c)
<1> TAKE k \in 0 .. Len(c)
<1> TAKE l
<1> HAVE k > 0 /\ c[k].call = "literal" => l = low_of(c, k, low)
<1> DEFINE p == Prefix(c, k)
           s == [i \in DOMAIN c |-> bytes_of(c, i, low)]
           t == [i \in DOMAIN p |-> bytes_of(p, i, l)]
<1>1. Len(c) \in Nat /\ k \in Nat /\ DOMAIN c = 1 .. Len(c)
  BY LenProperties
<1>2. p \in Seq(Calls) /\ Len(p) = k /\ \A i \in 1 .. k : p[i] = c[i]
  BY PrefixIs
<1> HIDE DEF p
<1>3. DOMAIN p = 1 .. k
  BY <1>2, LenProperties
<1>4. \A i \in 1 .. Len(c) : bytes_of(c, i, low) \in Seq(Byte)
  BY BytesOfType
<1>5. s \in Seq(Seq(Byte)) /\ Len(s) = Len(c) /\ \A i \in 1 .. Len(c) : s[i] = bytes_of(c, i, low)
  <2>1. s \in [1 .. Len(c) -> Seq(Byte)]
    BY <1>1, <1>4
  <2> QED BY <1>1, <2>1
<1>6. ASSUME NEW i \in 1 .. k PROVE bytes_of(p, i, l) = bytes_of(c, i, low)
  <2>1. i \in 1 .. Len(c) /\ p[i] = c[i]
    BY <1>1, <1>2, <1>6
  <2>2. c[i].call = "literal" => low_of(p, i, l) = low_of(c, i, low)
    <3>1. CASE i = k
      <4>1. k > 0
        BY <1>1, <1>6, <3>1
      <4> QED BY <1>2, <3>1, <4>1 DEF low_of
    <3>2. CASE i # k
      <4>1. i + 1 \in 1 .. k /\ i # Len(c)
        BY <1>1, <1>6, <3>2
      <4> QED BY <1>2, <3>2, <4>1 DEF low_of
    <3> QED BY <3>1, <3>2
  <2>3. bytes(p[i], low_of(p, i, l)) = bytes(c[i], low_of(c, i, low))
    BY <2>1, <2>2 DEF bytes
  <2> QED BY <2>3, BytesOf
<1> DEFINE u == SubSeq(s, 1, k)
<1>7. t \in Seq(Seq(Byte)) /\ Len(t) = k /\ \A i \in 1 .. k : t[i] = bytes_of(c, i, low)
  <2>1. \A i \in 1 .. k : bytes_of(p, i, l) \in Seq(Byte)
    <3>1. \A i \in 1 .. k : i \in 1 .. Len(c)
      BY <1>1
    <3> QED BY <1>4, <1>6, <3>1
  <2>2. t \in [1 .. k -> Seq(Byte)]
    BY <1>3, <2>1
  <2>3. \A i \in 1 .. k : t[i] = bytes_of(p, i, l)
    BY <1>3
  <2>4. \A i \in 1 .. k : t[i] = bytes_of(c, i, low)
    <3> HIDE DEF t
    <3> QED BY <1>6, <2>3
  <2> QED BY <1>1, <2>2, <2>4
<1>8. encode(c, low) = FlattenSeq(s) /\ encode(p, l) = FlattenSeq(t)
  BY DEF encode
<1> HIDE DEF s, t
<1>9. u = t
  <2>1. \A i \in 1 .. k : s[i] \in Seq(Byte) /\ i \in 1 .. Len(c)
    BY <1>1, <1>4, <1>5
  <2>2. /\ u \in Seq(Seq(Byte)) /\ Len(u) = IF 1 <= k THEN k - 1 + 1 ELSE 0
        /\ \A i \in 1 .. k - 1 + 1 : u[i] = s[1 + i - 1]
    BY <1>1, <2>1, SubSeqProperties
  <2> HIDE DEF u
  <2>3. Len(u) = k /\ \A i \in 1 .. k : u[i] = s[i]
    BY <1>1, <2>2
  <2>4. \A i \in 1 .. Len(u) : u[i] = t[i]
    BY <1>5, <1>7, <2>1, <2>3
  <2> QED BY <1>7, <2>2, <2>3, <2>4, SeqEqual
<1>10. \E r \in Seq(Byte) : FlattenSeq(s) = FlattenSeq(u) \o r
  <2>1. k \in 0 .. Len(s)
    BY <1>5
  <2> QED BY <1>5, <2>1, FlattenPrefix
<1> QED BY <1>8, <1>9, <1>10 DEF p

LEMMA CancelStart ==
  \A S, e, b, t, r :
    /\ e \in Seq(S) /\ b \in Seq(S) /\ t \in Seq(S) /\ r \in Seq(S)
    /\ e \o r = (e \o b) \o t
    => r = b \o t
<1> TAKE S, e, b, t, r
<1>1. HAVE /\ e \in Seq(S) /\ b \in Seq(S) /\ t \in Seq(S) /\ r \in Seq(S)
           /\ e \o r = (e \o b) \o t
<1>2. (e \o b) \o t = e \o (b \o t)
  <2>1. e \in Seq(S) /\ b \in Seq(S) /\ t \in Seq(S)
    BY <1>1
  <2> QED BY <2>1, ConcatAssociative
<1>3. b \o t \in Seq(S)
  BY <1>1, ConcatProperties
<1> QED BY <1>1, <1>2, <1>3, ConcatSimplifications

\* After its first k calls, a list is written as the next call and the others.
LEMMA NextBytes ==
  ASSUME NEW c \in Seq(Calls), Turns(c), NEW k \in 0 .. Len(c), k < Len(c),
         NEW l \in Halves, k > 0 /\ c[k].call = "literal" => l = low_of(c, k, 0),
         NEW m \in Halves, c[k+1].call = "literal" => m = low_of(c, k + 1, 0),
         NEW r \in Seq(Byte), encode(c, 0) = encode(Prefix(c, k), l) \o r
  PROVE  \E t \in Seq(Byte) : /\ r = bytes(c[k+1], m) \o t
                              /\ encode(c, 0) = encode(Prefix(c, k + 1), m) \o t
<1> DEFINE p == Prefix(c, k)
           x == c[k+1]
<1>1. Len(c) \in Nat /\ k \in Nat /\ k + 1 \in 0 .. Len(c) /\ k + 1 \in 1 .. Len(c) /\ 0 \in Halves
  BY LenProperties, Numbers DEF Halves
<1>2. x \in Calls
  BY <1>1, ElementOfSeq
<1>3. PICK t \in Seq(Byte) : encode(c, 0) = encode(Prefix(c, k + 1), m) \o t
  <2> DEFINE j == k + 1
  <2>1. j > 0 /\ c[j].call = "literal" => m = low_of(c, j, 0)
    OBVIOUS
  <2>2. j \in 0 .. Len(c) /\ 0 \in Halves
    BY <1>1
  <2> HIDE DEF j
  <2>3. \A l0 : (j > 0 /\ c[j].call = "literal" => l0 = low_of(c, j, 0))
          => \E t \in Seq(Byte) : encode(c, 0) = encode(Prefix(c, j), l0) \o t
    BY <2>2, EncodePrefix
  <2>4. \E t \in Seq(Byte) : encode(c, 0) = encode(Prefix(c, j), m) \o t
    BY <2>1, <2>3
  <2> QED BY <2>4 DEF j
<1>4. /\ p \in Seq(Calls) /\ Len(p) = k /\ \A i \in 1 .. k : p[i] = c[i]
      /\ Prefix(c, k + 1) = Append(p, x)
  BY PrefixIs
<1>5. Turns(Append(p, x))
  BY <1>1, <1>4, PrefixIs
<1> HIDE DEF p
<1>6. p # <<>> /\ p[Len(p)].call = "literal" => l = half_of(x.length - MIN_MATCH)
  <2>1. SUFFICES ASSUME p # <<>>, p[Len(p)].call = "literal" PROVE l = half_of(x.length - MIN_MATCH)
    OBVIOUS
  <2>2. k > 0 /\ k \in 1 .. k
    BY <1>1, <1>4, <2>1
  <2>3. c[k].call = "literal"
    BY <1>4, <2>1, <2>2
  <2> QED BY <1>1, <2>2, <2>3 DEF low_of
<1>7. encode(p, l) \in Seq(Byte) /\ encode(Append(p, x), m) = encode(p, l) \o bytes(x, m)
  BY <1>2, <1>4, <1>5, <1>6, EncodeAppend
<1>8. bytes(x, m) \in Seq(Byte)
  BY <1>2, BytesType
<1> DEFINE e == encode(p, l)
           b == bytes(x, m)
<1>9. e \in Seq(Byte) /\ b \in Seq(Byte) /\ t \in Seq(Byte)
  BY <1>3, <1>7, <1>8
<1>10. e \o r = (e \o b) \o t
  BY <1>3, <1>4, <1>7 DEF p
<1> HIDE DEF e, b, x
<1>11. r = b \o t
  BY <1>9, <1>10, CancelStart
<1> QED BY <1>3, <1>11 DEF b, x

\* Literals that an encoder wrote are read as they are.
LEMMA LiteralFollows ==
  ASSUME NEW x \in Literals, Len(x.data) <= USIZE_MAX, NEW low \in Halves,
         NEW t \in Seq(Byte), rest = bytes(x, low) \o t
  PROVE  /\ literals_readable /\ token_match = low /\ Literal(read_data) = x
         /\ read_rest = t /\ read_length = Len(x.data) /\ read_after = x.data \o t
<1> DEFINE n == Len(x.data)
           h == (HALF * half_of(n)) + low
           token == <<h>>
           lengths == extension_of(n)
           data == x.data
<1>1. x.call = "literal" /\ data \in Seq(Byte) /\ n \in Nat /\ x = [call |-> "literal", data |-> data]
  BY LenProperties DEF Literals
<1>2. NIBBLE = HALF - 1 /\ HALF \in Nat \ {0} /\ MAX_BYTE + 1 = HALF * HALF
  BY Numbers
<1>3. half_of(n) \in Halves /\ half_of(n) \in 0 .. HALF - 1 /\ low \in 0 .. HALF - 1
  BY <1>1, <1>2, HalfType DEF Halves
<1>4. h \in Byte /\ h \div HALF = half_of(n) /\ h % HALF = low
  BY <1>2, <1>3, FromDigits DEF Byte, MAX_BYTE
<1> HIDE DEF h
<1>5. token \in Seq(Byte) /\ lengths \in Seq(Byte) /\ Len(token) = 1 /\ token[1] = h
  BY <1>1, <1>4, ExtensionType
<1>6. bytes(x, low) = token \o lengths \o data
  BY <1>1 DEF bytes, h
<1> HIDE DEF token, lengths, data
<1> DEFINE after == data \o t
           tail == lengths \o after
<1>7. after \in Seq(Byte) /\ Len(after) = n + Len(t) /\ Len(t) \in Nat
  BY <1>1, ConcatProperties, LenProperties DEF data
<1>8. rest = token \o tail /\ tail \in Seq(Byte)
  <2> DEFINE start == token \o lengths
  <2>1. start \in Seq(Byte)
    BY <1>5, ConcatProperties
  <2>2. (start \o data) \o t = start \o after
    <3> HIDE DEF start
    <3> QED BY <1>1, <2>1, ConcatAssociative
  <2>3. (token \o lengths) \o after = token \o (lengths \o after)
    <3> HIDE DEF after
    <3>1. token \in Seq(Byte) /\ lengths \in Seq(Byte) /\ after \in Seq(Byte)
      BY <1>5, <1>7
    <3> QED BY <3>1, ConcatAssociative
  <2>4. lengths \o after \in Seq(Byte)
    <3> HIDE DEF after
    <3> QED BY <1>5, <1>7, ConcatProperties
  <2> QED BY <1>6, <2>2, <2>3, <2>4
<1> HIDE DEF after, tail
<1>9. Head(rest) = h /\ Tail(rest) = tail /\ rest # <<>>
  <2> DEFINE all == token \o tail
  <2>0. /\ all \in Seq(Byte) /\ Len(all) = Len(token) + Len(tail)
        /\ \A i \in 1 .. Len(token) + Len(tail) :
             all[i] = IF i <= Len(token) THEN token[i] ELSE tail[i - Len(token)]
    <3>1. token \in Seq(Byte) /\ tail \in Seq(Byte)
      BY <1>5, <1>8
    <3> QED BY <3>1, ConcatProperties
  <2> HIDE DEF all
  <2>1. /\ rest \in Seq(Byte) /\ Len(rest) = 1 + Len(tail) /\ Len(tail) \in Nat
        /\ \A i \in 1 .. 1 + Len(tail) : rest[i] = IF i <= 1 THEN token[i] ELSE tail[i - 1]
    <3>1. rest = all
      BY <1>8 DEF all
    <3> QED BY <1>5, <1>8, <2>0, <3>1, LenProperties
  <2>2. rest # <<>> /\ 1 \in 1 .. 1 + Len(tail)
    BY <2>1
  <2>3. rest[1] = h
    BY <1>5, <2>1, <2>2
  <2>4. Head(rest) = h
    BY <2>1, <2>2, <2>3
  <2>5. Tail(rest) = tail
    <3>1. Tail(rest) = SubSeq(rest, 2, Len(rest))
      BY <2>1, <2>2, TailIsSubSeq
    <3>2. drop(token \o tail, Len(token)) = tail
      BY <1>5, <1>8, SplitJoin
    <3>3. drop(rest, 1) = tail
      BY <1>5, <1>8, <3>2
    <3> QED BY <3>1, <3>3 DEF drop
  <2> QED BY <2>2, <2>4, <2>5
<1>10. token_literals = half_of(n) /\ token_match = low
  BY <1>4, <1>9 DEF token_literals, token_match
<1>11. /\ has_length(half_of(n), tail) /\ extended(half_of(n), tail) = n
       /\ after_length(half_of(n), tail) = after
  BY <1>1, <1>7, LengthWritten DEF tail, lengths
<1>12. has_length(token_literals, Tail(rest)) /\ read_length = n /\ read_after = after
  BY <1>9, <1>10, <1>11 DEF read_length, read_after
<1>13. holds(read_after, read_length)
  BY <1>1, <1>7, <1>12 DEF holds
<1>14. literals_readable
  BY <1>9, <1>12, <1>13 DEF literals_readable, read_length, read_after
<1>15. read_data = data /\ read_rest = t
  BY <1>1, <1>12, SplitJoin DEF read_data, read_rest, after, data
<1> QED BY <1>1, <1>10, <1>12, <1>14, <1>15 DEF Literal, after, data

\* A back reference that an encoder wrote is read as it is.
LEMMA MatchFollows ==
  ASSUME NEW x \in Backrefs, pending = half_of(x.length - MIN_MATCH), NEW low,
         NEW t \in Seq(Byte), rest = bytes(x, low) \o t
  PROVE  match_readable /\ read_match = x /\ match_rest = t
<1> DEFINE n == x.length - MIN_MATCH
           base == MAX_BYTE + 1
           a == x.offset % base
           b == x.offset \div base
           pair == <<a, b>>
           lengths == extension_of(n)
<1>1. /\ x.call = "backref" /\ x.offset \in 0 .. base * base - 1 /\ x.length \in MIN_MATCH .. USIZE_MAX
      /\ x = [call |-> "backref", offset |-> x.offset, length |-> x.length]
  BY DEF Backrefs
<1>2. MIN_MATCH \in Nat /\ USIZE_MAX \in Nat /\ MAX_BYTE \in Nat /\ base \in Nat \ {0} /\ base - 1 = MAX_BYTE
  BY Numbers
<1>3. n \in Nat /\ n <= USIZE_MAX /\ n + MIN_MATCH = x.length /\ x.length <= USIZE_MAX
  BY <1>1, <1>2
<1> HIDE DEF n
<1>4. a \in 0 .. base - 1 /\ b \in 0 .. base - 1 /\ x.offset = (base * b) + a /\ x.offset \in Nat
  <2> HIDE DEF base
  <2>0. base \in Nat
    BY <1>2
  <2>1. base * base \in Nat
    BY <2>0
  <2>2. x.offset \in Nat /\ x.offset < base * base
    BY <1>1, <2>1
  <2> QED BY <1>2, <2>2, Digits
<1>5. bytes(x, low) = pair \o lengths
  BY <1>1 DEF bytes, n
<1>6. a \in Byte /\ b \in Byte
  BY <1>2, <1>4 DEF Byte
<1> HIDE DEF a, b
<1>7. pair \in Seq(Byte) /\ Len(pair) = 2 /\ pair[1] = a /\ pair[2] = b
  BY <1>6
<1>8. lengths \in Seq(Byte)
  BY <1>3, ExtensionType
<1> HIDE DEF pair, lengths
<1> DEFINE tail == lengths \o t
<1>9. rest = pair \o tail /\ tail \in Seq(Byte)
  BY <1>5, <1>7, <1>8, ConcatAssociative, ConcatProperties
<1> HIDE DEF tail
<1>10. drop(rest, 2) = tail
  BY <1>7, <1>9, SplitJoin
<1>11. /\ rest \in Seq(Byte) /\ Len(rest) = 2 + Len(tail) /\ Len(tail) \in Nat
       /\ \A i \in 1 .. 2 + Len(tail) : rest[i] = IF i <= 2 THEN pair[i] ELSE tail[i - 2]
  <2> DEFINE all == pair \o tail
  <2>1. /\ all \in Seq(Byte) /\ Len(all) = Len(pair) + Len(tail)
        /\ \A i \in 1 .. Len(pair) + Len(tail) :
             all[i] = IF i <= Len(pair) THEN pair[i] ELSE tail[i - Len(pair)]
    <3>1. pair \in Seq(Byte) /\ tail \in Seq(Byte)
      BY <1>7, <1>9
    <3> QED BY <3>1, ConcatProperties
  <2>2. rest = all
    BY <1>9
  <2> HIDE DEF all
  <2> QED BY <1>7, <1>9, <2>1, <2>2, LenProperties
<1>12. rest[1] = a /\ rest[2] = b
  <2>1. 1 \in 1 .. 2 + Len(tail) /\ 2 \in 1 .. 2 + Len(tail)
    BY <1>11
  <2> QED BY <1>7, <1>11, <2>1
<1>13. offset = x.offset
  <2>1. a \in Nat /\ base * b \in Nat
    BY <1>2, <1>4
  <2> DEFINE high == base * b
  <2>2. offset = a + high
    BY <1>12 DEF offset
  <2>3. x.offset = high + a /\ high \in Nat
    BY <1>4, <2>1
  <2> HIDE DEF high
  <2> QED BY <2>1, <2>2, <2>3
<1>14. /\ has_length(pending, tail) /\ extended(pending, tail) = n /\ after_length(pending, tail) = t
  BY <1>3, LengthWritten DEF tail, lengths, n
<1>15. holds(rest, 2)
  BY <1>11 DEF holds
<1>16. match_readable
  BY <1>3, <1>10, <1>14, <1>15 DEF match_readable, no_overflow
<1>17. read_match = x /\ match_rest = t
  BY <1>1, <1>3, <1>10, <1>13, <1>14 DEF read_match, match_rest, Backref
<1> QED BY <1>16, <1>17

\* The decoder has seen the first calls of a list, and will see the next.
Follows(c) ==
  LET k == Len(calls)
  IN  /\ k \in 0 .. Len(c) /\ calls = Prefix(c, k)
      /\ status = "token" => k < Len(c) /\ k % 2 = 0
      /\ status = "match" => k < Len(c) /\ k % 2 = 1 /\ pending = low_of(c, k, 0)
      /\ status = "Some" => calls = c
      /\ status # "None"

FollowsEncoder == \A c \in Blocks : source = encode(c, 0) => Follows(c)

\* Literals come at odd places, back references at even ones.
LEMMA BlockIs ==
  ASSUME NEW c \in Blocks
  PROVE  /\ Len(c) \in Nat /\ Len(c) % 2 = 1
         /\ \A i \in 1 .. Len(c) :
              /\ i % 2 = 1 => c[i] \in Literals /\ c[i].call = "literal" /\ Len(c[i].data) <= USIZE_MAX
              /\ i % 2 = 0 => c[i] \in Backrefs /\ c[i].call = "backref"
              /\ c[i].call = "literal" => low_of(c, i, 0) \in Halves
<1>1. c \in Seq(Calls) /\ Turns(c) /\ Len(c) \in Nat /\ DOMAIN c = 1 .. Len(c)
  BY BlockTurns, LenProperties
<1>2. Len(c) % 2 = 1
  BY BlocksAssumption
<1>3. ASSUME NEW i \in 1 .. Len(c)
      PROVE  /\ i % 2 = 1 => c[i] \in Literals /\ Len(c[i].data) <= USIZE_MAX
             /\ i % 2 = 0 => c[i] \in Backrefs
  <2>1. IF i % 2 = 1 THEN c[i] \in Literals /\ Len(c[i].data) <= USIZE_MAX ELSE c[i] \in Backrefs
    BY <1>1, BlocksAssumption
  <2>2. ~(i % 2 = 0 /\ i % 2 = 1)
    OBVIOUS
  <2> QED BY <2>1, <2>2
<1>4. \A x \in Literals : x.call = "literal"
  BY DEF Literals
<1>5. \A x \in Backrefs : x.call = "backref" /\ x.length \in MIN_MATCH .. USIZE_MAX
  BY DEF Backrefs
<1>6. ASSUME NEW i \in 1 .. Len(c), c[i].call = "literal"
      PROVE  low_of(c, i, 0) \in Halves
  <2>1. CASE i = Len(c)
    BY <2>1, Numbers DEF low_of, Halves
  <2>2. CASE i # Len(c)
    <3>1. i \in 1 .. Len(c) - 1 /\ i + 1 \in 1 .. Len(c)
      <4>1. Len(c) \in Nat
        BY <1>1
      <4>2. i \in 1 .. Len(c)
        BY <1>6
      <4> DEFINE L == Len(c)
      <4> HIDE DEF L
      <4>3. L \in Nat /\ i \in 1 .. L /\ i # L
        BY <2>2, <4>1, <4>2 DEF L
      <4>4. i \in 1 .. L - 1 /\ i + 1 \in 1 .. L
        BY <4>3
      <4> QED BY <4>4 DEF L
    <3>2. c[i+1] \in Calls /\ c[i+1].call # "literal"
      BY <1>1, <1>6, <3>1, ElementOfSeq DEF Turns
    <3>3. c[i+1] \in Backrefs
      BY <1>4, <3>2 DEF Calls
    <3>4. c[i+1].length - MIN_MATCH \in Nat
      BY <1>5, <3>3, Numbers
    <3> QED BY <2>2, <3>4, HalfType DEF low_of
  <2> QED BY <2>1, <2>2
<1>7. \A i \in 1 .. Len(c) : i % 2 = 1 => c[i] \in Literals /\ c[i].call = "literal" /\ Len(c[i].data) <= USIZE_MAX
  BY <1>3, <1>4
<1>8. \A i \in 1 .. Len(c) : i % 2 = 0 => c[i] \in Backrefs /\ c[i].call = "backref"
  BY <1>3, <1>5
<1>9. \A i \in 1 .. Len(c) : c[i].call = "literal" => low_of(c, i, 0) \in Halves
  BY <1>6
<1> QED BY <1>1, <1>2, <1>7, <1>8, <1>9

\* The literals to come are read as they are, and a match follows unless they are
\* the last.
LEMMA AtToken ==
  ASSUME IInv, NEW c \in Blocks, source = encode(c, 0), Follows(c), status = "token"
  PROVE  LET k == Len(calls)
         IN  /\ k \in 0 .. Len(c) /\ k < Len(c) /\ k % 2 = 0 /\ calls = Prefix(c, k)
             /\ literals_readable /\ Literal(read_data) = c[k+1]
             /\ token_match = low_of(c, k + 1, 0)
             /\ Len(read_after) = read_length <=> k + 1 = Len(c)
<1> DEFINE k == Len(calls)
           x == c[k+1]
           m == low_of(c, k + 1, 0)
<1>1. k \in 0 .. Len(c) /\ k < Len(c) /\ k % 2 = 0 /\ calls = Prefix(c, k)
  BY DEF Follows
<1> HIDE DEF k
<1>2. c \in Seq(Calls) /\ Turns(c) /\ Len(c) \in Nat
  BY BlockTurns, BlockIs
<1>3. k \in Nat /\ k + 1 \in 1 .. Len(c) /\ (k + 1) % 2 = 1 /\ (k > 0 => k \in 1 .. Len(c))
  BY <1>1, <1>2
<1>4. x \in Literals /\ x.call = "literal" /\ Len(x.data) <= USIZE_MAX /\ m \in Halves
  BY <1>3, BlockIs
<1>5. k > 0 => c[k].call # "literal"
  BY <1>1, <1>3, BlockIs
<1>6. rest \in Seq(Byte) /\ pending \in Halves /\ encode(c, 0) = encode(Prefix(c, k), pending) \o rest
  BY <1>1 DEF IInv, TypeOK, CallsEncodeInput, Halves
<1>7. PICK t \in Seq(Byte) : /\ rest = bytes(x, m) \o t
                             /\ encode(c, 0) = encode(Prefix(c, k + 1), m) \o t
  BY <1>1, <1>2, <1>4, <1>5, <1>6, NextBytes
<1>8. /\ literals_readable /\ token_match = m /\ Literal(read_data) = x
      /\ read_length = Len(x.data) /\ read_after = x.data \o t
  BY <1>4, <1>7, LiteralFollows
<1>9. Len(read_after) = read_length <=> t = <<>>
  <2>1. x.data \in Seq(Byte) /\ t \in Seq(Byte)
    BY <1>4, <1>7 DEF Literals
  <2>2. Len(x.data \o t) = Len(x.data) + Len(t) /\ Len(x.data) \in Nat /\ Len(t) \in Nat
    BY <2>1, ConcatProperties, LenProperties
  <2>3. Len(t) = 0 <=> t = <<>>
    BY <2>1, EmptySeq
  <2> QED BY <1>8, <2>2, <2>3
<1>10. CASE k + 1 = Len(c)
  <2>1. m = 0 /\ 0 \in Halves
    BY <1>10, Numbers DEF low_of, Halves
  <2>2. Prefix(c, k + 1) = c
    BY <1>2, <1>3, <1>10, PrefixIs
  <2>3. encode(c, 0) \in Seq(Byte)
    BY <1>2, <2>1, EncodeType
  <2>4. encode(c, 0) \o t = encode(c, 0)
    BY <1>7, <2>1, <2>2
  <2>5. t = <<>>
    BY <1>7, <2>3, <2>4, ConcatSimplifications
  <2> QED BY <1>1, <1>8, <1>9, <1>10, <2>5 DEF k
<1>11. CASE k + 1 # Len(c)
  <2>1. k + 1 \in 0 .. Len(c) /\ k + 1 < Len(c) /\ (k + 1) + 1 \in 1 .. Len(c) /\ ((k + 1) + 1) % 2 = 0
    BY <1>1, <1>2, <1>3, <1>11
  <2> DEFINE y == c[(k+1)+1]
  <2>2. y \in Calls /\ y.call # "literal" /\ 0 \in Halves
    BY <2>1, BlockIs, Numbers DEF Calls, Halves
  <2>3. PICK u \in Seq(Byte) : t = bytes(y, 0) \o u
    <3> DEFINE j == k + 1
    <3>1. j \in 0 .. Len(c) /\ j < Len(c) /\ (j > 0 /\ c[j].call = "literal" => m = low_of(c, j, 0))
      BY <2>1
    <3>2. c[j+1].call # "literal" /\ encode(c, 0) = encode(Prefix(c, j), m) \o t /\ t \in Seq(Byte)
      BY <1>7, <2>2
    <3> HIDE DEF j, m
    <3>3. \E u \in Seq(Byte) : t = bytes(c[j+1], 0) \o u
      BY <1>2, <1>4, <2>2, <3>1, <3>2, NextBytes
    <3> QED BY <3>3 DEF j
  <2>4. bytes(y, 0) # <<>> /\ bytes(y, 0) \in Seq(Byte)
    BY <2>2, BytesNotEmpty, BytesType
  <2>5. t # <<>>
    BY <2>3, <2>4, ConcatSimplifications
  <2> QED BY <1>1, <1>8, <1>9, <1>11, <2>5 DEF k
<1> QED BY <1>10, <1>11

\* The back reference to come is read as it is, and literals follow.
LEMMA AtMatch ==
  ASSUME IInv, NEW c \in Blocks, source = encode(c, 0), Follows(c), status = "match"
  PROVE  LET k == Len(calls)
         IN  /\ k \in 0 .. Len(c) /\ k + 1 < Len(c) /\ k % 2 = 1 /\ calls = Prefix(c, k)
             /\ match_readable /\ read_match = c[k+1]
<1> DEFINE k == Len(calls)
           x == c[k+1]
<1>1. k \in 0 .. Len(c) /\ k < Len(c) /\ k % 2 = 1 /\ calls = Prefix(c, k) /\ pending = low_of(c, k, 0)
  BY DEF Follows
<1> HIDE DEF k
<1>2. c \in Seq(Calls) /\ Turns(c) /\ Len(c) \in Nat /\ Len(c) % 2 = 1
  BY BlockTurns, BlockIs
<1>3. k \in Nat /\ k + 1 \in 1 .. Len(c) /\ (k + 1) % 2 = 0 /\ k + 1 < Len(c)
  BY <1>1, <1>2
<1>4. x \in Backrefs /\ x.call # "literal"
  BY <1>3, BlockIs
<1>5. pending = half_of(x.length - MIN_MATCH)
  <2>1. k # Len(c)
    BY <1>1, <1>2
  <2> QED BY <1>1, <2>1 DEF low_of
<1>6. rest \in Seq(Byte) /\ pending \in Halves /\ encode(c, 0) = encode(Prefix(c, k), pending) \o rest
  BY <1>1 DEF IInv, TypeOK, CallsEncodeInput, Halves
<1>7. PICK t \in Seq(Byte) : rest = bytes(x, pending) \o t
  BY <1>1, <1>2, <1>4, <1>6, NextBytes
<1>8. match_readable /\ read_match = x
  BY <1>4, <1>5, <1>7, MatchFollows
<1> QED BY <1>1, <1>3, <1>8 DEF k

LEMMA InitFollows == Init => FollowsEncoder
<1> SUFFICES ASSUME Init, NEW c \in Blocks, source = encode(c, 0) PROVE Follows(c)
  BY DEF FollowsEncoder
<1>1. c \in Seq(Calls) /\ Turns(c) /\ Len(c) \in Nat /\ Len(c) % 2 = 1
  BY BlockTurns, BlockIs
<1>2. calls = <<>> /\ Len(calls) = 0 /\ status = "token"
  BY EmptySeq DEF Init
<1>3. 0 \in 0 .. Len(c) /\ 0 < Len(c) /\ 0 % 2 = 0
  BY <1>1
<1>4. Prefix(c, 0) = <<>>
  BY SubSeqEmpty DEF Prefix
<1> QED BY <1>2, <1>3, <1>4 DEF Follows

LEMMA NextFollows ==
  ASSUME IInv, NEW c \in Blocks, source = encode(c, 0), Follows(c), [Next]_vars
  PROVE  Follows(c)'
<1> DEFINE k == Len(calls)
<1>1. c \in Seq(Calls) /\ Turns(c) /\ Len(c) \in Nat /\ Len(c) % 2 = 1
  BY BlockTurns, BlockIs
<1>2. CASE literals
  <2>1. /\ calls' = Append(calls, Literal(read_data)) /\ pending' = token_match
        /\ status' = IF Len(read_after) = read_length THEN "Some" ELSE "match"
        /\ status = "token"
    BY <1>2 DEF literals, read_length, read_after, read_data
  <2>2. /\ k \in 0 .. Len(c) /\ k < Len(c) /\ k % 2 = 0 /\ calls = Prefix(c, k)
        /\ Literal(read_data) = c[k+1] /\ token_match = low_of(c, k + 1, 0)
        /\ Len(read_after) = read_length <=> k + 1 = Len(c)
    BY <2>1, AtToken
  <2>3. calls' = Prefix(c, k + 1)
    <3>1. Prefix(c, k + 1) = Append(Prefix(c, k), c[k+1])
      <4> HIDE DEF k
      <4> QED BY <1>1, <2>2, PrefixIs
    <3> QED BY <2>1, <2>2, <3>1
  <2>4. k + 1 \in 0 .. Len(c) /\ (k + 1) % 2 = 1 /\ k + 1 <= Len(c)
    BY <1>1, <2>2
  <2>5. Len(calls') = k + 1
    BY <1>1, <2>3, <2>4, PrefixIs
  <2>6. CASE k + 1 = Len(c)
    <3>1. calls' = c /\ status' = "Some"
      BY <1>1, <2>1, <2>2, <2>3, <2>4, <2>6, PrefixIs
    <3> QED BY <2>3, <2>4, <2>5, <3>1 DEF Follows
  <2>7. CASE k + 1 # Len(c)
    <3>1. k + 1 < Len(c) /\ status' = "match" /\ pending' = low_of(c, k + 1, 0)
      BY <1>1, <2>1, <2>2, <2>4, <2>7
    <3> QED BY <2>3, <2>4, <2>5, <3>1 DEF Follows, low_of
  <2> QED BY <2>6, <2>7
<1>3. CASE match
  <2>1. calls' = Append(calls, read_match) /\ status' = "token" /\ status = "match"
    BY <1>3 DEF match, read_match
  <2>2. /\ k \in 0 .. Len(c) /\ k + 1 < Len(c) /\ k % 2 = 1 /\ calls = Prefix(c, k)
        /\ read_match = c[k+1]
    BY <2>1, AtMatch
  <2>3. k < Len(c) /\ k + 1 \in 0 .. Len(c) /\ (k + 1) % 2 = 0
    BY <1>1, <2>2
  <2>4. calls' = Prefix(c, k + 1)
    <3>1. Prefix(c, k + 1) = Append(Prefix(c, k), c[k+1])
      <4> HIDE DEF k
      <4> QED BY <1>1, <2>2, <2>3, PrefixIs
    <3> QED BY <2>1, <2>2, <3>1
  <2>5. Len(calls') = k + 1
    BY <1>1, <2>3, <2>4, PrefixIs
  <2> QED BY <2>1, <2>2, <2>3, <2>4, <2>5 DEF Follows
<1>4. CASE malformed
  <2>1. status = "token" => literals_readable
    BY AtToken
  <2>2. status = "match" => match_readable
    BY AtMatch
  <2> QED BY <1>4, <2>1, <2>2 DEF malformed
<1>5. CASE sink_refuses
  <2>1. status' = "refused" /\ calls' = calls
    BY <1>5 DEF sink_refuses
  <2>2. k \in 0 .. Len(c) /\ calls = Prefix(c, k)
    BY DEF Follows
  <2> QED BY <2>1, <2>2 DEF Follows
<1>6. CASE UNCHANGED vars
  <2>1. UNCHANGED <<status, calls, pending>>
    BY <1>6 DEF vars
  <2> QED BY <2>1 DEF Follows, low_of
<1> QED BY <1>2, <1>3, <1>4, <1>5, <1>6 DEF Next

LEMMA FollowsStep == IInv /\ FollowsEncoder /\ [Next]_vars => FollowsEncoder'
<1> SUFFICES ASSUME IInv, FollowsEncoder, [Next]_vars PROVE FollowsEncoder'
  OBVIOUS
<1>1. source' = source
  BY DEF Next, literals, match, malformed, sink_refuses, vars
<1>2. ASSUME NEW c \in Blocks, source' = encode(c, 0) PROVE Follows(c)'
  <2>1. source = encode(c, 0) /\ Follows(c)
    BY <1>1, <1>2 DEF FollowsEncoder
  <2> QED BY <2>1, NextFollows
<1> QED BY <1>2 DEF FollowsEncoder, encode, bytes_of

LEMMA FollowsAlways == Spec => []FollowsEncoder
<1>1. IInv /\ FollowsEncoder /\ [Next]_vars => FollowsEncoder'
  BY FollowsStep
<1> QED BY InitFollows, Invariance, <1>1, PTL DEF Spec

\* decompress() returns None for no block that an encoder writes, whatever its
\* literals, offsets and lengths, as long as the lengths fit a usize.
THEOREM EncodingsAccepted == Spec => []NoEncodingRejected
<1>1. FollowsEncoder => NoEncodingRejected
  BY DEF FollowsEncoder, Follows, NoEncodingRejected, Encodings
<1> QED BY FollowsAlways, <1>1, PTL

\* If it accepts such a block, the sink has seen the calls that were written down:
\* two lists of calls are never written as the same bytes.
THEOREM DecodesEncodings ==
  Spec => [](\A c \in Blocks : status = "Some" /\ source = encode(c, 0) => calls = c)
<1>1. FollowsEncoder => \A c \in Blocks : status = "Some" /\ source = encode(c, 0) => calls = c
  BY DEF FollowsEncoder, Follows
<1> QED BY FollowsAlways, <1>1, PTL
=============================================================================
