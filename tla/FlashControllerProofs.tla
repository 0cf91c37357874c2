------------------------- MODULE FlashControllerProofs -------------------------
(***************************************************************************)
(* Proofs about the Flash controller and the two that use it, for every    *)
(* size of the Flash and its pages, every width of a byte and any two      *)
(* commands: Emulator, a guest that stores anything anywhere in any memory *)
(* map, and TestHal, the HAL of the test loader.                           *)
(*                                                                         *)
(* The argument for Emulator: whatever match of offsets the generated      *)
(* accessors find, it is one of the declared fields; and what              *)
(* set_reg_command() does to the Flash begins at an aligned address, so    *)
(* that it stays in one unit.                                              *)
(*                                                                         *)
(* The argument for TestHal: an address that fits a register comes out of  *)
(* it as it went in (ValueOfWord), so that the stores of a call amount to  *)
(* one word programmed or one page erased (WordProgrammed, ErasingDoes).   *)
(* While a firmware is programmed, the Flash below the word being          *)
(* collected holds the bytes handed over (Written), the register of the    *)
(* HAL holds those of that word (Collects), and the rest of the page is    *)
(* blank if it was erased (RestIsBlank).  The log is made of retired       *)
(* words, requests and free words, in this order (Logs).                   *)
(***************************************************************************)
EXTENDS Emulator, TestHal, BasicLemmas

-----------------------------------------------------------------------------
(***************************************************************************)
(* Numbers.                                                                *)
(***************************************************************************)

\* The numbers that shifted() goes through.
LEMMA ShiftedIs ==
  ASSUME NEW n \in Nat, NEW k \in Nat
  PROVE  /\ shifted(n, k) \in [0 .. k -> Nat] /\ shifted(n, k)[0] = n
         /\ \A i \in 1 .. k : shifted(n, k)[i] = shifted(n, k)[i - 1] \div 2
<1> DEFINE Shifts(g) == g = [i \in 0 .. k |-> IF i = 0 THEN n ELSE g[i - 1] \div 2]
           F == [p \in (1 .. k) \X Nat |-> p[2] \div 2]
           left == CHOOSE g : Shifts(g)
<1>1. PICK g \in [0 .. k -> Nat] : g[0] = n /\ \A i \in 1 .. k : g[i] = F[<<i, g[i - 1]>>]
  <2>1. \A j \in Nat : j \div 2 \in Nat
    OBVIOUS
  <2> DEFINE T == Nat
  <2>2. n \in T /\ F \in [(1 .. k) \X T -> T]
    BY <2>1
  <2> HIDE DEF F, T
  <2>3. \E g \in [0 .. k -> T] : Recurs(g, n, F, k)
    BY <2>2, RecursionExists
  <2> QED BY <2>3 DEF T, Recurs
<1>2. \A i \in 1 .. k : i \in 0 .. k /\ i # 0 /\ i - 1 \in 0 .. k
  OBVIOUS
<1>3. \A i \in 1 .. k : g[i] = g[i - 1] \div 2
  BY <1>1, <1>2
<1>4. Shifts(g)
  <2>1. \A i \in 0 .. k : i = 0 \/ i \in 1 .. k
    OBVIOUS
  <2>2. \A i \in 0 .. k : g[i] = IF i = 0 THEN n ELSE g[i - 1] \div 2
    BY <1>1, <1>3, <2>1
  <2> QED BY <2>2
<1>5. Shifts(left)
  BY <1>4
<1>6. shifted(n, k) = left
  BY DEF shifted
<1> HIDE DEF left, F
<1>7. left[0] = n /\ \A i \in 1 .. k : left[i] = left[i - 1] \div 2
  <2>1. 0 \in 0 .. k
    OBVIOUS
  <2> QED BY <1>2, <1>5, <2>1
<1>8. \A i \in 0 .. k : left[i] = g[i]
  <2> DEFINE S == { i \in 0 .. k : left[i] = g[i] }
  <2>1. 0 \in S
    BY <1>1, <1>7
  <2>2. \A i \in 1 .. k : i - 1 \in S => i \in S
    BY <1>2, <1>3, <1>7
  <2>3. \A i \in 0 .. k : i \in S
    <3> HIDE DEF S
    <3> QED BY <2>1, <2>2, BoundedInduction
  <2> QED BY <2>3
<1>9. left \in [0 .. k -> Nat]
  BY <1>1, <1>5, <1>8
<1> QED BY <1>6, <1>7, <1>9

\* The numbers that the leading bits have, up to that of all of them.
Leading(g, bits, n) ==
  /\ number(bits, n) = g[n] /\ g[0] = 0
  /\ \A k \in 1 .. n : g[k] = 2 * g[k - 1] + (IF n - k \in bits THEN 1 ELSE 0)

LEMMA NumberIs ==
  ASSUME NEW bits, NEW n \in Nat
  PROVE  \E g \in [0 .. n -> Nat] : Leading(g, bits, n)
<1> DEFINE bit(k) == IF n - k \in bits THEN 1 ELSE 0
           Leads(g) == g = [k \in 0 .. n |-> IF k = 0 THEN 0 ELSE 2 * g[k - 1] + bit(k)]
           F == [p \in (1 .. n) \X Nat |-> 2 * p[2] + bit(p[1])]
           leading == CHOOSE g : Leads(g)
<1>0. \A k : bit(k) \in {0, 1}
  OBVIOUS
<1>1. number(bits, n) = leading[n]
  BY DEF number
<1> HIDE DEF bit
<1>2. PICK g \in [0 .. n -> Nat] : g[0] = 0 /\ \A i \in 1 .. n : g[i] = F[<<i, g[i - 1]>>]
  <2>1. \A j \in Nat, k \in 1 .. n : 2 * j + bit(k) \in Nat
    BY <1>0
  <2> DEFINE T == Nat
  <2>2. 0 \in T /\ F \in [(1 .. n) \X T -> T]
    BY <2>1
  <2> HIDE DEF F, T
  <2>3. \E g \in [0 .. n -> T] : Recurs(g, 0, F, n)
    BY <2>2, RecursionExists
  <2> QED BY <2>3 DEF T, Recurs
<1>3. \A i \in 1 .. n : i \in 0 .. n /\ i # 0 /\ i - 1 \in 0 .. n
  OBVIOUS
<1>4. \A i \in 1 .. n : g[i] = 2 * g[i - 1] + bit(i)
  BY <1>2, <1>3
<1>5. Leads(g)
  <2>1. \A i \in 0 .. n : i = 0 \/ i \in 1 .. n
    OBVIOUS
  <2>2. \A i \in 0 .. n : g[i] = IF i = 0 THEN 0 ELSE 2 * g[i - 1] + bit(i)
    BY <1>2, <1>4, <2>1
  <2> QED BY <2>2
<1>6. Leads(leading)
  BY <1>5
<1> HIDE DEF leading, F
<1>7. leading[0] = 0 /\ \A i \in 1 .. n : leading[i] = 2 * leading[i - 1] + bit(i)
  <2>1. 0 \in 0 .. n
    OBVIOUS
  <2> QED BY <1>3, <1>6, <2>1
<1>8. \A i \in 0 .. n : leading[i] = g[i]
  <2> DEFINE S == { i \in 0 .. n : leading[i] = g[i] }
  <2>1. 0 \in S
    BY <1>2, <1>7
  <2>2. \A i \in 1 .. n : i - 1 \in S => i \in S
    BY <1>3, <1>4, <1>7
  <2>3. \A i \in 0 .. n : i \in S
    <3> HIDE DEF S
    <3> QED BY <2>1, <2>2, BoundedInduction
  <2> QED BY <2>3
<1>9. leading[n] = g[n]
  BY <1>8
<1> QED BY <1>1, <1>2, <1>4, <1>9 DEF bit, Leading

\* The value of some bits is a number.
LEMMA NumberIsNat ==
  ASSUME NEW bits, NEW n \in Nat
  PROVE  number(bits, n) \in Nat
<1>1. n \in 0 .. n
  OBVIOUS
<1> QED BY <1>1, NumberIs DEF Leading

\* The bits of a number, put together, give the number.
LEMMA NumberOfBits ==
  ASSUME NEW n \in Nat, NEW k \in Nat, shifted(n, k)[k] = 0,
         NEW bits, \A j \in 0 .. k - 1 : j \in bits <=> shifted(n, k)[j] % 2 = 1
  PROVE  number(bits, k) = n
<1> DEFINE s == shifted(n, k)
<1>1. s \in [0 .. k -> Nat] /\ s[0] = n /\ \A i \in 1 .. k : s[i] = s[i - 1] \div 2
  BY ShiftedIs
<1>0. PICK g \in [0 .. k -> Nat] : Leading(g, bits, k)
  BY NumberIs
<1>2. /\ number(bits, k) = g[k] /\ g[0] = 0
      /\ \A i \in 1 .. k : g[i] = 2 * g[i - 1] + (IF k - i \in bits THEN 1 ELSE 0)
  BY <1>0 DEF Leading
<1>3. s[k] = 0 /\ \A j \in 0 .. k - 1 : j \in bits <=> s[j] % 2 = 1
  OBVIOUS
<1> HIDE DEF s
<1> DEFINE S == { i \in 0 .. k : g[i] = s[k - i] }
<1>4. 0 \in S
  <2>1. k - 0 = k
    OBVIOUS
  <2> QED BY <1>2, <1>3, <2>1
<1>5. ASSUME NEW i \in 1 .. k, i - 1 \in S PROVE i \in S
  <2>1. /\ k - (i - 1) \in 1 .. k /\ (k - (i - 1)) - 1 = k - i
        /\ k - i \in 0 .. k - 1 /\ k - i \in 0 .. k
    OBVIOUS
  <2> DEFINE a == s[k - i]
             b == s[k - (i - 1)]
             c == g[i - 1]
  <2>2. b = a \div 2
    BY <1>1, <2>1
  <2>3. c = b
    BY <1>5
  <2>4. g[i] = 2 * c + (IF a % 2 = 1 THEN 1 ELSE 0)
    BY <1>2, <1>3, <2>1
  <2>5. a \in Nat
    BY <1>1, <2>1
  <2> HIDE DEF a, b, c
  <2>6. g[i] = a
    BY <2>2, <2>3, <2>4, <2>5
  <2> QED BY <2>6 DEF a
<1>6. \A i \in 0 .. k : i \in S
  <2>1. \A i \in 1 .. k : i - 1 \in S => i \in S
    BY <1>5
  <2> HIDE DEF S
  <2> QED BY <1>4, <2>1, BoundedInduction
<1>7. k \in 0 .. k /\ k - k = 0
  OBVIOUS
<1>8. g[k] = s[k - k]
  BY <1>6, <1>7
<1> QED BY <1>1, <1>2, <1>7, <1>8

\* The bits of the number of some bits are those, and no others.
LEMMA BitsOfNumber ==
  ASSUME NEW bits, NEW n \in Nat
  PROVE  /\ shifted(number(bits, n), n)[n] = 0
         /\ \A j \in 0 .. n - 1 : shifted(number(bits, n), n)[j] % 2 = 1 <=> j \in bits
<1> DEFINE v == number(bits, n)
           s == shifted(v, n)
<1>0. PICK g \in [0 .. n -> Nat] : Leading(g, bits, n)
  BY NumberIs
<1>1. /\ number(bits, n) = g[n] /\ g[0] = 0
      /\ \A i \in 1 .. n : g[i] = 2 * g[i - 1] + (IF n - i \in bits THEN 1 ELSE 0)
  BY <1>0 DEF Leading
<1>2. v \in Nat /\ v = g[n]
  BY <1>1, NumberIsNat
<1> HIDE DEF v
<1>3. s \in [0 .. n -> Nat] /\ s[0] = v /\ \A i \in 1 .. n : s[i] = s[i - 1] \div 2
  BY <1>2, ShiftedIs
<1> HIDE DEF s
<1> DEFINE S == { i \in 0 .. n : s[i] = g[n - i] }
<1>4. 0 \in S
  <2>1. n - 0 = n
    OBVIOUS
  <2> QED BY <1>2, <1>3, <2>1
<1>5. ASSUME NEW i \in 1 .. n
      PROVE  /\ g[n - (i - 1)] \div 2 = g[n - i]
             /\ g[n - (i - 1)] % 2 = 1 <=> i - 1 \in bits
  <2>1. /\ n - (i - 1) \in 1 .. n /\ (n - (i - 1)) - 1 = n - i /\ n - i \in 0 .. n
        /\ n - (n - (i - 1)) = i - 1
    OBVIOUS
  <2> DEFINE a == g[n - (i - 1)]
             c == g[n - i]
             b == IF i - 1 \in bits THEN 1 ELSE 0
  <2>2. a = 2 * c + b
    BY <1>1, <2>1
  <2>3. c \in Nat
    BY <1>1, <2>1
  <2>4. b \in {0, 1} /\ (b = 1 <=> i - 1 \in bits)
    OBVIOUS
  <2> HIDE DEF a, b, c
  <2>5. a \div 2 = c /\ (a % 2 = 1 <=> b = 1)
    BY <2>2, <2>3, <2>4
  <2> QED BY <2>4, <2>5 DEF a, c
<1>6. \A i \in 0 .. n : i \in S
  <2>1. \A i \in 1 .. n : i - 1 \in S => i \in S
    <3> TAKE i \in 1 .. n
    <3> HAVE i - 1 \in S
    <3>1. s[i - 1] = g[n - (i - 1)] /\ i \in 0 .. n
      OBVIOUS
    <3>2. s[i] = g[n - i]
      BY <1>3, <1>5, <3>1
    <3> QED BY <3>1, <3>2
  <2> HIDE DEF S
  <2> QED BY <1>4, <2>1, BoundedInduction
<1>7. ASSUME NEW j \in 0 .. n - 1 PROVE s[j] % 2 = 1 <=> j \in bits
  <2>1. j + 1 \in 1 .. n /\ (j + 1) - 1 = j /\ j \in 0 .. n
    OBVIOUS
  <2>2. s[j] = g[n - j]
    BY <1>6, <2>1
  <2> QED BY <1>5, <2>1, <2>2
<1>8. s[n] = 0
  <2>1. n \in 0 .. n /\ n - n = 0
    OBVIOUS
  <2> QED BY <1>1, <1>6, <2>1
<1> QED BY <1>7, <1>8 DEF s, v

\* A u32 has the value it was made of.
LEMMA ValueOfWord ==
  ASSUME NEW n \in Nat
  PROVE  word_of(n) \in Word /\ (fits_u32(n) => value_of(word_of(n)) = n)
<1> DEFINE k == 4 * BITS
           s == shifted(n, k)
           w == word_of(n)
           bits == UNION { { BITS * (i - 1) + b : b \in w[i] } : i \in 1 .. 4 }
<1>1. BITS \in Nat \ {0} /\ k \in Nat
  BY ControllerAssumption
<1>2. /\ w = [i \in 1 .. 4 |-> { b \in Ones : s[BITS * (i - 1) + b] % 2 = 1 }]
      /\ value_of(w) = number(bits, k) /\ (fits_u32(n) <=> s[k] = 0)
  BY DEF word_of, value_of, fits_u32
<1>3. w \in Word
  BY <1>2 DEF Word, Byte, Ones
<1> HIDE DEF s, w
<1>4. \A j : j \in bits <=> \E i \in 1 .. 4 : \E b \in w[i] : j = BITS * (i - 1) + b
  OBVIOUS
<1> HIDE DEF bits
<1>5. ASSUME NEW j \in 0 .. k - 1, j \in bits PROVE s[j] % 2 = 1
  <2>1. PICK i \in 1 .. 4 : \E b \in w[i] : j = BITS * (i - 1) + b
    BY <1>4, <1>5
  <2>2. PICK b \in w[i] : j = BITS * (i - 1) + b
    BY <2>1
  <2>3. s[BITS * (i - 1) + b] % 2 = 1
    BY <1>2, <2>2
  <2> QED BY <2>2, <2>3
<1>6. ASSUME NEW j \in 0 .. k - 1, s[j] % 2 = 1 PROVE j \in bits
  <2> DEFINE q == j \div BITS
             b == j % BITS
  <2>1. q \in Nat /\ b \in 0 .. BITS - 1 /\ j = (BITS * q) + b
    <3>1. j \in Nat
      BY <1>1
    <3> QED BY <1>1, <3>1, DivMod
  <2> HIDE DEF q, b
  <2>2. q < 4
    <3>1. SUFFICES ASSUME 4 <= q PROVE FALSE
      BY <2>1
    <3>2. BITS * 4 <= BITS * q
      BY <1>1, <2>1, <3>1, ProductGrows
    <3>3. BITS * q \in Nat /\ BITS * 4 = k
      BY <1>1, <2>1
    <3> QED BY <1>1, <2>1, <3>2, <3>3
  <2>3. q + 1 \in 1 .. 4 /\ (q + 1) - 1 = q
    BY <2>1, <2>2
  <2>4. b \in w[q + 1]
    <3>1. b \in Ones
      BY <2>1 DEF Ones
    <3>2. w[q + 1] = { c \in Ones : s[BITS * ((q + 1) - 1) + c] % 2 = 1 }
      BY <1>2, <2>3
    <3>3. s[BITS * ((q + 1) - 1) + b] % 2 = 1
      BY <1>6, <2>1, <2>3
    <3> QED BY <3>1, <3>2, <3>3
  <2>5. j = BITS * ((q + 1) - 1) + b
    BY <2>1, <2>3
  <2> QED BY <1>4, <2>3, <2>4, <2>5
<1>7. \A j \in 0 .. k - 1 : j \in bits <=> s[j] % 2 = 1
  BY <1>5, <1>6
<1>8. ASSUME fits_u32(n) PROVE number(bits, k) = n
  <2>1. shifted(n, k)[k] = 0 /\ \A j \in 0 .. k - 1 : j \in bits <=> shifted(n, k)[j] % 2 = 1
    BY <1>2, <1>7, <1>8 DEF s
  <2> HIDE DEF k
  <2> QED BY <1>1, <2>1, NumberOfBits
<1> QED BY <1>2, <1>3, <1>8 DEF w

\* A byte has the bits of its value.
LEMMA ByteOfValue ==
  ASSUME NEW byte \in Byte
  PROVE  byte_of(value_of_byte[byte]) = byte
<1>1. BITS \in Nat /\ byte \subseteq 0 .. BITS - 1
  BY ControllerAssumption DEF Byte
<1>2. value_of_byte[byte] = number(byte, BITS)
  BY DEF value_of_byte
<1>3. \A j \in 0 .. BITS - 1 : shifted(number(byte, BITS), BITS)[j] % 2 = 1 <=> j \in byte
  BY <1>1, BitsOfNumber
<1> QED BY <1>1, <1>2, <1>3 DEF byte_of, Ones

\* The more bits, the larger the number.
LEMMA NumberGrows ==
  ASSUME NEW n \in Nat, NEW bits, NEW more, bits \subseteq more
  PROVE  number(bits, n) <= number(more, n)
<1>1. PICK g \in [0 .. n -> Nat] : Leading(g, bits, n)
  BY NumberIs
<1>2. PICK h \in [0 .. n -> Nat] : Leading(h, more, n)
  BY NumberIs
<1> DEFINE S == { i \in 0 .. n : g[i] <= h[i] }
<1>3. 0 \in S
  BY <1>1, <1>2 DEF Leading
<1>4. ASSUME NEW i \in 1 .. n, i - 1 \in S PROVE i \in S
  <2>1. i - 1 \in 0 .. n /\ i \in 0 .. n
    OBVIOUS
  <2>2. g[i] = 2 * g[i - 1] + (IF n - i \in bits THEN 1 ELSE 0)
    BY <1>1 DEF Leading
  <2>3. h[i] = 2 * h[i - 1] + (IF n - i \in more THEN 1 ELSE 0)
    BY <1>2 DEF Leading
  <2>4. g[i - 1] \in Nat /\ h[i - 1] \in Nat /\ g[i - 1] <= h[i - 1]
    BY <1>4, <2>1
  <2>5. n - i \in bits => n - i \in more
    OBVIOUS
  <2>6. g[i] <= h[i]
    BY <2>2, <2>3, <2>4, <2>5
  <2> QED BY <2>1, <2>6
<1>5. \A i \in 0 .. n : i \in S
  <2>1. \A i \in 1 .. n : i - 1 \in S => i \in S
    BY <1>4
  <2> HIDE DEF S
  <2> QED BY <1>3, <2>1, BoundedInduction
<1>6. g[n] <= h[n]
  BY <1>5
<1> QED BY <1>1, <1>2, <1>6 DEF Leading

\* The values of bytes.
LEMMA ValueOfByteType ==
  /\ value_of_byte \in [Byte -> 0 .. RADIX - 1]
  /\ value_of_byte[Ones] = RADIX - 1
<1>1. BITS \in Nat /\ Ones \in Byte
  BY ControllerAssumption DEF Byte, Ones
<1>2. \A byte \in Byte : value_of_byte[byte] = number(byte, BITS)
  BY DEF value_of_byte
<1>3. \A byte \in Byte : number(byte, BITS) \in Nat
  BY <1>1, NumberIsNat
<1>4. \A byte \in Byte : number(byte, BITS) <= number(Ones, BITS)
  <2>1. \A byte \in Byte : byte \subseteq Ones
    BY DEF Byte, Ones
  <2> QED BY <1>1, <2>1, NumberGrows
<1>5. value_of_byte[Ones] = RADIX - 1 /\ RADIX - 1 = number(Ones, BITS)
  <2>1. value_of_byte[Ones] \in Nat
    BY <1>1, <1>2, <1>3
  <2> QED BY <1>1, <1>2, <2>1 DEF RADIX
<1>6. \A byte \in Byte : value_of_byte[byte] \in 0 .. RADIX - 1
  BY <1>1, <1>2, <1>3, <1>4, <1>5
<1>7. value_of_byte = [byte \in Byte |-> value_of_byte[byte]]
  BY DEF value_of_byte
<1> QED BY <1>5, <1>6, <1>7

\* The smaller of two numbers stays the smaller when both are shifted.
LEMMA ShiftedGrows ==
  ASSUME NEW n \in Nat, NEW m \in Nat, n <= m, NEW k \in Nat
  PROVE  shifted(n, k)[k] <= shifted(m, k)[k]
<1> DEFINE s == shifted(n, k)
           t == shifted(m, k)
           S == { i \in 0 .. k : s[i] <= t[i] }
<1>1. s \in [0 .. k -> Nat] /\ s[0] = n /\ \A i \in 1 .. k : s[i] = s[i - 1] \div 2
  BY ShiftedIs
<1>2. t \in [0 .. k -> Nat] /\ t[0] = m /\ \A i \in 1 .. k : t[i] = t[i - 1] \div 2
  BY ShiftedIs
<1> HIDE DEF s, t
<1>3. 0 \in S
  BY <1>1, <1>2
<1>4. \A i \in 1 .. k : i - 1 \in S => i \in S
  <2> TAKE i \in 1 .. k
  <2> HAVE i - 1 \in S
  <2>1. \A a, b \in Nat : a <= b => a \div 2 <= b \div 2
    OBVIOUS
  <2>2. i - 1 \in 0 .. k /\ i \in 0 .. k
    OBVIOUS
  <2>3. s[i] <= t[i]
    BY <1>1, <1>2, <2>1, <2>2
  <2> QED BY <2>2, <2>3
<1>5. \A i \in 0 .. k : i \in S
  <2> HIDE DEF S
  <2> QED BY <1>3, <1>4, BoundedInduction
<1>6. k \in S
  BY <1>5
<1> QED BY <1>6 DEF s, t

\* A number that is no larger than that of a byte with all bits set is the value of
\* the byte it is made into; and there are at least two such numbers.
LEMMA ValueOfByte ==
  /\ \A n \in 0 .. RADIX - 1 : byte_of(n) \in Byte /\ value_of_byte[byte_of(n)] = n
  /\ RADIX \in Nat /\ RADIX > 1
<1>1. BITS \in Nat /\ Ones \in Byte /\ {} \in Byte /\ {} # Ones
  BY ControllerAssumption DEF Byte, Ones
<1>2. value_of_byte[Ones] = number(Ones, BITS) /\ number(Ones, BITS) \in Nat
  BY <1>1, NumberIsNat DEF value_of_byte
<1>3. RADIX \in Nat /\ RADIX - 1 = number(Ones, BITS)
  BY <1>2 DEF RADIX
<1>4. ASSUME NEW n \in 0 .. RADIX - 1
      PROVE  byte_of(n) \in Byte /\ value_of_byte[byte_of(n)] = n
  <2>1. n \in Nat /\ n <= number(Ones, BITS)
    BY <1>3
  <2>2. shifted(number(Ones, BITS), BITS)[BITS] = 0
    BY <1>1, BitsOfNumber
  <2>3. shifted(n, BITS)[BITS] <= 0
    BY <1>1, <1>2, <2>1, <2>2, ShiftedGrows
  <2>4. shifted(n, BITS)[BITS] \in Nat
    <3>1. BITS \in 0 .. BITS
      BY <1>1
    <3> QED BY <1>1, <2>1, <3>1, ShiftedIs
  <2>5. shifted(n, BITS)[BITS] = 0
    BY <2>3, <2>4
  <2>6. \A j \in 0 .. BITS - 1 : j \in byte_of(n) <=> shifted(n, BITS)[j] % 2 = 1
    BY DEF byte_of, Ones
  <2>7. number(byte_of(n), BITS) = n
    BY <1>1, <2>1, <2>5, <2>6, NumberOfBits
  <2>8. byte_of(n) \in Byte
    BY DEF byte_of, Byte, Ones
  <2> QED BY <2>7, <2>8 DEF value_of_byte
<1>5. RADIX > 1
  <2>1. value_of_byte[{}] # value_of_byte[Ones]
    BY <1>1, ByteOfValue
  <2>2. value_of_byte[{}] \in 0 .. RADIX - 1 /\ value_of_byte[Ones] \in 0 .. RADIX - 1
    BY <1>1, ValueOfByteType
  <2> QED BY <1>3, <2>1, <2>2
<1> QED BY <1>3, <1>4, <1>5

\* An address that is aligned down begins a unit, which is that of every address
\* in it and of no other.
LEMMA AlignedDownTo ==
  ASSUME NEW n \in Nat, NEW d \in Nat \ {0}
  PROVE  LET a == align_down(n, d)
         IN  /\ a \in Nat /\ a % d = 0
             /\ \A x \in Nat : x \in a .. a + d - 1 <=> x \div d = a \div d
<1> DEFINE q == n \div d
           a == q * d
<1>1. q \in Nat
  BY DivMod
<1> HIDE DEF q
<1>2. a \in Nat /\ a % d = 0 /\ a = (d * q) + 0
  <2>1. q * d \in Nat /\ q * d = (d * q) + 0
    BY <1>1
  <2>2. (q * d) % d = 0
    BY <1>1, MultipleAligned
  <2> QED BY <2>1, <2>2
<1>3. a \div d = q
  BY <1>1, <1>2, UniqueRemainder
<1> HIDE DEF a
<1>4. ASSUME NEW x \in Nat, x \in a .. a + d - 1
      PROVE  x \div d = q
  <2> DEFINE r == x - a
  <2>1. r \in 0 .. d - 1 /\ x = a + r
    BY <1>2, <1>4
  <2>2. x = (d * q) + r
    BY <1>1, <1>2, <2>1
  <2> HIDE DEF r
  <2> QED BY <1>1, <2>1, <2>2, UniqueRemainder
<1>5. ASSUME NEW x \in Nat, x \div d = q
      PROVE  x \in a .. a + d - 1
  <2> DEFINE r == x % d
  <2>1. r \in 0 .. d - 1 /\ x = (d * q) + r
    BY <1>5, DivMod
  <2> HIDE DEF r
  <2>2. x = a + r
    BY <1>1, <1>2, <2>1
  <2> QED BY <1>2, <2>1, <2>2
<1>6. \A x \in Nat : x \in a .. a + d - 1 <=> x \div d = a \div d
  BY <1>3, <1>4, <1>5
<1> QED BY <1>2, <1>6 DEF a, q, align_down

-----------------------------------------------------------------------------
(***************************************************************************)
(* Commands and registers.                                                 *)
(***************************************************************************)

Memory    == [Addresses -> Byte]
Registers == [{"status", "addr", "data"} -> Word]
Controllers == [flash : Memory, reg : Registers]

\* Programming clears bits of one aligned word.
Programs(m, n, w) ==
  \E a \in Addresses : a % 4 = 0 /\
    \A x \in Addresses :
      n[x] = IF x \div 4 = a \div 4 THEN m[x] \cap w[x - a + 1] ELSE m[x]

\* Erasing sets the bits of one page.
Erases(m, n) ==
  \E a \in Addresses : a % PAGE = 0 /\
    \A x \in Addresses : n[x] = IF x \div PAGE = a \div PAGE THEN Ones ELSE m[x]

\* What a command does to the Flash, whatever the address register holds.
LEMMA CommandEffect ==
  ASSUME NEW m \in Memory, NEW r \in Registers, NEW value
  PROVE  LET n == set_reg_command(m, r, value)
         IN  n \in Memory /\ (n = m \/ Programs(m, n, r.data) \/ Erases(m, n))
<1> DEFINE n == set_reg_command(m, r, value)
           v == value_of(r.addr)
           word == align_down(v, 4)
           page == align_down(v, PAGE)
<1>1. v \in Nat
  <2>1. 4 * BITS \in Nat
    BY ControllerAssumption
  <2> QED BY <2>1, NumberIsNat DEF value_of
<1>2. Addresses \subseteq Nat /\ DOMAIN m = Addresses /\ \A x \in Addresses : m[x] \in Byte
  BY ControllerAssumption DEF Addresses, Memory
<1>3. n = CASE value = CMD_PROGRAM /\ word \in Addresses -> programmed(m, word, r.data)
            [] value = CMD_ERASE /\ page \in Addresses -> erased(m, page)
            [] OTHER -> m
  BY DEF set_reg_command, check_addr
<1>4. CMD_PROGRAM # CMD_ERASE /\ PAGE \in Nat \ {0} /\ 4 \in Nat \ {0}
  BY ControllerAssumption
<1> HIDE DEF n, v
<1>5. /\ word % 4 = 0 /\ word \in Nat
      /\ \A x \in Nat : x \in word .. word + 4 - 1 <=> x \div 4 = word \div 4
  BY <1>1, <1>4, AlignedDownTo
<1>6. /\ page % PAGE = 0 /\ page \in Nat
      /\ \A x \in Nat : x \in page .. page + PAGE - 1 <=> x \div PAGE = page \div PAGE
  BY <1>1, <1>4, AlignedDownTo
<1> HIDE DEF word, page
<1>7. CASE value = CMD_PROGRAM /\ word \in Addresses
  <2>1. n = [x \in Addresses |-> IF x \in word .. word + 3 THEN r.data[x - word + 1] \cap m[x] ELSE m[x]]
    BY <1>2, <1>3, <1>4, <1>7 DEF programmed
  <2>2. \A x \in Addresses : x \in word .. word + 3 <=> x \div 4 = word \div 4
    <3>1. word + 4 - 1 = word + 3
      BY <1>5
    <3> QED BY <1>2, <1>5, <3>1
  <2>3. \A x \in Addresses :
          n[x] = IF x \div 4 = word \div 4 THEN m[x] \cap r.data[x - word + 1] ELSE m[x]
    BY <2>1, <2>2
  <2>4. \A x \in Addresses : n[x] \in Byte
    BY <1>2, <2>3 DEF Byte
  <2>5. n \in Memory
    BY <2>1, <2>4 DEF Memory
  <2>6. Programs(m, n, r.data)
    BY <1>5, <1>7, <2>3 DEF Programs
  <2> QED BY <2>5, <2>6 DEF n
<1>8. CASE value = CMD_ERASE /\ page \in Addresses
  <2>1. n = [x \in Addresses |-> IF x \in page .. page + PAGE - 1 THEN Ones ELSE m[x]]
    BY <1>2, <1>3, <1>4, <1>8 DEF erased
  <2>2. \A x \in Addresses : n[x] = IF x \div PAGE = page \div PAGE THEN Ones ELSE m[x]
    BY <1>2, <1>6, <2>1
  <2>3. \A x \in Addresses : n[x] \in Byte
    BY <1>2, <2>2 DEF Byte, Ones
  <2>4. n \in Memory
    BY <2>1, <2>3 DEF Memory
  <2>5. Erases(m, n)
    BY <1>6, <1>8, <2>2 DEF Erases
  <2> QED BY <2>4, <2>5 DEF n
<1>9. CASE ~(value = CMD_PROGRAM /\ word \in Addresses) /\ ~(value = CMD_ERASE /\ page \in Addresses)
  <2>1. n = m
    BY <1>3, <1>9
  <2> QED BY <2>1 DEF n
<1> QED BY <1>7, <1>8, <1>9

\* The field an access reaches is one of those declared, or none.
LEMMA SelectedField ==
  ASSUME NEW offset, NEW size
  PROVE  selected(Fields, offset, size) \in
           { Register("status", Inherited, "nop"), Register("addr", Inherited, "store"),
             Register("data", Inherited, "store"), Register("command", Inherited, "setter"),
             NoRegister }
<1> DEFINE matches == { i \in DOMAIN Fields : offsets(Fields)[i] \div 4 = offset \div 4 }
<1>1. DOMAIN Fields = 1 .. 4
  BY DEF Fields
<1>2. matches # {} => Min(matches) \in 1 .. 4
  <2>1. matches \in SUBSET Nat /\ matches \subseteq 1 .. 4
    BY <1>1
  <2> HIDE DEF matches
  <2> QED BY <2>1, MinIsLeast
<1>3. \/ selected(Fields, offset, size) = Fields[Min(matches)] /\ matches # {}
      \/ selected(Fields, offset, size) = NoRegister
  BY DEF selected
<1> HIDE DEF matches
<1>4. \A i \in 1 .. 4 : Fields[i] \in
        { Register("status", Inherited, "nop"), Register("addr", Inherited, "store"),
          Register("data", Inherited, "store"), Register("command", Inherited, "setter") }
  BY DEF Fields
<1> QED BY <1>2, <1>3, <1>4

\* A store that reaches the controller keeps the types of its state and the status
\* register, and does to the Flash what a command does, with the registers as they were.
LEMMA AccessEffect ==
  ASSUME NEW m \in Memory, NEW r \in Registers, NEW offset, NEW size, NEW value \in Word
  PROVE  LET c == accessed([flash |-> m, reg |-> r], offset, size, value)
         IN  /\ c \in Controllers /\ c.reg.status = r.status
             /\ c.flash = m \/ Programs(m, c.flash, r.data) \/ Erases(m, c.flash)
<1> DEFINE field == selected(Fields, offset, size)
           c == [flash |-> m, reg |-> r]
           d == accessed(c, offset, size, value)
<1>1. field \in { Register("status", Inherited, "nop"), Register("addr", Inherited, "store"),
                  Register("data", Inherited, "store"), Register("command", Inherited, "setter"),
                  NoRegister }
  BY SelectedField
<1>2. d = CASE keeps(field) -> [c EXCEPT !.reg[field.name] = value]
            [] field.write = "setter" -> [c EXCEPT !.flash = set_reg_command(@, c.reg, value)]
            [] OTHER -> c
  BY DEF accessed
<1> HIDE DEF field, d
<1>3. CASE keeps(field)
  <2>1. field.name \in {"addr", "data"}
    BY <1>1, <1>3 DEF keeps, Register, NoRegister
  <2>2. [c EXCEPT !.reg[field.name] = value]
          = [flash |-> m, reg |-> [r EXCEPT ![field.name] = value]]
    OBVIOUS
  <2>3. d = [c EXCEPT !.reg[field.name] = value]
    BY <1>2, <1>3 DEF keeps
  <2>4. [r EXCEPT ![field.name] = value] \in Registers
    BY <2>1 DEF Registers
  <2>5. [r EXCEPT ![field.name] = value].status = r.status
    BY <2>1 DEF Registers
  <2> QED BY <2>2, <2>3, <2>4, <2>5 DEF d, Controllers
<1>4. CASE ~keeps(field) /\ field.write = "setter"
  <2>1. d = [flash |-> set_reg_command(m, r, value), reg |-> r]
    BY <1>2, <1>4
  <2>2. /\ set_reg_command(m, r, value) \in Memory
        /\ \/ set_reg_command(m, r, value) = m
           \/ Programs(m, set_reg_command(m, r, value), r.data)
           \/ Erases(m, set_reg_command(m, r, value))
    BY CommandEffect
  <2> QED BY <2>1, <2>2 DEF d, Controllers
<1>5. CASE ~keeps(field) /\ field.write # "setter"
  <2>1. d = c
    BY <1>2, <1>5
  <2> QED BY <2>1 DEF d, Controllers
<1> QED BY <1>3, <1>4, <1>5

LEMMA StoreEffect ==
  ASSUME flash \in Memory, reg \in Registers, reg.status = AllZeros,
         NEW offset, NEW size, NEW value \in Word, mmio_write(offset, size, value)
  PROVE  /\ flash' \in Memory /\ reg' \in Registers /\ reg'.status = AllZeros
         /\ flash' = flash \/ Programs(flash, flash', reg.data) \/ Erases(flash, flash')
<1> DEFINE c == accessed([flash |-> flash, reg |-> reg], offset, size, value)
<1>1. /\ c \in Controllers /\ c.reg.status = reg.status
      /\ c.flash = flash \/ Programs(flash, c.flash, reg.data) \/ Erases(flash, c.flash)
  BY AccessEffect
<1>2. flash' = c.flash /\ reg' = c.reg
  BY DEF mmio_write
<1> HIDE DEF c
<1>3. c.flash \in Memory /\ c.reg \in Registers
  BY <1>1 DEF Controllers
<1> QED BY <1>1, <1>2, <1>3

-----------------------------------------------------------------------------
(***************************************************************************)
(* A guest that stores anything anywhere.                                  *)
(***************************************************************************)

LEMMA DeviceInitTypeOK == DeviceInit => DeviceTypeOK
<1> SUFFICES ASSUME DeviceInit PROVE DeviceTypeOK
  OBVIOUS
<1>1. AllZeros \in Word
  BY DEF AllZeros, Word, Byte
<1>2. reg \in [{"status", "addr", "data"} -> Word] /\ reg.status = AllZeros
  BY <1>1 DEF DeviceInit, ControllerInit
<1>3. flash \in [Addresses -> Byte]
  <2>1. Ones \in Byte /\ {} \in Byte
    BY DEF Ones, Byte
  <2>2. PICK k \in {0, 1} : flash = [a \in Addresses |-> IF a \div 4 % 2 = k THEN Ones ELSE {}]
    BY DEF DeviceInit
  <2> QED BY <2>1, <2>2
<1> QED BY <1>1, <1>2, <1>3 DEF DeviceInit, DeviceTypeOK

\* What a step of the guest does to the Flash.
FlashStep == flash' = flash \/ Programs(flash, flash', reg.data) \/ Erases(flash, flash')

LEMMA DeviceStep == DeviceTypeOK /\ [DeviceNext]_device => DeviceTypeOK' /\ FlashStep
<1> SUFFICES ASSUME DeviceTypeOK, [DeviceNext]_device PROVE DeviceTypeOK' /\ FlashStep
  OBVIOUS
<1>1. /\ flash \in Memory /\ reg \in Registers /\ reg.status = AllZeros /\ vtor \in Word
      /\ status \in {"running", "failed"}
  BY DEF DeviceTypeOK, Memory, Registers
<1>2. ASSUME store PROVE DeviceTypeOK' /\ FlashStep
  <2>1. PICK n \in Sizes : \E a \in Accesses(n), value \in Stored :
          \/ /\ a \in Sram
             /\ UNCHANGED <<controller, vtor>>
          \/ /\ a \in Ctrl
             /\ mmio_write(a - CTRL_BASE, n, extended(value, n))
             /\ UNCHANGED vtor
          \/ /\ a \in Scs
             /\ scs_write(a - SCS_BASE, n, extended(value, n))
             /\ UNCHANGED controller
    BY <1>2 DEF store
  <2>2. PICK a \in Accesses(n), value \in Stored :
          \/ UNCHANGED <<controller, vtor>>
          \/ mmio_write(a - CTRL_BASE, n, extended(value, n)) /\ UNCHANGED vtor
          \/ scs_write(a - SCS_BASE, n, extended(value, n)) /\ UNCHANGED controller
    BY <2>1
  <2> DEFINE w == extended(value, n)
  <2>3. w \in Word
    <3>1. value \in Word
      BY MapAssumption
    <3> QED BY <3>1 DEF extended, Word, Byte
  <2> HIDE DEF w
  <2>4. status' = status
    BY <1>2 DEF store
  <2>5. CASE UNCHANGED <<controller, vtor>>
    BY <1>1, <2>4, <2>5 DEF controller, DeviceTypeOK, FlashStep, Memory, Registers
  <2>6. CASE mmio_write(a - CTRL_BASE, n, w) /\ UNCHANGED vtor
    <3>1. flash' \in Memory /\ reg' \in Registers /\ reg'.status = AllZeros /\ FlashStep
      BY <1>1, <2>3, <2>6, StoreEffect DEF FlashStep
    <3> QED BY <1>1, <2>4, <2>6, <3>1 DEF DeviceTypeOK, Memory, Registers
  <2>7. CASE scs_write(a - SCS_BASE, n, w) /\ UNCHANGED controller
    <3>1. vtor' \in Word
      BY <1>1, <2>3, <2>7 DEF scs_write
    <3> QED BY <1>1, <2>4, <2>7, <3>1 DEF controller, DeviceTypeOK, FlashStep, Memory, Registers
  <2> QED BY <2>2, <2>5, <2>6, <2>7 DEF w
<1>3. CASE fault
  BY <1>1, <1>3 DEF fault, controller, DeviceTypeOK, FlashStep, Memory, Registers
<1>4. CASE UNCHANGED device
  BY <1>1, <1>4 DEF device, controller, DeviceTypeOK, FlashStep, Memory, Registers
<1> QED BY <1>2, <1>3, <1>4 DEF DeviceNext

\* The Flash, the registers and VTOR keep their types and the status register its
\* value, whatever a guest stores where, in whatever size.
THEOREM DeviceTypeCorrect == DeviceSpec => []DeviceTypeOK
BY DeviceInitTypeOK, DeviceStep, PTL DEF DeviceSpec

\* Whatever a guest stores, a step changes the Flash as Flash can change: bits of
\* one aligned word are cleared, or one whole page is erased.
THEOREM FlashRemainsFlash == DeviceSpec => FlashIsFlash
<1>1. FlashStep => [ flash' = flash
        \/ (\E a \in Addresses : a % 4 = 0 /\
              \A x \in Addresses :
                flash'[x] = IF x \div 4 = a \div 4 THEN flash[x] \cap reg.data[x - a + 1]
                            ELSE flash[x])
        \/ (\E a \in Addresses : a % PAGE = 0 /\
              \A x \in Addresses :
                flash'[x] = IF x \div PAGE = a \div PAGE THEN Ones ELSE flash[x]) ]_device
  BY DEF FlashStep, Programs, Erases
<1>2. DeviceTypeOK /\ [DeviceNext]_device => FlashStep
  BY DeviceStep
<1> QED BY <1>1, <1>2, DeviceTypeCorrect, PTL DEF DeviceSpec, FlashIsFlash

-----------------------------------------------------------------------------
(***************************************************************************)
(* The stores of the test loader.                                          *)
(***************************************************************************)

\* The registers lie side by side.
LEMMA OffsetsOfFields == \A i \in 1 .. 4 : offsets(Fields)[i] = 4 * (i - 1)
<1> DEFINE At(f) == f = [i \in DOMAIN Fields |->
                           IF Fields[i].offset # Inherited THEN Fields[i].offset
                           ELSE IF i = 1 THEN 0 ELSE f[i - 1] + 4]
           g == [i \in 1 .. 4 |-> 4 * (i - 1)]
           at == CHOOSE f : At(f)
<1>1. DOMAIN Fields = 1 .. 4 /\ \A i \in 1 .. 4 : Fields[i].offset = Inherited
  BY DEF Fields, Register
<1>2. offsets(Fields) = at
  BY DEF offsets
<1>3. At(g)
  <2>1. \A i \in 1 .. 4 : g[i] = IF i = 1 THEN 0 ELSE g[i - 1] + 4
    OBVIOUS
  <2> HIDE DEF g
  <2>2. \A i \in 1 .. 4 : g[i] = IF Fields[i].offset # Inherited THEN Fields[i].offset
                                 ELSE IF i = 1 THEN 0 ELSE g[i - 1] + 4
    BY <1>1, <2>1
  <2>3. g = [i \in 1 .. 4 |-> g[i]]
    BY DEF g
  <2> QED BY <1>1, <2>2, <2>3
<1>4. At(at)
  BY <1>3
<1> HIDE DEF at
<1>5. \A i \in 1 .. 4 : at[i] = IF i = 1 THEN 0 ELSE at[i - 1] + 4
  BY <1>1, <1>4
<1>6. at[1] = 0 /\ at[2] = 4 /\ at[3] = 8 /\ at[4] = 12
  <2>1. at[1] = 0
    BY <1>5
  <2>2. at[2] = at[1] + 4
    BY <1>5
  <2>3. at[3] = at[2] + 4
    BY <1>5
  <2>4. at[4] = at[3] + 4
    BY <1>5
  <2> QED BY <2>1, <2>2, <2>3, <2>4
<1>7. \A i \in 1 .. 4 : i = 1 \/ i = 2 \/ i = 3 \/ i = 4
  OBVIOUS
<1> QED BY <1>2, <1>6, <1>7

\* A store of a word to the offset of a register reaches that register.
LEMMA SelectedAt ==
  ASSUME NEW i \in 1 .. 4
  PROVE  selected(Fields, 4 * (i - 1), 4) = Fields[i]
<1> DEFINE matches == { j \in DOMAIN Fields : offsets(Fields)[j] \div 4 = (4 * (i - 1)) \div 4 }
<1>1. DOMAIN Fields = 1 .. 4
  BY DEF Fields
<1>2. \A j \in 1 .. 4 : (4 * (j - 1)) \div 4 = j - 1
  OBVIOUS
<1>3. matches = {i}
  <2>1. \A j \in 1 .. 4 : offsets(Fields)[j] \div 4 = (4 * (i - 1)) \div 4 <=> j = i
    BY <1>2, OffsetsOfFields
  <2> QED BY <1>1, <2>1
<1>4. (4 * (i - 1)) % 4 = 0
  OBVIOUS
<1>5. Min({i}) = i
  <2>1. {i} \in SUBSET Nat /\ {i} # {}
    OBVIOUS
  <2>2. Min({i}) \in {i}
    BY <2>1, MinIsLeast
  <2> QED BY <2>2
<1>6. selected(Fields, 4 * (i - 1), 4) = Fields[Min(matches)]
  BY <1>3, <1>4 DEF selected
<1> QED BY <1>3, <1>5, <1>6

\* What the three stores of the loader do.
LEMMA StoresDo ==
  \A m \in Memory, r \in Registers, w \in Word :
    /\ accessed([flash |-> m, reg |-> r], ADDR, 4, w)
         = [flash |-> m, reg |-> [r EXCEPT !["addr"] = w]]
    /\ accessed([flash |-> m, reg |-> r], DATA, 4, w)
         = [flash |-> m, reg |-> [r EXCEPT !["data"] = w]]
    /\ accessed([flash |-> m, reg |-> r], COMMAND, 4, w)
         = [flash |-> set_reg_command(m, r, w), reg |-> r]
<1> TAKE m \in Memory, r \in Registers, w \in Word
<1> DEFINE c == [flash |-> m, reg |-> r]
           addr == Register("addr", Inherited, "store")
           data == Register("data", Inherited, "store")
           command == Register("command", Inherited, "setter")
<1>1. ADDR = 4 * (2 - 1) /\ DATA = 4 * (3 - 1) /\ COMMAND = 4 * (4 - 1)
  BY DEF ADDR, DATA, COMMAND
<1>2. Fields[2] = addr /\ Fields[3] = data /\ Fields[4] = command
  BY DEF Fields
<1>3. /\ selected(Fields, ADDR, 4) = addr
      /\ selected(Fields, DATA, 4) = data
      /\ selected(Fields, COMMAND, 4) = command
  <2>1. 2 \in 1 .. 4 /\ 3 \in 1 .. 4 /\ 4 \in 1 .. 4
    OBVIOUS
  <2>2. selected(Fields, 4 * (2 - 1), 4) = Fields[2]
    BY <2>1, SelectedAt
  <2>3. selected(Fields, 4 * (3 - 1), 4) = Fields[3]
    BY <2>1, SelectedAt
  <2>4. selected(Fields, 4 * (4 - 1), 4) = Fields[4]
    BY <2>1, SelectedAt
  <2> QED BY <1>1, <1>2, <2>2, <2>3, <2>4
<1>4. /\ addr.write = "store" /\ addr.name = "addr" /\ data.write = "store" /\ data.name = "data"
      /\ command.write = "setter"
  BY DEF Register
<1> HIDE DEF addr, data, command
<1>5. accessed(c, ADDR, 4, w) = [c EXCEPT !.reg["addr"] = w]
  BY <1>3, <1>4 DEF accessed, keeps
<1>6. accessed(c, DATA, 4, w) = [c EXCEPT !.reg["data"] = w]
  BY <1>3, <1>4 DEF accessed, keeps
<1>7. accessed(c, COMMAND, 4, w) = [c EXCEPT !.flash = set_reg_command(@, c.reg, w)]
  <2>1. ~keeps(command)
    BY <1>4 DEF keeps
  <2> QED BY <1>3, <1>4, <2>1 DEF accessed
<1>8. [c EXCEPT !.reg["addr"] = w] = [flash |-> m, reg |-> [r EXCEPT !["addr"] = w]]
  OBVIOUS
<1>9. [c EXCEPT !.reg["data"] = w] = [flash |-> m, reg |-> [r EXCEPT !["data"] = w]]
  OBVIOUS
<1>10. [c EXCEPT !.flash = set_reg_command(@, c.reg, w)]
         = [flash |-> set_reg_command(m, r, w), reg |-> r]
  OBVIOUS
<1> QED BY <1>5, <1>6, <1>7, <1>8, <1>9, <1>10

\* An address that is a multiple of d is its own unit.
LEMMA AlignedStays ==
  ASSUME NEW a \in Nat, NEW d \in Nat \ {0}, a % d = 0
  PROVE  align_down(a, d) = a
<1>1. a \div d \in Nat /\ a = (d * (a \div d)) + (a % d)
  BY DivMod
<1> DEFINE q == a \div d
<1> HIDE DEF q
<1>2. q \in Nat /\ a = (d * q) + 0
  BY <1>1 DEF q
<1>3. q * d = d * q /\ d * q \in Nat
  BY <1>2
<1>4. q * d = a
  BY <1>2, <1>3
<1> QED BY <1>4 DEF align_down, q

\* What the two commands do once the address register holds that of a word or a page.
LEMMA CommandsDo ==
  ASSUME NEW m \in Memory, NEW r \in Registers, NEW a \in Addresses, a % 4 = 0,
         r.addr = word_of(a)
  PROVE  /\ set_reg_command(m, r, CMD_PROGRAM) = programmed(m, a, r.data)
         /\ a % PAGE = 0 => set_reg_command(m, r, CMD_ERASE) = erased(m, a)
<1>1. a \in Nat /\ value_of(word_of(a)) = a
  <2>1. a \in Nat
    BY ControllerAssumption DEF Addresses
  <2>2. fits_u32(a)
    BY TestGeometryAssumption
  <2> QED BY <2>1, <2>2, ValueOfWord
<1>2. value_of(r.addr) = a
  BY <1>1
<1>3. align_down(a, 4) = a /\ (a % PAGE = 0 => align_down(a, PAGE) = a)
  <2>1. PAGE \in Nat \ {0}
    BY ControllerAssumption
  <2> QED BY <1>1, <2>1, AlignedStays
<1>4. CMD_PROGRAM # CMD_ERASE
  BY ControllerAssumption
<1>5. set_reg_command(m, r, CMD_PROGRAM) = programmed(m, a, r.data)
  BY <1>2, <1>3, <1>4 DEF set_reg_command, check_addr
<1>6. ASSUME a % PAGE = 0 PROVE set_reg_command(m, r, CMD_ERASE) = erased(m, a)
  BY <1>2, <1>3, <1>4, <1>6 DEF set_reg_command, check_addr
<1> QED BY <1>5, <1>6

\* What programming and erasing are of memory.
LEMMA CommandTypes ==
  ASSUME NEW m \in Memory, NEW a \in Addresses, NEW w \in Word
  PROVE  programmed(m, a, w) \in Memory /\ erased(m, a) \in Memory
<1>1. DOMAIN m = Addresses /\ \A x \in Addresses : m[x] \in Byte
  BY DEF Memory
<1>2. \A b, c : c \in Byte => b \cap c \in Byte
  BY DEF Byte
<1>3. Ones \in Byte
  BY DEF Ones, Byte
<1>4. programmed(m, a, w) \in [Addresses -> Byte]
  BY <1>1, <1>2 DEF programmed
<1>5. erased(m, a) \in [Addresses -> Byte]
  BY <1>1, <1>3 DEF erased
<1> QED BY <1>4, <1>5 DEF Memory

\* The CPU performs stores one after the other.
LEMMA PerformedIs ==
  ASSUME NEW c \in Controllers, NEW stores \in Seq(Nat \X Word)
  PROVE  \E g \in [0 .. Len(stores) -> Controllers] :
           /\ performed(c, stores) = g[Len(stores)] /\ g[0] = c
           /\ \A i \in 1 .. Len(stores) :
                g[i] = accessed(g[i - 1], stores[i][1], 4, stores[i][2])
<1> DEFINE m == Len(stores)
           does(d, i) == accessed(d, stores[i][1], 4, stores[i][2])
           Runs(g) == g = [i \in 0 .. m |-> IF i = 0 THEN c ELSE does(g[i - 1], i)]
           F == [p \in (1 .. m) \X Controllers |-> does(p[2], p[1])]
           after == CHOOSE g : Runs(g)
<1>1. m \in Nat
  BY LenProperties
<1>2. performed(c, stores) = after[m]
  BY DEF performed
<1>3. \A i \in 1 .. m, d \in Controllers : does(d, i) \in Controllers
  <2> TAKE i \in 1 .. m, d \in Controllers
  <2>1. stores[i] \in Nat \X Word
    BY ElementOfSeq
  <2>2. d.flash \in Memory /\ d.reg \in Registers /\ d = [flash |-> d.flash, reg |-> d.reg]
    BY DEF Controllers
  <2>3. stores[i][2] \in Word
    BY <2>1
  <2> QED BY <2>2, <2>3, AccessEffect
<1> HIDE DEF m, does
<1>4. PICK g \in [0 .. m -> Controllers] : Recurs(g, c, F, m)
  <2>1. F \in [(1 .. m) \X Controllers -> Controllers]
    BY <1>3
  <2> HIDE DEF F
  <2> QED BY <1>1, <2>1, RecursionExists
<1>5. \A i \in 1 .. m : i \in 0 .. m /\ i # 0 /\ i - 1 \in 0 .. m
  BY <1>1
<1>6. g[0] = c /\ \A i \in 1 .. m : g[i] = does(g[i - 1], i)
  <2>1. g[0] = c /\ \A i \in 1 .. m : g[i] = F[<<i, g[i - 1]>>]
    BY <1>4 DEF Recurs
  <2>2. \A i \in 1 .. m : <<i, g[i - 1]>> \in (1 .. m) \X Controllers
    BY <1>5
  <2> QED BY <2>1, <2>2
<1>7. Runs(g)
  <2>1. \A i \in 0 .. m : i = 0 \/ i \in 1 .. m
    BY <1>1
  <2>2. \A i \in 0 .. m : g[i] = IF i = 0 THEN c ELSE does(g[i - 1], i)
    BY <1>6, <2>1
  <2> QED BY <2>2
<1>8. Runs(after)
  BY <1>7
<1> HIDE DEF after, F
<1>9. after[0] = c /\ \A i \in 1 .. m : after[i] = does(after[i - 1], i)
  <2>1. 0 \in 0 .. m
    BY <1>1
  <2> QED BY <1>5, <1>8, <2>1
<1>10. \A i \in 0 .. m : after[i] = g[i]
  <2> DEFINE S == { i \in 0 .. m : after[i] = g[i] }
  <2>1. 0 \in S
    BY <1>1, <1>6, <1>9
  <2>2. \A i \in 1 .. m : i - 1 \in S => i \in S
    BY <1>5, <1>6, <1>9
  <2>3. \A i \in 0 .. m : i \in S
    <3> HIDE DEF S
    <3> QED BY <1>1, <2>1, <2>2, BoundedInduction
  <2> QED BY <2>3
<1>11. performed(c, stores) = g[m]
  BY <1>1, <1>2, <1>10
<1> QED BY <1>6, <1>11 DEF m, does

\* The stores for a word program it, whatever the registers held.
LEMMA ProgrammingDoes ==
  ASSUME NEW m \in Memory, NEW r \in Registers, NEW a \in Addresses, a % 4 = 0, NEW w \in Word
  PROVE  LET c == performed([flash |-> m, reg |-> r], programming(a, w))
         IN  c.flash = programmed(m, a, w) /\ c.reg \in Registers
<1> DEFINE c == [flash |-> m, reg |-> r]
           stores == programming(a, w)
           r1 == [r EXCEPT !["addr"] = word_of(a)]
           r2 == [r1 EXCEPT !["data"] = w]
<1>1. word_of(a) \in Word /\ CMD_PROGRAM \in Word
  <2>1. a \in Nat
    BY ControllerAssumption DEF Addresses
  <2> QED BY <2>1, ValueOfWord, ControllerAssumption
<1>2. r1 \in Registers /\ r2 \in Registers /\ r2.addr = word_of(a) /\ r2.data = w
  BY <1>1 DEF Registers
<1>3. stores = << <<ADDR, word_of(a)>>, <<DATA, w>>, <<COMMAND, CMD_PROGRAM>> >>
  BY DEF programming
<1>4. stores \in Seq(Nat \X Word) /\ Len(stores) = 3
  <2>1. ADDR \in Nat /\ DATA \in Nat /\ COMMAND \in Nat
    BY DEF ADDR, DATA, COMMAND
  <2> QED BY <1>1, <1>3, <2>1
<1>5. /\ stores[1][1] = ADDR /\ stores[1][2] = word_of(a) /\ stores[2][1] = DATA
      /\ stores[2][2] = w /\ stores[3][1] = COMMAND /\ stores[3][2] = CMD_PROGRAM
  BY <1>3
<1>6. c \in Controllers
  BY DEF Controllers
<1> HIDE DEF stores, c
<1>7. PICK g \in [0 .. Len(stores) -> Controllers] :
        /\ performed(c, stores) = g[Len(stores)] /\ g[0] = c
        /\ \A i \in 1 .. Len(stores) :
             g[i] = accessed(g[i - 1], stores[i][1], 4, stores[i][2])
  BY <1>4, <1>6, PerformedIs
<1>8. g[1] = accessed(c, ADDR, 4, word_of(a))
  <2>1. g[1] = accessed(g[1 - 1], stores[1][1], 4, stores[1][2])
    BY <1>4, <1>7
  <2>2. 1 - 1 = 0
    OBVIOUS
  <2> QED BY <1>5, <1>7, <2>1, <2>2
<1>9. g[2] = accessed(g[1], DATA, 4, w)
  <2>1. g[2] = accessed(g[2 - 1], stores[2][1], 4, stores[2][2])
    BY <1>4, <1>7
  <2>2. 2 - 1 = 1
    OBVIOUS
  <2> QED BY <1>5, <2>1, <2>2
<1>10. g[3] = accessed(g[2], COMMAND, 4, CMD_PROGRAM)
  <2>1. g[3] = accessed(g[3 - 1], stores[3][1], 4, stores[3][2])
    BY <1>4, <1>7
  <2>2. 3 - 1 = 2
    OBVIOUS
  <2> QED BY <1>5, <2>1, <2>2
<1> HIDE DEF r1, r2
<1>11. g[1] = [flash |-> m, reg |-> r1]
  BY <1>1, <1>8, StoresDo DEF c, r1
<1>12. g[2] = [flash |-> m, reg |-> r2]
  <2>1. m \in Memory /\ r1 \in Registers /\ w \in Word
    BY <1>1, <1>2
  <2>2. accessed([flash |-> m, reg |-> r1], DATA, 4, w)
       = [flash |-> m, reg |-> r2]
    BY <2>1, StoresDo DEF r2
  <2> QED BY <1>9, <1>11, <2>2
<1>13. g[3] = [flash |-> set_reg_command(m, r2, CMD_PROGRAM), reg |-> r2]
  <2>1. m \in Memory /\ r2 \in Registers /\ CMD_PROGRAM \in Word
    BY <1>1, <1>2
  <2>2. accessed([flash |-> m, reg |-> r2], COMMAND, 4, CMD_PROGRAM)
       = [flash |-> set_reg_command(m, r2, CMD_PROGRAM), reg |-> r2]
    BY <2>1, StoresDo
  <2> QED BY <1>10, <1>12, <2>2
<1>14. set_reg_command(m, r2, CMD_PROGRAM) = programmed(m, a, w)
  BY <1>2, CommandsDo
<1>15. performed(c, stores) = [flash |-> programmed(m, a, w), reg |-> r2]
  BY <1>4, <1>7, <1>13, <1>14
<1> QED BY <1>2, <1>15 DEF c, stores

\* The stores for the first word of a page erase the page and program the word.
LEMMA ErasingDoes ==
  ASSUME NEW m \in Memory, NEW r \in Registers, NEW a \in Addresses, a % 4 = 0, a % PAGE = 0,
         NEW w \in Word
  PROVE  LET c == performed([flash |-> m, reg |-> r], erasing(a) \o programming(a, w))
         IN  c.flash = programmed(erased(m, a), a, w) /\ c.reg \in Registers
<1> DEFINE c == [flash |-> m, reg |-> r]
           stores == erasing(a) \o programming(a, w)
           n == erased(m, a)
           r1 == [r EXCEPT !["addr"] = word_of(a)]
           r2 == [r1 EXCEPT !["addr"] = word_of(a)]
           r3 == [r2 EXCEPT !["data"] = w]
<1>1. word_of(a) \in Word /\ CMD_PROGRAM \in Word /\ CMD_ERASE \in Word
  <2>1. a \in Nat
    BY ControllerAssumption DEF Addresses
  <2> QED BY <2>1, ValueOfWord, ControllerAssumption
<1>2. /\ r1 \in Registers /\ r1.addr = word_of(a) /\ r2 \in Registers
      /\ r3 \in Registers /\ r3.addr = word_of(a) /\ r3.data = w
  BY <1>1 DEF Registers
<1>3. /\ stores \in Seq(Nat \X Word) /\ Len(stores) = 5
      /\ stores[1] = <<ADDR, word_of(a)>> /\ stores[2] = <<COMMAND, CMD_ERASE>>
      /\ stores[3] = <<ADDR, word_of(a)>> /\ stores[4] = <<DATA, w>>
      /\ stores[5] = <<COMMAND, CMD_PROGRAM>>
  <2> DEFINE Stores == Nat \X Word
             x1 == <<ADDR, word_of(a)>>
             x2 == <<COMMAND, CMD_ERASE>>
             x3 == <<DATA, w>>
             x4 == <<COMMAND, CMD_PROGRAM>>
             e == <<x1, x2>>
             p == <<x1, x3, x4>>
  <2>1. x1 \in Stores /\ x2 \in Stores /\ x3 \in Stores /\ x4 \in Stores
    BY <1>1 DEF ADDR, DATA, COMMAND
  <2>2. stores = e \o p
    BY DEF programming, erasing
  <2> HIDE DEF Stores, x1, x2, x3, x4, stores
  <2>3. e \in Seq(Stores) /\ Len(e) = 2 /\ e[1] = x1 /\ e[2] = x2
    BY <2>1
  <2>4. p \in Seq(Stores) /\ Len(p) = 3 /\ p[1] = x1 /\ p[2] = x3 /\ p[3] = x4
    BY <2>1
  <2> HIDE DEF e, p
  <2>5. /\ stores \in Seq(Stores) /\ Len(stores) = Len(e) + Len(p)
        /\ \A i \in 1 .. Len(e) + Len(p) :
             stores[i] = IF i <= Len(e) THEN e[i] ELSE p[i - Len(e)]
    BY <2>2, <2>3, <2>4, ConcatProperties
  <2>6. \A i \in 1 .. 5 : stores[i] = IF i <= 2 THEN e[i] ELSE p[i - 2]
    BY <2>3, <2>4, <2>5
  <2>7. stores[1] = x1 /\ stores[2] = x2 /\ stores[3] = x1 /\ stores[4] = x3 /\ stores[5] = x4
    BY <2>3, <2>4, <2>6
  <2> QED BY <2>3, <2>4, <2>5, <2>7 DEF Stores, x1, x2, x3, x4
<1>4. stores \in Seq(Nat \X Word) /\ Len(stores) = 5
  BY <1>3
<1>5. /\ stores[1][1] = ADDR /\ stores[1][2] = word_of(a) /\ stores[2][1] = COMMAND
      /\ stores[2][2] = CMD_ERASE /\ stores[3][1] = ADDR /\ stores[3][2] = word_of(a)
      /\ stores[4][1] = DATA /\ stores[4][2] = w /\ stores[5][1] = COMMAND
      /\ stores[5][2] = CMD_PROGRAM
  BY <1>3
<1>6. c \in Controllers
  BY DEF Controllers
<1> HIDE DEF stores, c
<1>7. PICK g \in [0 .. Len(stores) -> Controllers] :
        /\ performed(c, stores) = g[Len(stores)] /\ g[0] = c
        /\ \A i \in 1 .. Len(stores) :
             g[i] = accessed(g[i - 1], stores[i][1], 4, stores[i][2])
  BY <1>4, <1>6, PerformedIs
<1>8. g[1] = accessed(c, ADDR, 4, word_of(a))
  <2>1. g[1] = accessed(g[1 - 1], stores[1][1], 4, stores[1][2])
    BY <1>4, <1>7
  <2>2. 1 - 1 = 0
    OBVIOUS
  <2> QED BY <1>5, <1>7, <2>1, <2>2
<1>9. g[2] = accessed(g[1], COMMAND, 4, CMD_ERASE)
  <2>1. g[2] = accessed(g[2 - 1], stores[2][1], 4, stores[2][2])
    BY <1>4, <1>7
  <2>2. 2 - 1 = 1
    OBVIOUS
  <2> QED BY <1>5, <2>1, <2>2
<1>10. g[3] = accessed(g[2], ADDR, 4, word_of(a))
  <2>1. g[3] = accessed(g[3 - 1], stores[3][1], 4, stores[3][2])
    BY <1>4, <1>7
  <2>2. 3 - 1 = 2
    OBVIOUS
  <2> QED BY <1>5, <2>1, <2>2
<1>11. g[4] = accessed(g[3], DATA, 4, w)
  <2>1. g[4] = accessed(g[4 - 1], stores[4][1], 4, stores[4][2])
    BY <1>4, <1>7
  <2>2. 4 - 1 = 3
    OBVIOUS
  <2> QED BY <1>5, <2>1, <2>2
<1>12. g[5] = accessed(g[4], COMMAND, 4, CMD_PROGRAM)
  <2>1. g[5] = accessed(g[5 - 1], stores[5][1], 4, stores[5][2])
    BY <1>4, <1>7
  <2>2. 5 - 1 = 4
    OBVIOUS
  <2> QED BY <1>5, <2>1, <2>2
<1>13. n \in Memory
  BY CommandTypes
<1> HIDE DEF r1, r2, r3, n
<1>14. g[1] = [flash |-> m, reg |-> r1]
  BY <1>1, <1>8, StoresDo DEF c, r1
<1>15. g[2] = [flash |-> n, reg |-> r1]
  <2>1. m \in Memory /\ r1 \in Registers /\ CMD_ERASE \in Word
    BY <1>1, <1>2
  <2>2. accessed([flash |-> m, reg |-> r1], COMMAND, 4, CMD_ERASE)
          = [flash |-> set_reg_command(m, r1, CMD_ERASE), reg |-> r1]
    BY <2>1, StoresDo
  <2>3. set_reg_command(m, r1, CMD_ERASE) = n
    BY <1>2, <2>1, CommandsDo DEF n
  <2> QED BY <1>9, <1>14, <2>2, <2>3
<1>16. g[3] = [flash |-> n, reg |-> r2]
  <2>1. n \in Memory /\ r1 \in Registers /\ word_of(a) \in Word
    BY <1>1, <1>2, <1>13
  <2>2. accessed([flash |-> n, reg |-> r1], ADDR, 4, word_of(a))
       = [flash |-> n, reg |-> r2]
    BY <2>1, StoresDo DEF r2
  <2> QED BY <1>10, <1>15, <2>2
<1>17. g[4] = [flash |-> n, reg |-> r3]
  <2>1. n \in Memory /\ r2 \in Registers /\ w \in Word
    BY <1>1, <1>2, <1>13
  <2>2. accessed([flash |-> n, reg |-> r2], DATA, 4, w)
       = [flash |-> n, reg |-> r3]
    BY <2>1, StoresDo DEF r3
  <2> QED BY <1>11, <1>16, <2>2
<1>18. g[5] = [flash |-> set_reg_command(n, r3, CMD_PROGRAM), reg |-> r3]
  <2>1. n \in Memory /\ r3 \in Registers /\ CMD_PROGRAM \in Word
    BY <1>1, <1>2, <1>13
  <2>2. accessed([flash |-> n, reg |-> r3], COMMAND, 4, CMD_PROGRAM)
       = [flash |-> set_reg_command(n, r3, CMD_PROGRAM), reg |-> r3]
    BY <2>1, StoresDo
  <2> QED BY <1>12, <1>17, <2>2
<1>19. set_reg_command(n, r3, CMD_PROGRAM) = programmed(n, a, w)
  BY <1>2, <1>13, CommandsDo
<1>20. performed(c, stores) = [flash |-> programmed(n, a, w), reg |-> r3]
  BY <1>4, <1>7, <1>18, <1>19
<1> QED BY <1>2, <1>20 DEF c, stores, n

-----------------------------------------------------------------------------
(***************************************************************************)
(* The invariant of programming: what was handed over is in Flash up to    *)
(* the word that is being collected, that word is in prog_data, and the    *)
(* rest of its page is blank if the page was begun.                        *)
(***************************************************************************)

collecting == pc \in {"programming", "finishing"}

\* The word the next byte belongs to.
base == prog_addr - (prog_addr % 4)

\* The byte that is meant for address a if those in s are handed over.
meant(s, a) == IF a - FW_START < Len(s) THEN s[a - FW_START + 1] ELSE Ones

\* Only the word that the last byte handed over lies in is padded.
Counted ==
  /\ given \in Seq(Byte)
  /\ pc = "programming" => prog_addr = FW_START + Len(given)
  /\ pc = "finishing" =>
       /\ FW_START + Len(given) <= prog_addr
       /\ \A a \in FW_START + Len(given) .. prog_addr - 1 : incomplete(a)
  /\ pc = "finished" => FW_START <= prog_addr /\ ~incomplete(prog_addr)

Collects ==
  collecting =>
    \A i \in 1 .. 4 :
      prog_data[i] = IF i <= prog_addr % 4 THEN meant(given, prog_addr - i) ELSE {}

Written ==
  (collecting \/ pc = "finished") =>
    \A a \in Addresses : (FW_START <= a /\ a < base) => flash[a] = meant(given, a)

RestIsBlank ==
  (collecting /\ base % PAGE # 0) =>
    \A a \in Addresses : (base <= a /\ a \div PAGE = base \div PAGE) => flash[a] = Ones

\* The inductive invariant.
IInv == TypeOK /\ Counted /\ Collects /\ Written /\ RestIsBlank

-----------------------------------------------------------------------------
(***************************************************************************)
(* Addresses and bytes.                                                    *)
(***************************************************************************)

\* The firmware area is aligned at both ends.
LEMMA Geometry ==
  /\ PAGE \in Nat \ {0} /\ PAGE % 4 = 0 /\ FLASH_SIZE \in Nat /\ FLASH_SIZE % 4 = 0
  /\ FW_START \in Nat /\ FW_START % PAGE = 0 /\ FW_START % 4 = 0 /\ FW_START <= FLASH_SIZE
<1>1. PAGE \in Nat \ {0} /\ PAGE % 4 = 0 /\ FLASH_SIZE \in Nat /\ FLASH_SIZE % PAGE = 0
  BY ControllerAssumption
<1>2. FW_START \in Nat /\ FW_START % PAGE = 0 /\ FW_START <= FLASH_SIZE
  BY ControllerAssumption, TestGeometryAssumption
<1>3. 4 \in Nat \ {0}
  OBVIOUS
<1> QED BY <1>1, <1>2, <1>3, AlignedDown

\* The word an address lies in.
LEMMA BaseIs ==
  ASSUME NEW n \in Nat
  PROVE  LET b == n - (n % 4)
         IN  /\ b \in Nat /\ b % 4 = 0 /\ n % 4 \in 0 .. 3 /\ n = b + (n % 4)
             /\ FW_START <= n => FW_START <= b
<1> DEFINE q == n \div 4
           r == n % 4
           b == n - r
<1>1. q \in Nat /\ r \in 0 .. 3 /\ n = (4 * q) + r
  BY DivMod
<1> HIDE DEF q, r
<1>2. b = q * 4 /\ b \in Nat /\ n = b + r
  BY <1>1
<1>3. b % 4 = 0
  BY <1>1, <1>2, MultipleAligned
<1>4. ASSUME FW_START <= n PROVE FW_START <= b
  <2>1. SUFFICES ASSUME b < FW_START PROVE FALSE
    BY <1>2, Geometry
  <2>2. b + 4 <= FW_START
    BY <1>2, <1>3, <2>1, Geometry, AlignedStep
  <2> QED BY <1>1, <1>2, <1>4, <2>2, Geometry
<1> QED BY <1>1, <1>2, <1>3, <1>4 DEF r

\* The address after the last byte of a word begins a word; any other stays in it.
LEMMA NextBase ==
  ASSUME NEW n \in Nat
  PROVE  LET b == n - (n % 4)
             c == (n + 1) - ((n + 1) % 4)
         IN  /\ n % 4 = 3 => (n + 1) % 4 = 0 /\ c = n + 1 /\ c = b + 4
             /\ n % 4 # 3 => (n + 1) % 4 = (n % 4) + 1 /\ c = b
  OBVIOUS

\* What is handed over may be followed by the next byte of the same update.
LEMMA NextByte ==
  ASSUME NEW s \in Seq(Byte), NEW u \in Seq(Byte), IsStrictPrefix(s, u)
  PROVE  /\ Len(s) < Len(u) /\ u[Len(s) + 1] \in Byte
         /\ IsPrefix(Append(s, u[Len(s) + 1]), u)
<1> DEFINE n == Len(s)
           x == u[n + 1]
           t == Append(s, x)
<1>1. n \in Nat /\ Len(u) \in Nat /\ n <= Len(u) /\ SubSeq(s, 1, n) = SubSeq(u, 1, n) /\ s # u
  BY LenProperties DEF IsStrictPrefix, IsPrefix
<1>2. SubSeq(s, 1, n) = s /\ SubSeq(u, 1, Len(u)) = u
  BY SubSeqFull
<1>3. n < Len(u)
  BY <1>1, <1>2
<1>4. n + 1 \in 1 .. Len(u) /\ 1 \in 1 .. Len(u) /\ n + 1 \in 1 .. n + 1 /\ (n + 1) - 1 = n
  BY <1>1, <1>3
<1>5. x \in Byte
  BY <1>4, ElementOfSeq
<1>6. t \in Seq(Byte) /\ Len(t) = n + 1
  BY <1>5, AppendProperties
<1>7. SubSeq(t, 1, n + 1) = t
  BY <1>6, SubSeqFull
<1>8. SubSeq(u, 1, n + 1) = SubSeq(u, 1, (n + 1) - 1) \o <<u[n + 1]>>
  <2> HIDE DEF n
  <2> QED BY <1>4, SubSeqRecursiveSecond
<1>9. t = s \o <<x>>
  BY <1>5, AppendIsConcat
<1>10. SubSeq(u, 1, n + 1) = t
  BY <1>1, <1>2, <1>4, <1>8, <1>9
<1>11. Len(t) <= Len(u) /\ SubSeq(t, 1, Len(t)) = SubSeq(u, 1, Len(t))
  BY <1>3, <1>4, <1>6, <1>7, <1>10
<1> QED BY <1>3, <1>5, <1>11 DEF IsPrefix

\* The byte meant for an address is one, and it is not changed by those handed over
\* later.
LEMMA MeantIs ==
  ASSUME NEW s \in Seq(Byte)
  PROVE  /\ \A a \in Nat : FW_START <= a => meant(s, a) \in Byte
         /\ \A x \in Byte :
              /\ \A a \in Nat : FW_START <= a /\ a < FW_START + Len(s)
                                  => meant(Append(s, x), a) = meant(s, a)
              /\ meant(Append(s, x), FW_START + Len(s)) = x
<1>1. Len(s) \in Nat /\ FW_START \in Nat
  BY LenProperties, Geometry
<1>2. ASSUME NEW a \in Nat, FW_START <= a PROVE meant(s, a) \in Byte
  <2>1. Ones \in Byte
    BY DEF Ones, Byte
  <2>2. a - FW_START < Len(s) => a - FW_START + 1 \in 1 .. Len(s)
    BY <1>1, <1>2
  <2>3. a - FW_START < Len(s) => s[a - FW_START + 1] \in Byte
    BY <2>2, ElementOfSeq
  <2> QED BY <2>1, <2>3 DEF meant
<1>3. ASSUME NEW x \in Byte
      PROVE  /\ \A a \in Nat : FW_START <= a /\ a < FW_START + Len(s)
                                 => meant(Append(s, x), a) = meant(s, a)
             /\ meant(Append(s, x), FW_START + Len(s)) = x
  <2> DEFINE t == Append(s, x)
             n == Len(s)
  <2>1. Len(t) = n + 1 /\ t[n + 1] = x /\ \A i \in 1 .. n : t[i] = s[i]
    BY AppendProperties
  <2> HIDE DEF t
  <2>2. ASSUME NEW a \in Nat, FW_START <= a, a < FW_START + n
        PROVE  meant(t, a) = meant(s, a)
    <3>1. a - FW_START < n /\ a - FW_START < n + 1 /\ a - FW_START + 1 \in 1 .. n
      BY <1>1, <2>2
    <3> QED BY <2>1, <3>1 DEF meant
  <2>3. meant(t, FW_START + n) = x
    <3>1. (FW_START + n) - FW_START = n /\ n < n + 1
      BY <1>1
    <3> QED BY <2>1, <3>1 DEF meant
  <2> QED BY <2>2, <2>3 DEF t
<1> QED BY <1>2, <1>3

\* The word at an aligned address lies in the Flash and in one page.
LEMMA WordInPage ==
  ASSUME NEW a \in Addresses, a % 4 = 0
  PROVE  \A x \in Nat : a <= x /\ x <= a + 3 => x \in Addresses /\ x \div PAGE = a \div PAGE
<1> DEFINE q == a \div PAGE
           r == a % PAGE
<1>1. a \in Nat /\ a < FLASH_SIZE
  BY Geometry DEF Addresses
<1>2. q \in Nat /\ r \in 0 .. PAGE - 1 /\ a = (PAGE * q) + r
  BY <1>1, Geometry, DivMod
<1>3. r + 4 <= PAGE
  <2>1. a \in Nat /\ 4 \in Nat \ {0} /\ PAGE \in Nat \ {0} /\ a % 4 = 0 /\ PAGE % 4 = 0
    BY <1>1, Geometry
  <2> QED BY <2>1, RoomForStep
<1>4. a + 4 <= FLASH_SIZE
  BY <1>1, Geometry, AlignedStep
<1>5. ASSUME NEW x \in Nat, a <= x, x <= a + 3
      PROVE  x \in Addresses /\ x \div PAGE = q
  <2> DEFINE t == x - a
  <2>1. t \in 0 .. 3 /\ x = a + t
    BY <1>1, <1>5
  <2> HIDE DEF t, q, r
  <2>2. r + t \in 0 .. PAGE - 1
    BY <1>2, <1>3, <2>1, Geometry
  <2>3. x = (PAGE * q) + (r + t)
    <3>1. PAGE * q \in Nat
      BY <1>2, Geometry
    <3> QED BY <1>2, <2>1, <3>1, Geometry
  <2>4. x \div PAGE = q
    BY <1>2, <2>2, <2>3, Geometry, UniqueRemainder
  <2>5. x \in Addresses
    BY <1>1, <1>4, <2>1, Geometry DEF Addresses
  <2> QED BY <2>4, <2>5
<1> QED BY <1>5

\* The addresses of the page that begins at a.
LEMMA PageAt ==
  ASSUME NEW a \in Addresses, a % PAGE = 0
  PROVE  \A x \in Nat : x \in a .. a + PAGE - 1 <=> x \div PAGE = a \div PAGE
<1>1. a \in Nat /\ PAGE \in Nat \ {0}
  BY Geometry DEF Addresses
<1> DEFINE b == align_down(a, PAGE)
<1>2. b = a
  BY <1>1, AlignedStays
<1>3. \A x \in Nat : x \in b .. b + PAGE - 1 <=> x \div PAGE = b \div PAGE
  BY <1>1, AlignedDownTo
<1> HIDE DEF b
<1> QED BY <1>2, <1>3

\* Erasing at the first word of a page erases the page.
LEMMA ErasedIs ==
  ASSUME NEW m \in Memory, NEW a \in Addresses, a % PAGE = 0
  PROVE  \A x \in Addresses :
           erased(m, a)[x] = IF x \div PAGE = a \div PAGE THEN Ones ELSE m[x]
<1>1. a \in Nat /\ Addresses \subseteq Nat /\ PAGE \in Nat \ {0}
  BY Geometry DEF Addresses
<1>3. \A x \in Nat : x \in a .. a + PAGE - 1 <=> x \div PAGE = a \div PAGE
  BY PageAt
<1>4. \A x \in Addresses : erased(m, a)[x] = IF x \in a .. a + PAGE - 1 THEN Ones ELSE m[x]
  BY DEF erased, Memory
<1> QED BY <1>1, <1>3, <1>4

\* The memory that the first word of a page, or a later one, is programmed in.
prepared(m, a) == IF first_of_page(a) THEN erased(m, a) ELSE m

\* A word is programmed where its page is blank from that word on.
LEMMA WordProgrammed ==
  ASSUME NEW m \in Memory, NEW a \in Addresses, a % 4 = 0, NEW w \in Word,
         a % PAGE # 0 => \A x \in Addresses : (a <= x /\ x \div PAGE = a \div PAGE) => m[x] = Ones
  PROVE  LET n == programmed(prepared(m, a), a, w)
         IN  /\ n \in Memory
             /\ \A x \in Addresses : n[x] # m[x] => a <= x /\ x \div PAGE = a \div PAGE
             /\ \A x \in Addresses : a <= x /\ x <= a + 3 => n[x] = w[x - a + 1]
             /\ \A x \in Addresses : (a + 4 <= x /\ x \div PAGE = a \div PAGE) => n[x] = Ones
<1> DEFINE p == prepared(m, a)
           n == programmed(p, a, w)
<1>1. a \in Nat /\ Addresses \subseteq Nat /\ PAGE \in Nat \ {0}
  BY Geometry DEF Addresses
<1>2. p \in Memory
  BY CommandTypes DEF prepared
<1>3. n \in Memory
  <2> HIDE DEF p
  <2> QED BY <1>2, CommandTypes
<1>4. \A x \in Addresses : (a <= x /\ x \div PAGE = a \div PAGE) => p[x] = Ones
  <2>1. CASE a % PAGE = 0
    BY <2>1, ErasedIs DEF prepared, first_of_page
  <2>2. CASE a % PAGE # 0
    BY <2>2 DEF prepared, first_of_page
  <2> QED BY <2>1, <2>2
<1>5. \A x \in Addresses : p[x] # m[x] => a <= x /\ x \div PAGE = a \div PAGE
  <2>1. CASE a % PAGE = 0
    <3>1. p = erased(m, a)
      BY <2>1 DEF prepared, first_of_page
    <3>2. \A x \in Addresses : p[x] = IF x \div PAGE = a \div PAGE THEN Ones ELSE m[x]
      BY <2>1, <3>1, ErasedIs
    <3>3. \A x \in Nat : x \in a .. a + PAGE - 1 <=> x \div PAGE = a \div PAGE
      BY <2>1, PageAt
    <3> QED BY <1>1, <3>2, <3>3
  <2>2. CASE a % PAGE # 0
    BY <2>2 DEF prepared, first_of_page
  <2> QED BY <2>1, <2>2
<1>6. \A x \in Addresses :
        n[x] = IF x \in a .. a + 3 THEN w[x - a + 1] \cap p[x] ELSE p[x]
  BY <1>2 DEF programmed, Memory
<1>7. \A x \in Nat : a <= x /\ x <= a + 3 => x \in Addresses /\ x \div PAGE = a \div PAGE
  BY WordInPage
<1> HIDE DEF p, n
<1>8. \A x \in Addresses : x \in a .. a + 3 <=> a <= x /\ x <= a + 3
  BY <1>1
<1>9. ASSUME NEW x \in Addresses, a <= x, x <= a + 3
      PROVE  n[x] = w[x - a + 1]
  <2>1. p[x] = Ones /\ x \in a .. a + 3
    BY <1>1, <1>4, <1>7, <1>8, <1>9
  <2>2. x - a + 1 \in 1 .. 4
    BY <1>1, <1>9
  <2>3. w[x - a + 1] \cap Ones = w[x - a + 1]
    BY <2>2 DEF Word, Byte, Ones
  <2> QED BY <1>6, <2>1, <2>3
<1>10. ASSUME NEW x \in Addresses, n[x] # m[x]
       PROVE  a <= x /\ x \div PAGE = a \div PAGE
  <2>1. CASE x \in a .. a + 3
    BY <1>1, <1>7, <1>8, <2>1
  <2>2. CASE x \notin a .. a + 3
    <3>1. n[x] = p[x]
      BY <1>6, <2>2
    <3> QED BY <1>5, <1>10, <3>1
  <2> QED BY <2>1, <2>2
<1>11. ASSUME NEW x \in Addresses, a + 4 <= x, x \div PAGE = a \div PAGE
       PROVE  n[x] = Ones
  <2>1. a <= x /\ x \notin a .. a + 3
    BY <1>1, <1>11
  <2> QED BY <1>4, <1>6, <1>11, <2>1
<1> QED BY <1>3, <1>9, <1>10, <1>11 DEF n, p

\* What write_byte(b) does, b being the byte that is meant for the next address.
LEMMA WriteByte ==
  ASSUME IInv, collecting, FW_START <= prog_addr, prog_addr < FLASH_SIZE,
         NEW b \in Byte, write_byte(b), NEW s \in Seq(Byte), meant(s, prog_addr) = b,
         \A a \in Nat : FW_START <= a /\ a < prog_addr => meant(s, a) = meant(given, a)
  PROVE  /\ prog_addr' = prog_addr + 1 /\ prog_data' \in Word
         /\ \A i \in 1 .. 4 :
              prog_data'[i] = IF i <= (prog_addr + 1) % 4 THEN meant(s, prog_addr + 1 - i) ELSE {}
         /\ (prog_addr + 1) % 4 # 0 => UNCHANGED controller
         /\ (prog_addr + 1) % 4 = 0 =>
              /\ reg' \in Registers
              /\ \E w \in Word :
                   /\ \A i \in 1 .. 4 : w[i] = meant(s, base + i - 1)
                   /\ flash' = programmed(prepared(flash, base), base, w)
<1> DEFINE n == prog_addr
           r == n % 4
           w == shift_in(prog_data, b)
<1>1. n \in Nat /\ prog_data \in Word /\ flash \in Memory /\ reg \in Registers
  BY Geometry DEF IInv, TypeOK, Memory, Registers
<1>2. /\ base \in Nat /\ base % 4 = 0 /\ r \in 0 .. 3 /\ n = base + r /\ FW_START <= base
      /\ (r = 3 => (n + 1) % 4 = 0) /\ (r # 3 => (n + 1) % 4 = r + 1)
  BY <1>1, BaseIs, NextBase DEF base
<1>3. base \in Addresses
  BY <1>1, <1>2, Geometry DEF Addresses
<1>4. w \in Word
  <2>1. \A i \in 1 .. 4 : i # 1 => i - 1 \in 1 .. 4
    OBVIOUS
  <2>2. \A i \in 1 .. 4 : (IF i = 1 THEN b ELSE prog_data[i - 1]) \in Byte
    BY <1>1, <2>1 DEF Word
  <2> QED BY <2>2 DEF shift_in, Word
<1>5. \A i \in 1 .. 4 : w[i] = IF i <= r + 1 THEN meant(s, n + 1 - i) ELSE {}
  <2> TAKE i \in 1 .. 4
  <2>1. CASE i = 1
    <3>1. w[i] = b /\ n + 1 - i = n /\ i <= r + 1
      BY <1>1, <1>2, <2>1 DEF shift_in
    <3> QED BY <3>1
  <2>2. CASE i # 1
    <3>1. i - 1 \in 1 .. 4 /\ (i - 1 <= r <=> i <= r + 1) /\ n - (i - 1) = n + 1 - i
      BY <1>1, <1>2, <2>2
    <3>2. w[i] = prog_data[i - 1]
      BY <2>2 DEF shift_in
    <3>3. prog_data[i - 1] = IF i - 1 <= r THEN meant(given, n - (i - 1)) ELSE {}
      BY <3>1 DEF IInv, Collects
    <3>4. ASSUME i <= r + 1 PROVE meant(s, n + 1 - i) = meant(given, n + 1 - i)
      <4>1. n + 1 - i \in Nat /\ FW_START <= n + 1 - i /\ n + 1 - i < n
        BY <1>1, <1>2, <2>2, <3>4, Geometry
      <4> QED BY <4>1
    <3> QED BY <3>1, <3>2, <3>3, <3>4
  <2> QED BY <2>1, <2>2
<1>6. /\ prog_addr' = n + 1
      /\ prog_data' = IF (n + 1) % 4 = 0 THEN AllZeros ELSE w
      /\ IF (n + 1) % 4 = 0
         THEN perform((IF first_of_page(n + 1 - 4) THEN erasing(n + 1 - 4) ELSE <<>>)
                        \o programming(n + 1 - 4, swap_bytes(w)))
         ELSE UNCHANGED controller
  BY DEF write_byte
<1> HIDE DEF w
<1>7. CASE r = 3
  <2> DEFINE z == swap_bytes(w)
             c == performed([flash |-> flash, reg |-> reg],
                    (IF first_of_page(base) THEN erasing(base) ELSE <<>>) \o programming(base, z))
  <2>1. (n + 1) % 4 = 0 /\ n + 1 - 4 = base
    BY <1>1, <1>2, <1>7
  <2>2. z \in Word /\ \A i \in 1 .. 4 : z[i] = w[5 - i]
    <3>1. w \in [1 .. 4 -> Byte] /\ Len(w) = 4
      BY <1>4 DEF Word
    <3>2. z = [i \in 1 .. 4 |-> w[(4 - i) + 1]]
      BY <3>1 DEF swap_bytes, Reverse
    <3>3. \A i \in 1 .. 4 : (4 - i) + 1 = 5 - i /\ 5 - i \in 1 .. 4
      OBVIOUS
    <3> QED BY <3>1, <3>2, <3>3 DEF Word
  <2>3. \A i \in 1 .. 4 : z[i] = meant(s, base + i - 1)
    <3> TAKE i \in 1 .. 4
    <3>1. 5 - i \in 1 .. 4 /\ 5 - i <= r + 1 /\ n + 1 - (5 - i) = base + i - 1
      BY <1>1, <1>2, <1>7
    <3> QED BY <1>5, <2>2, <3>1
  <2>4. flash' = c.flash /\ reg' = c.reg
    BY <1>6, <2>1 DEF perform
  <2> HIDE DEF z
  <2>5. c.flash = programmed(prepared(flash, base), base, z) /\ c.reg \in Registers
    <3>1. CASE base % PAGE = 0
      <4>1. c = performed([flash |-> flash, reg |-> reg], erasing(base) \o programming(base, z))
        BY <3>1 DEF first_of_page
      <4> QED BY <1>1, <1>2, <1>3, <2>2, <3>1, <4>1, ErasingDoes DEF prepared, first_of_page
    <3>2. CASE base % PAGE # 0
      <4>1. <<>> \o programming(base, z) = programming(base, z)
        <5>1. programming(base, z) \in Seq({<<ADDR, word_of(base)>>, <<DATA, z>>, <<COMMAND, CMD_PROGRAM>>})
          BY DEF programming
        <5> QED BY <5>1, ConcatEmptySeq
      <4>2. c = performed([flash |-> flash, reg |-> reg], programming(base, z))
        BY <3>2, <4>1 DEF first_of_page
      <4> QED BY <1>1, <1>2, <1>3, <2>2, <3>2, <4>2, ProgrammingDoes DEF prepared, first_of_page
    <3> QED BY <3>1, <3>2
  <2> HIDE DEF c
  <2>6. prog_data' = AllZeros /\ AllZeros \in Word /\ \A i \in 1 .. 4 : AllZeros[i] = {}
    BY <1>6, <2>1 DEF AllZeros, Word, Byte
  <2>7. \A i \in 1 .. 4 : ~(i <= 0)
    OBVIOUS
  <2> QED BY <1>6, <2>1, <2>2, <2>3, <2>4, <2>5, <2>6, <2>7
<1>8. CASE r # 3
  <2>1. (n + 1) % 4 = r + 1 /\ r + 1 # 0
    BY <1>2, <1>8
  <2>2. prog_data' = w /\ UNCHANGED controller
    BY <1>6, <2>1
  <2> QED BY <1>4, <1>5, <1>6, <2>1, <2>2
<1> QED BY <1>7, <1>8

-----------------------------------------------------------------------------
(***************************************************************************)
(* The entries of the log.                                                 *)
(***************************************************************************)

\* Where an entry lies.
LEMMA EntryPlace ==
  ASSUME NEW i \in Entries
  PROVE  /\ entry_address(i) \in Addresses /\ entry_address(i) % 4 = 0
         /\ entry_address(i) + 4 <= FW_START
<1>1. /\ i \in 1 .. OPTS /\ OPTS \in Nat /\ BL_OPTS \in Nat /\ BL_OPTS % 4 = 0
      /\ BL_OPTS + 4 * OPTS <= FW_START
  BY TestGeometryAssumption DEF Entries
<1> DEFINE b == BL_OPTS
           c == 4 * (i - 1)
<1>2. entry_address(i) = b + c /\ b \in Nat /\ c \in Nat /\ b % 4 = 0 /\ c % 4 = 0
  BY <1>1 DEF entry_address
<1>3. b + c + 4 <= FW_START
  BY <1>1, Geometry
<1> HIDE DEF b, c
<1>4. (b + c) % 4 = 0
  BY <1>2
<1>5. b + c \in Addresses
  BY <1>2, <1>3, Geometry DEF Addresses
<1> QED BY <1>2, <1>3, <1>4, <1>5

\* No byte belongs to two entries.
LEMMA EntriesApart ==
  ASSUME NEW i \in Entries, NEW j \in Entries, i # j, NEW k \in 1 .. 4
  PROVE  entry_address(j) + k - 1 \notin entry_address(i) .. entry_address(i) + 3
<1>1. i \in Nat /\ j \in Nat /\ BL_OPTS \in Nat
  BY TestGeometryAssumption DEF Entries
<1> QED BY <1>1 DEF entry_address

\* An entry is a word.
LEMMA EntryIsWord ==
  ASSUME flash \in Memory, NEW i \in Entries
  PROVE  entry(i) \in Word
<1>1. \A k \in 1 .. 4 : entry_address(i) + k - 1 \in Addresses
  BY EntryPlace, Geometry DEF Addresses
<1> QED BY <1>1 DEF entry, word_at, Word, Memory

\* Programming an entry clears bits of it and leaves the rest of the log, and the
\* firmware area, alone.
LEMMA LogWrite ==
  ASSUME flash \in Memory, reg \in Registers, NEW i \in Entries, NEW w \in Word,
         perform(programming(entry_address(i), w))
  PROVE  /\ flash' \in Memory /\ reg' \in Registers
         /\ \A k \in 1 .. 4 : entry(i)'[k] = w[k] \cap entry(i)[k]
         /\ \A j \in Entries : j # i => entry(j)' = entry(j)
         /\ \A a \in Addresses : FW_START <= a => flash'[a] = flash[a]
<1> DEFINE p == entry_address(i)
           c == performed([flash |-> flash, reg |-> reg], programming(p, w))
<1>1. p \in Addresses /\ p % 4 = 0 /\ p + 4 <= FW_START /\ p \in Nat
  BY EntryPlace, Geometry DEF Addresses
<1>2. flash' = c.flash /\ reg' = c.reg
  BY DEF perform
<1>3. c.flash = programmed(flash, p, w) /\ c.reg \in Registers
  <2> HIDE DEF p
  <2> QED BY <1>1, ProgrammingDoes
<1> HIDE DEF c
<1>4. flash' \in Memory
  <2> HIDE DEF p
  <2> QED BY <1>1, <1>2, <1>3, CommandTypes
<1>5. \A x \in Addresses :
        flash'[x] = IF x \in p .. p + 3 THEN w[x - p + 1] \cap flash[x] ELSE flash[x]
  BY <1>2, <1>3 DEF programmed, Memory
<1>6. \A j \in Entries, k \in 1 .. 4 :
        /\ entry(j)[k] = flash[entry_address(j) + k - 1]
        /\ entry(j)'[k] = flash'[entry_address(j) + k - 1]
        /\ entry_address(j) + k - 1 \in Addresses
  <2> TAKE j \in Entries, k \in 1 .. 4
  <2>1. entry_address(j) + k - 1 \in Addresses
    BY EntryPlace, Geometry DEF Addresses
  <2> QED BY <2>1 DEF entry, word_at
<1>7. ASSUME NEW k \in 1 .. 4 PROVE entry(i)'[k] = w[k] \cap entry(i)[k]
  <2>1. p + k - 1 \in p .. p + 3 /\ (p + k - 1) - p + 1 = k
    <3>1. p \in Nat /\ k \in 1 .. 4
      BY <1>1
    <3> HIDE DEF p
    <3> QED BY <3>1
  <2> QED BY <1>5, <1>6, <2>1
<1>8. ASSUME NEW j \in Entries, j # i PROVE entry(j)' = entry(j)
  <2>1. \A k \in 1 .. 4 : entry_address(j) + k - 1 \notin p .. p + 3
    BY <1>8, EntriesApart
  <2>2. \A k \in 1 .. 4 : flash'[entry_address(j) + k - 1] = flash[entry_address(j) + k - 1]
    BY <1>5, <1>6, <2>1
  <2> QED BY <2>2 DEF entry, word_at
<1>9. ASSUME NEW a \in Addresses, FW_START <= a PROVE flash'[a] = flash[a]
  <2>1. a \notin p .. p + 3
    BY <1>1, <1>9, Geometry DEF Addresses
  <2> QED BY <1>5, <2>1
<1> QED BY <1>2, <1>3, <1>4, <1>7, <1>8, <1>9

-----------------------------------------------------------------------------
(***************************************************************************)
(* A byte is handed over, or padded.                                       *)
(***************************************************************************)

\* The step programs b at the next address, where it is meant to be.
Takes(b) ==
  /\ collecting /\ FW_START <= prog_addr /\ prog_addr < FLASH_SIZE
  /\ write_byte(b) /\ given' \in Seq(Byte) /\ meant(given', prog_addr) = b
  /\ \A a \in Nat : FW_START <= a /\ a < prog_addr => meant(given', a) = meant(given, a)
  /\ pc' \in {"programming", "finishing"} /\ answer' = answer
  /\ base < FW_START + Len(given')
  /\ \E u \in Updates : IsPrefix(given', u)

LEMMA WriteTakes == IInv /\ program_write => \E b \in Byte : Takes(b)
<1> SUFFICES ASSUME IInv, program_write PROVE \E b \in Byte : Takes(b)
  OBVIOUS
<1>1. PICK u \in Updates : /\ IsStrictPrefix(given, u)
                           /\ write_byte(u[Len(given) + 1])
                           /\ given' = Append(given, u[Len(given) + 1])
  BY DEF program_write
<1>2. /\ given \in Seq(Byte) /\ u \in Seq(Byte) /\ FW_START + Len(u) <= FLASH_SIZE
      /\ Len(given) \in Nat /\ Len(u) \in Nat
  BY TestGeometryAssumption, LenProperties DEF IInv, Counted
<1> DEFINE b == u[Len(given) + 1]
<1>3. Len(given) < Len(u) /\ b \in Byte /\ IsPrefix(given', u)
  BY <1>1, <1>2, NextByte
<1> HIDE DEF b
<1>4. given' = Append(given, b) /\ write_byte(b)
  BY <1>1 DEF b
<1>5. given' \in Seq(Byte) /\ Len(given') = Len(given) + 1
  BY <1>2, <1>3, <1>4, AppendProperties
<1>6. pc = "programming" /\ pc' = "programming" /\ answer' = answer
      /\ prog_addr = FW_START + Len(given)
  BY DEF program_write, IInv, Counted
<1>7. FW_START <= prog_addr /\ prog_addr < FLASH_SIZE /\ prog_addr \in Nat
  BY <1>2, <1>3, <1>6, Geometry
<1>8. base < FW_START + Len(given')
  <2>1. base \in Nat /\ base <= prog_addr
    BY <1>7, BaseIs DEF base
  <2> QED BY <1>2, <1>5, <1>6, <2>1, Geometry
<1>9. /\ \A a \in Nat : FW_START <= a /\ a < prog_addr => meant(given', a) = meant(given, a)
      /\ meant(given', prog_addr) = b
  BY <1>2, <1>3, <1>4, <1>6, MeantIs
<1> QED BY <1>3, <1>4, <1>5, <1>6, <1>7, <1>8, <1>9 DEF Takes, collecting

LEMMA PadTakes == IInv /\ program_finish_pads => Takes(Ones)
<1> SUFFICES ASSUME IInv, program_finish_pads PROVE Takes(Ones)
  OBVIOUS
<1>1. /\ pc \in {"programming", "finishing"} /\ incomplete(prog_addr) /\ write_byte(Ones)
      /\ pc' = "finishing" /\ answer' = answer /\ given' = given
  BY DEF program_finish_pads
<1>2. given \in Seq(Byte) /\ Len(given) \in Nat /\ prog_addr \in 0 .. FLASH_SIZE
  BY LenProperties DEF IInv, Counted, TypeOK
<1>3. /\ FW_START + Len(given) <= prog_addr
      /\ \A a \in FW_START + Len(given) .. prog_addr - 1 : incomplete(a)
  <2>1. CASE pc = "programming"
    <3>1. prog_addr = FW_START + Len(given)
      BY <2>1 DEF IInv, Counted
    <3> QED BY <1>2, <3>1, Geometry
  <2>2. CASE pc = "finishing"
    BY <2>2 DEF IInv, Counted
  <2> QED BY <1>1, <2>1, <2>2
<1>4. prog_addr \in Nat /\ prog_addr % 4 # 0 /\ prog_addr < FLASH_SIZE /\ FW_START <= prog_addr
  <2>1. prog_addr % 4 # 0 /\ FLASH_SIZE % 4 = 0
    BY <1>1, Geometry DEF incomplete
  <2>2. prog_addr # FLASH_SIZE
    BY <2>1
  <2> QED BY <1>2, <1>3, <2>1, <2>2, Geometry
<1>5. meant(given, prog_addr) = Ones
  BY <1>2, <1>3, <1>4, Geometry DEF meant
<1>6. base < FW_START + Len(given)
  <2>1. base \in Nat /\ base % 4 = 0 /\ base < prog_addr
    BY <1>4, BaseIs DEF base
  <2>2. ~incomplete(base)
    BY <2>1 DEF incomplete
  <2>3. base \notin FW_START + Len(given) .. prog_addr - 1
    BY <1>3, <2>2
  <2> QED BY <1>2, <1>4, <2>1, <2>3, Geometry
<1>7. \E u \in Updates : IsPrefix(given, u)
  BY DEF IInv, TypeOK
<1> QED BY <1>1, <1>2, <1>4, <1>5, <1>6, <1>7 DEF Takes, collecting

\* What the byte does.
LEMMA TakesStep ==
  ASSUME IInv, NEW b \in Byte, Takes(b)
  PROVE  /\ flash' \in Memory /\ reg' \in Registers
         /\ prog_addr' = prog_addr + 1 /\ prog_data' \in Word
         /\ Collects' /\ Written' /\ RestIsBlank'
         /\ \A x \in Addresses : flash'[x] # flash[x] => base <= x /\ x \div PAGE = base \div PAGE
<1> DEFINE n == prog_addr
           r == n % 4
<1>1. /\ n \in Nat /\ FW_START <= n /\ n < FLASH_SIZE
      /\ flash \in Memory /\ reg \in Registers
  BY Geometry DEF Takes, IInv, TypeOK, Memory, Registers
<1>2. /\ base \in Nat /\ base % 4 = 0 /\ r \in 0 .. 3 /\ n = base + r /\ FW_START <= base
  BY <1>1, BaseIs DEF base
<1>3. /\ prog_addr' = n + 1 /\ prog_data' \in Word
      /\ (n + 1) % 4 # 0 => UNCHANGED controller
      /\ (n + 1) % 4 = 0 =>
           /\ reg' \in Registers
           /\ \E w \in Word :
                /\ \A i \in 1 .. 4 : w[i] = meant(given', base + i - 1)
                /\ flash' = programmed(prepared(flash, base), base, w)
  BY WriteByte DEF Takes
<1>4. /\ r = 3 => (n + 1) % 4 = 0 /\ base' = base + 4
      /\ r # 3 => (n + 1) % 4 # 0 /\ base' = base
  <2> DEFINE c == (n + 1) - ((n + 1) % 4)
             d == n - (n % 4)
  <2>1. base' = c /\ base = d
    BY <1>3 DEF base
  <2>2. /\ n % 4 = 3 => (n + 1) % 4 = 0 /\ c = d + 4
        /\ n % 4 # 3 => (n + 1) % 4 = (n % 4) + 1 /\ c = d
    BY <1>1, NextBase
  <2> HIDE DEF c, d
  <2> QED BY <1>2, <2>1, <2>2
<1>5. Collects'
  <2>1. \A i \in 1 .. 4 :
          prog_data'[i] = IF i <= (n + 1) % 4 THEN meant(given', n + 1 - i) ELSE {}
    BY WriteByte DEF Takes
  <2> DEFINE Holds(k) == \A i \in 1 .. 4 :
                           prog_data'[i] = IF i <= k % 4 THEN meant(given', k - i) ELSE {}
  <2>2. Holds(n + 1)
    <3>1. \A i \in 1 .. 4 : n + 1 - i = (n + 1) - i
      BY <1>1
    <3> QED BY <2>1, <3>1
  <2> HIDE DEF Holds
  <2>3. Holds(prog_addr')
    BY <1>3, <2>2
  <2> USE DEF Holds
  <2> QED BY <2>3 DEF Collects, meant
<1>6. \A a \in Nat : FW_START <= a /\ a < n => meant(given', a) = meant(given, a)
  BY DEF Takes
<1>7. \A a \in Addresses : (FW_START <= a /\ a < base) => flash[a] = meant(given', a)
  <2>1. \A a \in Addresses : (FW_START <= a /\ a < base) => flash[a] = meant(given, a)
    BY DEF IInv, Written, Takes
  <2>2. \A a \in Addresses : a \in Nat /\ (a < base => a < n)
    BY <1>1, <1>2, Geometry DEF Addresses
  <2> QED BY <1>6, <2>1, <2>2
<1>8. base % PAGE # 0 =>
        \A a \in Addresses : (base <= a /\ a \div PAGE = base \div PAGE) => flash[a] = Ones
  BY DEF IInv, RestIsBlank, Takes
<1>9. CASE r # 3
  <2>1. flash' = flash /\ reg' = reg /\ base' = base
    BY <1>3, <1>4, <1>9 DEF controller
  <2>2. Written'
    BY <1>7, <2>1 DEF Written
  <2>3. RestIsBlank'
    BY <1>8, <2>1 DEF RestIsBlank
  <2> QED BY <1>1, <1>3, <1>5, <2>1, <2>2, <2>3
<1>10. CASE r = 3
  <2>1. PICK w \in Word : /\ \A i \in 1 .. 4 : w[i] = meant(given', base + i - 1)
                          /\ flash' = programmed(prepared(flash, base), base, w)
    BY <1>3, <1>4, <1>10
  <2>2. base' = base + 4 /\ reg' \in Registers
    BY <1>3, <1>4, <1>10
  <2>3. base \in Addresses
    BY <1>1, <1>2, Geometry DEF Addresses
  <2> DEFINE m == flash
             p == base
  <2>4. m \in Memory /\ p \in Addresses /\ p % 4 = 0 /\ p \in Nat
        /\ (p % PAGE # 0 => \A x \in Addresses : (p <= x /\ x \div PAGE = p \div PAGE) => m[x] = Ones)
    BY <1>1, <1>2, <1>8, <2>3
  <2> HIDE DEF m, p
  <2> DEFINE q == programmed(prepared(m, p), p, w)
  <2>5. /\ q \in Memory
        /\ \A x \in Addresses : q[x] # m[x] => p <= x /\ x \div PAGE = p \div PAGE
        /\ \A x \in Addresses : p <= x /\ x <= p + 3 => q[x] = w[x - p + 1]
        /\ \A x \in Addresses : (p + 4 <= x /\ x \div PAGE = p \div PAGE) => q[x] = Ones
    BY <2>4, WordProgrammed
  <2>6. flash' = q
    BY <2>1 DEF m, p
  <2> HIDE DEF q
  <2>7. Written'
    <3>1. \A a \in Addresses : (FW_START <= a /\ a < p + 4) => q[a] = meant(given', a)
      <4> TAKE a \in Addresses
      <4> HAVE FW_START <= a /\ a < p + 4
      <4>1. a \in Nat
        BY Geometry DEF Addresses
      <4>2. CASE a < p
        <5>1. q[a] = m[a]
          BY <2>4, <2>5, <4>1, <4>2
        <5> QED BY <1>7, <4>2, <5>1 DEF m, p
      <4>3. CASE p <= a
        <5>1. a <= p + 3 /\ a - p + 1 \in 1 .. 4 /\ p + (a - p + 1) - 1 = a
          BY <2>4, <4>1, <4>3
        <5>2. q[a] = w[a - p + 1]
          BY <2>5, <4>3, <5>1
        <5>3. w[a - p + 1] = meant(given', p + (a - p + 1) - 1)
          BY <2>1, <5>1 DEF p
        <5> QED BY <5>1, <5>2, <5>3
      <4> QED BY <2>4, <4>1, <4>2, <4>3
    <3> QED BY <2>2, <2>6, <3>1 DEF Written, p
  <2>8. RestIsBlank'
    <3>1. ASSUME (p + 4) % PAGE # 0
          PROVE  \A a \in Addresses :
                   (p + 4 <= a /\ a \div PAGE = (p + 4) \div PAGE) => q[a] = Ones
      <4>1. (p + 4) \div PAGE = p \div PAGE
        <5>1. 4 \in Nat \ {0} /\ PAGE \in Nat \ {0} /\ PAGE % 4 = 0
          BY Geometry
        <5> QED BY <2>4, <3>1, <5>1, SameUnit
      <4> QED BY <2>5, <4>1
    <3> QED BY <2>2, <2>6, <3>1 DEF RestIsBlank, p
  <2>9. \A x \in Addresses : flash'[x] # flash[x] => base <= x /\ x \div PAGE = base \div PAGE
    BY <2>5, <2>6 DEF m, p
  <2> QED BY <1>3, <1>5, <2>2, <2>5, <2>6, <2>7, <2>8, <2>9
<1> QED BY <1>9, <1>10

-----------------------------------------------------------------------------
(***************************************************************************)
(* The other steps.                                                        *)
(***************************************************************************)

LEMMA Constants == AllOnes \in Word /\ AllZeros \in Word /\ AllOnes # AllZeros
<1>1. AllOnes \in Word /\ AllZeros \in Word
  BY DEF AllOnes, AllZeros, Word, Byte, Ones
<1>2. 0 \in Ones
  BY ControllerAssumption DEF Ones
<1>3. 1 \in 1 .. 4
  OBVIOUS
<1>4. AllOnes[1] # AllZeros[1]
  BY <1>2, <1>3 DEF AllOnes, AllZeros
<1> QED BY <1>1, <1>4

\* Nothing handed over is the beginning of every update.
LEMMA NothingGiven == <<>> \in Seq(Byte) /\ \E u \in Updates : IsPrefix(<<>>, u)
<1>1. PICK u \in Updates : u \in Seq(Byte)
  BY TestGeometryAssumption
<1>2. Len(u) \in Nat /\ Len(<<>>) = 0 /\ <<>> \in Seq(Byte)
  BY <1>1, LenProperties
<1>3. SubSeq(<<>>, 1, 0) = <<>> /\ SubSeq(u, 1, 0) = <<>>
  BY SubSeqEmpty
<1>4. IsPrefix(<<>>, u)
  BY <1>2, <1>3 DEF IsPrefix
<1> QED BY <1>2, <1>4

\* The words of the log that an update may be looked up in.
LEMMA FoundEntry == update_find \in Entries \cup {NoEntry}
<1>1. open \in SUBSET Nat /\ open \subseteq Entries
  BY DEF open, Entries
<1>2. open # {} => Min(open) \in open
  BY <1>1, MinIsLeast
<1> QED BY <1>1, <1>2 DEF update_find

\* A step after which nothing is being programmed.
LEMMA Leaves ==
  ASSUME IInv, flash' \in Memory, reg' \in Registers,
         prog_addr' \in 0 .. FLASH_SIZE, prog_data' \in Word, answer' \in Word,
         pc' \in {"update_address", "process_update", "start", "running"},
         given' \in {given, <<>>}
  PROVE  IInv'
<1>1. given' \in Seq(Byte) /\ \E u \in Updates : IsPrefix(given', u)
  BY NothingGiven DEF IInv, TypeOK, Counted
<1>2. TypeOK'
  BY <1>1 DEF TypeOK, Memory, Registers
<1>3. Counted' /\ Collects' /\ Written' /\ RestIsBlank'
  BY <1>1 DEF Counted, Collects, Written, RestIsBlank, collecting
<1> QED BY <1>2, <1>3 DEF IInv

LEMMA InitIInv == Init => IInv
<1> SUFFICES ASSUME Init PROVE IInv
  OBVIOUS
<1>1. reg \in Registers
  BY Constants DEF Init, ControllerInit, Registers
<1>2. flash \in Memory
  BY DEF Init, Memory, Byte, Ones
<1>3. given \in Seq(Byte) /\ \E u \in Updates : IsPrefix(given, u)
  BY NothingGiven DEF Init
<1>4. TypeOK
  BY <1>1, <1>2, <1>3, Constants, Geometry DEF Init, TypeOK, Memory, Registers
<1>5. Counted /\ Collects /\ Written /\ RestIsBlank
  BY <1>3 DEF Init, Counted, Collects, Written, RestIsBlank, collecting
<1> QED BY <1>4, <1>5 DEF IInv

LEMMA StartStep == IInv /\ program_start => IInv'
<1> SUFFICES ASSUME IInv, program_start PROVE IInv'
  OBVIOUS
<1>1. /\ prog_addr' = FW_START /\ prog_data' = AllZeros /\ given' = <<>> /\ pc' = "programming"
      /\ flash' = flash /\ reg' = reg /\ answer' = answer
  BY DEF program_start, first_address, controller
<1>2. FW_START \in 0 .. FLASH_SIZE /\ FW_START % 4 = 0 /\ FW_START % PAGE = 0 /\ FW_START \in Nat
  BY Geometry
<1>3. given' \in Seq(Byte) /\ (\E u \in Updates : IsPrefix(given', u)) /\ Len(given') = 0
  BY <1>1, NothingGiven
<1>4. TypeOK'
  BY <1>1, <1>2, <1>3, Constants DEF IInv, TypeOK
<1>5. Counted'
  BY <1>1, <1>2, <1>3 DEF Counted
<1>6. base' = FW_START
  BY <1>1, <1>2 DEF base
<1>7. Collects'
  <2>1. \A i \in 1 .. 4 : ~(i <= prog_addr' % 4) /\ prog_data'[i] = {}
    BY <1>1, <1>2 DEF AllZeros
  <2> QED BY <2>1 DEF Collects
<1>8. Written'
  <2>1. \A a \in Addresses : ~(FW_START <= a /\ a < FW_START)
    BY <1>2 DEF Addresses
  <2> QED BY <1>6, <2>1 DEF Written
<1>9. RestIsBlank'
  BY <1>2, <1>6 DEF RestIsBlank
<1> QED BY <1>4, <1>5, <1>7, <1>8, <1>9 DEF IInv

LEMMA WriteStep == IInv /\ program_write => IInv'
<1> SUFFICES ASSUME IInv, program_write PROVE IInv'
  OBVIOUS
<1>1. PICK b \in Byte : Takes(b)
  BY WriteTakes
<1>2. /\ flash' \in Memory /\ reg' \in Registers
      /\ prog_addr' = prog_addr + 1 /\ prog_data' \in Word
      /\ Collects' /\ Written' /\ RestIsBlank'
  BY <1>1, TakesStep
<1>3. /\ pc = "programming" /\ pc' = "programming" /\ answer' = answer
      /\ given \in Seq(Byte) /\ given' \in Seq(Byte) /\ \E u \in Updates : IsPrefix(given', u)
  BY <1>1 DEF program_write, Takes, IInv, Counted
<1>4. Len(given') = Len(given) + 1 /\ Len(given) \in Nat
  <2>1. PICK u \in Updates : /\ IsStrictPrefix(given, u)
                             /\ given' = Append(given, u[Len(given) + 1])
    BY DEF program_write
  <2>2. u \in Seq(Byte)
    BY TestGeometryAssumption
  <2> DEFINE c == u[Len(given) + 1]
  <2>3. c \in Byte
    BY <1>3, <2>1, <2>2, NextByte
  <2>4. given' = Append(given, c)
    BY <2>1
  <2> HIDE DEF c
  <2> QED BY <1>3, <2>3, <2>4, AppendProperties, LenProperties
<1>5. prog_addr' \in 0 .. FLASH_SIZE
  <2>1. prog_addr \in Nat /\ prog_addr < FLASH_SIZE
    BY <1>1, Geometry DEF Takes, IInv, TypeOK
  <2> QED BY <1>2, <2>1, Geometry
<1>6. TypeOK'
  BY <1>2, <1>3, <1>5 DEF IInv, TypeOK, Memory, Registers
<1>7. Counted'
  <2>1. prog_addr' = FW_START + Len(given')
    <3>1. prog_addr = FW_START + Len(given)
      BY <1>3 DEF IInv, Counted
    <3> QED BY <1>2, <1>4, <3>1, Geometry
  <2> QED BY <1>3, <2>1 DEF Counted
<1> QED BY <1>2, <1>6, <1>7 DEF IInv

LEMMA PadStep == IInv /\ program_finish_pads => IInv'
<1> SUFFICES ASSUME IInv, program_finish_pads PROVE IInv'
  OBVIOUS
<1>0. Takes(Ones) /\ Ones \in Byte
  BY PadTakes DEF Ones, Byte
<1>1. /\ flash' \in Memory /\ reg' \in Registers
      /\ prog_addr' = prog_addr + 1 /\ prog_data' \in Word
      /\ Collects' /\ Written' /\ RestIsBlank'
  BY <1>0, TakesStep
<1>2. /\ pc \in {"programming", "finishing"} /\ pc' = "finishing" /\ answer' = answer
      /\ given' = given /\ incomplete(prog_addr)
  BY DEF program_finish_pads
<1>3. prog_addr' \in 0 .. FLASH_SIZE /\ prog_addr \in Nat
  BY <1>0, <1>1, Geometry DEF Takes, IInv, TypeOK
<1>4. TypeOK'
  BY <1>1, <1>2, <1>3 DEF IInv, TypeOK, Memory, Registers
<1>5. Counted'
  <2>1. given \in Seq(Byte) /\ Len(given) \in Nat
    BY LenProperties DEF IInv, Counted
  <2>2. FW_START + Len(given) <= prog_addr
    BY <1>2, <1>3, <2>1, Geometry DEF IInv, Counted
  <2>3. \A a \in FW_START + Len(given) .. prog_addr - 1 : incomplete(a)
    <3>1. CASE pc = "programming"
      <4>1. prog_addr = FW_START + Len(given)
        BY <3>1 DEF IInv, Counted
      <4> QED BY <1>3, <4>1
    <3>2. CASE pc = "finishing"
      BY <3>2 DEF IInv, Counted
    <3> QED BY <1>2, <3>1, <3>2
  <2>4. \A a \in FW_START + Len(given) .. prog_addr' - 1 :
          a = prog_addr \/ a \in FW_START + Len(given) .. prog_addr - 1
    BY <1>1, <1>3, <2>1, Geometry
  <2>5. \A a \in FW_START + Len(given) .. prog_addr' - 1 : incomplete(a)
    BY <1>2, <2>3, <2>4
  <2>6. FW_START + Len(given) <= prog_addr'
    BY <1>1, <1>3, <2>1, <2>2, Geometry
  <2> QED BY <1>2, <2>1, <2>5, <2>6 DEF Counted
<1> QED BY <1>1, <1>4, <1>5 DEF IInv

LEMMA FinishStep == IInv /\ program_finish => IInv'
<1> SUFFICES ASSUME IInv, program_finish PROVE IInv'
  OBVIOUS
<1>1. /\ pc \in {"programming", "finishing"} /\ pc' = "finished" /\ ~incomplete(prog_addr)
      /\ UNCHANGED <<flash, reg, prog_addr, prog_data, answer, given>>
  BY DEF program_finish, controller, hal
<1>2. TypeOK'
  BY <1>1 DEF IInv, TypeOK
<1>3. FW_START <= prog_addr
  <2>1. Len(given) \in Nat /\ prog_addr \in Nat
    BY LenProperties, Geometry DEF IInv, Counted, TypeOK
  <2>2. FW_START + Len(given) <= prog_addr
    BY <1>1, <2>1, Geometry DEF IInv, Counted
  <2> QED BY <2>1, <2>2, Geometry
<1>4. Counted'
  BY <1>1, <1>3 DEF IInv, Counted
<1>5. base' = base
  BY <1>1 DEF base
<1>6. Collects' /\ RestIsBlank'
  BY <1>1 DEF Collects, RestIsBlank, collecting
<1>7. Written'
  BY <1>1, <1>5 DEF IInv, Written, collecting, meant
<1> QED BY <1>2, <1>4, <1>6, <1>7 DEF IInv

LEMMA NextIInv == IInv /\ [Next]_vars => IInv'
<1> SUFFICES ASSUME IInv, [Next]_vars PROVE IInv'
  OBVIOUS
<1>1. /\ flash \in Memory /\ reg \in Registers /\ prog_addr \in 0 .. FLASH_SIZE
      /\ prog_data \in Word /\ answer \in Word
  BY DEF IInv, TypeOK, Memory, Registers
<1>2. CASE update_address
  <2>1. answer' \in Word
    <3>1. update_find # NoEntry => entry(update_find) \in Word
      BY <1>1, FoundEntry, EntryIsWord
    <3> QED BY <1>2, <3>1, Constants DEF update_address
  <2> QED BY <1>1, <1>2, <2>1, Leaves DEF update_address, controller, hal
<1>3. CASE update_clear
  <2>1. flash' \in Memory /\ reg' \in Registers
    <3>1. CASE update_find = NoEntry
      BY <1>1, <1>3, <3>1 DEF update_clear, controller
    <3>2. CASE update_find # NoEntry
      <4>1. perform(programming(entry_address(update_find), AllZeros))
        BY <1>3, <3>2 DEF update_clear
      <4>2. update_find \in Entries
        BY <3>2, FoundEntry
      <4> QED BY <1>1, <4>1, <4>2, Constants, LogWrite
    <3> QED BY <3>1, <3>2
  <2> QED BY <1>1, <1>3, <2>1, Leaves DEF update_clear, hal
<1>4. CASE program_start
  BY <1>4, StartStep
<1>5. CASE program_write
  BY <1>5, WriteStep
<1>6. CASE program_finish_pads
  BY <1>6, PadStep
<1>7. CASE program_finish
  BY <1>7, FinishStep
<1>8. CASE started
  BY <1>1, <1>8, Leaves DEF started, controller, hal
<1>9. CASE request_update
  <2>1. PICK i \in free, r \in Requests : perform(programming(entry_address(i), r))
    BY <1>9 DEF request_update
  <2>2. i \in Entries /\ r \in Word
    BY TestGeometryAssumption DEF free
  <2>3. flash' \in Memory /\ reg' \in Registers
    BY <1>1, <2>1, <2>2, LogWrite
  <2> QED BY <1>1, <1>9, <2>3, Leaves DEF request_update, hal
<1>10. CASE boots_again
  <2>1. prog_addr' \in 0 .. FLASH_SIZE
    BY <1>10, Geometry DEF boots_again
  <2> QED BY <1>1, <1>10, <2>1, Constants, Leaves DEF boots_again, controller
<1>11. CASE UNCHANGED vars
  BY <1>11 DEF vars, controller, hal, IInv, TypeOK, Counted, Collects, Written, RestIsBlank,
               collecting, base, meant
<1> QED
  BY <1>2, <1>3, <1>4, <1>5, <1>6, <1>7, <1>8, <1>9, <1>10, <1>11 DEF Next, Loader

THEOREM Invariance == Spec => []IInv
<1>1. IInv /\ [Next]_vars => IInv'
  BY NextIInv
<1> QED BY InitIInv, <1>1, PTL DEF Spec

\* The variables have their types, and programming never leaves the Flash: not the
\* padding either, because the firmware area ends with a complete word.
THEOREM TypeCorrect == Spec => []TypeOK
<1>1. IInv => TypeOK
  BY DEF IInv
<1> QED BY Invariance, <1>1, PTL

\* Whatever was in Flash and in the registers before, once program_finish() has
\* returned the bytes handed over are there in their order, and the rest of the last
\* word is blank.
THEOREM BytesDoArrive == Spec => []BytesArrive
<1>1. ASSUME IInv, pc = "finished", NEW a \in FW_START .. prog_addr - 1
      PROVE  flash[a] = IF a - FW_START < Len(given) THEN given[a - FW_START + 1] ELSE Ones
  <2>1. prog_addr \in 0 .. FLASH_SIZE /\ prog_addr % 4 = 0
    BY <1>1 DEF IInv, TypeOK, Counted, incomplete
  <2>2. base = prog_addr
    BY <2>1, Geometry DEF base
  <2>3. a \in Addresses /\ FW_START <= a /\ a < base
    BY <2>1, <2>2, Geometry DEF Addresses
  <2>4. flash[a] = meant(given, a)
    BY <1>1, <2>3 DEF IInv, Written
  <2> QED BY <2>4 DEF meant
<1>2. IInv => BytesArrive
  BY <1>1 DEF BytesArrive
<1> QED BY Invariance, <1>2, PTL

\* No byte outside the pages the firmware needs changes while it is programmed, for
\* any registers, any prefix of an update and any padding.
THEOREM PagesOnly == Spec => OnlyItsPages
<1> DEFINE Only == pc \in {"programming", "finishing"} =>
                     \A a \in Addresses :
                       flash'[a] # flash[a] =>
                         FW_START <= a /\ align_down(a, PAGE) < FW_START + Len(given')
<1>1. ASSUME IInv, [Next]_vars, pc \in {"programming", "finishing"},
             NEW a \in Addresses, flash'[a] # flash[a]
      PROVE  FW_START <= a /\ align_down(a, PAGE) < FW_START + Len(given')
  <2>1. program_write \/ program_finish_pads
    BY <1>1 DEF Next, Loader, update_address, program_start, program_finish, update_clear, started,
                request_update, boots_again, vars, controller
  <2>2. PICK b \in Byte : Takes(b)
    BY <1>1, <2>1, WriteTakes, PadTakes DEF Ones, Byte
  <2>3. base <= a /\ a \div PAGE = base \div PAGE
    BY <1>1, <2>2, TakesStep
  <2>4. prog_addr \in Nat /\ FW_START <= prog_addr /\ base < FW_START + Len(given')
        /\ Len(given') \in Nat
    BY <1>1, <2>2, Geometry, LenProperties DEF Takes, IInv, TypeOK
  <2>5. base \in Nat /\ FW_START <= base
    BY <2>4, BaseIs DEF base
  <2> DEFINE q == base \div PAGE
  <2>6. q \in Nat /\ base = (PAGE * q) + (base % PAGE) /\ base % PAGE \in Nat
    BY <2>5, Geometry, DivMod
  <2>7. align_down(a, PAGE) = q * PAGE
    BY <2>3 DEF align_down
  <2> HIDE DEF q
  <2>8. q * PAGE \in Nat /\ q * PAGE <= base
    <3>1. PAGE * q \in Nat /\ PAGE * q = q * PAGE
      BY <2>6, Geometry
    <3> QED BY <2>5, <2>6, <3>1
  <2>9. a \in Nat
    BY Geometry DEF Addresses
  <2> QED BY <2>3, <2>4, <2>5, <2>7, <2>8, <2>9, Geometry
<1>2. IInv /\ [Next]_vars => [Only]_vars
  BY <1>1
<1> QED BY Invariance, <1>2, PTL DEF Spec, OnlyItsPages

-----------------------------------------------------------------------------
(***************************************************************************)
(* The HAL does what it promises.                                          *)
(***************************************************************************)

\* The firmware area of memory m, as the loader reads it, and the word that is being
\* collected, as the loader knows it.
area(m) == [a \in FW_START .. FLASH_SIZE - 1 |-> value_of_byte[m[a]]]
state   == [address |-> align_down(prog_addr, 4), buffer |-> collected]

\* The bytes of s that belong to the last word.
tail_of(s) == [i \in 1 .. Len(s) % 4 |-> value_of_byte[s[align_down(Len(s), 4) + i]]]

Bytes == 0 .. RADIX - 1

\* An address aligned down to a word.
LEMMA WordBase ==
  ASSUME NEW n \in Nat
  PROVE  align_down(n, 4) = n - (n % 4)
<1>1. n \div 4 \in Nat /\ n = (4 * (n \div 4)) + (n % 4) /\ n % 4 \in Nat
  BY DivMod
<1> QED BY <1>1 DEF align_down

\* The bytes of s of a word that s ends in.
LEMMA TailIs ==
  ASSUME NEW s \in Seq(Byte), NEW b \in Nat, b % 4 = 0, FW_START <= b,
         b < FW_START + Len(s), FW_START + Len(s) < b + 4
  PROVE  LET l == FW_START + Len(s) - b
         IN  /\ l \in 1 .. 3
             /\ tail_of(s) \in Seq(Bytes) /\ Len(tail_of(s)) = l
             /\ \A i \in 1 .. l : tail_of(s)[i] = value_of_byte[meant(s, b + (i - 1))]
<1> DEFINE n == Len(s)
           l == (FW_START + n) - b
           f == FW_START \div 4
           g == b \div 4
<1>1. n \in Nat /\ FW_START \in Nat /\ FW_START % 4 = 0
  BY LenProperties, Geometry
<1>2. f \in Nat /\ FW_START = (4 * f) + 0 /\ g \in Nat /\ b = (4 * g) + 0
  <2>1. \A k \in Nat : k % 4 = 0 => k \div 4 \in Nat /\ k = (4 * (k \div 4)) + 0
    OBVIOUS
  <2> QED BY <1>1, <2>1
<1> HIDE DEF n, f, g
<1>3. l \in 1 .. 3
  BY <1>1 DEF n
<1> HIDE DEF l
<1>4. n = (4 * (g - f)) + l /\ g - f \in Nat /\ b - FW_START = (g - f) * 4
  <2>1. b = FW_START + (n - l)
    BY <1>1 DEF l
  <2>2. f <= g
    BY <1>1, <1>2
  <2> QED BY <1>1, <1>2, <1>3, <2>1, <2>2
<1> DEFINE h == g - f
<1>5. h \in Nat /\ n = (4 * h) + l /\ b - FW_START = h * 4
  BY <1>4
<1> HIDE DEF h
<1>6. n \div 4 = h /\ n % 4 = l
  <2>1. l \in 0 .. 4 - 1 /\ 4 \in Nat \ {0}
    BY <1>3
  <2> QED BY <1>1, <1>5, <2>1, UniqueRemainder
<1>7. align_down(n, 4) = b - FW_START
  BY <1>5, <1>6 DEF align_down
<1>8. \A i \in 1 .. l :
        /\ (b - FW_START) + i \in 1 .. n
        /\ (b + (i - 1)) - FW_START < n
        /\ ((b + (i - 1)) - FW_START) + 1 = (b - FW_START) + i
  BY <1>1, <1>3, <1>5 DEF l
<1>9. tail_of(s) = [i \in 1 .. l |-> value_of_byte[s[(b - FW_START) + i]]]
  BY <1>6, <1>7 DEF tail_of, n
<1>10. \A i \in 1 .. l : value_of_byte[s[(b - FW_START) + i]] \in Bytes
  <2>1. \A i \in 1 .. l : s[(b - FW_START) + i] \in Byte
    BY <1>8, ElementOfSeq DEF n
  <2> QED BY <2>1, ValueOfByteType DEF Bytes
<1>11. tail_of(s) \in Seq(Bytes) /\ Len(tail_of(s)) = l
  <2> DEFINE t == [i \in 1 .. l |-> value_of_byte[s[(b - FW_START) + i]]]
  <2>1. t \in [1 .. l -> Bytes] /\ l \in Nat
    BY <1>3, <1>10
  <2> HIDE DEF t
  <2>2. t \in Seq(Bytes) /\ Len(t) = l
    BY <2>1, FunctionIsSeq
  <2> QED BY <1>9, <2>2 DEF t
<1>12. ASSUME NEW i \in 1 .. l
       PROVE  tail_of(s)[i] = value_of_byte[meant(s, b + (i - 1))]
  <2>1. meant(s, b + (i - 1)) = s[(b - FW_START) + i]
    BY <1>8 DEF meant, n
  <2> QED BY <1>9, <2>1
<1>13. FW_START + Len(s) - b = l
  BY <1>1 DEF l, n
<1> QED BY <1>3, <1>11, <1>12, <1>13

\* Erasing and programming are what they are to the loader.
LEMMA AreaErased ==
  ASSUME NEW m \in Memory, NEW a \in Addresses
  PROVE  area(erased(m, a)) = Hal!erased(area(m), a)
<1>1. a \in Nat /\ PAGE \in Nat
  BY Geometry DEF Addresses
<1>2. \A x \in FW_START .. FLASH_SIZE - 1 :
        /\ x \in Addresses
        /\ x \in a .. a + PAGE - 1 <=> a <= x /\ x < a + PAGE
  BY <1>1, Geometry DEF Addresses
<1>3. \A x \in FW_START .. FLASH_SIZE - 1 :
        value_of_byte[erased(m, a)[x]]
          = IF a <= x /\ x < a + PAGE THEN RADIX - 1 ELSE value_of_byte[m[x]]
  BY <1>2, ValueOfByteType DEF erased, Memory
<1>4. \A x \in FW_START .. FLASH_SIZE - 1 : area(m)[x] = value_of_byte[m[x]]
  BY DEF area
<1>5. area(erased(m, a)) = [x \in FW_START .. FLASH_SIZE - 1 |->
        IF a <= x /\ x < a + PAGE THEN RADIX - 1 ELSE area(m)[x]]
  BY <1>3, <1>4 DEF area
<1> QED BY <1>5 DEF Hal!erased, Hal!fwarea, Hal!ERASED

LEMMA AreaProgrammed ==
  ASSUME NEW m \in Memory, NEW a \in Addresses, NEW w \in Word, NEW block,
         \A i \in 1 .. 4 : block[i] = value_of_byte[w[i]]
  PROVE  area(programmed(m, a, w)) = Hal!programmed(area(m), a, block)
<1>1. a \in Nat
  BY Geometry DEF Addresses
<1>2. \A x \in FW_START .. FLASH_SIZE - 1 :
        /\ x \in Addresses
        /\ x \in a .. a + 3 <=> a <= x /\ x < a + 4
        /\ a <= x /\ x < a + 4 => x - a + 1 \in 1 .. 4
  BY <1>1, Geometry DEF Addresses
<1>3. \A p, q \in Byte : and_bits(value_of_byte[p], value_of_byte[q]) = value_of_byte[q \cap p]
  <2> TAKE p, q \in Byte
  <2>1. byte_of(value_of_byte[p]) = p /\ byte_of(value_of_byte[q]) = q
    BY ByteOfValue
  <2>2. p \cap q = q \cap p
    OBVIOUS
  <2> QED BY <2>1, <2>2 DEF and_bits
<1>4. \A x \in FW_START .. FLASH_SIZE - 1 :
        value_of_byte[programmed(m, a, w)[x]]
          = IF a <= x /\ x < a + 4 THEN and_bits(area(m)[x], block[x - a + 1]) ELSE area(m)[x]
  <2> TAKE x \in FW_START .. FLASH_SIZE - 1
  <2>1. area(m)[x] = value_of_byte[m[x]] /\ m[x] \in Byte
    BY <1>2 DEF area, Memory
  <2>2. programmed(m, a, w)[x] = IF a <= x /\ x < a + 4 THEN w[x - a + 1] \cap m[x] ELSE m[x]
    BY <1>2 DEF programmed, Memory
  <2>3. CASE a <= x /\ x < a + 4
    <3>1. w[x - a + 1] \in Byte /\ block[x - a + 1] = value_of_byte[w[x - a + 1]]
      BY <1>2, <2>3 DEF Word
    <3> QED BY <1>3, <2>1, <2>2, <2>3, <3>1
  <2>4. CASE ~(a <= x /\ x < a + 4)
    BY <2>1, <2>2, <2>4
  <2> QED BY <2>3, <2>4
<1>5. area(programmed(m, a, w)) = [x \in FW_START .. FLASH_SIZE - 1 |->
        IF a <= x /\ x < a + 4 THEN and_bits(area(m)[x], block[x - a + 1]) ELSE area(m)[x]]
  BY <1>4 DEF area
<1> QED BY <1>5 DEF Hal!programmed, Hal!fwarea

LEMMA AreaCommitted ==
  ASSUME NEW m \in Memory, NEW a \in Addresses, NEW w \in Word, NEW block,
         \A i \in 1 .. 4 : block[i] = value_of_byte[w[i]]
  PROVE  area(programmed(prepared(m, a), a, w)) = Hal!commit(area(m), a, block)
<1>1. prepared(m, a) \in Memory
  BY CommandTypes DEF prepared
<1>2. area(prepared(m, a)) = IF a % PAGE = 0 THEN Hal!erased(area(m), a) ELSE area(m)
  BY AreaErased DEF prepared, first_of_page
<1> DEFINE p == prepared(m, a)
<1> HIDE DEF p
<1>3. p \in Memory
  BY <1>1 DEF p
<1>4. area(programmed(p, a, w)) = Hal!programmed(area(p), a, block)
  BY <1>3, AreaProgrammed
<1> QED BY <1>2, <1>4 DEF p, Hal!commit, Hal!page_starts

\* The word that is being collected, as the loader knows it.
LEMMA CollectedIs ==
  ASSUME IInv, collecting, base < FW_START + Len(given) \/ ~incomplete(prog_addr),
         NEW l, l = IF incomplete(prog_addr) THEN FW_START + Len(given) - base ELSE 0
  PROVE  /\ l \in 0 .. 3 /\ (l = 0 <=> ~incomplete(prog_addr))
         /\ (pc = "programming" => l = prog_addr % 4)
         /\ collected \in Seq(Bytes) /\ Len(collected) = l
         /\ \A i \in 1 .. l : collected[i] = value_of_byte[meant(given, base + (i - 1))]
<1>1. /\ given \in Seq(Byte) /\ Len(given) \in Nat /\ prog_addr \in Nat /\ FW_START \in Nat
      /\ FW_START + Len(given) <= prog_addr
  <2>1. given \in Seq(Byte) /\ Len(given) \in Nat /\ prog_addr \in Nat /\ FW_START \in Nat
    BY LenProperties, Geometry DEF IInv, Counted, TypeOK
  <2>2. CASE pc = "programming"
    BY <2>1, <2>2 DEF IInv, Counted
  <2>3. CASE pc = "finishing"
    BY <2>1, <2>3 DEF IInv, Counted
  <2> QED BY <2>1, <2>2, <2>3 DEF collecting
<1>2. /\ base \in Nat /\ base % 4 = 0 /\ prog_addr % 4 \in 0 .. 3
      /\ prog_addr = base + (prog_addr % 4)
  BY <1>1, BaseIs DEF base
<1>3. FW_START <= base
  <2>1. FW_START <= prog_addr
    BY <1>1
  <2> QED BY <1>1, <2>1, BaseIs DEF base
<1>4. CASE ~incomplete(prog_addr)
  <2>1. l = 0 /\ collected = <<>> /\ prog_addr % 4 = 0
    BY <1>4 DEF collected, incomplete
  <2>2. <<>> \in Seq(Bytes) /\ Len(<<>>) = 0
    OBVIOUS
  <2> QED BY <1>4, <2>1, <2>2
<1>5. CASE incomplete(prog_addr)
  <2> DEFINE b == base
             n == Len(given)
  <2>1. l = FW_START + n - b /\ collected = tail_of(given) /\ prog_addr % 4 # 0
    BY <1>5 DEF collected, incomplete, tail_of
  <2>2. /\ given \in Seq(Byte) /\ b \in Nat /\ b % 4 = 0 /\ FW_START <= b
        /\ b < FW_START + n /\ FW_START + n < b + 4
    BY <1>1, <1>2, <1>3, <1>5
  <2> HIDE DEF b
  <2>3. /\ FW_START + n - b \in 1 .. 3
        /\ tail_of(given) \in Seq(Bytes) /\ Len(tail_of(given)) = FW_START + n - b
        /\ \A i \in 1 .. FW_START + n - b :
             tail_of(given)[i] = value_of_byte[meant(given, b + (i - 1))]
    BY <2>2, TailIs
  <2>4. pc = "programming" => l = prog_addr % 4
    <3>1. SUFFICES ASSUME pc = "programming" PROVE l = prog_addr % 4
      OBVIOUS
    <3>2. prog_addr = FW_START + n
      BY <3>1 DEF IInv, Counted
    <3> QED BY <1>1, <1>2, <2>1, <3>2 DEF b
  <2>5. l \in 0 .. 3 /\ l # 0
    BY <2>1, <2>3
  <2> HIDE DEF n
  <2>6. /\ collected \in Seq(Bytes) /\ Len(collected) = l
        /\ \A i \in 1 .. l : collected[i] = value_of_byte[meant(given, b + (i - 1))]
    BY <2>1, <2>3
  <2> QED BY <1>5, <2>4, <2>5, <2>6 DEF b
<1> QED BY <1>4, <1>5

\* What the Flash holds after a byte that completes a word.
LEMMA WordTaken ==
  ASSUME IInv, NEW b \in Byte, Takes(b), prog_addr % 4 = 3, NEW block,
         \A i \in 1 .. 4 : block[i] = value_of_byte[meant(given', base + (i - 1))]
  PROVE  area(flash)' = Hal!commit(area(flash), base, block)
<1>1. prog_addr \in Nat /\ FW_START <= prog_addr /\ prog_addr < FLASH_SIZE /\ flash \in Memory
  BY Geometry DEF Takes, IInv, TypeOK, Memory
<1>2. base \in Addresses /\ base \in Nat
  BY <1>1, BaseIs, Geometry DEF base, Addresses
<1>3. (prog_addr + 1) % 4 = 0
  BY <1>1, NextBase
<1>4. PICK w \in Word : /\ \A i \in 1 .. 4 : w[i] = meant(given', base + i - 1)
                        /\ flash' = programmed(prepared(flash, base), base, w)
  <2>1. (prog_addr + 1) % 4 = 0 =>
           /\ reg' \in Registers
           /\ \E w \in Word :
                /\ \A i \in 1 .. 4 : w[i] = meant(given', base + i - 1)
                /\ flash' = programmed(prepared(flash, base), base, w)
    BY WriteByte DEF Takes
  <2> QED BY <1>3, <2>1
<1>5. \A i \in 1 .. 4 : block[i] = value_of_byte[w[i]]
  <2>1. \A i \in 1 .. 4 : base + i - 1 = base + (i - 1)
    BY <1>2
  <2> QED BY <1>4, <2>1
<1> DEFINE a == base
           m == flash
<1>6. m \in Memory /\ a \in Addresses /\ flash' = programmed(prepared(m, a), a, w)
  BY <1>1, <1>2, <1>4
<1> HIDE DEF a, m
<1>7. area(programmed(prepared(m, a), a, w)) = Hal!commit(area(m), a, block)
  BY <1>5, <1>6, AreaCommitted
<1>8. area(flash)' = area(flash')
  BY DEF area
<1> QED BY <1>6, <1>7, <1>8 DEF a, m

\* How the address of the word moves on.
LEMMA AddressTaken ==
  ASSUME IInv, NEW b \in Byte, Takes(b)
  PROVE  /\ align_down(prog_addr, 4) = base /\ align_down(prog_addr, 4)' = base'
         /\ prog_addr % 4 \in 0 .. 3
         /\ prog_addr % 4 = 3 => base' = base + 4 /\ ~incomplete(prog_addr)'
         /\ prog_addr % 4 # 3 => /\ base' = base /\ incomplete(prog_addr)' /\ flash' = flash
                                 /\ (prog_addr + 1) % 4 = (prog_addr % 4) + 1
<1> DEFINE n == prog_addr
           c == (n + 1) - ((n + 1) % 4)
           d == n - (n % 4)
<1>1. n \in Nat /\ prog_addr' = n + 1
  BY TakesStep, Geometry DEF IInv, TypeOK
<1>2. base = d /\ base' = c /\ align_down(n, 4) = d /\ align_down(n + 1, 4) = c
  BY <1>1, WordBase DEF base
<1>3. /\ n % 4 = 3 => (n + 1) % 4 = 0 /\ c = d + 4
      /\ n % 4 # 3 => (n + 1) % 4 = (n % 4) + 1 /\ c = d
  BY <1>1, NextBase
<1>4. n % 4 \in 0 .. 3
  BY <1>1
<1>5. align_down(prog_addr, 4)' = align_down(n + 1, 4)
  BY <1>1 DEF align_down
<1>6. incomplete(prog_addr)' <=> (n + 1) % 4 # 0
  BY <1>1 DEF incomplete
<1> HIDE DEF c, d
<1>7. ASSUME n % 4 # 3 PROVE (n + 1) % 4 # 0 /\ flash' = flash
  <2>1. (n + 1) % 4 # 0
    BY <1>3, <1>4, <1>7
  <2>2. (n + 1) % 4 # 0 => UNCHANGED controller
    BY WriteByte DEF Takes
  <2> QED BY <2>1, <2>2 DEF controller
<1> QED BY <1>2, <1>3, <1>4, <1>5, <1>6, <1>7

\* program_write() is Write() of the value of its byte.
LEMMA WriteRefines == IInv /\ program_write => \E v \in Bytes : Hal!Write(v)
<1> SUFFICES ASSUME IInv, program_write PROVE \E v \in Bytes : Hal!Write(v)
  OBVIOUS
<1>1. PICK b \in Byte : Takes(b)
  BY WriteTakes
<1> DEFINE n == prog_addr
           r == n % 4
           v == value_of_byte[b]
           c == collected
<1>2. v \in Bytes
  BY ValueOfByteType DEF Bytes
<1>3. /\ align_down(prog_addr, 4) = base /\ align_down(prog_addr, 4)' = base' /\ r \in 0 .. 3
      /\ r = 3 => base' = base + 4 /\ ~incomplete(prog_addr)'
      /\ r # 3 => base' = base /\ incomplete(prog_addr)' /\ flash' = flash
  BY <1>1, AddressTaken
<1>4. /\ n \in Nat /\ FW_START <= n /\ meant(given', n) = b /\ given' \in Seq(Byte)
      /\ pc = "programming" /\ n = FW_START + Len(given) /\ Len(given) \in Nat
      /\ \A a \in Nat : FW_START <= a /\ a < n => meant(given', a) = meant(given, a)
  BY <1>1, Geometry, LenProperties DEF Takes, IInv, TypeOK, Counted, program_write
<1>5. base \in Nat /\ base % 4 = 0 /\ n = base + r /\ FW_START <= base /\ FW_START \in Nat
  BY <1>4, BaseIs, Geometry DEF base
<1>6. /\ c \in Seq(Bytes) /\ Len(c) = r
      /\ \A i \in 1 .. r : c[i] = value_of_byte[meant(given, base + (i - 1))]
  <2>1. base < FW_START + Len(given) \/ ~incomplete(prog_addr)
    BY <1>3, <1>4, <1>5 DEF incomplete
  <2> DEFINE l == IF incomplete(prog_addr) THEN FW_START + Len(given) - base ELSE 0
  <2>2. l = IF incomplete(prog_addr) THEN FW_START + Len(given) - base ELSE 0
    OBVIOUS
  <2> HIDE DEF l
  <2>3. /\ pc = "programming" => l = prog_addr % 4
        /\ collected \in Seq(Bytes) /\ Len(collected) = l
        /\ \A i \in 1 .. l : collected[i] = value_of_byte[meant(given, base + (i - 1))]
    BY <1>4, <2>1, <2>2, CollectedIs DEF collecting
  <2> QED BY <1>4, <2>3
<1> DEFINE block == Append(c, v)
<1>7. /\ block \in Seq(Bytes) /\ Len(block) = r + 1 /\ block # <<>>
      /\ \A i \in 1 .. r + 1 : block[i] = value_of_byte[meant(given', base + (i - 1))]
  <2> HIDE DEF c, v
  <2>1. block \in Seq(Bytes) /\ Len(block) = r + 1
    BY <1>2, <1>6, AppendProperties
  <2>2. block[r + 1] = v /\ \A i \in 1 .. r : block[i] = c[i]
    BY <1>2, <1>6, AppendProperties
  <2>3. \A i \in 1 .. r : block[i] = value_of_byte[meant(given', base + (i - 1))]
    <3>1. \A i \in 1 .. r : base + (i - 1) \in Nat /\ FW_START <= base + (i - 1) /\ base + (i - 1) < n
      BY <1>3, <1>5
    <3> QED BY <1>4, <1>6, <2>2, <3>1
  <2>4. block[r + 1] = value_of_byte[meant(given', base + ((r + 1) - 1))]
    <3>1. base + ((r + 1) - 1) = n
      BY <1>3, <1>5
    <3> QED BY <1>4, <2>2, <3>1 DEF v
  <2>5. \A i \in 1 .. r + 1 : i = r + 1 \/ i \in 1 .. r
    BY <1>3
  <2>6. block # <<>>
    BY <1>3, <2>1
  <2> QED BY <2>1, <2>3, <2>4, <2>5, <2>6
<1>8. /\ state = [address |-> base, buffer |-> c]
      /\ state' = [address |-> base', buffer |-> collected']
  BY <1>3 DEF state
<1> HIDE DEF c, v, block
<1>9. CASE r = 3
  <2>1. Hal!completed(state, v) = block
    <3>1. Len(state.buffer) + 1 = 4 /\ state.buffer = c
      BY <1>6, <1>8, <1>9
    <3> QED BY <3>1 DEF Hal!completed, block
  <2>2. collected' = <<>>
    BY <1>3, <1>9 DEF collected
  <2>3. state' = [address |-> state.address + 4, buffer |-> <<>>]
    BY <1>3, <1>8, <1>9, <2>2
  <2>4. area(flash)' = Hal!commit(area(flash), base, block)
    <3>1. \A i \in 1 .. 4 : block[i] = value_of_byte[meant(given', base + (i - 1))]
      BY <1>7, <1>9
    <3> QED BY <1>1, <1>9, <3>1, WordTaken
  <2>5. area(flash)' = Hal!commit(area(flash), state.address, Hal!completed(state, v))
    BY <1>8, <2>1, <2>4
  <2>6. Hal!completed(state, v) # <<>>
    BY <1>7, <2>1
  <2>7. Hal!Write(v)
    BY <2>3, <2>5, <2>6 DEF Hal!Write, Hal!write_block, state, area
  <2> QED BY <1>2, <2>7
<1>10. CASE r # 3
  <2>1. Hal!completed(state, v) = <<>>
    <3>1. Len(state.buffer) + 1 # 4
      BY <1>3, <1>6, <1>8, <1>10
    <3> QED BY <3>1 DEF Hal!completed
  <2>2. collected' = block
    <3>1. collected' = tail_of(given')
      BY <1>3, <1>10 DEF collected, tail_of
    <3>2. Len(given') = Len(given) + 1
      <4>1. prog_addr' = prog_addr + 1
        BY <1>1, TakesStep
      <4>2. prog_addr' = FW_START + Len(given') /\ Len(given') \in Nat
        <5>1. IInv' /\ pc' = "programming"
          BY WriteStep DEF program_write
        <5> QED BY <1>4, <5>1, LenProperties DEF IInv, Counted
      <4> QED BY <1>4, <1>5, <4>1, <4>2
    <3>3. FW_START + Len(given') - base = r + 1 /\ base < FW_START + Len(given')
          /\ FW_START + Len(given') < base + 4
      BY <1>3, <1>4, <1>5, <1>10, <3>2
    <3> DEFINE s == given'
               a == base
    <3>4. /\ s \in Seq(Byte) /\ a \in Nat /\ a % 4 = 0 /\ FW_START <= a /\ a < FW_START + Len(s)
          /\ FW_START + Len(s) < a + 4 /\ FW_START + Len(s) - a = r + 1
      BY <1>4, <1>5, <3>3
    <3> HIDE DEF s, a
    <3>5. /\ tail_of(s) \in Seq(Bytes) /\ Len(tail_of(s)) = r + 1
          /\ \A i \in 1 .. r + 1 : tail_of(s)[i] = value_of_byte[meant(s, a + (i - 1))]
      BY <3>4, TailIs
    <3> DEFINE t == tail_of(s)
    <3>6. t \in Seq(Bytes) /\ Len(t) = Len(block) /\ \A i \in 1 .. Len(t) : t[i] = block[i]
      BY <1>7, <3>5 DEF s, a
    <3> HIDE DEF t
    <3>7. t = block
      BY <1>7, <3>6, SeqEqual
    <3> QED BY <3>1, <3>7 DEF t, s
  <2>3. state' = [state EXCEPT !.buffer = Append(@, v)]
    <3>1. state' = [address |-> base, buffer |-> Append(c, v)]
      BY <1>3, <1>8, <1>10, <2>2 DEF block
    <3>2. [state EXCEPT !.buffer = Append(@, v)] = [address |-> base, buffer |-> Append(c, v)]
      BY <1>8
    <3> QED BY <3>1, <3>2
  <2>4. area(flash)' = area(flash)
    BY <1>3, <1>10 DEF area
  <2>5. Hal!Write(v)
    BY <2>1, <2>3, <2>4 DEF Hal!Write, state, area
  <2> QED BY <1>2, <2>5
<1> QED BY <1>9, <1>10

\* The last turn of the loop of program_finish() is Finish(); the others change nothing
\* the loader knows of.
LEMMA PadRefines ==
  IInv /\ program_finish_pads => Hal!Finish \/ (area(flash)' = area(flash) /\ state' = state)
<1> SUFFICES ASSUME IInv, program_finish_pads
             PROVE  Hal!Finish \/ (area(flash)' = area(flash) /\ state' = state)
  OBVIOUS
<1>1. Takes(Ones) /\ Ones \in Byte /\ incomplete(prog_addr) /\ given' = given /\ collecting
  BY PadTakes DEF Ones, Byte, program_finish_pads, collecting
<1> DEFINE n == prog_addr
           r == n % 4
           c == collected
           l == FW_START + Len(given) - base
           block == Hal!pad(c)
<1>2. /\ align_down(prog_addr, 4) = base /\ align_down(prog_addr, 4)' = base' /\ r \in 0 .. 3
      /\ r = 3 => base' = base + 4 /\ ~incomplete(prog_addr)'
      /\ r # 3 => base' = base /\ incomplete(prog_addr)' /\ flash' = flash
  BY <1>1, AddressTaken
<1>3. /\ state = [address |-> base, buffer |-> c]
      /\ state' = [address |-> base', buffer |-> collected']
  BY <1>2 DEF state
<1>4. base < FW_START + Len(given)
  BY <1>1 DEF Takes
<1>5. /\ l \in 1 .. 3 /\ c \in Seq(Bytes) /\ Len(c) = l
      /\ \A i \in 1 .. l : c[i] = value_of_byte[meant(given, base + (i - 1))]
  <2>1. l = IF incomplete(prog_addr) THEN FW_START + Len(given) - base ELSE 0
    BY <1>1
  <2> HIDE DEF l
  <2>2. /\ l \in 0 .. 3 /\ (l = 0 <=> ~incomplete(prog_addr))
        /\ collected \in Seq(Bytes) /\ Len(collected) = l
        /\ \A i \in 1 .. l : collected[i] = value_of_byte[meant(given, base + (i - 1))]
    BY <1>1, <1>4, <2>1, CollectedIs
  <2> QED BY <1>1, <2>2
<1> HIDE DEF c
<1>6. CASE r = 3
  <2>1. Hal!last_block(state) = block /\ block # <<>>
    <3>1. state.buffer = c /\ c # <<>>
      BY <1>3, <1>5
    <3>2. block = [i \in 1 .. 4 |-> IF i <= Len(c) THEN c[i] ELSE RADIX - 1]
      BY DEF Hal!pad, Hal!ERASED
    <3>3. block # <<>>
      <4>1. Len(block) = 4
        <5> HIDE DEF block
        <5> QED BY <3>2
      <4> HIDE DEF block
      <4> QED BY <4>1
    <3> QED BY <3>1, <3>3 DEF Hal!last_block
  <2>2. \A i \in 1 .. 4 : block[i] = value_of_byte[meant(given', base + (i - 1))]
    <3> TAKE i \in 1 .. 4
    <3>1. block[i] = IF i <= l THEN c[i] ELSE RADIX - 1
      BY <1>5 DEF Hal!pad, Hal!ERASED
    <3>2. CASE i <= l
      BY <1>1, <1>5, <3>1, <3>2
    <3>3. CASE ~(i <= l)
      <4>1. base \in Nat /\ FW_START \in Nat /\ Len(given) \in Nat
        <5>1. prog_addr \in Nat /\ given \in Seq(Byte)
          BY Geometry DEF IInv, TypeOK, Counted
        <5> QED BY <5>1, BaseIs, Geometry, LenProperties DEF base
      <4>2. ~((base + (i - 1)) - FW_START < Len(given))
        BY <1>5, <3>3, <4>1
      <4>3. meant(given, base + (i - 1)) = Ones
        BY <4>2 DEF meant
      <4> QED BY <1>1, <3>1, <3>3, <4>3, ValueOfByteType
    <3> QED BY <3>2, <3>3
  <2> HIDE DEF block
  <2>3. collected' = <<>>
    BY <1>2, <1>6 DEF collected
  <2>4. state' = [address |-> state.address + 4, buffer |-> <<>>]
    BY <1>2, <1>3, <1>6, <2>3
  <2>5. area(flash)' = Hal!commit(area(flash), base, block)
    BY <1>1, <1>6, <2>2, WordTaken
  <2>6. area(flash)' = Hal!commit(area(flash), state.address, Hal!last_block(state))
    BY <1>3, <2>1, <2>5
  <2>7. Hal!last_block(state) # <<>>
    BY <2>1
  <2> QED BY <2>4, <2>6, <2>7 DEF Hal!Finish, Hal!write_block, state, area
<1>7. CASE r # 3
  <2>1. collected' = collected
    BY <1>1, <1>2, <1>7 DEF collected
  <2>2. area(flash)' = area(flash)
    BY <1>2, <1>7 DEF area
  <2> QED BY <1>2, <1>3, <1>7, <2>1, <2>2 DEF c
<1> QED BY <1>6, <1>7

\* A step that leaves the firmware area and what is being collected alone.
Unseen == area(flash)' = area(flash) /\ state' = state

LEMMA AreaKept ==
  ASSUME \A a \in Addresses : FW_START <= a => flash'[a] = flash[a]
  PROVE  area(flash)' = area(flash)
<1>1. \A a \in FW_START .. FLASH_SIZE - 1 : a \in Addresses /\ FW_START <= a
  BY Geometry DEF Addresses
<1> QED BY <1>1 DEF area

\* What HalProgramming, and so the loader, assumes of a board holds on this one: a
\* firmware area of whole pages, pages of whole words, and bytes that may be programmed
\* once after they were erased and are then what they were meant to be.  (These are
\* GeometryAssumption of FirmwareArea and HalAssumption of HalProgramming, for Hal.)
THEOREM BoardFitsLoader ==
  /\ FW_START \in Nat /\ FLASH_SIZE \in Nat /\ PAGE \in Nat \ {0} /\ RADIX \in Nat \ {0, 1}
  /\ FW_START < FLASH_SIZE /\ FW_START % PAGE = 0 /\ PAGE % 4 = 0
  /\ \A b \in Hal!Byte : and_bits(Hal!ERASED, b) = b
  /\ \A old, new \in Hal!Byte : and_bits(old, new) \in Hal!Byte
<1>1. Hal!Byte = 0 .. RADIX - 1 /\ Hal!ERASED = RADIX - 1
  BY DEF Hal!Byte, Hal!ERASED
<1>2. RADIX \in Nat \ {0, 1}
  BY ValueOfByte
<1>3. ASSUME NEW b \in 0 .. RADIX - 1 PROVE and_bits(RADIX - 1, b) = b
  <2>1. Ones \in Byte /\ value_of_byte[Ones] = RADIX - 1
    BY ValueOfByteType DEF Byte, Ones
  <2>2. byte_of(RADIX - 1) = Ones
    BY <2>1, ByteOfValue
  <2>3. byte_of(b) \in Byte /\ value_of_byte[byte_of(b)] = b
    BY ValueOfByte
  <2>4. Ones \cap byte_of(b) = byte_of(b)
    BY <2>3 DEF Byte, Ones
  <2> QED BY <2>2, <2>3, <2>4 DEF and_bits
<1>4. ASSUME NEW old \in 0 .. RADIX - 1, NEW new \in 0 .. RADIX - 1
      PROVE  and_bits(old, new) \in 0 .. RADIX - 1
  <2>1. byte_of(old) \in Byte
    BY ValueOfByte
  <2>2. byte_of(old) \cap byte_of(new) \in Byte
    BY <2>1 DEF Byte
  <2> QED BY <2>2, ValueOfByteType DEF and_bits
<1> QED BY <1>1, <1>2, <1>3, <1>4, TestGeometryAssumption, ControllerAssumption

\* The HAL of the test loader is the one NanoLoader is shown to work with: down to
\* the stores it performs, in whatever state the controller was left, every call does
\* what HalProgramming promises.
THEOREM HalKeepsPromise == Spec => ProgramsAsPromised
<1>1. Init => Hal!HalInit
  <2> SUFFICES ASSUME Init PROVE Hal!HalInit
    OBVIOUS
  <2>1. prog_addr = 0 /\ ~incomplete(prog_addr) /\ align_down(0, 4) = 0
    BY DEF Init, incomplete, align_down
  <2>2. state = [address |-> 0, buffer |-> <<>>]
    BY <2>1 DEF state, collected
  <2>3. area(flash) \in [FW_START .. FLASH_SIZE - 1 -> Bytes]
    <3>1. flash \in Memory
      BY InitIInv DEF IInv, TypeOK, Memory
    <3>2. \A a \in FW_START .. FLASH_SIZE - 1 : flash[a] \in Byte
      BY <3>1, Geometry DEF Memory, Addresses
    <3>3. \A a \in FW_START .. FLASH_SIZE - 1 : value_of_byte[flash[a]] \in Bytes
      BY <3>2, ValueOfByteType DEF Bytes
    <3> QED BY <3>3 DEF area
  <2> QED
    BY <2>2, <2>3 DEF Hal!HalInit, Hal!Idle, Hal!Memory, Hal!fwarea, Hal!Byte, state, area, Bytes
<1>2. ASSUME IInv, [Next]_vars PROVE Hal!HalNext \/ Unseen
  <2>1. flash \in Memory /\ reg \in Registers
    BY <1>2 DEF IInv, TypeOK, Memory, Registers
  <2>2. UNCHANGED <<prog_addr, given>> => state' = state
    BY DEF state, collected
  <2>3. UNCHANGED flash => area(flash)' = area(flash)
    BY DEF area
  <2>4. CASE update_address \/ program_finish \/ started \/ UNCHANGED vars
    BY <2>2, <2>3, <2>4 DEF update_address, program_finish, started, vars, controller, hal, Unseen
  <2>5. CASE update_clear
    <3>1. area(flash)' = area(flash)
      <4>1. CASE update_find = NoEntry
        BY <2>3, <2>5, <4>1 DEF update_clear, controller
      <4>2. CASE update_find # NoEntry
        <5>1. perform(programming(entry_address(update_find), AllZeros))
          BY <2>5, <4>2 DEF update_clear
        <5>2. update_find \in Entries
          BY <4>2, FoundEntry
        <5> QED BY <2>1, <5>1, <5>2, Constants, LogWrite, AreaKept
      <4> QED BY <4>1, <4>2
    <3> QED BY <2>2, <2>5, <3>1 DEF update_clear, hal, Unseen
  <2>6. CASE request_update
    <3>1. PICK i \in free, r \in Requests : perform(programming(entry_address(i), r))
      BY <2>6 DEF request_update
    <3>2. i \in Entries /\ r \in Word
      BY TestGeometryAssumption DEF free
    <3>3. area(flash)' = area(flash)
      BY <2>1, <3>1, <3>2, LogWrite, AreaKept
    <3> QED BY <2>2, <2>6, <3>3 DEF request_update, hal, Unseen
  <2>7. CASE program_start
    <3>1. prog_addr' = FW_START /\ area(flash)' = area(flash)
      BY <2>3, <2>7 DEF program_start, first_address, controller
    <3>2. align_down(prog_addr, 4)' = FW_START /\ ~incomplete(prog_addr)'
      <4>1. FW_START \in Nat /\ FW_START % 4 = 0
        BY Geometry
      <4>2. align_down(FW_START, 4) = FW_START
        BY <4>1, WordBase
      <4>3. align_down(prog_addr, 4)' = align_down(FW_START, 4)
        BY <3>1 DEF align_down
      <4> QED BY <3>1, <4>1, <4>2, <4>3 DEF incomplete
    <3>3. state' = [address |-> FW_START, buffer |-> <<>>]
      BY <3>2 DEF state, collected
    <3>4. Hal!Start
      BY <3>1, <3>3 DEF Hal!Start, state, area
    <3> QED BY <3>4 DEF Hal!HalNext
  <2>8. CASE program_write
    <3>1. PICK v \in Bytes : Hal!Write(v)
      BY <1>2, <2>8, WriteRefines
    <3> QED BY <3>1 DEF Hal!HalNext, Hal!Byte, Bytes
  <2>9. CASE program_finish_pads
    BY <1>2, <2>9, PadRefines DEF Hal!HalNext, Unseen
  <2>10. CASE boots_again
    <3>1. prog_addr' = 0 /\ area(flash)' = area(flash)
      BY <2>3, <2>10 DEF boots_again, controller
    <3>2. align_down(prog_addr, 4)' = 0 /\ ~incomplete(prog_addr)'
      BY <3>1 DEF align_down, incomplete
    <3>3. state' = [address |-> 0, buffer |-> <<>>]
      BY <3>2 DEF state, collected
    <3>4. Hal!Restart
      BY <3>1, <3>3 DEF Hal!Restart, Hal!Idle, state, area
    <3> QED BY <3>4 DEF Hal!HalNext
  <2> QED BY <1>2, <2>4, <2>5, <2>6, <2>7, <2>8, <2>9, <2>10 DEF Next, Loader
<1>3. IInv /\ [Next]_vars =>
        [Hal!HalNext]_<<[a \in FW_START .. FLASH_SIZE - 1 |-> value_of_byte[flash[a]]],
                        [address |-> align_down(prog_addr, 4), buffer |-> collected]>>
  BY <1>2 DEF Unseen, area, state
<1> QED BY <1>1, <1>3, Invariance, PTL DEF Spec, ProgramsAsPromised, Hal!HalSpec

-----------------------------------------------------------------------------
(***************************************************************************)
(* The log is a queue.  Entries are used and retired from the first to the *)
(* last, so that the log is made of retired entries, then requests, then   *)
(* free ones; nothing but update_clear() touches it between the two        *)
(* searches of a boot, programming the firmware included.                  *)
(***************************************************************************)

EntryWords == Requests \cup {AllZeros, AllOnes}

oldest_of(l) == first({ i \in Entries : l[i] # AllZeros })
unused_of(l) == first({ i \in Entries : l[i] = AllOnes })
queue_of(l)  == SubSeq(l, oldest_of(l), unused_of(l) - 1)

\* The log as it can be.
Logs ==
  { l \in [Entries -> EntryWords] :
      \A i, j \in Entries : i < j => /\ l[j] = AllZeros => l[i] = AllZeros
                                     /\ l[i] = AllOnes => l[j] = AllOnes }

log == [i \in Entries |-> entry(i)]

\* What the boot was told of is what the log would tell it again.
Stands ==
  pc \in {"process_update", "programming", "finishing", "finished"} /\ answer # AllOnes =>
    update_find # NoEntry /\ answer = entry(update_find)

\* The inductive invariant, on top of that of programming.
LogInv == log \in Logs /\ Stands

LEMMA FirstType ==
  ASSUME NEW S \in SUBSET Entries
  PROVE  /\ first(S) \in 1 .. OPTS + 1
         /\ first(S) \in S \/ first(S) = OPTS + 1
         /\ \A i \in S : first(S) <= i
<1> DEFINE T == S \cup {OPTS + 1}
<1>1. T \in SUBSET Nat /\ T # {} /\ OPTS \in Nat
  BY TestGeometryAssumption DEF Entries
<1>2. Min(T) \in T /\ \A n \in T : Min(T) <= n
  BY <1>1, MinIsLeast
<1>3. first(S) = Min(T)
  BY DEF first
<1> HIDE DEF T
<1>4. first(S) \in T /\ \A n \in T : first(S) <= n
  BY <1>2, <1>3
<1>5. (first(S) \in S \/ first(S) = OPTS + 1) /\ \A i \in S : first(S) <= i
  BY <1>4 DEF T
<1>6. \A i \in S : i \in 1 .. OPTS
  BY DEF Entries
<1>7. first(S) \in 1 .. OPTS + 1
  BY <1>1, <1>5, <1>6
<1> QED BY <1>5, <1>7

\* No other entry has these properties.
LEMMA FirstIs ==
  ASSUME NEW S \in SUBSET Entries, NEW k \in 1 .. OPTS + 1,
         k \in S \/ k = OPTS + 1, \A i \in S : k <= i
  PROVE  first(S) = k
<1>1. OPTS \in Nat /\ first(S) \in Nat /\ k \in Nat
  BY FirstType, TestGeometryAssumption
<1>2. k <= first(S)
  BY <1>1, FirstType
<1>3. first(S) <= k
  BY <1>1, FirstType
<1> QED BY <1>1, <1>2, <1>3

\* The log: retired entries, then requests, then free ones.
LEMMA Layout ==
  ASSUME NEW l \in Logs
  PROVE  /\ oldest_of(l) \in 1 .. OPTS + 1 /\ unused_of(l) \in 1 .. OPTS + 1
         /\ oldest_of(l) <= unused_of(l) /\ OPTS \in Nat /\ Entries = 1 .. OPTS
         /\ \A i \in Entries : i < oldest_of(l) <=> l[i] = AllZeros
         /\ \A i \in Entries : i < unused_of(l) <=> l[i] # AllOnes
<1> DEFINE A == { i \in Entries : l[i] # AllZeros }
           B == { i \in Entries : l[i] = AllOnes }
           a == oldest_of(l)
           b == unused_of(l)
<1>1. A \in SUBSET Entries /\ B \in SUBSET Entries /\ B \subseteq A
  BY Constants
<1>2. a = first(A) /\ b = first(B)
  BY DEF oldest_of, unused_of
<1>3. OPTS \in Nat /\ Entries = 1 .. OPTS
  BY TestGeometryAssumption DEF Entries
<1> HIDE DEF A, B, a, b
<1>4. /\ a \in 1 .. OPTS + 1 /\ (a \in A \/ a = OPTS + 1) /\ \A i \in A : a <= i
      /\ b \in 1 .. OPTS + 1 /\ (b \in B \/ b = OPTS + 1) /\ \A i \in B : b <= i
  BY <1>1, <1>2, FirstType
<1>5. a <= b
  BY <1>1, <1>3, <1>4
<1>6. \A i, j \in Entries : i < j => /\ l[j] = AllZeros => l[i] = AllZeros
                                     /\ l[i] = AllOnes => l[j] = AllOnes
  BY DEF Logs
<1>7. ASSUME NEW i \in Entries
      PROVE  (i < a <=> l[i] = AllZeros) /\ (i < b <=> l[i] # AllOnes)
  <2>1. i \in 1 .. OPTS /\ a \in Nat /\ b \in Nat
    BY <1>3, <1>4, <1>7
  <2>2. i < a => l[i] = AllZeros
    <3>1. i < a => i \notin A
      BY <1>4, <2>1
    <3> QED BY <1>7, <3>1 DEF A
  <2>3. ~(i < a) => l[i] # AllZeros
    <3>1. SUFFICES ASSUME a <= i PROVE l[i] # AllZeros
      BY <2>1
    <3>2. a \in A
      BY <1>3, <1>4, <2>1, <3>1
    <3>3. a \in Entries /\ l[a] # AllZeros
      BY <3>2 DEF A
    <3>4. a = i \/ a < i
      BY <2>1, <3>1
    <3> QED BY <1>6, <3>3, <3>4
  <2>4. i < b => l[i] # AllOnes
    <3>1. i < b => i \notin B
      BY <1>4, <2>1
    <3> QED BY <1>7, <3>1 DEF B
  <2>5. ~(i < b) => l[i] = AllOnes
    <3>1. SUFFICES ASSUME b <= i PROVE l[i] = AllOnes
      BY <2>1
    <3>2. b \in B
      BY <1>3, <1>4, <2>1, <3>1
    <3>3. b \in Entries /\ l[b] = AllOnes
      BY <3>2 DEF B
    <3>4. b = i \/ b < i
      BY <2>1, <3>1
    <3> QED BY <1>6, <3>3, <3>4
  <2> QED BY <2>2, <2>3, <2>4, <2>5
<1>8. (\A i \in Entries : i < a <=> l[i] = AllZeros) /\ (\A i \in Entries : i < b <=> l[i] # AllOnes)
  BY <1>7
<1> QED BY <1>3, <1>4, <1>5, <1>8 DEF a, b

\* Where the parts of a log begin, if they are known.
LEMMA LayoutIs ==
  ASSUME NEW l \in Logs, NEW a \in 1 .. OPTS + 1, NEW b \in 1 .. OPTS + 1,
         \A i \in Entries : i < a <=> l[i] = AllZeros,
         \A i \in Entries : i < b <=> l[i] # AllOnes
  PROVE  oldest_of(l) = a /\ unused_of(l) = b
<1> DEFINE A == { i \in Entries : l[i] # AllZeros }
           B == { i \in Entries : l[i] = AllOnes }
<1>1. OPTS \in Nat /\ Entries = 1 .. OPTS
  BY TestGeometryAssumption DEF Entries
<1>2. A \in SUBSET Entries /\ B \in SUBSET Entries
  OBVIOUS
<1>3. (a \in A \/ a = OPTS + 1) /\ \A i \in A : a <= i
  <2>1. \A i \in Entries : i \in A <=> ~(i < a)
    OBVIOUS
  <2> HIDE DEF A
  <2> QED BY <1>1, <1>2, <2>1
<1>4. (b \in B \/ b = OPTS + 1) /\ \A i \in B : b <= i
  <2>1. \A i \in Entries : i \in B <=> ~(i < b)
    OBVIOUS
  <2> HIDE DEF B
  <2> QED BY <1>1, <1>2, <2>1
<1>5. oldest_of(l) = first(A) /\ unused_of(l) = first(B)
  BY DEF oldest_of, unused_of
<1> HIDE DEF A, B
<1> QED BY <1>2, <1>3, <1>4, <1>5, FirstIs

\* update_find() finds the oldest request, if there is one.
LEMMA FindsOldest ==
  ASSUME log \in Logs
  PROVE  /\ update_find # NoEntry <=> oldest_of(log) < unused_of(log)
         /\ update_find # NoEntry =>
              update_find = oldest_of(log) /\ oldest_of(log) \in Entries /\ entry(oldest_of(log)) = log[oldest_of(log)]
<1> DEFINE a == oldest_of(log)
           b == unused_of(log)
<1>1. /\ a \in 1 .. OPTS + 1 /\ b \in 1 .. OPTS + 1
      /\ a <= b /\ OPTS \in Nat /\ Entries = 1 .. OPTS
      /\ \A i \in Entries : i < a <=> log[i] = AllZeros
      /\ \A i \in Entries : i < b <=> log[i] # AllOnes
  BY Layout
<1>2. \A i \in Entries : log[i] = entry(i)
  BY DEF log
<1> HIDE DEF a, b
<1>3. \A i \in Entries : i \in open <=> a <= i
  <2>1. \A i \in Entries : i \in open <=> ~(i < a)
    BY <1>1, <1>2 DEF open
  <2> QED BY <1>1, <2>1
<1>4. open \in SUBSET Nat /\ open \subseteq Entries
  BY <1>1 DEF open
<1>5. CASE a = OPTS + 1
  <2>1. open = {}
    BY <1>1, <1>3, <1>4, <1>5
  <2>2. update_find = NoEntry
    BY <2>1 DEF update_find
  <2> QED BY <1>1, <1>5, <2>2 DEF a, b
<1>6. CASE a # OPTS + 1
  <2>1. a \in Entries /\ a \in open
    BY <1>1, <1>3, <1>6
  <2>2. Min(open) \in open /\ \A i \in open : Min(open) <= i
    BY <1>4, <2>1, MinIsLeast
  <2>3. Min(open) = a
    <3>1. Min(open) \in Nat /\ a \in Nat /\ Min(open) <= a /\ a <= Min(open)
      BY <1>1, <1>3, <1>4, <2>1, <2>2
    <3> QED BY <3>1
  <2>4. update_find = IF entry(a) = AllOnes THEN NoEntry ELSE a
    BY <2>1, <2>3 DEF update_find
  <2>5. entry(a) # AllOnes <=> a < b
    BY <1>1, <1>2, <2>1
  <2>6. a # NoEntry
    BY <1>1 DEF NoEntry
  <2> QED BY <1>2, <2>1, <2>4, <2>5, <2>6 DEF a, b
<1> QED BY <1>5, <1>6

LEMMA LogIsSeq ==
  ASSUME NEW l \in Logs
  PROVE  /\ l \in Seq(EntryWords) /\ Len(l) = OPTS /\ OPTS \in Nat /\ Entries = 1 .. OPTS
         /\ \A i \in 1 .. OPTS : l[i] \in EntryWords
<1>1. OPTS \in Nat /\ Entries = 1 .. OPTS
  BY TestGeometryAssumption DEF Entries
<1>2. l \in [1 .. OPTS -> EntryWords]
  BY <1>1 DEF Logs
<1> QED BY <1>1, <1>2, FunctionIsSeq

\* Retiring the oldest request leaves the rest of the queue.
LEMMA RetireStep ==
  ASSUME NEW l \in Logs, NEW k, k = oldest_of(l), k < unused_of(l)
  PROVE  /\ [l EXCEPT ![k] = AllZeros] \in Logs
         /\ queue_of([l EXCEPT ![k] = AllZeros]) = Tail(queue_of(l))
         /\ queue_of(l) # <<>> /\ Head(queue_of(l)) = l[k]
<1> DEFINE b == unused_of(l)
           m == [l EXCEPT ![k] = AllZeros]
<1>1. /\ k \in 1 .. OPTS + 1 /\ b \in 1 .. OPTS + 1 /\ k < b
      /\ \A i \in Entries : i < k <=> l[i] = AllZeros
      /\ \A i \in Entries : i < b <=> l[i] # AllOnes
  BY Layout
<1>2. l \in Seq(EntryWords) /\ Len(l) = OPTS /\ OPTS \in Nat /\ Entries = 1 .. OPTS
      /\ \A i \in 1 .. OPTS : l[i] \in EntryWords
  BY LogIsSeq
<1> HIDE DEF b
<1>3. k \in Entries /\ b - 1 \in k .. OPTS
  BY <1>1, <1>2
<1>4. m \in [Entries -> EntryWords] /\ \A i \in Entries : m[i] = IF i = k THEN AllZeros ELSE l[i]
  BY <1>3 DEF Logs, EntryWords
<1> HIDE DEF m
<1>5. \A i \in Entries : i < k + 1 <=> m[i] = AllZeros
  <2>1. \A i \in Entries : i < k + 1 <=> i < k \/ i = k
    BY <1>1, <1>2
  <2> QED BY <1>1, <1>4, <2>1
<1>6. \A i \in Entries : i < b <=> m[i] # AllOnes
  BY <1>1, <1>3, <1>4, Constants
<1>7. m \in Logs
  <2>1. ASSUME NEW i \in Entries, NEW j \in Entries, i < j
        PROVE  (m[j] = AllZeros => m[i] = AllZeros) /\ (m[i] = AllOnes => m[j] = AllOnes)
    <3>1. (j < k + 1 => i < k + 1) /\ (~(i < b) => ~(j < b))
      BY <1>1, <1>2, <2>1
    <3> QED BY <1>5, <1>6, <3>1
  <2> QED BY <1>4, <2>1 DEF Logs
<1>8. oldest_of(m) = k + 1 /\ unused_of(m) = b
  <2>1. k + 1 \in 1 .. OPTS + 1 /\ b \in 1 .. OPTS + 1
    BY <1>1, <1>2, <1>3
  <2> DEFINE a == k + 1
  <2>2. a \in 1 .. OPTS + 1 /\ \A i \in Entries : i < a <=> m[i] = AllZeros
    BY <1>5, <2>1
  <2> HIDE DEF a
  <2>3. oldest_of(m) = a /\ unused_of(m) = b
    BY <1>6, <1>7, <2>1, <2>2, LayoutIs
  <2> QED BY <2>3 DEF a
<1>9. queue_of(l) = SubSeq(l, k, b - 1) /\ queue_of(m) = SubSeq(m, k + 1, b - 1)
  BY <1>8 DEF queue_of, b
<1>10. Head(SubSeq(l, k, b - 1)) = l[k] /\ Tail(SubSeq(l, k, b - 1)) = SubSeq(l, k + 1, b - 1)
  <2> DEFINE c == b - 1
  <2>1. k \in 1 .. Len(l) /\ c \in k .. Len(l)
    BY <1>2, <1>3
  <2> HIDE DEF c
  <2>2. Head(SubSeq(l, k, c)) = l[k] /\ Tail(SubSeq(l, k, c)) = SubSeq(l, k + 1, c)
    BY <1>2, <2>1, HeadTailOfSubSeq
  <2> QED BY <2>2 DEF c
<1>11. SubSeq(m, k + 1, b - 1) = SubSeq(l, k + 1, b - 1)
  <2> DEFINE a == k + 1
             c == b - 1
             p == SubSeq(l, a, c)
             q == SubSeq(m, a, c)
  <2>1. a \in Int /\ c \in Int /\ \A i \in a .. c : i \in Entries /\ i # k
    BY <1>1, <1>2, <1>3
  <2>2. \A i \in a .. c : m[i] = l[i] /\ l[i] \in EntryWords /\ m[i] \in EntryWords
    BY <1>2, <1>4, <2>1
  <2> HIDE DEF a, c
  <2>3. /\ p \in Seq(EntryWords) /\ Len(p) = IF a <= c THEN c - a + 1 ELSE 0
        /\ \A i \in 1 .. c - a + 1 : p[i] = l[a + i - 1]
    BY <2>1, <2>2, SubSeqProperties
  <2>4. /\ q \in Seq(EntryWords) /\ Len(q) = IF a <= c THEN c - a + 1 ELSE 0
        /\ \A i \in 1 .. c - a + 1 : q[i] = m[a + i - 1]
    BY <2>1, <2>2, SubSeqProperties
  <2> HIDE DEF p, q
  <2>5. \A i \in 1 .. Len(p) : i \in 1 .. c - a + 1 /\ a + i - 1 \in a .. c
    BY <2>1, <2>3
  <2>6. \A i \in 1 .. Len(p) : p[i] = q[i]
    BY <2>2, <2>3, <2>4, <2>5
  <2>7. p = q
    BY <2>3, <2>4, <2>6, SeqEqual
  <2> QED BY <2>7 DEF p, q, a, c
<1>12. queue_of(l) # <<>>
  <2> DEFINE c == b - 1
  <2>1. k \in Int /\ c \in Int /\ k <= c /\ c - k + 1 > 0 /\ \A i \in k .. c : i \in 1 .. OPTS
    BY <1>1, <1>2, <1>3
  <2> HIDE DEF c
  <2>2. \A i \in k .. c : l[i] \in EntryWords
    BY <1>2, <2>1
  <2> DEFINE q == SubSeq(l, k, c)
  <2>3. q \in Seq(EntryWords) /\ Len(q) = c - k + 1
    BY <2>1, <2>2, SubSeqProperties
  <2> HIDE DEF q
  <2>4. q # <<>>
    BY <2>1, <2>3
  <2> QED BY <1>9, <2>4 DEF q, c
<1> QED BY <1>7, <1>9, <1>10, <1>11, <1>12 DEF m

\* A request takes the first free entry and becomes the latest.
LEMMA AppendStep ==
  ASSUME NEW l \in Logs, NEW k \in Entries, l[k] = AllOnes,
         \A j \in 1 .. k - 1 : l[j] # AllOnes, NEW r \in Requests
  PROVE  /\ [l EXCEPT ![k] = r] \in Logs
         /\ queue_of([l EXCEPT ![k] = r]) = Append(queue_of(l), r)
<1> DEFINE a == oldest_of(l)
           b == unused_of(l)
           m == [l EXCEPT ![k] = r]
<1>1. /\ a \in 1 .. OPTS + 1 /\ b \in 1 .. OPTS + 1 /\ a <= b
      /\ \A i \in Entries : i < a <=> l[i] = AllZeros
      /\ \A i \in Entries : i < b <=> l[i] # AllOnes
  BY Layout
<1>2. l \in Seq(EntryWords) /\ Len(l) = OPTS /\ OPTS \in Nat /\ Entries = 1 .. OPTS
  BY LogIsSeq
<1>3. r \in EntryWords /\ r # AllZeros /\ r # AllOnes
  BY TestGeometryAssumption DEF EntryWords
<1> HIDE DEF a, b
<1>4. k = b /\ a <= k /\ k \in 1 .. OPTS
  <2>1. ~(k < b) /\ k \in 1 .. OPTS
    BY <1>1, <1>2
  <2>2. ~(b < k)
    <3>1. SUFFICES ASSUME b < k PROVE FALSE
      OBVIOUS
    <3>2. b \in 1 .. k - 1 /\ b \in Entries /\ ~(b < b)
      BY <1>1, <1>2, <2>1, <3>1
    <3> QED BY <1>1, <3>2
  <2> QED BY <1>1, <2>1, <2>2
<1>5. m \in [Entries -> EntryWords] /\ \A i \in Entries : m[i] = IF i = k THEN r ELSE l[i]
  BY <1>3 DEF Logs
<1> HIDE DEF m
<1>6. \A i \in Entries : i < a <=> m[i] = AllZeros
  <2>1. ~(k < a)
    BY <1>1, <1>4
  <2> QED BY <1>1, <1>3, <1>5, <2>1
<1>7. \A i \in Entries : i < k + 1 <=> m[i] # AllOnes
  <2>1. \A i \in Entries : i < k + 1 <=> i < k \/ i = k
    BY <1>2, <1>4
  <2> QED BY <1>1, <1>3, <1>4, <1>5, <2>1
<1>8. m \in Logs
  <2>1. ASSUME NEW i \in Entries, NEW j \in Entries, i < j
        PROVE  (m[j] = AllZeros => m[i] = AllZeros) /\ (m[i] = AllOnes => m[j] = AllOnes)
    <3>1. (j < a => i < a) /\ (~(i < k + 1) => ~(j < k + 1))
      BY <1>1, <1>2, <1>4, <2>1
    <3> QED BY <1>6, <1>7, <3>1
  <2> QED BY <1>5, <2>1 DEF Logs
<1>9. oldest_of(m) = a /\ unused_of(m) = k + 1
  <2> DEFINE c == k + 1
  <2>1. c \in 1 .. OPTS + 1 /\ \A i \in Entries : i < c <=> m[i] # AllOnes
    BY <1>2, <1>4, <1>7
  <2> HIDE DEF c
  <2>2. oldest_of(m) = a /\ unused_of(m) = c
    BY <1>1, <1>6, <1>8, <2>1, LayoutIs
  <2> QED BY <2>2 DEF c
<1>10. queue_of(l) = SubSeq(l, a, k - 1) /\ queue_of(m) = SubSeq(m, a, k)
  <2>1. (k + 1) - 1 = k
    BY <1>4
  <2> QED BY <1>4, <1>9, <2>1 DEF queue_of, a, b
<1>11. a \in 1 .. Len(l) /\ k \in a .. Len(l)
  BY <1>1, <1>2, <1>4
<1>12. SubSeq([l EXCEPT ![k] = r], a, k) = Append(SubSeq(l, a, k - 1), r)
  BY <1>2, <1>3, <1>11, AppendToPart
<1> QED BY <1>8, <1>10, <1>12 DEF m

\* The queue is that of the log, before and after a step.
LEMMA QueueIs == queue = queue_of(log) /\ queue' = queue_of(log')
<1>1. \A i \in Entries : log[i] = entry(i) /\ log'[i] = entry(i)'
  BY DEF log
<1>2. open = { i \in Entries : log[i] # AllZeros } /\ open' = { i \in Entries : log'[i] # AllZeros }
  BY <1>1 DEF open
<1>3. /\ { i \in Entries : entry(i) = AllOnes } = { i \in Entries : log[i] = AllOnes }
      /\ { i \in Entries : entry(i)' = AllOnes } = { i \in Entries : log'[i] = AllOnes }
  BY <1>1
<1>4. oldest = oldest_of(log) /\ oldest' = oldest_of(log')
  BY <1>2 DEF oldest, oldest_of
<1>5. unused = unused_of(log) /\ unused' = unused_of(log')
  BY <1>3 DEF unused, unused_of
<1> QED BY <1>4, <1>5 DEF queue, queue_of, log

\* A step that leaves the log alone.
LEMMA LogKept ==
  ASSUME log' = log
  PROVE  queue' = queue /\ update_find' = update_find /\ \A i \in Entries : entry(i)' = entry(i)
<1>1. queue' = queue
  BY QueueIs
<1>2. \A i \in Entries : entry(i)' = entry(i)
  <2>1. \A i \in Entries : log[i] = entry(i) /\ log'[i] = entry(i)'
    BY DEF log
  <2> QED BY <2>1
<1>3. open' = open /\ open \subseteq Entries /\ open \in SUBSET Nat
  BY <1>2 DEF open, Entries
<1>4. open # {} => entry(Min(open))' = entry(Min(open))
  BY <1>2, <1>3, MinIsLeast
<1>5. update_find' = update_find
  <2>1. CASE open = {}
    BY <1>3, <2>1 DEF update_find
  <2>2. CASE open # {}
    <3> DEFINE k == Min(open)
    <3>1. Min(open)' = k /\ entry(k)' = entry(k) /\ k \in Entries
      BY <1>2, <1>3, <2>2, MinIsLeast
    <3>2. update_find = IF entry(k) = AllOnes THEN NoEntry ELSE k
      BY <2>2 DEF update_find
    <3>3. update_find' = IF entry(k) = AllOnes THEN NoEntry ELSE k
      BY <1>3, <1>4, <2>2, <3>1 DEF update_find
    <3> QED BY <3>2, <3>3
  <2> QED BY <2>1, <2>2
<1> QED BY <1>1, <1>2, <1>5

\* Programming the firmware leaves the log alone.
LEMMA LogBelow ==
  ASSUME \A a \in Addresses : a < FW_START => flash'[a] = flash[a]
  PROVE  log' = log
<1>1. ASSUME NEW i \in Entries, NEW k \in 1 .. 4
      PROVE  flash'[entry_address(i) + k - 1] = flash[entry_address(i) + k - 1]
  <2> DEFINE p == entry_address(i)
  <2>1. p \in Nat /\ p + 4 <= FW_START /\ FW_START \in Nat /\ FW_START <= FLASH_SIZE
        /\ FLASH_SIZE \in Nat
    BY EntryPlace, Geometry DEF Addresses
  <2> HIDE DEF p
  <2>2. p + k - 1 \in Addresses /\ p + k - 1 < FW_START
    BY <2>1 DEF Addresses
  <2>3. flash'[p + k - 1] = flash[p + k - 1]
    BY <2>2
  <2> QED BY <2>3 DEF p
<1>2. \A i \in Entries : entry(i)' = entry(i)
  BY <1>1 DEF entry, word_at
<1> QED BY <1>2 DEF log

\* Retiring or writing an entry does that to the log.
LEMMA LogWritten ==
  ASSUME flash \in Memory, reg \in Registers, NEW i \in Entries, NEW w \in Word,
         perform(programming(entry_address(i), w)), w = AllZeros \/ entry(i) = AllOnes
  PROVE  log' = [log EXCEPT ![i] = w]
<1>1. /\ \A k \in 1 .. 4 : entry(i)'[k] = w[k] \cap entry(i)[k]
      /\ \A j \in Entries : j # i => entry(j)' = entry(j)
  BY LogWrite
<1>2. entry(i) \in Word
  BY EntryIsWord
<1>3. \A k \in 1 .. 4 : entry(i)'[k] = w[k]
  <2> TAKE k \in 1 .. 4
  <2>1. entry(i)'[k] = w[k] \cap entry(i)[k]
    BY <1>1
  <2>2. CASE w = AllZeros
    BY <2>1, <2>2 DEF AllZeros
  <2>3. CASE entry(i) = AllOnes
    <3>1. w[k] \subseteq Ones /\ entry(i)[k] = Ones
      BY <2>3 DEF AllOnes, Word, Byte, Ones
    <3> QED BY <2>1, <3>1
  <2> QED BY <2>2, <2>3
<1>4. entry(i)' = w
  <2>1. entry(i)' = [k \in 1 .. 4 |-> entry(i)'[k]]
    BY DEF entry, word_at
  <2>2. w = [k \in 1 .. 4 |-> w[k]]
    BY DEF Word
  <2> QED BY <1>3, <2>1, <2>2
<1> QED BY <1>1, <1>4 DEF log

\* What a step does to the log and to what the boot was told of.
Told      == log' = log /\ (answer' = AllOnes \/ (update_find # NoEntry /\ answer' = entry(update_find)))
Silent    == log' = log /\ answer' \in {answer, AllOnes}
Retires   == /\ pc \in {"process_update", "finished"} /\ answer # AllOnes /\ answer' = answer
             /\ pc' = "start"
             /\ update_find # NoEntry => log' = [log EXCEPT ![update_find] = AllZeros]
             /\ update_find = NoEntry => log' = log
Appends   == /\ pc = "running" /\ pc' = "running" /\ answer' = answer
             /\ \E k \in Entries, r \in Requests :
                  /\ log[k] = AllOnes /\ \A j \in 1 .. k - 1 : log[j] # AllOnes
                  /\ log' = [log EXCEPT ![k] = r]

LEMMA LogSteps ==
  ASSUME IInv, [Next]_vars
  PROVE  \/ Told /\ pc' = "process_update"
         \/ /\ Silent
            /\ \/ answer' = AllOnes
               \/ pc' \in {"start", "running"}
               \/ pc \in {"process_update", "programming", "finishing", "finished"}
               \/ pc' = pc
         \/ Retires \/ Appends
<1>1. flash \in Memory /\ reg \in Registers
  BY DEF IInv, TypeOK, Memory, Registers
<1>2. UNCHANGED flash => log' = log
  BY DEF log, entry, word_at
<1>3. CASE update_address
  BY <1>2, <1>3 DEF update_address, controller, Told
<1>4. CASE program_start \/ program_finish \/ started \/ UNCHANGED vars
  BY <1>2, <1>4 DEF program_start, program_finish, started, vars, controller, Silent
<1>5. CASE program_write \/ program_finish_pads
  <2>1. PICK b \in Byte : Takes(b)
    BY <1>5, WriteTakes, PadTakes DEF Ones, Byte
  <2>2. \A x \in Addresses : flash'[x] # flash[x] => base <= x
    BY <2>1, TakesStep
  <2>3. FW_START <= base /\ base \in Nat
    <3>1. prog_addr \in Nat /\ FW_START <= prog_addr
      BY <2>1, Geometry DEF Takes, IInv, TypeOK
    <3> QED BY <3>1, BaseIs DEF base
  <2>4. \A a \in Addresses : a < FW_START => flash'[a] = flash[a]
    <3>1. \A a \in Addresses : a < FW_START => ~(base <= a)
      BY <2>3, Geometry DEF Addresses
    <3> QED BY <2>2, <3>1
  <2>5. log' = log /\ answer' = answer /\ pc \in {"programming", "finishing"}
    BY <2>1, <2>4, LogBelow DEF Takes, collecting
  <2> QED BY <2>5 DEF Silent
<1>6. CASE update_clear
  <2>1. update_find # NoEntry => log' = [log EXCEPT ![update_find] = AllZeros]
    <3>1. SUFFICES ASSUME update_find # NoEntry
                   PROVE  log' = [log EXCEPT ![update_find] = AllZeros]
      OBVIOUS
    <3>2. update_find \in Entries /\ perform(programming(entry_address(update_find), AllZeros))
      BY <1>6, <3>1, FoundEntry DEF update_clear
    <3> QED BY <1>1, <3>2, Constants, LogWritten
  <2>2. update_find = NoEntry => log' = log
    BY <1>2, <1>6 DEF update_clear, controller
  <2> QED BY <1>6, <2>1, <2>2 DEF update_clear, Retires
<1>7. CASE request_update
  <2>1. PICK i \in free, r \in Requests : perform(programming(entry_address(i), r))
    BY <1>7 DEF request_update
  <2>2. i \in Entries /\ entry(i) = AllOnes /\ (\A j \in 1 .. i - 1 : entry(j) # AllOnes) /\ r \in Word
    BY TestGeometryAssumption DEF free
  <2>3. log' = [log EXCEPT ![i] = r]
    BY <1>1, <2>1, <2>2, LogWritten
  <2>4. log[i] = AllOnes /\ \A j \in 1 .. i - 1 : log[j] # AllOnes
    <3>1. \A j \in 1 .. i - 1 : j \in Entries
      BY <2>2, TestGeometryAssumption DEF Entries
    <3> QED BY <2>2, <3>1 DEF log
  <2> QED BY <1>7, <2>2, <2>3, <2>4 DEF request_update, Appends
<1>8. CASE boots_again
  BY <1>2, <1>8 DEF boots_again, controller, Silent
<1> QED BY <1>3, <1>4, <1>5, <1>6, <1>7, <1>8 DEF Next, Loader

LEMMA LogInit == Init => LogInv /\ queue = <<>> /\ answer = AllOnes
<1> SUFFICES ASSUME Init PROVE LogInv /\ queue = <<>> /\ answer = AllOnes
  OBVIOUS
<1>1. \A i \in Entries : log[i] = AllOnes
  <2>1. ASSUME NEW i \in Entries, NEW k \in 1 .. 4
        PROVE  flash[entry_address(i) + k - 1] = Ones
    <3>1. entry_address(i) \in Addresses /\ entry_address(i) + 4 <= FW_START
      BY EntryPlace
    <3>2. entry_address(i) + k - 1 \in Addresses
      BY <3>1, Geometry DEF Addresses
    <3>3. entry_address(i) + k - 1 \in BL_OPTS .. BL_OPTS + 4 * OPTS - 1
      BY TestGeometryAssumption DEF Entries, entry_address
    <3> QED BY <3>2, <3>3 DEF Init
  <2>2. \A i \in Entries : entry(i) = AllOnes
    BY <2>1 DEF entry, word_at, AllOnes
  <2> QED BY <2>2 DEF log
<1>2. log \in Logs
  <2>1. log \in [Entries -> EntryWords]
    BY <1>1 DEF log, EntryWords
  <2> QED BY <1>1, <2>1, Constants DEF Logs
<1>3. Stands /\ answer = AllOnes
  BY DEF Init, Stands
<1>4. queue_of(log) = <<>>
  <2> DEFINE a == oldest_of(log)
             b == unused_of(log)
  <2>1. a \in 1 .. OPTS + 1 /\ b \in 1 .. OPTS + 1 /\ OPTS \in Nat /\ Entries = 1 .. OPTS
        /\ a <= b /\ \A i \in Entries : i < b <=> log[i] # AllOnes
    BY <1>2, Layout
  <2> HIDE DEF a, b
  <2>2. b = 1
    <3>1. 1 \in Entries => ~(1 < b)
      BY <1>1, <2>1
    <3> QED BY <2>1, <3>1
  <2> DEFINE c == b - 1
  <2>3. a \in Int /\ c \in Int /\ c < a
    BY <2>1, <2>2
  <2> HIDE DEF c
  <2>4. SubSeq(log, a, c) = <<>>
    BY <2>3, SubSeqEmpty
  <2> QED BY <2>4 DEF queue_of, a, b, c
<1> QED BY <1>2, <1>3, <1>4, QueueIs DEF LogInv

LEMMA LogStep ==
  ASSUME IInv, LogInv, [Next]_vars
  PROVE  LogInv' /\ [Queue!Next]_<<queue, answer>>
<1>1. log \in Logs
  BY DEF LogInv
<1>2. \A i \in Entries : log[i] = entry(i)
  BY DEF log
<1>3. update_find # NoEntry =>
        /\ update_find \in Entries /\ queue # <<>> /\ Head(queue) = entry(update_find)
        /\ [log EXCEPT ![update_find] = AllZeros] \in Logs
        /\ queue_of([log EXCEPT ![update_find] = AllZeros]) = Tail(queue)
  <2>1. SUFFICES ASSUME update_find # NoEntry
                 PROVE  /\ update_find \in Entries /\ queue # <<>>
                        /\ Head(queue) = entry(update_find)
                        /\ [log EXCEPT ![update_find] = AllZeros] \in Logs
                        /\ queue_of([log EXCEPT ![update_find] = AllZeros]) = Tail(queue)
    OBVIOUS
  <2> DEFINE k == update_find
             l == log
  <2>2. k \in Entries /\ k = oldest_of(l) /\ k < unused_of(l) /\ l \in Logs
    BY <1>1, <2>1, FindsOldest
  <2> HIDE DEF k, l
  <2>3. /\ [l EXCEPT ![k] = AllZeros] \in Logs
        /\ queue_of([l EXCEPT ![k] = AllZeros]) = Tail(queue_of(l))
        /\ queue_of(l) # <<>> /\ Head(queue_of(l)) = l[k]
    BY <2>2, RetireStep
  <2>4. l[k] = entry(k)
    BY <1>2, <2>2 DEF l
  <2>5. queue = queue_of(l)
    BY QueueIs DEF l
  <2> QED BY <2>2, <2>3, <2>4, <2>5 DEF k, l
<1>4. CASE Told /\ pc' = "process_update"
  <2>1. queue' = queue /\ update_find' = update_find /\ log' \in Logs
        /\ \A i \in Entries : entry(i)' = entry(i)
    BY <1>1, <1>4, LogKept DEF Told
  <2>2. answer' # AllOnes => update_find # NoEntry /\ answer' = entry(update_find)
    BY <1>4 DEF Told
  <2>3. Stands'
    <3>1. answer' # AllOnes => update_find' # NoEntry /\ answer' = entry(update_find)'
      BY <1>3, <2>1, <2>2
    <3> QED BY <3>1 DEF Stands
  <2>4. Queue!Answer
    BY <1>3, <2>1, <2>2 DEF Queue!Answer
  <2> QED BY <2>1, <2>3, <2>4 DEF LogInv, Queue!Next
<1>5. CASE /\ Silent
           /\ \/ answer' = AllOnes
              \/ pc' \in {"start", "running"}
              \/ pc \in {"process_update", "programming", "finishing", "finished"}
              \/ pc' = pc
  <2>1. queue' = queue /\ update_find' = update_find /\ log' \in Logs
        /\ \A i \in Entries : entry(i)' = entry(i)
    BY <1>1, <1>5, LogKept DEF Silent
  <2>2. Stands'
    <3>1. SUFFICES ASSUME pc' \in {"process_update", "programming", "finishing", "finished"},
                          answer' # AllOnes
                   PROVE  update_find' # NoEntry /\ answer' = entry(update_find)'
      BY DEF Stands
    <3>2. /\ pc \in {"process_update", "programming", "finishing", "finished"}
          /\ answer' = answer
      BY <1>5, <3>1 DEF Silent
    <3>3. update_find # NoEntry /\ answer = entry(update_find)
      BY <3>1, <3>2 DEF LogInv, Stands
    <3> QED BY <1>3, <2>1, <3>2, <3>3
  <2>3. Queue!Answer \/ UNCHANGED <<queue, answer>>
    BY <1>5, <2>1 DEF Silent, Queue!Answer
  <2> QED BY <2>1, <2>2, <2>3 DEF LogInv, Queue!Next
<1>6. CASE Retires
  <2>1. update_find # NoEntry /\ answer = entry(update_find)
    BY <1>6 DEF Retires, LogInv, Stands
  <2>2. log' = [log EXCEPT ![update_find] = AllZeros] /\ pc' = "start" /\ answer' = answer
    BY <1>6, <2>1 DEF Retires
  <2>3. log' \in Logs /\ queue' = Tail(queue)
    BY <1>3, <2>1, <2>2, QueueIs
  <2>4. Stands'
    BY <2>2 DEF Stands
  <2>5. Queue!Clear
    BY <1>3, <2>1, <2>2, <2>3 DEF Queue!Clear
  <2> QED BY <2>3, <2>4, <2>5 DEF LogInv, Queue!Next
<1>7. CASE Appends
  <2>1. PICK k \in Entries, r \in Requests :
          /\ log[k] = AllOnes /\ \A j \in 1 .. k - 1 : log[j] # AllOnes
          /\ log' = [log EXCEPT ![k] = r]
    BY <1>7 DEF Appends
  <2> DEFINE l == log
  <2>2. l \in Logs /\ l[k] = AllOnes /\ \A j \in 1 .. k - 1 : l[j] # AllOnes
    BY <1>1, <2>1
  <2> HIDE DEF l
  <2>3. [l EXCEPT ![k] = r] \in Logs /\ queue_of([l EXCEPT ![k] = r]) = Append(queue_of(l), r)
    BY <2>2, AppendStep
  <2>4. log' \in Logs /\ queue' = Append(queue, r)
    BY <2>1, <2>3, QueueIs DEF l
  <2>5. Stands'
    BY <1>7 DEF Appends, Stands
  <2>6. Queue!Request
    BY <1>7, <2>4 DEF Appends, Queue!Request
  <2> QED BY <2>4, <2>5, <2>6 DEF LogInv, Queue!Next
<1> QED BY <1>4, <1>5, <1>6, <1>7, LogSteps

\* A boot is told of the oldest request or of none, and a clear retires that request
\* and no other: between the two searches of the log nothing writes to it, not even
\* the programming of the firmware.
THEOREM LogImplementsQueue == Spec => LogIsQueue
<1>1. Init => LogInv /\ Queue!Init
  BY LogInit DEF Queue!Init
<1>2. IInv /\ LogInv /\ [Next]_vars => LogInv' /\ [Queue!Next]_<<queue, answer>>
  BY LogStep
<1> QED BY <1>1, <1>2, Invariance, PTL DEF Spec, LogIsQueue, Queue!Spec
=============================================================================
