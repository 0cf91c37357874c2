-------------------------- MODULE MspUpdateLogProofs --------------------------
(***************************************************************************)
(* Proofs about MspUpdateLog, for pages of every size and any number of    *)
(* requests, resets, power losses and failing Flash commands.              *)
(*                                                                         *)
(* The argument: pairs are used and retired from the first to the last, so *)
(* the page is made of retired pairs, then requests, then blank pairs.     *)
(* Between update_address() and update_clear() nothing but the loader      *)
(* touches the page, so the second search finds what the first one found.  *)
(***************************************************************************)
EXTENDS MspUpdateLog, BasicLemmas

\* A request is written to the first blank pair.
UsedInOrder == \A i \in Pairs : ~blank(w1[i]) => \A j \in 1 .. i : ~blank(w1[j])

\* The pairs before a retired one are retired.
RetiredInOrder == \A i \in Pairs : ~blank(w2[i]) => \A j \in 1 .. i : retired(j)

\* What the loader was told of is what it would be told again.
AnswerStands == clearing => update_find # NoPair /\ answer = w1[update_find]

\* A word was programmed once if it is not blank, and never if it is.
Counted ==
  \A i \in Pairs : /\ writes1[i] = IF blank(w1[i]) THEN 0 ELSE 1
                   /\ writes2[i] = IF blank(w2[i]) THEN 0 ELSE 1

\* The inductive invariant.
IInv == TypeOK /\ UsedInOrder /\ RetiredInOrder /\ Counted /\ AnswerStands

Values == Addresses \cup Damaged

-----------------------------------------------------------------------------
(***************************************************************************)
(* Pairs.                                                                  *)
(***************************************************************************)

LEMMA FirstType ==
  ASSUME NEW S \in SUBSET Pairs
  PROVE  /\ first(S) \in 1 .. PAIRS + 1
         /\ first(S) \in S \/ first(S) = PAIRS + 1
         /\ \A i \in S : first(S) <= i
<1> DEFINE T == S \cup {PAIRS + 1}
<1>1. T \in SUBSET Nat /\ T # {} /\ PAIRS \in Nat
  BY LogAssumption DEF Pairs
<1>2. Min(T) \in T /\ \A n \in T : Min(T) <= n
  BY <1>1, MinIsLeast
<1>3. first(S) = Min(T)
  BY DEF first
<1> HIDE DEF T
<1>4. first(S) \in T /\ \A n \in T : first(S) <= n
  BY <1>2, <1>3
<1>5. first(S) \in S \/ first(S) = PAIRS + 1
  BY <1>4 DEF T
<1>6. \A i \in S : first(S) <= i
  BY <1>4 DEF T
<1>7. PAIRS \in Nat /\ \A i \in S : i \in 1 .. PAIRS
  BY LogAssumption DEF Pairs
<1>8. first(S) \in 1 .. PAIRS + 1
  BY <1>5, <1>7
<1> QED BY <1>5, <1>6, <1>8

\* No other pair has these properties.
LEMMA FirstIs ==
  ASSUME NEW S \in SUBSET Pairs, NEW k \in 1 .. PAIRS + 1,
         k \in S \/ k = PAIRS + 1, \A i \in S : k <= i
  PROVE  first(S) = k
<1>1. PAIRS \in Nat /\ first(S) \in Nat /\ k \in Nat
  BY FirstType, LogAssumption
<1>2. k <= first(S)
  BY <1>1, FirstType
<1>3. first(S) <= k
  BY <1>1, FirstType
<1> QED BY <1>1, <1>2, <1>3

\* The page: retired pairs, then requests, then blank ones.
LEMMA Layout ==
  ASSUME TypeOK, UsedInOrder, RetiredInOrder
  PROVE  /\ oldest \in 1 .. PAIRS + 1 /\ unused \in 1 .. PAIRS + 1 /\ oldest <= unused
         /\ \A i \in Pairs : i < oldest <=> retired(i)
         /\ \A i \in Pairs : i < unused <=> ~blank(w1[i])
         /\ \A i \in Pairs : oldest <= i => blank(w2[i])
<1> DEFINE blanks == { i \in Pairs : blank(w1[i]) }
<1>1. open \in SUBSET Pairs /\ blanks \in SUBSET Pairs /\ PAIRS \in Nat
  BY LogAssumption DEF open
<1>2. /\ oldest \in 1 .. PAIRS + 1 /\ (oldest \in open \/ oldest = PAIRS + 1)
      /\ \A i \in open : oldest <= i
  BY <1>1, FirstType DEF oldest
<1>3. /\ unused \in 1 .. PAIRS + 1 /\ (unused \in blanks \/ unused = PAIRS + 1)
      /\ \A i \in blanks : unused <= i
  BY <1>1, FirstType DEF unused
<1>4. blanks \subseteq open
  BY DEF open, retired
<1>5. oldest <= unused
  BY <1>1, <1>2, <1>3, <1>4
<1>6. ASSUME NEW i \in Pairs
      PROVE  (oldest <= i => blank(w2[i])) /\ (i < oldest <=> retired(i))
  <2>1. i \in 1 .. PAIRS
    BY <1>6 DEF Pairs
  <2>2. oldest <= i => blank(w2[i])
    <3>1. SUFFICES ASSUME oldest <= i, ~blank(w2[i]) PROVE FALSE
      OBVIOUS
    <3>2. oldest \in open /\ oldest \in 1 .. i
      BY <1>1, <1>2, <2>1, <3>1
    <3> QED BY <1>6, <3>1, <3>2 DEF RetiredInOrder, open
  <2>3. i < oldest => retired(i)
    BY <1>1, <1>2, <1>6, <2>1 DEF open
  <2>4. retired(i) => ~blank(w2[i])
    BY DEF retired
  <2>5. i < oldest \/ oldest <= i
    BY <1>1, <1>2, <2>1
  <2>6. ~(i < oldest /\ oldest <= i)
    BY <1>1, <1>2, <2>1
  <2> QED BY <2>2, <2>3, <2>4, <2>5, <2>6
<1>7. ASSUME NEW i \in Pairs
      PROVE  i < unused <=> ~blank(w1[i])
  <2>1. i \in 1 .. PAIRS
    BY <1>7 DEF Pairs
  <2>2. i < unused => ~blank(w1[i])
    BY <1>1, <1>3, <1>7, <2>1
  <2>3. ASSUME ~blank(w1[i]), unused <= i
        PROVE  FALSE
    <3>1. unused \in blanks /\ unused \in 1 .. i
      BY <1>1, <1>3, <2>1, <2>3
    <3> QED BY <1>7, <2>3, <3>1 DEF UsedInOrder
  <2>4. i < unused \/ unused <= i
    BY <1>1, <1>3, <2>1
  <2> QED BY <2>2, <2>3, <2>4
<1>8. \A i \in Pairs : i < oldest <=> retired(i)
  BY <1>6
<1>9. \A i \in Pairs : oldest <= i => blank(w2[i])
  BY <1>6
<1>10. \A i \in Pairs : i < unused <=> ~blank(w1[i])
  BY <1>7
<1> QED BY <1>2, <1>3, <1>5, <1>8, <1>9, <1>10

\* update_find() finds the oldest request, if there is one.
LEMMA FindsOldest ==
  ASSUME TypeOK, UsedInOrder, RetiredInOrder
  PROVE  /\ update_find # NoPair <=> oldest < unused
         /\ update_find # NoPair =>
              /\ update_find = oldest /\ oldest \in Pairs
              /\ ~blank(w1[oldest]) /\ blank(w2[oldest])
<1>1. /\ oldest \in 1 .. PAIRS + 1 /\ unused \in 1 .. PAIRS + 1 /\ oldest <= unused
      /\ \A i \in Pairs : i < unused <=> ~blank(w1[i])
      /\ \A i \in Pairs : oldest <= i => blank(w2[i])
  BY Layout
<1>2. open \in SUBSET Pairs /\ PAIRS \in Nat /\ Pairs \subseteq Nat
  BY LogAssumption DEF open, Pairs
<1>3. oldest \in open \/ oldest = PAIRS + 1
  BY <1>2, FirstType DEF oldest
<1>4. \A i \in open : oldest <= i
  BY <1>2, FirstType DEF oldest
<1>5. CASE open = {}
  <2>1. oldest = PAIRS + 1 /\ update_find = NoPair
    BY <1>3, <1>5 DEF update_find
  <2> QED BY <1>1, <1>2, <2>1
<1>6. CASE open # {}
  <2>1. Min(open) \in open /\ \A i \in open : Min(open) <= i
    BY <1>2, <1>6, MinIsLeast
  <2>2. Min(open) \in 1 .. PAIRS
    BY <1>2, <2>1 DEF Pairs
  <2>3. oldest <= Min(open)
    BY <1>4, <2>1
  <2>4. oldest \in Nat
    BY <1>1, <1>2
  <2>5. oldest \in open
    BY <1>2, <1>3, <2>2, <2>3, <2>4
  <2>6. Min(open) = oldest
    BY <1>2, <2>1, <2>2, <2>3, <2>4, <2>5
  <2>7. update_find = IF blank(w1[oldest]) THEN NoPair ELSE oldest
    BY <1>6, <2>6 DEF update_find
  <2>8. oldest \in Pairs /\ oldest # NoPair /\ oldest <= oldest
    BY <1>2, <2>5 DEF NoPair, Pairs
  <2> QED BY <1>1, <2>7, <2>8
<1> QED BY <1>5, <1>6

-----------------------------------------------------------------------------
(***************************************************************************)
(* What happens to the page.                                               *)
(***************************************************************************)

Words1 == [Pairs -> {Blank} \cup Addresses \cup Damaged]
Words2 == [Pairs -> {Blank, Mark}]

Counts == [Pairs -> Nat]

Page ==
  /\ w1 \in Words1 /\ w2 \in Words2
  /\ writes1 \in Counts /\ writes2 \in Counts
  /\ UsedInOrder /\ RetiredInOrder /\ Counted

\* Retiring the oldest request makes the next one the oldest.
LEMMA MarkStep ==
  ASSUME TypeOK, UsedInOrder, RetiredInOrder, Counted,
         update_find # NoPair, mark(update_find)
  PROVE  Page' /\ oldest' = oldest + 1 /\ unused' = unused
<1>1. /\ oldest \in Pairs /\ update_find = oldest
      /\ ~blank(w1[oldest]) /\ blank(w2[oldest])
  BY FindsOldest
<1>2. w1' = w1 /\ w2' = [w2 EXCEPT ![oldest] = Mark] /\ w1 \in Words1 /\ w2 \in Words2
  BY <1>1 DEF mark, TypeOK, Words1, Words2
<1>3. PAIRS \in Nat /\ oldest \in 1 .. PAIRS
  BY <1>1, LogAssumption DEF Pairs
<1>4. w2' \in Words2
  BY <1>2 DEF Words2
<1>5. \A i \in Pairs : w2'[i] = IF i = oldest THEN Mark ELSE w2[i]
  BY <1>2 DEF Words2
<1>6. \A i \in Pairs : retired(i)' <=> retired(i) \/ i = oldest
  BY <1>1, <1>2, <1>5, LogAssumption DEF retired, blank
<1>7. open' = open \ {oldest} /\ open' \in SUBSET Pairs
  BY <1>6 DEF open
<1>8. \A i \in Pairs : i < oldest <=> retired(i)
  BY Layout
<1>9. RetiredInOrder'
  <2>1. SUFFICES ASSUME NEW i \in Pairs, ~blank(w2'[i]), NEW j \in 1 .. i
                 PROVE  retired(j)'
    BY DEF RetiredInOrder, blank
  <2>2. j \in Pairs /\ i \in 1 .. PAIRS
    BY <1>3, <2>1 DEF Pairs
  <2>3. CASE i = oldest
    BY <1>3, <1>6, <1>8, <2>1, <2>2, <2>3
  <2>4. CASE i # oldest
    <3>1. ~blank(w2[i])
      BY <1>5, <2>1, <2>4
    <3>2. retired(j)
      BY <2>1, <3>1 DEF RetiredInOrder
    <3> QED BY <1>6, <2>2, <3>2
  <2> QED BY <2>3, <2>4
<1>10. UsedInOrder'
  BY <1>2 DEF UsedInOrder, blank
<1>11. oldest' = oldest + 1
  <2>1. \A i \in open' : oldest + 1 <= i
    BY <1>3, <1>7, <1>8 DEF open, Pairs
  <2>2. oldest + 1 \in Pairs => oldest + 1 \in open
    <3>1. ~(oldest + 1 < oldest)
      BY <1>3
    <3> QED BY <1>8, <3>1 DEF open
  <2>3. oldest + 1 \in open' \/ oldest + 1 = PAIRS + 1
    BY <1>3, <1>7, <2>2 DEF Pairs
  <2>4. first(open') = oldest + 1
    BY <1>3, <1>7, <2>1, <2>3, FirstIs
  <2> QED BY <2>4 DEF oldest
<1>12. unused' = unused
  BY <1>2 DEF unused, blank
<1>13. writes1' \in Counts /\ writes2' \in Counts /\ Counted'
  <2>1. /\ writes1' = writes1 /\ writes2' = [writes2 EXCEPT ![oldest] = @ + 1]
        /\ writes1 \in Counts /\ writes2 \in Counts
    BY <1>1 DEF mark, TypeOK, Counts
  <2>2. writes2' \in Counts
    BY <1>1, <2>1 DEF Counts
  <2>3. \A i \in Pairs : writes2'[i] = IF i = oldest THEN writes2[i] + 1 ELSE writes2[i]
    BY <2>1 DEF Counts
  <2>4. \A i \in Pairs : blank(w2'[i]) <=> blank(w2[i]) /\ i # oldest
    BY <1>5, LogAssumption DEF blank
  <2>5. writes2[oldest] = 0
    BY <1>1 DEF Counted
  <2>6. \A i \in Pairs : writes2'[i] = IF blank(w2'[i]) THEN 0 ELSE 1
    BY <2>3, <2>4, <2>5 DEF Counted
  <2>7. \A i \in Pairs : writes1'[i] = IF blank(w1'[i]) THEN 0 ELSE 1
    BY <1>2, <2>1 DEF Counted
  <2>8. Counted'
    BY <2>6, <2>7 DEF Counted, blank
  <2> QED BY <2>1, <2>2, <2>8
<1> QED BY <1>2, <1>4, <1>9, <1>10, <1>11, <1>12, <1>13 DEF Page

\* A request takes the first blank pair and becomes the latest.
LEMMA RequestStep ==
  ASSUME TypeOK, UsedInOrder, RetiredInOrder, Counted,
         NEW k \in next_free, NEW v \in Values, program_request(k, v)
  PROVE  /\ Page' /\ oldest' = oldest /\ unused' = unused + 1
         /\ k = unused /\ unused \in Pairs
<1>1. k \in Pairs /\ blank(w1[k]) /\ \A j \in 1 .. k - 1 : ~blank(w1[j])
  BY DEF next_free
<1>2. /\ w1 \in Words1 /\ w2 \in Words2 /\ v # Blank
      /\ w1' = [w1 EXCEPT ![k] = v] /\ w2' = w2
      /\ PAIRS \in Nat /\ k \in 1 .. PAIRS
  BY <1>1, LogAssumption DEF program_request, TypeOK, Words1, Words2, Values, Pairs
<1>3. /\ oldest \in 1 .. PAIRS + 1 /\ unused \in 1 .. PAIRS + 1 /\ oldest <= unused
      /\ \A i \in Pairs : i < oldest <=> retired(i)
      /\ \A i \in Pairs : i < unused <=> ~blank(w1[i])
      /\ \A i \in Pairs : oldest <= i => blank(w2[i])
  BY Layout
<1>4. k = unused
  <2>1. ~(k < unused)
    BY <1>1, <1>3
  <2>2. ~(unused < k)
    <3>1. SUFFICES ASSUME unused < k PROVE FALSE
      OBVIOUS
    <3>2. unused \in 1 .. k - 1 /\ unused \in Pairs /\ ~(unused < unused)
      BY <1>2, <1>3, <3>1 DEF Pairs
    <3> QED BY <1>1, <1>3, <3>2
  <2>3. unused \in Nat /\ k \in Nat
    BY <1>2, <1>3
  <2> QED BY <2>1, <2>2, <2>3
<1>5. w1' \in Words1 /\ \A i \in Pairs : w1'[i] = IF i = k THEN v ELSE w1[i]
  BY <1>1, <1>2 DEF Words1, Values
<1>6. blank(w2[k])
  BY <1>1, <1>3, <1>4
<1>7. \A i \in Pairs : retired(i)' <=> retired(i)
  BY <1>1, <1>2, <1>5, <1>6 DEF retired, blank
<1>8. open' = open
  BY <1>7 DEF open
<1>9. \A i \in Pairs : blank(w1'[i]) <=> blank(w1[i]) /\ i # k
  BY <1>1, <1>2, <1>5 DEF blank
<1>10. UsedInOrder'
  <2>1. SUFFICES ASSUME NEW i \in Pairs, ~blank(w1'[i]), NEW j \in 1 .. i
                 PROVE  ~blank(w1'[j])
    BY DEF UsedInOrder, blank
  <2>2. j \in Pairs /\ i \in 1 .. PAIRS
    BY <1>2, <2>1 DEF Pairs
  <2>3. CASE i = k
    <3>1. j = k \/ j \in 1 .. k - 1
      BY <1>2, <2>1, <2>3
    <3> QED BY <1>1, <1>9, <2>2, <3>1
  <2>4. CASE i # k
    <3>1. ~blank(w1[i])
      BY <1>9, <2>1, <2>4
    <3>2. ~blank(w1[j])
      BY <2>1, <3>1 DEF UsedInOrder
    <3> QED BY <1>9, <2>2, <3>2
  <2> QED BY <2>3, <2>4
<1>11. RetiredInOrder'
  <2>1. SUFFICES ASSUME NEW i \in Pairs, ~blank(w2'[i]), NEW j \in 1 .. i
                 PROVE  retired(j)'
    BY DEF RetiredInOrder, blank
  <2>2. j \in Pairs
    BY <1>2, <2>1 DEF Pairs
  <2>3. retired(j)
    BY <1>2, <2>1 DEF RetiredInOrder
  <2> QED BY <1>7, <2>2, <2>3
<1>12. unused' = unused + 1
  <2> DEFINE blanks == { i \in Pairs : blank(w1'[i]) }
  <2>1. \A i \in blanks : unused + 1 <= i
    BY <1>2, <1>3, <1>4, <1>9 DEF Pairs
  <2>2. unused + 1 \in Pairs => unused + 1 \in blanks
    <3>1. ~(unused + 1 < unused) /\ unused + 1 # k
      BY <1>2, <1>4
    <3> QED BY <1>3, <1>9, <3>1
  <2>3. unused + 1 \in blanks \/ unused + 1 = PAIRS + 1
    BY <1>2, <1>4, <2>2 DEF Pairs
  <2>4. unused + 1 \in 1 .. PAIRS + 1 /\ blanks \in SUBSET Pairs
    BY <1>2, <1>4
  <2>5. unused' = first(blanks)
    BY DEF unused, blank
  <2> HIDE DEF blanks
  <2> QED BY <2>1, <2>3, <2>4, <2>5, FirstIs
<1>13. writes1' \in Counts /\ writes2' \in Counts /\ Counted'
  <2>1. /\ writes2' = writes2 /\ writes1' = [writes1 EXCEPT ![k] = @ + 1]
        /\ writes1 \in Counts /\ writes2 \in Counts
    BY DEF program_request, TypeOK, Counts
  <2>2. writes1' \in Counts
    BY <1>1, <2>1 DEF Counts
  <2>3. \A i \in Pairs : writes1'[i] = IF i = k THEN writes1[i] + 1 ELSE writes1[i]
    BY <2>1 DEF Counts
  <2>4. writes1[k] = 0
    BY <1>1 DEF Counted
  <2>5. \A i \in Pairs : writes1'[i] = IF blank(w1'[i]) THEN 0 ELSE 1
    BY <1>9, <2>3, <2>4 DEF Counted
  <2>6. \A i \in Pairs : writes2'[i] = IF blank(w2'[i]) THEN 0 ELSE 1
    BY <1>2, <2>1 DEF Counted
  <2>7. Counted'
    BY <2>5, <2>6 DEF Counted, blank
  <2> QED BY <2>1, <2>2, <2>7
<1> QED BY <1>1, <1>2, <1>4, <1>5, <1>8, <1>10, <1>11, <1>12, <1>13 DEF Page, oldest

-----------------------------------------------------------------------------
(***************************************************************************)
(* The invariant.                                                          *)
(***************************************************************************)

\* What is known of a state whose page is well laid out.
LEMMA Sound ==
  ASSUME Page, pc \in {"update_address", "process_update", "running"},
         answer \in {NoRequest} \cup Values, errors \in 0 .. MaxErrors, AnswerStands
  PROVE  IInv
BY DEF IInv, Page, TypeOK, Words1, Words2, Counts, Values

LEMMA InitIInv == Init => IInv
<1> SUFFICES ASSUME Init PROVE IInv
  OBVIOUS
<1>1. PAIRS \in Nat /\ MaxErrors \in Nat /\ Pairs = 1 .. PAIRS
  BY LogAssumption DEF Pairs
<1>2. \A i \in Pairs : blank(w1[i]) /\ blank(w2[i])
  BY DEF Init, blank
<1>3. Page
  BY <1>2 DEF Init, Page, Words1, Words2, Counts, UsedInOrder, RetiredInOrder, Counted
<1>4. AnswerStands
  BY DEF Init, AnswerStands, clearing
<1>5. errors \in 0 .. MaxErrors
  BY <1>1 DEF Init
<1> QED BY <1>3, <1>4, <1>5, Sound DEF Init

\* What a failing command does to the bound's counter.
LEMMA FailureCounted ==
  ASSUME errors \in 0 .. MaxErrors, command_fails
  PROVE  errors' \in 0 .. MaxErrors
<1>1. MaxErrors \in Nat
  BY LogAssumption
<1> QED BY <1>1 DEF command_fails

\* A page that is left alone stays well laid out.
LEMMA PageKept == ASSUME IInv, UNCHANGED page PROVE Page'
BY DEF IInv, Page, TypeOK, Words1, Words2, Counts, UsedInOrder, RetiredInOrder, Counted,
       retired, blank, page

LEMMA AddressStep == IInv /\ update_address => IInv'
<1> SUFFICES ASSUME IInv, update_address PROVE IInv'
  OBVIOUS
<1>1. TypeOK /\ UsedInOrder /\ RetiredInOrder /\ page' = page /\ w1' = w1 /\ w2' = w2
  BY DEF IInv, update_address, page
<1>2. Page'
  BY <1>1, PageKept
<1>3. update_find' = update_find
  BY <1>1 DEF update_find, open, retired, blank
<1>4. update_find # NoPair => w1[update_find] \in Values
  <2>1. SUFFICES ASSUME update_find # NoPair PROVE w1[update_find] \in Values
    OBVIOUS
  <2>2. update_find \in Pairs /\ ~blank(w1[update_find])
    BY <1>1, <2>1, FindsOldest
  <2> QED BY <1>1, <2>2 DEF TypeOK, Values, blank
<1>5. answer' = NoRequest \/ (update_find # NoPair /\ answer' = w1[update_find])
  BY DEF update_address, command_fails
<1>6. errors' \in 0 .. MaxErrors
  BY <1>1, FailureCounted DEF update_address, TypeOK
<1>7. AnswerStands'
  BY <1>1, <1>3, <1>5 DEF AnswerStands, clearing
<1>8. pc' = "process_update" /\ answer' \in {NoRequest} \cup Values
  BY <1>4, <1>5 DEF update_address
<1>9. Page' /\ pc' \in {"update_address", "process_update", "running"}
  BY <1>2, <1>8
<1>10. TypeOK'
  BY <1>6, <1>8, <1>9 DEF Page, TypeOK, Words1, Words2, Counts, Values
<1> QED BY <1>7, <1>9, <1>10 DEF IInv, Page

\* A step after which nothing is to be retired in this boot.
LEMMA Leaves ==
  ASSUME IInv, Page', pc' \in {"update_address", "running"},
         answer' \in {answer, NoRequest}, errors' \in 0 .. MaxErrors
  PROVE  IInv'
<1>1. answer' \in {NoRequest} \cup Values
  BY DEF IInv, TypeOK, Values
<1>2. AnswerStands'
  BY DEF AnswerStands, clearing
<1>3. TypeOK'
  BY <1>1 DEF Page, TypeOK, Words1, Words2, Counts, Values
<1> QED BY <1>2, <1>3 DEF IInv, Page

LEMMA NextIInv == IInv /\ [Next]_vars => IInv'
<1> SUFFICES ASSUME IInv, [Next]_vars PROVE IInv'
  OBVIOUS
<1>1. TypeOK /\ UsedInOrder /\ RetiredInOrder /\ Counted /\ errors \in 0 .. MaxErrors
  BY DEF IInv, TypeOK
<1>2. update_find # NoPair /\ mark(update_find) => Page'
  BY <1>1, MarkStep
<1>3. CASE update_address
  BY <1>3, AddressStep
<1>4. CASE update_clear
  BY <1>1, <1>2, <1>4, Leaves DEF update_clear
<1>5. CASE update_clear_fails
  <2>1. Page'
    BY <1>2, <1>5, PageKept DEF update_clear_fails
  <2> QED BY <1>1, <1>5, <2>1, Leaves, FailureCounted DEF update_clear_fails
<1>6. CASE no_clear
  BY <1>1, <1>6, PageKept, Leaves DEF no_clear
<1>7. CASE reset
  BY <1>1, <1>7, PageKept, Leaves DEF reset, boot
<1>8. CASE power_loss
  <2>1. Page'
    BY <1>2, <1>8, PageKept DEF power_loss
  <2> QED BY <1>1, <1>8, <2>1, Leaves DEF power_loss, boot
<1>9. CASE request_update
  <2>1. PICK i \in next_free, a \in Addresses : program_request(i, a)
    BY <1>9 DEF request_update
  <2>2. Page'
    BY <1>1, <1>9, <2>1, RequestStep DEF request_update, Values
  <2> QED BY <1>1, <1>9, <2>2, Leaves DEF request_update
<1>10. CASE request_damaged
  <2>1. PICK i \in next_free, d \in Damaged : program_request(i, d)
    BY <1>10 DEF request_damaged
  <2>2. Page'
    BY <1>1, <1>10, <2>1, RequestStep DEF request_damaged, Values
  <2> QED BY <1>1, <1>10, <2>2, Leaves DEF request_damaged, boot
<1>11. CASE UNCHANGED vars
  BY <1>11 DEF vars, page, IInv, TypeOK, UsedInOrder, RetiredInOrder, Counted, AnswerStands,
               clearing, update_find, open, retired, blank
<1> QED
  BY <1>3, <1>4, <1>5, <1>6, <1>7, <1>8, <1>9, <1>10, <1>11 DEF Next, Loader, Environment

THEOREM Invariance == Spec => []IInv
<1>1. IInv /\ [Next]_vars => IInv'
  BY NextIInv
<1> QED BY InitIInv, <1>1, PTL DEF Spec

\* The variables have their types: what a boot is told of is a request, of an
\* update or a damaged one, and never a blank word.
THEOREM TypeCorrect == Spec => []TypeOK
<1>1. IInv => TypeOK
  BY DEF IInv
<1> QED BY Invariance, <1>1, PTL

-----------------------------------------------------------------------------
(***************************************************************************)
(* Each word is written once.                                              *)
(***************************************************************************)

\* No word of the page is programmed a second time, whatever fails and wherever the
\* power is lost: the application takes a blank pair, the search of update_clear()
\* ends at a pair whose second word is blank, and a mark that was made although
\* write_word() reported a failure is seen by the search of the next boot.
THEOREM WordsOnce == Spec => []WordsWrittenOnce
<1>1. IInv => WordsWrittenOnce
  BY DEF IInv, Counted, WordsWrittenOnce
<1> QED BY Invariance, <1>1, PTL

-----------------------------------------------------------------------------
(***************************************************************************)
(* The log is a queue.                                                     *)
(***************************************************************************)

\* What a step does to the page: nothing, the oldest request is retired, or a
\* request is written to the first blank pair.
Stays    == UNCHANGED page
Retires  == update_find # NoPair /\ mark(update_find)
Requests == \E k \in next_free, v \in Values : program_request(k, v)

\* What the boot was told of stands, or the device is reset.
Told == answer' \in {answer, NoRequest}

LEMMA Steps ==
  ASSUME [Next]_vars
  PROVE  \/ Stays /\ update_find # NoPair /\ answer' = w1[update_find]
         \/ Stays /\ Told
         \/ clearing /\ Retires /\ Told
         \/ Requests /\ Told
BY DEF Next, Loader, Environment, update_address, update_clear, update_clear_fails,
       no_clear, reset, power_loss, request_update, request_damaged, command_fails, boot,
       vars, Values, Stays, Retires, Requests, Told

Words == {Blank} \cup Values

\* The page's first words are a sequence.
LEMMA PageIsSeq == ASSUME TypeOK PROVE w1 \in Seq(Words) /\ Len(w1) = PAIRS
<1>1. PAIRS \in Nat /\ w1 \in [1 .. PAIRS -> Words]
  BY LogAssumption DEF TypeOK, Pairs, Words, Values
<1> QED BY <1>1

\* The queue when it holds a request.
LEMMA QueueHolds ==
  ASSUME IInv, update_find # NoPair
  PROVE  /\ queue # <<>> /\ Head(queue) = w1[update_find]
         /\ Tail(queue) = SubSeq(w1, oldest + 1, unused - 1)
<1>1. TypeOK /\ UsedInOrder /\ RetiredInOrder
  BY DEF IInv
<1>2. update_find = oldest /\ oldest < unused /\ oldest \in Pairs
  BY <1>1, FindsOldest
<1>3. unused \in 1 .. PAIRS + 1 /\ PAIRS \in Nat
  BY <1>1, Layout, LogAssumption
<1>4. oldest \in 1 .. PAIRS /\ unused - 1 \in oldest .. PAIRS /\ oldest <= unused - 1
  BY <1>2, <1>3 DEF Pairs
<1>5. w1 \in Seq(Words) /\ Len(w1) = PAIRS
  BY <1>1, PageIsSeq
<1>6. Head(queue) = w1[oldest] /\ Tail(queue) = SubSeq(w1, oldest + 1, unused - 1)
  BY <1>4, <1>5, HeadTailOfSubSeq DEF queue
<1>7. queue # <<>>
  <2>1. oldest \in Int /\ unused - 1 \in Int
    BY <1>3, <1>4
  <2>2. \A i \in oldest .. unused - 1 : w1[i] \in Words
    <3>1. \A i \in oldest .. unused - 1 : i \in 1 .. Len(w1)
      BY <1>3, <1>4, <1>5
    <3> QED BY <1>5, <3>1, ElementOfSeq
  <2>3. Len(queue) = unused - 1 - oldest + 1 /\ queue \in Seq(Words)
    BY <1>4, <2>1, <2>2, SubSeqProperties DEF queue
  <2>4. Len(queue) > 0
    BY <1>3, <1>4, <2>3
  <2> QED BY <2>3, <2>4
<1> QED BY <1>2, <1>6, <1>7

\* The queue before a request, at a page whose pairs are not used up, is followed
\* by the request.
LEMMA QueueAppend ==
  ASSUME IInv, Requests
  PROVE  \E v \in Values : queue' = Append(queue, v)
<1>1. TypeOK /\ UsedInOrder /\ RetiredInOrder /\ Counted
  BY DEF IInv
<1>2. PICK k \in next_free, v \in Values : program_request(k, v)
  BY DEF Requests
<1>3. oldest' = oldest /\ unused' = unused + 1 /\ k = unused /\ unused \in Pairs
  BY <1>1, <1>2, RequestStep
<1>4. oldest \in 1 .. PAIRS + 1 /\ oldest <= unused /\ PAIRS \in Nat
  BY <1>1, Layout, LogAssumption
<1>5. oldest \in 1 .. PAIRS /\ unused \in oldest .. PAIRS
  BY <1>3, <1>4 DEF Pairs
<1>6. w1 \in Seq(Words) /\ Len(w1) = PAIRS /\ v \in Words
  BY <1>1, PageIsSeq DEF Words
<1>7. SubSeq(w1', oldest, unused) = Append(SubSeq(w1, oldest, unused - 1), v)
  BY <1>2, <1>3, <1>5, <1>6, AppendToPart DEF program_request
<1>8. unused' - 1 = unused
  BY <1>3, <1>5
<1>9. queue' = SubSeq(w1', oldest, unused)
  BY <1>3, <1>8 DEF queue
<1> QED BY <1>7, <1>9 DEF queue

\* What the boards promise: a boot is told of the oldest request or of none, and
\* what update_clear() retires is what that boot was told of.
THEOREM LogImplementsQueue == Spec => LogIsQueue
<1>1. Init => Queue!Init
  <2> SUFFICES ASSUME Init PROVE Queue!Init
    OBVIOUS
  <2>1. TypeOK /\ UsedInOrder /\ RetiredInOrder
    BY InitIInv DEF IInv
  <2>2. PAIRS \in Nat /\ 1 \in Pairs /\ blank(w1[1])
    BY LogAssumption DEF Init, Pairs, blank
  <2>3. /\ oldest \in 1 .. PAIRS + 1 /\ unused \in 1 .. PAIRS + 1 /\ oldest <= unused
        /\ ~(1 < unused)
    BY <2>1, <2>2, Layout
  <2>4. oldest \in Int /\ unused - 1 \in Int /\ unused - 1 < oldest
    BY <2>2, <2>3
  <2>5. queue = <<>>
    BY <2>4, SubSeqEmpty DEF queue
  <2> QED BY <2>5 DEF Init, Queue!Init
<1>2. ASSUME IInv, [Next]_vars
      PROVE  [Queue!Next]_<<queue, answer>>
  <2>1. TypeOK /\ UsedInOrder /\ RetiredInOrder /\ Counted /\ AnswerStands
    BY <1>2 DEF IInv
  <2>2. Stays => queue' = queue
    BY DEF Stays, page, queue, oldest, unused, open, retired, blank
  <2>3. CASE Stays /\ update_find # NoPair /\ answer' = w1[update_find]
    BY <1>2, <2>2, <2>3, QueueHolds DEF Queue!Next, Queue!Answer
  <2>4. CASE Stays /\ Told
    BY <2>2, <2>4 DEF Told, Queue!Next, Queue!Answer
  <2>5. CASE clearing /\ Retires /\ Told
    <3>1. queue # <<>> /\ answer = Head(queue)
      BY <1>2, <2>1, <2>5, QueueHolds DEF AnswerStands, Retires
    <3>2. oldest' = oldest + 1 /\ unused' = unused /\ w1' = w1
      BY <2>1, <2>5, MarkStep DEF Retires, mark
    <3>3. queue' = Tail(queue)
      BY <1>2, <2>5, <3>2, QueueHolds DEF Retires, queue
    <3> QED BY <2>5, <3>1, <3>3 DEF Told, Queue!Next, Queue!Clear
  <2>6. CASE Requests /\ Told
    BY <1>2, <2>6, QueueAppend DEF Told, Queue!Next, Queue!Request, Values
  <2> QED BY <1>2, <2>3, <2>4, <2>5, <2>6, Steps
<1>3. IInv /\ [Next]_vars => [Queue!Next]_<<queue, answer>>
  BY <1>2
<1> QED BY <1>1, <1>3, Invariance, PTL DEF Spec, LogIsQueue, Queue!Spec
=============================================================================
