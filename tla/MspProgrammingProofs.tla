------------------------- MODULE MspProgrammingProofs -------------------------
(***************************************************************************)
(* Proofs about MspProgramming, for every geometry of the Flash and every  *)
(* length of an update, and for the board that MspBoard makes of it.       *)
(*                                                                         *)
(* The argument: words are written upwards from the start of a sector, so  *)
(* when the address is inside a sector, all of that sector from the        *)
(* address on was erased in the same session and not written since.  The   *)
(* address stays inside the Flash because it counts bytes handed over.     *)
(*                                                                         *)
(* The argument for the signal of an abort: an observer who watches one    *)
(* signal after the other has watched the two joined (WatchedConcat), so   *)
(* that what is blinked of a number may be read digit by digit             *)
(* (DigitRead, BlinkRead), number by number and over and over.             *)
(***************************************************************************)
EXTENDS MspBoard, BasicLemmas

\* Words are written to addresses of words.
WordAligned == prog.address % WORD = 0

\* Every byte handed over is in the Flash or in the buffer.
Counted ==
  session = "open" =>
    /\ prog.address + prog.count = Len(given)
    /\ Len(given) <= MaxBytes

\* The inductive invariant.
IInv == TypeOK /\ WordAligned /\ Counted /\ WordsProgrammedOnce

Programming == [address : Nat, buffer : [1 .. WORD -> Byte], count : 0 .. WORD]

-----------------------------------------------------------------------------
(***************************************************************************)
(* Words.                                                                  *)
(***************************************************************************)

\* Collecting a byte fills one more place of the buffer.
LEMMA AddByte ==
  ASSUME NEW p \in Programming, p.count < WORD, NEW b \in Byte
  PROVE  /\ program_add_byte(p, b) \in Programming
         /\ program_add_byte(p, b).address = p.address
         /\ program_add_byte(p, b).count = p.count + 1
<1>1. WORD \in Nat /\ p.count \in 0 .. WORD /\ p.count + 1 \in 1 .. WORD
  BY GeometryAssumption DEF Programming
<1>2. p.buffer[p.count + 1] \cup b \in Byte
  BY <1>1 DEF Programming, Byte
<1> DEFINE filled == [p.buffer EXCEPT ![p.count + 1] = p.buffer[p.count + 1] \cup b]
<1>3. filled \in [1 .. WORD -> Byte]
  BY <1>1, <1>2 DEF Programming
<1>4. program_add_byte(p, b) = [p EXCEPT !.buffer = filled, !.count = p.count + 1]
  BY DEF program_add_byte
<1> HIDE DEF filled
<1>5. p.count + 1 \in 0 .. WORD
  BY <1>1
<1>6. /\ p = [address |-> p.address, buffer |-> p.buffer, count |-> p.count]
      /\ p.address \in Nat
  BY DEF Programming
<1>7. program_add_byte(p, b) = [address |-> p.address, buffer |-> filled, count |-> p.count + 1]
  BY <1>4, <1>6, Zenon
<1> QED BY <1>3, <1>5, <1>6, <1>7 DEF Programming

\* A word that may be about to be written has an address inside the Flash.
LEMMA PendingWord ==
  ASSUME IInv, session = "open", NEW p \in pending
  PROVE  p \in Programming /\ p.address = prog.address /\ p.address \in WordAddresses
<1>1. /\ prog \in Programming /\ prog.count < WORD /\ prog.address \in Nat
      /\ prog.address % WORD = 0
      /\ prog.address + prog.count = Len(given) /\ Len(given) <= MaxBytes
  BY DEF IInv, TypeOK, WordAligned, Counted, Programming
<1>2. p \in Programming /\ p.address = prog.address /\ prog.address < FLASH_END
  <2>1. CASE p = prog /\ due(p, TRUE)
    <3>1. prog.count # 0 /\ prog.count \in Nat
      BY <1>1, <2>1, GeometryAssumption DEF due, Programming
    <3> QED BY <1>1, <2>1, <3>1, GeometryAssumption
  <2>2. CASE /\ p \in { program_add_byte(prog, b) : b \in Byte }
             /\ due(p, FALSE) /\ Len(given) < MaxBytes
    <3>1. p \in Programming /\ p.address = prog.address
      BY <1>1, <2>2, AddByte
    <3>2. prog.count \in Nat
      BY <1>1, GeometryAssumption DEF Programming
    <3> QED BY <1>1, <2>2, <3>1, <3>2, GeometryAssumption
  <2> QED BY <2>1, <2>2 DEF pending
<1> QED BY <1>1, <1>2, GeometryAssumption DEF WordAddresses, Addresses

\* Writing a word, in whole or in part, changes bits and marks the word.
LEMMA CommitTypes ==
  ASSUME TypeOK, NEW p, p.address \in WordAddresses, commit(p) \/ commit_cut_short(p)
  PROVE  flash' \in [Addresses -> Byte] /\ programmed' \subseteq WordAddresses
<1>1. flash \in [Addresses -> Byte] /\ programmed \subseteq WordAddresses
  BY DEF TypeOK
<1>2. blanked(p) \in [Addresses -> Byte] /\ still_programmed(p) \subseteq WordAddresses
  BY <1>1 DEF blanked, erased, Ones, Byte, still_programmed
<1>3. \A word : written(blanked(p), p.address, word) \in [Addresses -> Byte]
  BY <1>2 DEF written, Byte
<1>4. CASE commit(p)
  BY <1>2, <1>3, <1>4 DEF commit
<1>5. CASE commit_cut_short(p)
  BY <1>1, <1>2, <1>3, <1>5 DEF commit_cut_short
<1> QED BY <1>4, <1>5

\* After a word was written, what is left of its sector is blank.
LEMMA CommitLeavesBlank ==
  ASSUME TypeOK, session = "open", WordsProgrammedOnce, prog.address % WORD = 0,
         NEW p, p.address = prog.address, commit(p),
         prog'.address % SECTOR # 0, NEW a \in sector(prog'.address), prog'.address <= a
  PROVE  a \notin programmed'
<1> DEFINE A == prog.address
<1>1. /\ WORD \in Nat \ {0} /\ SECTOR \in Nat \ {0} /\ SECTOR % WORD = 0 /\ A \in Nat
      /\ prog'.address = A + WORD
      /\ programmed' = still_programmed(p) \cup {A}
  BY GeometryAssumption DEF TypeOK, commit
<1>2. (A + WORD) \div SECTOR = A \div SECTOR
  BY <1>1, SameUnit
<1>3. a \in Nat /\ A + WORD <= a
  BY <1>1, GeometryAssumption DEF sector, Addresses
<1>4. a \in sector(A) /\ A <= a /\ a # A
  BY <1>1, <1>2, <1>3 DEF sector
<1>5. a \notin still_programmed(p)
  <2>1. CASE starts_sector(p)
    BY <1>4, <2>1 DEF still_programmed
  <2>2. CASE ~starts_sector(p)
    BY <1>4, <2>2 DEF still_programmed, starts_sector, WordsProgrammedOnce
  <2> QED BY <2>1, <2>2
<1> QED BY <1>1, <1>4, <1>5

\* A whole word is written: the invariant holds for the next.
LEMMA CommitWord ==
  ASSUME IInv, session = "open", NEW p \in Programming,
         p.address = prog.address, p.address \in WordAddresses, commit(p)
  PROVE  /\ flash' \in [Addresses -> Byte] /\ programmed' \subseteq WordAddresses
         /\ prog' \in Programming /\ prog'.count = 0
         /\ prog'.address = prog.address + WORD
         /\ WordAligned' /\ WordsProgrammedOnce'
<1>1. /\ WORD \in Nat \ {0} /\ prog.address \in Nat /\ prog.address % WORD = 0
      /\ WORD % WORD = 0
  BY GeometryAssumption DEF IInv, TypeOK, WordAligned
<1>2. prog' = [address |-> prog.address + WORD, buffer |-> [i \in 1 .. WORD |-> Ones],
               count |-> 0]
  BY DEF commit
<1>3. prog' \in Programming /\ prog'.count = 0 /\ prog'.address = prog.address + WORD
  BY <1>1, <1>2 DEF Programming, Byte, Ones
<1>4. (prog.address + WORD) % WORD = 0
  BY <1>1, AlignedSum
<1>5. WordsProgrammedOnce'
  BY <1>1, CommitLeavesBlank DEF WordsProgrammedOnce, IInv, sector
<1> QED BY <1>3, <1>4, <1>5, CommitTypes DEF IInv, WordAligned

-----------------------------------------------------------------------------
(***************************************************************************)
(* The invariant.                                                          *)
(***************************************************************************)

\* The loader begins with an empty buffer, at address 0.
LEMMA BootTypes ==
  ASSUME TRUE
  PROVE  /\ DefaultProg \in Programming /\ DefaultProg.count < WORD
         /\ DefaultProg.address % WORD = 0
         /\ <<>> \in Seq(Byte) /\ Len(<<>>) = 0
<1>1. WORD \in Nat \ {0} /\ 0 % WORD = 0
  BY GeometryAssumption
<1> QED BY <1>1 DEF DefaultProg, Programming, Byte, Zeros

LEMMA InitIInv == Init => IInv
<1> SUFFICES ASSUME Init PROVE IInv
  OBVIOUS
<1>1. flash \in [Addresses -> Byte] /\ programmed \subseteq WordAddresses
  BY DEF Init, Zeros, Byte
<1> QED BY <1>1, BootTypes
        DEF Init, IInv, TypeOK, WordAligned, Counted, WordsProgrammedOnce, Programming

\* One case for each action of Next.
LEMMA NextIInv == IInv /\ [Next]_vars => IInv'
<1> SUFFICES ASSUME IInv, [Next]_vars PROVE IInv'
  OBVIOUS
<1>0. /\ flash \in [Addresses -> Byte] /\ programmed \subseteq WordAddresses
      /\ prog \in Programming /\ given \in Seq(Byte) /\ TypeOK
      /\ session = "open" => prog.count < WORD
  BY DEF IInv, TypeOK, Programming
<1>1. CASE program_start
  <2>1. [i \in 1 .. WORD |-> Ones] \in [1 .. WORD -> Byte] /\ WORD \in Nat \ {0} /\ 0 % WORD = 0
        /\ 0 % SECTOR = 0 /\ MaxBytes \in Nat
    BY GeometryAssumption DEF Ones, Byte
  <2>2. /\ prog' = [address |-> 0, buffer |-> [i \in 1 .. WORD |-> Ones], count |-> 0]
        /\ given' = <<>> /\ session' = "open" /\ UNCHANGED <<flash, programmed>>
    BY <1>1 DEF program_start
  <2>3. prog' \in Programming /\ prog'.address = 0 /\ prog'.count = 0 /\ prog'.count < WORD
    BY <2>1, <2>2 DEF Programming
  <2>4. TypeOK'
    BY <1>0, <2>2, <2>3 DEF TypeOK, Programming
  <2>5. Counted' /\ WordAligned' /\ WordsProgrammedOnce'
    BY <2>1, <2>2, <2>3, BootTypes DEF Counted, WordAligned, WordsProgrammedOnce
  <2> QED BY <2>4, <2>5 DEF IInv
<1>2. CASE program_write
  <2>1. PICK b \in Byte :
          /\ given' = Append(given, b)
          /\ LET p == program_add_byte(prog, b)
             IN  IF due(p, FALSE) THEN commit(p)
                 ELSE prog' = p /\ UNCHANGED <<flash, programmed>>
    BY <1>2 DEF program_write
  <2> DEFINE p == program_add_byte(prog, b)
  <2>2. session = "open" /\ session' = "open" /\ Len(given) < MaxBytes
    BY <1>2 DEF program_write
  <2>3. /\ p \in Programming /\ p.address = prog.address /\ p.count = prog.count + 1
    BY <1>0, <2>2, AddByte
  <2>4. given' \in Seq(Byte) /\ Len(given') = Len(given) + 1
    BY <1>0, <2>1
  <2>5. /\ Len(given') <= MaxBytes /\ prog.address \in Nat /\ prog.count \in Nat
        /\ WORD \in Nat \ {0} /\ prog.count < WORD
        /\ prog.address + (prog.count + 1) = Len(given')
    BY <1>0, <2>2, <2>4, GeometryAssumption DEF IInv, Counted, Programming
  <2> HIDE DEF p
  <2>6. CASE due(p, FALSE)
    <3>1. commit(p) /\ p \in pending
      BY <2>1, <2>2, <2>6 DEF p, pending
    <3>2. p.address \in WordAddresses
      BY <2>2, <3>1, PendingWord
    <3>3. /\ flash' \in [Addresses -> Byte] /\ programmed' \subseteq WordAddresses
          /\ prog' \in Programming /\ prog'.count = 0
          /\ prog'.address = prog.address + WORD
          /\ WordAligned' /\ WordsProgrammedOnce'
      BY <2>2, <2>3, <3>1, <3>2, CommitWord
    <3>4. p.count = WORD
      BY <2>6 DEF due
    <3>5. Counted'
      BY <2>3, <2>4, <2>5, <3>3, <3>4 DEF Counted
    <3>6. prog'.count < WORD
      BY <2>5, <3>3
    <3> QED BY <2>2, <2>4, <3>3, <3>5, <3>6 DEF IInv, TypeOK, Programming
  <2>7. CASE ~due(p, FALSE)
    <3>1. prog' = p /\ UNCHANGED <<flash, programmed>>
      BY <2>1, <2>7 DEF p
    <3>2. p.count # WORD
      BY <2>7 DEF due
    <3>3. p.count < WORD
      BY <2>3, <2>5, <3>2
    <3>4. Counted'
      BY <2>3, <2>4, <2>5, <3>1 DEF Counted
    <3>5. WordsProgrammedOnce' /\ WordAligned'
      BY <2>2, <2>3, <3>1 DEF IInv, WordsProgrammedOnce, WordAligned
    <3> QED BY <1>0, <2>2, <2>3, <2>4, <3>1, <3>3, <3>4, <3>5 DEF IInv, TypeOK, Programming
  <2> QED BY <2>6, <2>7
<1>3. CASE program_finish
  <2>1. session = "open" /\ session' = "finished" /\ given' = given
    BY <1>3 DEF program_finish
  <2>2. CASE due(prog, TRUE)
    <3>1. commit(prog) /\ prog \in pending
      BY <1>3, <2>2 DEF program_finish, pending
    <3>2. prog.address \in WordAddresses
      BY <2>1, <3>1, PendingWord
    <3>3. /\ flash' \in [Addresses -> Byte] /\ programmed' \subseteq WordAddresses
          /\ prog' \in Programming /\ WordAligned' /\ WordsProgrammedOnce'
      BY <1>0, <2>1, <3>1, <3>2, CommitWord
    <3> QED BY <1>0, <2>1, <3>3 DEF IInv, TypeOK, Counted, Programming
  <2>3. CASE ~due(prog, TRUE)
    BY <1>0, <1>3, <2>1, <2>3
       DEF program_finish, IInv, TypeOK, WordAligned, Counted, WordsProgrammedOnce
  <2> QED BY <2>2, <2>3
<1>4. CASE program_fails
  <2>1. session = "open" /\ session' = "failed" /\ given' = given
    BY <1>4 DEF program_fails
  <2>2. PICK p \in pending : commit_cut_short(p) /\ prog' = p
    BY <1>4 DEF program_fails
  <2>3. p \in Programming /\ p.address = prog.address /\ p.address \in WordAddresses
    BY <2>1, PendingWord
  <2>4. flash' \in [Addresses -> Byte] /\ programmed' \subseteq WordAddresses
    BY <1>0, <2>2, <2>3, CommitTypes
  <2> QED BY <1>0, <2>1, <2>2, <2>3, <2>4
          DEF IInv, TypeOK, WordAligned, Counted, WordsProgrammedOnce, Programming
<1>5. CASE reset
  <2>1. session' = "idle" /\ prog' = DefaultProg /\ given' = <<>>
    BY <1>5 DEF reset
  <2>2. flash' \in [Addresses -> Byte] /\ programmed' \subseteq WordAddresses
    <3>1. CASE UNCHANGED <<flash, programmed>>
      BY <1>0, <3>1
    <3>2. CASE session = "open" /\ \E p \in pending : commit_cut_short(p)
      BY <1>0, <3>2, PendingWord, CommitTypes
    <3> QED BY <1>5, <3>1, <3>2 DEF reset
  <2> QED BY <2>1, <2>2, BootTypes
          DEF IInv, TypeOK, WordAligned, Counted, WordsProgrammedOnce, Programming
<1>6. CASE UNCHANGED vars
  BY <1>0, <1>6 DEF vars, IInv, TypeOK, WordAligned, Counted, WordsProgrammedOnce
<1> QED BY <1>1, <1>2, <1>3, <1>4, <1>5, <1>6 DEF Next

THEOREM Invariance == Spec => []IInv
  BY InitIInv, NextIInv, PTL DEF Spec

-----------------------------------------------------------------------------
(***************************************************************************)
(* What follows from it.                                                   *)
(***************************************************************************)

\* The variables keep their types: no word is written outside the Flash, and the
\* shift of program_add_byte() stays within a word.
THEOREM TypeCorrect == Spec => []TypeOK
<1>1. IInv => TypeOK
  BY DEF IInv
<1> QED BY Invariance, <1>1, PTL

\* What is left of the sector that is being filled is blank, however many
\* installations were begun and cut short before, by errors or by power losses.
THEOREM SectorsFilledOnce == Spec => []WordsProgrammedOnce
<1>1. IInv => WordsProgrammedOnce
  BY DEF IInv
<1> QED BY Invariance, <1>1, PTL

\* So the word that program_write() or program_finish() writes next is never one
\* that was programmed since it was erased, which is what ECC Flash asks for.
EccRespected == session = "open" => \A p \in pending : p.address \notin still_programmed(p)

THEOREM EccAlwaysRespected == Spec => []EccRespected
<1>1. ASSUME IInv, session = "open", NEW p \in pending
      PROVE  p.address \notin still_programmed(p)
  <2>1. p.address = prog.address /\ p.address \in Addresses
    BY <1>1, PendingWord DEF WordAddresses
  <2>2. p.address \in sector(p.address) /\ p.address <= p.address
    BY <2>1, GeometryAssumption DEF sector, Addresses
  <2>3. CASE starts_sector(p)
    BY <2>2, <2>3 DEF still_programmed
  <2>4. CASE ~starts_sector(p)
    BY <1>1, <2>1, <2>2, <2>4
       DEF IInv, WordsProgrammedOnce, still_programmed, starts_sector
  <2> QED BY <2>3, <2>4
<1>2. IInv => EccRespected
  BY <1>1 DEF EccRespected
<1> QED BY Invariance, <1>2, PTL

\* A board with its panic handler and its LED does nothing else to the Flash: to
\* the HAL a panic looks like any other reset.
THEOREM BoardImplementsProgramming == BoardSpec => Spec
<1>1. BoardInit => Init
  BY DEF BoardInit
<1>2. ASSUME [BoardNext]_board
      PROVE  [Next]_vars
  <2>1. CASE working
    BY <2>1 DEF working
  <2>2. CASE firmware_invalid \/ panic
    BY <2>2 DEF firmware_invalid, panic, abort
  <2>3. CASE sys_reset
    BY <2>3 DEF sys_reset, Next, reset
  <2>4. CASE UNCHANGED board
    BY <2>4 DEF board
  <2> QED BY <1>2, <2>1, <2>2, <2>3, <2>4 DEF BoardNext
<1> QED BY <1>1, <1>2, PTL DEF BoardSpec, Spec

\* The properties of the run of the board.
THEOREM BoardFillsSectorsOnce == BoardSpec => [](TypeOK /\ WordsProgrammedOnce)
  BY BoardImplementsProgramming, TypeCorrect, SectorsFilledOnce, PTL

-----------------------------------------------------------------------------
(***************************************************************************)
(* Watching the LED.                                                       *)
(***************************************************************************)

\* The flashes there are, and what an observer may have in mind: the numbers read,
\* the number being read, the weight of its next digit, and the flashes counted.
Flash == { [on |-> 1, off |-> 1], [on |-> 1, off |-> 3], [on |-> 1, off |-> 7],
           [on |-> 4, off |-> 4] }
Observers == [numbers : Seq(Int), number : Int, weight : Int, count : Int]

mind(ns, n, w, c) == [numbers |-> ns, number |-> n, weight |-> w, count |-> c]

\* Every observer has something in mind.
LEMMA MindIs ==
  ASSUME NEW o \in Observers
  PROVE  /\ o = mind(o.numbers, o.number, o.weight, o.count)
         /\ o.numbers \in Seq(Int) /\ o.number \in Int /\ o.weight \in Int /\ o.count \in Int
  BY DEF Observers, mind

\* And is one, whatever it is.
LEMMA MindType ==
  ASSUME NEW ns \in Seq(Int), NEW n \in Int, NEW w \in Int, NEW c \in Int
  PROVE  mind(ns, n, w, c) \in Observers
  BY DEF Observers, mind

\* What a short flash, a short pause, a long pause and a long flash mean.
LEMMA SeesWhat ==
  ASSUME NEW ns \in Seq(Int), NEW n \in Int, NEW w \in Int, NEW c \in Int
  PROVE  /\ sees(mind(ns, n, w, c), [on |-> 1, off |-> 1]) = mind(ns, n, w, c + 1)
         /\ sees(mind(ns, n, w, c), [on |-> 1, off |-> 3]) = mind(ns, n + c * w, w * BASE, 0)
         /\ sees(mind(ns, n, w, c), [on |-> 1, off |-> 7])
              = mind(Append(ns, n + c * w), 0, 1, 0)
         /\ sees(mind(ns, n, w, c), [on |-> 4, off |-> 4]) = mind(ns, n, w, 0)
<1> DEFINE o == mind(ns, n, w, c)
           number == n + c * w
<1>1. /\ o.numbers = ns /\ o.number = n /\ o.weight = w /\ o.count = c
      /\ DOMAIN o = {"numbers", "number", "weight", "count"}
      /\ o = [numbers |-> ns, number |-> n, weight |-> w, count |-> c]
  BY DEF mind
<1> HIDE DEF o
<1>2. (c + 1) - 1 = c
  OBVIOUS
<1>3. sees(o, [on |-> 1, off |-> 1]) = mind(ns, n, w, c + 1)
  <2>1. sees(o, [on |-> 1, off |-> 1]) = [o EXCEPT !.count = o.count + 1]
    BY DEF sees
  <2> QED BY <1>1, <2>1 DEF mind
<1>4. sees(o, [on |-> 1, off |-> 3]) = mind(ns, number, w * BASE, 0)
  <2> DEFINE v == w * BASE
             q == [o EXCEPT !.count = 0, !.number = number, !.weight = v]
             r == mind(ns, number, v, 0)
             D == {"numbers", "number", "weight", "count"}
  <2>1. sees(o, [on |-> 1, off |-> 3])
          = [o EXCEPT !.count = 0, !.number = o.number + ((o.count + 1) - 1) * o.weight,
                      !.weight = o.weight * BASE]
    BY DEF sees
  <2>2. sees(o, [on |-> 1, off |-> 3]) = q
    BY <1>1, <1>2, <2>1
  <2> HIDE DEF number, v
  <2>3. /\ DOMAIN q = D /\ DOMAIN r = D
        /\ q.numbers = ns /\ q.number = number /\ q.weight = v /\ q.count = 0
        /\ r.numbers = ns /\ r.number = number /\ r.weight = v /\ r.count = 0
    BY <1>1 DEF mind
  <2>4. q = [x \in D |-> q[x]] /\ r = [x \in D |-> r[x]]
    BY <1>1, <2>3 DEF mind
  <2> HIDE DEF q, r
  <2>5. \A x \in D : q[x] = r[x]
    BY <2>3
  <2> HIDE DEF D
  <2>6. q = r
    BY <2>4, <2>5
  <2> QED BY <2>2, <2>6 DEF r, v
<1>5. sees(o, [on |-> 1, off |-> 7]) = mind(Append(ns, number), 0, 1, 0)
  <2>1. sees(o, [on |-> 1, off |-> 7])
          = [Unread EXCEPT !.numbers = Append(o.numbers, o.number + ((o.count + 1) - 1) * o.weight)]
    BY DEF sees
  <2> DEFINE ms == Append(ns, number)
  <2>2. sees(o, [on |-> 1, off |-> 7]) = [Unread EXCEPT !.numbers = ms]
    BY <1>1, <1>2, <2>1
  <2> DEFINE e == <<>>
  <2>3. Unread = [numbers |-> e, number |-> 0, weight |-> 1, count |-> 0]
    BY DEF Unread
  <2> HIDE DEF ms, e
  <2>4. [Unread EXCEPT !.numbers = ms] = [numbers |-> ms, number |-> 0, weight |-> 1, count |-> 0]
    BY <2>3
  <2> QED BY <2>2, <2>4 DEF mind, ms
<1>6. sees(o, [on |-> 4, off |-> 4]) = mind(ns, n, w, 0)
  <2>1. sees(o, [on |-> 4, off |-> 4]) = [o EXCEPT !.count = 0]
    BY DEF sees
  <2> QED BY <1>1, <2>1 DEF mind
<1> QED BY <1>3, <1>4, <1>5, <1>6 DEF o

\* Who sees a flash is still an observer.
LEMMA SeesType ==
  ASSUME NEW o \in Observers, NEW f \in Flash
  PROVE  sees(o, f) \in Observers
<1> DEFINE ns == o.numbers
           n  == o.number
           w  == o.weight
           c  == o.count
           x  == n + c * w
           y  == w * BASE
<1>1. o = mind(ns, n, w, c) /\ ns \in Seq(Int) /\ n \in Int /\ w \in Int /\ c \in Int
  BY MindIs
<1> HIDE DEF ns, n, w, c
<1>2. x \in Int /\ y \in Int
  BY <1>1, SignalAssumption
<1>3. Append(ns, x) \in Seq(Int)
  BY <1>1, <1>2
<1>4. /\ mind(ns, n, w, c + 1) \in Observers /\ mind(ns, x, y, 0) \in Observers
      /\ mind(Append(ns, x), 0, 1, 0) \in Observers /\ mind(ns, n, w, 0) \in Observers
  <2> DEFINE ms == Append(ns, x)
  <2>1. ms \in Seq(Int) /\ c + 1 \in Int /\ 0 \in Int /\ 1 \in Int
    BY <1>1, <1>3
  <2> HIDE DEF x, y, ms
  <2>2. mind(ns, n, w, c + 1) \in Observers /\ mind(ns, x, y, 0) \in Observers
    BY <1>1, <1>2, <2>1, MindType
  <2>3. mind(ms, 0, 1, 0) \in Observers /\ mind(ns, n, w, 0) \in Observers
    BY <1>1, <2>1, MindType
  <2> QED BY <2>2, <2>3 DEF ms
<1>5. \/ sees(o, f) = mind(ns, n, w, c + 1) \/ sees(o, f) = mind(ns, x, y, 0)
      \/ sees(o, f) = mind(Append(ns, x), 0, 1, 0) \/ sees(o, f) = mind(ns, n, w, 0)
  <2>1. /\ sees(o, [on |-> 1, off |-> 1]) = mind(ns, n, w, c + 1)
        /\ sees(o, [on |-> 1, off |-> 3]) = mind(ns, x, y, 0)
        /\ sees(o, [on |-> 1, off |-> 7]) = mind(Append(ns, x), 0, 1, 0)
        /\ sees(o, [on |-> 4, off |-> 4]) = mind(ns, n, w, 0)
    BY <1>1, SeesWhat
  <2>2. \/ f = [on |-> 1, off |-> 1] \/ f = [on |-> 1, off |-> 3]
        \/ f = [on |-> 1, off |-> 7] \/ f = [on |-> 4, off |-> 4]
    BY DEF Flash
  <2> HIDE DEF x, y
  <2> QED BY <2>1, <2>2, Zenon
<1> QED BY <1>4, <1>5

\* The flashes are seen one after the other.
LEMMA WatchedIs ==
  ASSUME NEW o \in Observers, NEW s \in Seq(Flash)
  PROVE  \E g \in [0 .. Len(s) -> Observers] :
           /\ watched(o, s) = g[Len(s)] /\ g[0] = o
           /\ \A i \in 1 .. Len(s) : g[i] = sees(g[i - 1], s[i])
<1> DEFINE m == Len(s)
           Runs(g) == g = [i \in 0 .. m |-> IF i = 0 THEN o ELSE sees(g[i - 1], s[i])]
           F == [p \in (1 .. m) \X Observers |-> sees(p[2], s[p[1]])]
           after == CHOOSE g : Runs(g)
<1>1. m \in Nat
  BY LenProperties
<1>2. watched(o, s) = after[m]
  BY DEF watched
<1>3. \A i \in 1 .. m, x \in Observers : sees(x, s[i]) \in Observers
  BY SeesType, ElementOfSeq
<1> HIDE DEF m
<1>4. PICK g \in [0 .. m -> Observers] : Recurs(g, o, F, m)
  <2>1. F \in [(1 .. m) \X Observers -> Observers]
    BY <1>3
  <2> HIDE DEF F
  <2> QED BY <1>1, <2>1, RecursionExists
<1>5. \A i \in 1 .. m : i \in 0 .. m /\ i # 0 /\ i - 1 \in 0 .. m
  BY <1>1
<1>6. g[0] = o /\ \A i \in 1 .. m : g[i] = sees(g[i - 1], s[i])
  <2>1. g[0] = o /\ \A i \in 1 .. m : g[i] = F[<<i, g[i - 1]>>]
    BY <1>4 DEF Recurs
  <2>2. \A i \in 1 .. m : <<i, g[i - 1]>> \in (1 .. m) \X Observers
    BY <1>5
  <2> QED BY <2>1, <2>2
<1>7. Runs(g)
  <2>1. \A i \in 0 .. m : i = 0 \/ i \in 1 .. m
    BY <1>1
  <2>2. \A i \in 0 .. m : g[i] = IF i = 0 THEN o ELSE sees(g[i - 1], s[i])
    BY <1>6, <2>1
  <2> QED BY <2>2
<1>8. Runs(after)
  BY <1>7
<1> HIDE DEF after, F
<1>9. after[0] = o /\ \A i \in 1 .. m : after[i] = sees(after[i - 1], s[i])
  <2>1. 0 \in 0 .. m
    BY <1>1
  <2> QED BY <1>5, <1>8, <2>1
<1>10. \A i \in 0 .. m : after[i] = g[i]
  <2> DEFINE S == { i \in 0 .. m : after[i] = g[i] }
  <2>1. 0 \in S
    BY <1>1, <1>6, <1>9
  <2>2. \A i \in 1 .. m : i - 1 \in S => i \in S
    BY <1>5, <1>6, <1>9
  <2>3. \A i \in 0 .. m : i \in S
    <3> HIDE DEF S
    <3> QED BY <1>1, <2>1, <2>2, BoundedInduction
  <2> QED BY <2>3
<1>11. watched(o, s) = g[m]
  BY <1>1, <1>2, <1>10
<1> QED BY <1>6, <1>11 DEF m

\* Who watches one signal and then another has watched the two as one.
LEMMA WatchedConcat ==
  ASSUME NEW o \in Observers, NEW s \in Seq(Flash), NEW t \in Seq(Flash)
  PROVE  watched(o, s) \in Observers /\ watched(o, s \o t) = watched(watched(o, s), t)
<1> DEFINE n == Len(s)
           m == Len(t)
           u == s \o t
<1>1. /\ n \in Nat /\ m \in Nat /\ u \in Seq(Flash) /\ Len(u) = n + m
      /\ \A i \in 1 .. n : u[i] = s[i]
      /\ \A j \in 1 .. m : u[n + j] = t[j]
  OBVIOUS
<1>2. PICK g \in [0 .. n -> Observers] :
        /\ watched(o, s) = g[n] /\ g[0] = o
        /\ \A i \in 1 .. n : g[i] = sees(g[i - 1], s[i])
  BY WatchedIs
<1>3. g[n] \in Observers
  BY <1>1, <1>2
<1>4. PICK h \in [0 .. m -> Observers] :
        /\ watched(g[n], t) = h[m] /\ h[0] = g[n]
        /\ \A j \in 1 .. m : h[j] = sees(h[j - 1], t[j])
  BY <1>3, WatchedIs
<1>5. PICK k \in [0 .. Len(u) -> Observers] :
        /\ watched(o, u) = k[Len(u)] /\ k[0] = o
        /\ \A i \in 1 .. Len(u) : k[i] = sees(k[i - 1], u[i])
  <2> HIDE DEF u
  <2> QED BY <1>1, WatchedIs
<1> HIDE DEF n, m, u
<1>6. \A i \in 0 .. n : k[i] = g[i]
  <2> DEFINE S == { i \in 0 .. n : k[i] = g[i] }
  <2>1. 0 \in S
    BY <1>1, <1>2, <1>5
  <2>2. ASSUME NEW i \in 1 .. n, i - 1 \in S PROVE i \in S
    <3>1. i \in 0 .. n /\ i \in 1 .. Len(u) /\ u[i] = s[i]
      BY <1>1
    <3> QED BY <1>2, <1>5, <2>2, <3>1
  <2>3. \A i \in 0 .. n : i \in S
    <3> HIDE DEF S
    <3> QED BY <1>1, <2>1, <2>2, BoundedInduction
  <2> QED BY <2>3
<1>7. \A j \in 0 .. m : k[n + j] = h[j]
  <2> DEFINE S == { j \in 0 .. m : k[n + j] = h[j] }
  <2>1. 0 \in S
    BY <1>1, <1>4, <1>6
  <2>2. ASSUME NEW j \in 1 .. m, j - 1 \in S PROVE j \in S
    <3>1. j \in 0 .. m /\ n + j \in 1 .. Len(u) /\ u[n + j] = t[j] /\ (n + j) - 1 = n + (j - 1)
      BY <1>1
    <3>2. k[n + j] = sees(k[n + (j - 1)], t[j])
      BY <1>5, <3>1
    <3> QED BY <1>4, <2>2, <3>1, <3>2
  <2>3. \A j \in 0 .. m : j \in S
    <3> HIDE DEF S
    <3> QED BY <1>1, <2>1, <2>2, BoundedInduction
  <2> QED BY <2>3
<1>8. k[Len(u)] = h[m]
  BY <1>1, <1>7
<1> QED BY <1>2, <1>3, <1>4, <1>5, <1>8 DEF u

\* A single flash, and none.
LEMMA WatchedOne ==
  ASSUME NEW o \in Observers, NEW f \in Flash
  PROVE  watched(o, <<f>>) = sees(o, f) /\ watched(o, <<>>) = o
<1>1. <<f>> \in Seq(Flash) /\ Len(<<f>>) = 1 /\ <<f>>[1] = f
  OBVIOUS
<1>2. <<>> \in Seq(Flash) /\ Len(<<>>) = 0
  OBVIOUS
<1>3. watched(o, <<f>>) = sees(o, f)
  <2> DEFINE s == <<f>>
  <2>1. s \in Seq(Flash) /\ Len(s) = 1 /\ s[1] = f
    BY <1>1
  <2> HIDE DEF s
  <2>2. PICK g \in [0 .. Len(s) -> Observers] :
           /\ watched(o, s) = g[Len(s)] /\ g[0] = o
           /\ \A i \in 1 .. Len(s) : g[i] = sees(g[i - 1], s[i])
    BY <2>1, WatchedIs
  <2>3. g[1] = sees(g[1 - 1], s[1]) /\ 1 - 1 = 0
    BY <2>1, <2>2
  <2>4. g[1] = sees(o, f) /\ watched(o, s) = g[1]
    BY <2>1, <2>2, <2>3
  <2> QED BY <2>4 DEF s
<1>4. watched(o, <<>>) = o
  <2> DEFINE s == <<>>
  <2>1. s \in Seq(Flash) /\ Len(s) = 0
    BY <1>2
  <2> HIDE DEF s
  <2>2. PICK g \in [0 .. Len(s) -> Observers] : watched(o, s) = g[Len(s)] /\ g[0] = o
    BY <2>1, WatchedIs
  <2>3. watched(o, s) = o
    BY <2>1, <2>2
  <2> QED BY <2>3 DEF s
<1> QED BY <1>3, <1>4

-----------------------------------------------------------------------------
(***************************************************************************)
(* Digits.                                                                 *)
(***************************************************************************)

\* To repeat once more is to append.
LEMMA RepeatedOnce ==
  ASSUME NEW S, NEW s \in Seq(S), NEW n \in Nat
  PROVE  /\ repeated(n, s) \in Seq(S) /\ repeated(0, s) = <<>>
         /\ repeated(n + 1, s) = repeated(n, s) \o s
<1> DEFINE c(k) == [i \in 1 .. k |-> s]
<1>1. \A k \in Nat : c(k) \in Seq(Seq(S)) /\ Len(c(k)) = k
  BY FunctionIsSeq
<1>2. c(n + 1) = Append(c(n), s)
  <2> DEFINE x == c(n)
             y == c(n + 1)
  <2>1. /\ x \in Seq(Seq(S)) /\ Len(x) = n /\ y \in Seq(Seq(S)) /\ Len(y) = n + 1
        /\ n + 1 \in 1 .. n + 1
    BY <1>1
  <2>2. (\A i \in 1 .. n : y[i] = x[i]) /\ y[n + 1] = s
    <3>1. \A i \in 1 .. n : i \in 1 .. n + 1
      OBVIOUS
    <3> QED BY <2>1, <3>1
  <2> HIDE DEF x, y, c
  <2>3. y = Append(x, s)
    BY <2>1, <2>2, OneMore
  <2> QED BY <2>3 DEF x, y
<1>3. c(0) = <<>>
  <2> DEFINE x == c(0)
  <2>1. x \in Seq(Seq(S)) /\ Len(x) = 0
    BY <1>1
  <2> HIDE DEF x
  <2>2. x = <<>>
    BY <2>1
  <2> QED BY <2>2 DEF x
<1>4. \A k : repeated(k, s) = FlattenSeq(c(k))
  BY DEF repeated
<1> HIDE DEF c
<1>5. repeated(0, s) = <<>>
  BY <1>3, <1>4, FlattenEmpty
<1>6. repeated(n, s) \in Seq(S) /\ FlattenSeq(Append(c(n), s)) = FlattenSeq(c(n)) \o s
  BY <1>1, <1>4, FlattenAppend
<1> QED BY <1>2, <1>4, <1>5, <1>6

\* Short flashes are counted.
LEMMA FlashesCounted ==
  ASSUME NEW ns \in Seq(Int), NEW n \in Int, NEW w \in Int, NEW k \in Nat
  PROVE  watched(mind(ns, n, w, 0), repeated(k, led(1))) = mind(ns, n, w, k)
<1> DEFINE f == [on |-> 1, off |-> 1]
           o == mind(ns, n, w, 0)
           s(j) == repeated(j, led(1))
           N == { j \in Nat : watched(o, s(j)) = mind(ns, n, w, j) }
<1>1. f \in Flash /\ led(1) = <<f>> /\ led(1) \in Seq(Flash) /\ o \in Observers
  BY MindType DEF Flash, led
<1>2. \A j \in Nat : s(j) \in Seq(Flash) /\ s(0) = <<>> /\ s(j + 1) = s(j) \o <<f>>
  BY <1>1, RepeatedOnce
<1> HIDE DEF s
<1>3. 0 \in N
  <2> HIDE DEF o, f
  <2>1. watched(o, s(0)) = o
    BY <1>1, <1>2, WatchedOne
  <2> QED BY <2>1 DEF o
<1>4. ASSUME NEW j \in N PROVE j + 1 \in N
  <2> DEFINE p == mind(ns, n, w, j)
  <2>1. j \in Nat /\ watched(o, s(j)) = p
    OBVIOUS
  <2>2. p \in Observers /\ sees(p, f) = mind(ns, n, w, j + 1)
    BY <2>1, MindType, SeesWhat
  <2> HIDE DEF p, f, o, N
  <2>3. watched(o, s(j) \o <<f>>) = watched(p, <<f>>)
    <3>1. s(j) \in Seq(Flash) /\ <<f>> \in Seq(Flash)
      BY <1>1, <1>2, <2>1
    <3> QED BY <1>1, <2>1, <3>1, WatchedConcat
  <2>4. watched(o, s(j + 1)) = mind(ns, n, w, j + 1)
    BY <1>1, <1>2, <2>1, <2>2, <2>3, WatchedOne
  <2> QED BY <2>1, <2>4 DEF N
<1> HIDE DEF N
<1>5. N = Nat
  <2>1. N \in SUBSET Nat
    BY DEF N
  <2> QED BY <1>3, <1>4, <2>1, InductiveSet
<1> QED BY <1>5 DEF N, s

\* A digit is counted up to its last flash, and read in the pause that follows.
LEMMA DigitRead ==
  ASSUME NEW ns \in Seq(Int), NEW n \in Int, NEW w \in Int, NEW d \in Nat
  PROVE  LET seen == paused(repeated(flashes(d), led(1)), 2)
             o    == mind(ns, n, w, 0)
         IN  /\ seen \in Seq(Flash) /\ paused(seen, 4) \in Seq(Flash)
             /\ watched(o, seen) = mind(ns, n + d * w, w * BASE, 0)
             /\ watched(o, paused(seen, 4)) = mind(Append(ns, n + d * w), 0, 1, 0)
<1> DEFINE f(u) == [on |-> 1, off |-> u]
           s == repeated(d, led(1))
           o == mind(ns, n, w, 0)
           p == mind(ns, n, w, d)
<1>1. /\ f(1) \in Flash /\ f(3) \in Flash /\ f(7) \in Flash
      /\ led(1) = <<f(1)>> /\ led(1) \in Seq(Flash)
  BY DEF Flash, led
<1>2. s \in Seq(Flash) /\ repeated(flashes(d), led(1)) = s \o <<f(1)>>
  BY <1>1, RepeatedOnce DEF flashes
<1>3. watched(o, s) = p /\ o \in Observers /\ p \in Observers
  BY FlashesCounted, MindType
<1>4. /\ sees(p, f(3)) = mind(ns, n + d * w, w * BASE, 0)
      /\ sees(p, f(7)) = mind(Append(ns, n + d * w), 0, 1, 0)
  BY SeesWhat
<1> HIDE DEF s, o, p
<1>5. \A g, h, u : h = [g EXCEPT !.off = @ + u] => paused(s \o <<g>>, u) = s \o <<h>>
  <2> TAKE g, h, u
  <2> HAVE h = [g EXCEPT !.off = @ + u]
  <2> DEFINE t == s \o <<g>>
             m == Len(s)
  <2>1. /\ m \in Nat /\ s \in Seq(Flash \cup {g, h}) /\ t \in Seq(Flash \cup {g, h})
        /\ Len(t) = m + 1 /\ t[m + 1] = g /\ \A i \in 1 .. m : t[i] = s[i]
    BY <1>2
  <2>2. paused(t, u) = [t EXCEPT ![m + 1] = h]
    BY <2>1 DEF paused
  <2>3. [t EXCEPT ![m + 1] = h] = Append(s, h)
    <3> DEFINE x == [t EXCEPT ![m + 1] = h]
    <3>1. x \in Seq(Flash \cup {g, h}) /\ Len(x) = m + 1
      <4> HIDE DEF t, m
      <4> QED BY <2>1
    <3>2. x[m + 1] = h /\ \A i \in 1 .. m : x[i] = s[i]
      <4> HIDE DEF t, m
      <4> QED BY <2>1
    <3> HIDE DEF x, t
    <3>3. x = Append(s, h)
      <4> DEFINE S == Flash \cup {g, h}
      <4>1. s \in Seq(S) /\ x \in Seq(S) /\ h \in S
        BY <2>1, <3>1
      <4> HIDE DEF S
      <4> QED BY <3>1, <3>2, <4>1, OneMore
    <3> QED BY <3>3 DEF x
  <2>4. Append(s, h) = s \o <<h>>
    <3> DEFINE S == Flash \cup {g, h}
    <3>1. s \in Seq(S) /\ h \in S
      BY <2>1
    <3> HIDE DEF S
    <3> QED BY <3>1, AppendIsConcat
  <2> QED BY <2>2, <2>3, <2>4
<1>6. f(3) = [f(1) EXCEPT !.off = @ + 2] /\ f(7) = [f(3) EXCEPT !.off = @ + 4]
  OBVIOUS
<1>7. /\ paused(repeated(flashes(d), led(1)), 2) = s \o <<f(3)>>
      /\ paused(s \o <<f(3)>>, 4) = s \o <<f(7)>>
  <2> DEFINE f1 == f(1)
             f3 == f(3)
             f7 == f(7)
  <2>0. f3 = [f1 EXCEPT !.off = @ + 2] /\ f7 = [f3 EXCEPT !.off = @ + 4]
    BY <1>6
  <2> HIDE DEF f1, f3, f7
  <2>1. /\ paused(s \o <<f1>>, 2) = s \o <<f3>>
        /\ paused(s \o <<f3>>, 4) = s \o <<f7>>
    BY <1>5, <2>0
  <2> USE DEF f1, f3, f7
  <2> QED BY <1>2, <2>1
<1> HIDE DEF f
<1>8. <<f(3)>> \in Seq(Flash) /\ <<f(7)>> \in Seq(Flash)
  BY <1>1
<1>9. /\ s \o <<f(3)>> \in Seq(Flash) /\ s \o <<f(7)>> \in Seq(Flash)
      /\ watched(o, s \o <<f(3)>>) = watched(p, <<f(3)>>)
      /\ watched(o, s \o <<f(7)>>) = watched(p, <<f(7)>>)
  <2>1. \A t \in Seq(Flash) : s \o t \in Seq(Flash) /\ watched(o, s \o t) = watched(p, t)
    BY <1>2, <1>3, WatchedConcat
  <2> QED BY <1>8, <2>1
<1>10. watched(p, <<f(3)>>) = sees(p, f(3)) /\ watched(p, <<f(7)>>) = sees(p, f(7))
  BY <1>1, <1>3, WatchedOne
<1> QED BY <1>4, <1>7, <1>9, <1>10 DEF o

-----------------------------------------------------------------------------
(***************************************************************************)
(* Numbers.                                                                *)
(***************************************************************************)

\* What is shown of the lowest digit of v.
lowest_digit(v) == paused(repeated(flashes(v % BASE), led(1)), 2)

\* The function g gives what is blinked of each of 0..n.
Blinks(g, n) ==
  \A v \in 0 .. n :
    g[v] = IF v \div BASE = 0 THEN paused(lowest_digit(v), 4)
           ELSE lowest_digit(v) \o g[v \div BASE]

\* The rest of a number is a smaller one.
LEMMA Quotient ==
  ASSUME NEW v \in Nat
  PROVE  /\ v \div BASE \in Nat /\ v % BASE \in Nat
         /\ v = (BASE * (v \div BASE)) + (v % BASE)
         /\ v \div BASE # 0 => v \div BASE < v
<1> DEFINE q == v \div BASE
           r == v % BASE
<1>1. BASE \in Nat \ {0} /\ 2 <= BASE
  BY SignalAssumption
<1>2. q \in Nat /\ r \in 0 .. BASE - 1 /\ v = (BASE * q) + r
  BY <1>1, DivMod
<1> HIDE DEF q, r
<1>3. q # 0 => q < v
  <2> HAVE q # 0
  <2>1. q * 2 <= q * BASE /\ q * BASE = BASE * q
    BY <1>1, <1>2, ProductGrows
  <2> DEFINE x == BASE * q
  <2>2. x \in Nat /\ q * 2 <= x /\ v = x + r
    BY <1>1, <1>2, <2>1
  <2> HIDE DEF x
  <2> QED BY <1>2, <2>2
<1>4. q \in Nat /\ r \in Nat /\ v = (BASE * q) + r
  BY <1>1, <1>2
<1> QED BY <1>3, <1>4 DEF q, r

\* What blink() shows is a number and what remains of it.
LEMMA BlinkIs ==
  ASSUME NEW v \in Nat
  PROVE  /\ blink[v] \in Seq(Flash)
         /\ blink[v] = IF v \div BASE = 0 THEN paused(lowest_digit(v), 4)
                       ELSE lowest_digit(v) \o blink[v \div BASE]
<1> DEFINE S == Seq(Flash)
           last(u) == paused(lowest_digit(u), 4)
           next(u, t) == lowest_digit(u) \o t
           step(u, g) == IF u \div BASE = 0 THEN last(u) ELSE next(u, g[u \div BASE])
           Upto(n) == \E g \in [0 .. n -> S] : Blinks(g, n)
           N == { n \in Nat : Upto(n) }
<1>1. \A u \in Nat : /\ lowest_digit(u) \in S /\ last(u) \in S
                     /\ \A t \in S : next(u, t) \in S
  <2> TAKE u \in Nat
  <2>1. u % BASE \in Nat
    BY Quotient
  <2>2. <<>> \in Seq(Int) /\ 0 \in Int /\ 1 \in Int
    OBVIOUS
  <2>3. lowest_digit(u) \in S /\ last(u) \in S
    BY <2>1, <2>2, DigitRead DEF lowest_digit
  <2> HIDE DEF S, last
  <2> QED BY <2>3 DEF S
<1>2. \A u \in Nat : \A g : u \div BASE = 0 \/ g[u \div BASE] \in S => step(u, g) \in S
  BY <1>1
<1> HIDE DEF S, last, next
<1>3. \A g, n : Blinks(g, n) <=> \A u \in 0 .. n : g[u] = step(u, g)
  BY DEF Blinks, last, next
<1> HIDE DEF step
<1>4. \A u, g, h : u \div BASE = 0 \/ g[u \div BASE] = h[u \div BASE] => step(u, g) = step(u, h)
  BY DEF step
<1>5. \A u \in Nat : u \div BASE \in Nat /\ (u \div BASE = 0 \/ u \div BASE < u)
  BY Quotient
<1> HIDE DEF step
<1>6. 0 \in N
  <2> DEFINE x == step(0, <<>>)
             e == [u \in 0 .. 0 |-> x]
  <2>1. 0 \div BASE = 0
    BY SignalAssumption
  <2>2. \A g : step(0, g) = x
    BY <1>4, <2>1
  <2>3. x \in S
    BY <1>2, <2>1
  <2> HIDE DEF x
  <2>4. e \in [0 .. 0 -> S] /\ \A u \in 0 .. 0 : e[u] = step(u, e)
    BY <2>2, <2>3
  <2> HIDE DEF e
  <2>5. Blinks(e, 0)
    BY <1>3, <2>4
  <2> QED BY <2>4, <2>5
<1>7. ASSUME NEW n \in N PROVE n + 1 \in N
  <2>1. n \in Nat /\ Upto(n)
    OBVIOUS
  <2>2. PICK g \in [0 .. n -> S] : Blinks(g, n)
    BY <2>1
  <2> DEFINE x == step(n + 1, g)
             h == [u \in 0 .. n + 1 |-> IF u = n + 1 THEN x ELSE g[u]]
  <2>3. \A u \in 0 .. n : u \in 0 .. n + 1 /\ u # n + 1 /\ h[u] = g[u]
    BY <2>1
  <2>4. n + 1 \in 0 .. n + 1 /\ h[n + 1] = x
    BY <2>1
  <2>5. \A u \in 0 .. n + 1 :
          u \div BASE = 0 \/ (u \div BASE \in 0 .. n /\ h[u \div BASE] = g[u \div BASE])
    <3> TAKE u \in 0 .. n + 1
    <3> DEFINE q == u \div BASE
    <3>1. u \in Nat /\ u <= n + 1
      BY <2>1
    <3>2. q \in Nat /\ (q = 0 \/ q < u)
      BY <1>5, <3>1
    <3> HIDE DEF q
    <3>3. q = 0 \/ q \in 0 .. n
      BY <2>1, <3>1, <3>2
    <3> QED BY <2>3, <3>3 DEF q
  <2>6. x \in S
    <3>1. n + 1 \in Nat /\ n + 1 \in 0 .. n + 1
      BY <2>1
    <3>2. (n + 1) \div BASE = 0 \/ g[(n + 1) \div BASE] \in S
      BY <2>2, <2>5, <3>1
    <3> HIDE DEF x
    <3> QED BY <1>2, <3>1, <3>2 DEF x
  <2>7. h \in [0 .. n + 1 -> S]
    <3>1. \A u \in 0 .. n + 1 : u = n + 1 \/ u \in 0 .. n
      BY <2>1
    <3> HIDE DEF x
    <3> QED BY <2>2, <2>6, <3>1
  <2> HIDE DEF h
  <2>8. \A u \in 0 .. n + 1 : step(u, h) = step(u, g)
    BY <1>4, <2>5
  <2>9. \A u \in 0 .. n + 1 : h[u] = step(u, h)
    <3> TAKE u \in 0 .. n + 1
    <3>1. CASE u = n + 1
      BY <2>4, <2>8, <3>1
    <3>2. CASE u \in 0 .. n
      <4>1. g[u] = step(u, g)
        BY <1>3, <2>2, <3>2
      <4> QED BY <2>3, <2>8, <3>2, <4>1
    <3> QED BY <2>1, <3>1, <3>2
  <2>10. Blinks(h, n + 1)
    BY <1>3, <2>9
  <2> QED BY <2>1, <2>7, <2>10
<1>8. \A n \in Nat : Upto(n)
  <2>1. N \in SUBSET Nat
    OBVIOUS
  <2> HIDE DEF Upto
  <2>2. N = Nat
    <3> HIDE DEF N
    <3> QED BY <1>6, <1>7, <2>1, InductiveSet
  <2> QED BY <2>2
<1>9. ASSUME NEW g, NEW h, NEW n \in Nat, NEW m \in Nat, n <= m, Blinks(g, n), Blinks(h, m)
      PROVE  \A u \in 0 .. n : g[u] = h[u]
  <2> DEFINE A == { k \in Nat : \A u \in 0 .. n : u <= k => g[u] = h[u] }
  <2>1. \A u \in 0 .. n : u \in Nat /\ g[u] = step(u, g) /\ h[u] = step(u, h)
    <3>1. \A u \in 0 .. n : u \in Nat /\ u \in 0 .. m
      BY <1>9
    <3> QED BY <1>3, <1>9, <3>1
  <2>2. 0 \in A
    <3>1. \A u \in 0 .. n : u <= 0 => u = 0
      OBVIOUS
    <3>2. 0 \div BASE = 0 /\ 0 \in 0 .. n
      BY SignalAssumption
    <3>3. g[0] = h[0]
      BY <1>4, <2>1, <3>2
    <3> QED BY <3>1, <3>3
  <2>3. ASSUME NEW k \in A PROVE k + 1 \in A
    <3>1. k \in Nat /\ \A u \in 0 .. n : u <= k => g[u] = h[u]
      BY <2>3
    <3>2. ASSUME NEW u \in 0 .. n, u <= k + 1 PROVE g[u] = h[u]
      <4> DEFINE q == u \div BASE
      <4>1. q \in Nat /\ (q = 0 \/ q < u)
        BY <1>5, <2>1
      <4> HIDE DEF q
      <4>2. q = 0 \/ (q \in 0 .. n /\ q <= k)
        BY <3>1, <3>2, <4>1
      <4>3. q = 0 \/ g[q] = h[q]
        BY <3>1, <4>2
      <4>4. step(u, g) = step(u, h)
        BY <1>4, <4>3 DEF q
      <4> QED BY <2>1, <4>4
    <3> QED BY <3>1, <3>2
  <2>4. A = Nat
    <3>1. A \in SUBSET Nat
      OBVIOUS
    <3> HIDE DEF A
    <3> QED BY <2>2, <2>3, <3>1, InductiveSet
  <2>5. n \in A
    BY <2>4
  <2> QED BY <2>5
<1> DEFINE G(u) == CHOOSE g : g \in [0 .. u -> S] /\ Blinks(g, u)
           f == [u \in Nat |-> G(u)[u]]
<1>10. \A u \in Nat : G(u) \in [0 .. u -> S] /\ Blinks(G(u), u)
  BY <1>8
<1> HIDE DEF G, Upto, N
<1>11. \A u \in Nat : f[u] \in S /\ f[u] = step(u, f)
  <2> TAKE u \in Nat
  <2> DEFINE q == u \div BASE
  <2>1. u \in 0 .. u /\ f[u] = G(u)[u]
    OBVIOUS
  <2>2. G(u)[u] \in S /\ G(u)[u] = step(u, G(u))
    BY <1>3, <1>10, <2>1
  <2>3. q \in Nat /\ (q = 0 \/ q < u)
    BY <1>5
  <2>4. q = 0 \/ G(u)[q] = f[q]
    <3> HIDE DEF q
    <3>1. q = 0 \/ (q <= u /\ q \in 0 .. q /\ f[q] = G(q)[q])
      BY <2>3
    <3>2. q <= u => \A w \in 0 .. q : G(q)[w] = G(u)[w]
      BY <1>9, <1>10, <2>3
    <3> QED BY <3>1, <3>2
  <2> HIDE DEF f
  <2>5. step(u, G(u)) = step(u, f)
    BY <1>4, <2>4 DEF q
  <2> QED BY <2>1, <2>2, <2>5
<1> DEFINE Is(b) == b = [u \in Nat |-> step(u, b)]
           b0 == CHOOSE b : Is(b)
<1>12. Is(f)
  <2>1. f = [u \in Nat |-> f[u]]
    OBVIOUS
  <2> HIDE DEF f
  <2> QED BY <1>11, <2>1
<1>13. Is(b0)
  BY <1>12
<1>14. blink = b0
  BY DEF blink, step, last, next, lowest_digit
<1> HIDE DEF b0, f
<1>15. \A u \in Nat : blink[u] = step(u, blink)
  BY <1>13, <1>14
<1>16. \A u \in Nat : blink[u] \in S
  <2> DEFINE A == { k \in Nat : \A u \in 0 .. k : blink[u] \in S }
  <2>1. 0 \in A
    <3>1. 0 \div BASE = 0
      BY SignalAssumption
    <3>2. blink[0] \in S
      BY <1>2, <1>15, <3>1
    <3> QED BY <3>2
  <2>2. ASSUME NEW k \in A PROVE k + 1 \in A
    <3>1. k \in Nat /\ \A u \in 0 .. k : blink[u] \in S
      BY <2>2
    <3> DEFINE v1 == k + 1
               q == v1 \div BASE
    <3>2. v1 \in Nat /\ q \in Nat /\ (q = 0 \/ q < v1)
      BY <1>5, <3>1
    <3>3. q = 0 \/ q \in 0 .. k
      <4> HIDE DEF q
      <4> QED BY <3>1, <3>2
    <3>4. step(v1, blink) \in S
      <4> HIDE DEF v1
      <4> QED BY <1>2, <3>1, <3>2, <3>3
    <3>5. blink[v1] \in S
      <4> HIDE DEF v1
      <4> QED BY <1>15, <3>2, <3>4
    <3>6. \A u \in 0 .. k + 1 : u \in 0 .. k \/ u = v1
      BY <3>1
    <3> HIDE DEF v1
    <3> QED BY <3>1, <3>5, <3>6 DEF A
  <2>3. A = Nat
    <3>1. A \in SUBSET Nat
      OBVIOUS
    <3> HIDE DEF A
    <3> QED BY <2>1, <2>2, <3>1, InductiveSet
  <2>4. \A u \in Nat : u \in A /\ u \in 0 .. u
    BY <2>3
  <2> QED BY <2>4
<1> QED BY <1>15, <1>16 DEF S, step, last, next

\* A number is read as the number it is, of any number of digits.
LEMMA BlinkRead ==
  \A v \in Nat : \A ns \in Seq(Int), n \in Int, w \in Int :
    watched(mind(ns, n, w, 0), blink[v]) = mind(Append(ns, n + v * w), 0, 1, 0)
<1> DEFINE Read(v) == \A ns \in Seq(Int), n \in Int, w \in Int :
             watched(mind(ns, n, w, 0), blink[v]) = mind(Append(ns, n + v * w), 0, 1, 0)
           A == { k \in Nat : \A v \in 0 .. k : Read(v) }
<1>1. ASSUME NEW v \in Nat, v \div BASE = 0 \/ Read(v \div BASE)
      PROVE  Read(v)
  <2> TAKE ns \in Seq(Int), n \in Int, w \in Int
  <2> DEFINE q == v \div BASE
             d == v % BASE
             o == mind(ns, n, w, 0)
  <2>1. q \in Nat /\ d \in Nat /\ v = (BASE * q) + d /\ BASE \in Nat
    BY Quotient, SignalAssumption
  <2>2. blink[v] = IF q = 0 THEN paused(lowest_digit(v), 4) ELSE lowest_digit(v) \o blink[q]
    BY BlinkIs
  <2>3. /\ lowest_digit(v) \in Seq(Flash)
        /\ watched(o, lowest_digit(v)) = mind(ns, n + d * w, w * BASE, 0)
        /\ watched(o, paused(lowest_digit(v), 4)) = mind(Append(ns, n + d * w), 0, 1, 0)
    <3> HIDE DEF d
    <3>1. lowest_digit(v) = paused(repeated(flashes(d), led(1)), 2)
      BY DEF lowest_digit, d
    <3> DEFINE e == paused(repeated(flashes(d), led(1)), 2)
    <3>2. /\ e \in Seq(Flash)
          /\ watched(mind(ns, n, w, 0), e) = mind(ns, n + d * w, w * BASE, 0)
          /\ watched(mind(ns, n, w, 0), paused(e, 4)) = mind(Append(ns, n + d * w), 0, 1, 0)
      BY <2>1, DigitRead
    <3> HIDE DEF e
    <3>3. lowest_digit(v) = e
      BY <3>1 DEF e
    <3> QED BY <3>2, <3>3
  <2>4. o \in Observers
    BY MindType
  <2> HIDE DEF o, d
  <2>5. CASE q = 0
    <3> HIDE DEF q
    <3>1. v = d
      <4>1. BASE * q = 0
        BY <2>1, <2>5
      <4> QED BY <2>1, <4>1
    <3> QED BY <2>2, <2>3, <2>5, <3>1 DEF o
  <2>6. CASE q # 0
    <3> DEFINE x == n + d * w
               y == w * BASE
    <3>1. x \in Int /\ y \in Int
      BY <2>1
    <3>2. blink[v] = lowest_digit(v) \o blink[q] /\ blink[q] \in Seq(Flash)
      BY <2>1, <2>2, <2>6, BlinkIs
    <3>3. watched(o, blink[v]) = watched(mind(ns, x, y, 0), blink[q])
      BY <2>3, <2>4, <3>2, WatchedConcat
    <3>4. x + q * y = n + v * w
      <4> HIDE DEF q
      <4> DEFINE a == BASE * q
      <4>1. q * (w * BASE) = (BASE * q) * w
        BY <2>1
      <4>2. a \in Nat /\ v = a + d
        BY <2>1
      <4>3. q * y = a * w
        BY <4>1
      <4> HIDE DEF a, y
      <4>4. v * w = (a * w) + (d * w)
        BY <2>1, <4>2
      <4> DEFINE e == a * w
                 g == d * w
      <4>5. e \in Int /\ g \in Int /\ v * w = e + g /\ q * y = e /\ x = n + g
        BY <2>1, <4>2, <4>3, <4>4
      <4> DEFINE z1 == v * w
                 z2 == q * y
      <4>6. z1 = e + g /\ z2 = e
        BY <4>5
      <4> HIDE DEF e, g, z1, z2, x
      <4>7. x + z2 = n + z1
        BY <4>5, <4>6
      <4> QED BY <4>7 DEF z1, z2
    <3>5. watched(mind(ns, x, y, 0), blink[q]) = mind(Append(ns, x + q * y), 0, 1, 0)
      <4> HIDE DEF x, y, q
      <4> QED BY <1>1, <2>6, <3>1 DEF q
    <3> HIDE DEF x, y, q
    <3> QED BY <3>3, <3>4, <3>5 DEF o
  <2> QED BY <2>5, <2>6 DEF o
<1> HIDE DEF Read
<1>2. \A u \in Nat : u \div BASE \in Nat /\ (u \div BASE = 0 \/ u \div BASE < u)
  BY Quotient
<1>3. 0 \in A
  <2>1. 0 \div BASE = 0
    BY SignalAssumption
  <2>2. Read(0)
    BY <1>1, <2>1
  <2> QED BY <2>2
<1>4. ASSUME NEW k \in A PROVE k + 1 \in A
  <2>1. k \in Nat /\ \A v \in 0 .. k : Read(v)
    OBVIOUS
  <2> DEFINE v1 == k + 1
             q == v1 \div BASE
  <2>2. v1 \in Nat /\ q \in Nat /\ (q = 0 \/ q < v1)
    BY <1>2, <2>1
  <2>3. q = 0 \/ q \in 0 .. k
    <3> HIDE DEF q
    <3> QED BY <2>1, <2>2
  <2>4. Read(v1)
    <3> HIDE DEF v1
    <3> QED BY <1>1, <2>1, <2>2, <2>3
  <2>5. \A u \in 0 .. k + 1 : u \in 0 .. k \/ u = v1
    BY <2>1
  <2> HIDE DEF v1
  <2> QED BY <2>1, <2>4, <2>5
<1> HIDE DEF A
<1>5. A = Nat
  <2>1. A \in SUBSET Nat
    BY DEF A
  <2> QED BY <1>3, <1>4, <2>1, InductiveSet
<1>6. \A v \in Nat : v \in A /\ v \in 0 .. v
  BY <1>5
<1> QED BY <1>6 DEF A, Read

\* Two numbers are read one after the other, whatever was read before.
LEMMA PatternRead ==
  ASSUME NEW ns \in Seq(Int), NEW x \in Nat, NEW y \in Nat
  PROVE  /\ pattern(<<x, y>>) \in Seq(Flash)
         /\ watched(mind(ns, 0, 1, 0), pattern(<<x, y>>)) = mind(ns \o <<x, y>>, 0, 1, 0)
<1> DEFINE f == [on |-> 4, off |-> 4]
           bx == blink[x]
           by == blink[y]
           o == mind(ns, 0, 1, 0)
           ns1 == Append(ns, x)
           ns2 == Append(ns1, y)
<1>1. f \in Flash /\ led(4) = <<f>> /\ <<f>> \in Seq(Flash)
  BY DEF Flash, led
<1>2. bx \in Seq(Flash) /\ by \in Seq(Flash)
  BY BlinkIs
<1>3. pattern(<<x, y>>) = <<f>> \o (bx \o by)
  <2> DEFINE vs == <<x, y>>
             bs == [i \in DOMAIN vs |-> blink[vs[i]]]
  <2>1. pattern(vs) = <<f>> \o FlattenSeq(bs)
    BY <1>1 DEF pattern
  <2>2. bs = <<bx, by>>
    OBVIOUS
  <2> HIDE DEF bx, by, bs
  <2>3. <<bx, by>> = Append(Append(<<>>, bx), by)
    OBVIOUS
  <2>4. <<>> \in Seq(Seq(Flash)) /\ Append(<<>>, bx) \in Seq(Seq(Flash))
    BY <1>2
  <2>5. FlattenSeq(Append(<<>>, bx)) = FlattenSeq(<<>>) \o bx
    BY <1>2, <2>4, FlattenAppend
  <2>6. FlattenSeq(Append(Append(<<>>, bx), by)) = FlattenSeq(Append(<<>>, bx)) \o by
    BY <1>2, <2>4, FlattenAppend
  <2>7. FlattenSeq(<<>>) \o bx = bx
    BY <1>2, FlattenEmpty
  <2> QED BY <2>1, <2>2, <2>3, <2>5, <2>6, <2>7
<1>4. /\ o \in Observers /\ sees(o, f) = o
      /\ ns1 \in Seq(Int) /\ ns2 \in Seq(Int) /\ ns2 = ns \o <<x, y>>
  <2>1. sees(o, f) = o
    BY SeesWhat
  <2>2. o \in Observers
    BY MindType
  <2>3. ns1 \in Seq(Int)
    OBVIOUS
  <2>4. ns2 \in Seq(Int)
    <3> HIDE DEF ns1
    <3> QED BY <2>3
  <2>5. ns2 = ns \o <<x, y>>
    OBVIOUS
  <2> HIDE DEF o, f, ns1, ns2
  <2> QED BY <2>1, <2>2, <2>3, <2>4, <2>5
<1>5. watched(o, bx) = mind(ns1, 0, 1, 0)
  <2>1. watched(o, bx) = mind(Append(ns, 0 + x * 1), 0, 1, 0)
    BY BlinkRead
  <2>2. 0 + x * 1 = x
    OBVIOUS
  <2> QED BY <2>1, <2>2
<1>6. watched(mind(ns1, 0, 1, 0), by) = mind(ns2, 0, 1, 0)
  <2> HIDE DEF ns1
  <2>1. watched(mind(ns1, 0, 1, 0), by) = mind(Append(ns1, 0 + y * 1), 0, 1, 0)
    BY <1>4, BlinkRead
  <2>2. 0 + y * 1 = y
    OBVIOUS
  <2> QED BY <2>1, <2>2
<1> HIDE DEF f, bx, by, o, ns1, ns2
<1>7. bx \o by \in Seq(Flash) /\ <<f>> \o (bx \o by) \in Seq(Flash)
  BY <1>1, <1>2
<1>8. watched(o, <<f>> \o (bx \o by)) = watched(o, bx \o by)
  <2>1. watched(o, <<f>>) = o
    BY <1>1, <1>4, WatchedOne
  <2> DEFINE t == bx \o by
             e == <<f>>
  <2>2. t \in Seq(Flash) /\ e \in Seq(Flash) /\ watched(o, e) = o
    BY <1>1, <1>7, <2>1
  <2> HIDE DEF t, e
  <2>3. watched(o, e \o t) = watched(watched(o, e), t)
    BY <1>4, <2>2, WatchedConcat
  <2> QED BY <2>2, <2>3 DEF t, e
<1>9. watched(o, bx \o by) = watched(watched(o, bx), by)
  BY <1>2, <1>4, WatchedConcat
<1> QED BY <1>3, <1>4, <1>5, <1>6, <1>7, <1>8, <1>9 DEF o

\* The two numbers are read as often as they are blinked.
LEMMA SignalRead ==
  ASSUME NEW x \in Nat, NEW y \in Nat
  PROVE  observed(repeated(REPEATS, pattern(<<x, y>>))) = repeated(REPEATS, <<x, y>>)
<1> DEFINE p == pattern(<<x, y>>)
           z == <<x, y>>
           N == { k \in Nat : watched(Unread, repeated(k, p)) = mind(repeated(k, z), 0, 1, 0) }
<1>1. p \in Seq(Flash) /\ z \in Seq(Int)
  <2>1. <<>> \in Seq(Int)
    OBVIOUS
  <2>2. p \in Seq(Flash)
    <3> DEFINE e == <<>>
    <3>1. e \in Seq(Int)
      BY <2>1
    <3> HIDE DEF e
    <3> QED BY <3>1, PatternRead
  <2>3. z \in Seq(Int)
    OBVIOUS
  <2> QED BY <2>2, <2>3
<1>2. \A ns \in Seq(Int) : watched(mind(ns, 0, 1, 0), p) = mind(ns \o z, 0, 1, 0)
  BY PatternRead
<1> HIDE DEF p, z
<1>3. \A k \in Nat : /\ repeated(k, p) \in Seq(Flash) /\ repeated(k, z) \in Seq(Int)
                     /\ repeated(0, p) = <<>> /\ repeated(0, z) = <<>>
                     /\ repeated(k + 1, p) = repeated(k, p) \o p
                     /\ repeated(k + 1, z) = repeated(k, z) \o z
  BY <1>1, RepeatedOnce
<1>4. Unread = mind(<<>>, 0, 1, 0) /\ Unread \in Observers
  <2>1. Unread = mind(<<>>, 0, 1, 0)
    BY DEF Unread, mind
  <2>2. <<>> \in Seq(Int) /\ 0 \in Int /\ 1 \in Int
    OBVIOUS
  <2> QED BY <2>1, <2>2, MindType
<1>5. 0 \in N
  <2>1. [on |-> 4, off |-> 4] \in Flash
    BY DEF Flash
  <2>2. watched(Unread, <<>>) = Unread
    BY <1>4, <2>1, WatchedOne
  <2>3. repeated(0, p) = <<>> /\ repeated(0, z) = <<>>
    BY <1>3
  <2> QED BY <1>4, <2>2, <2>3
<1>6. ASSUME NEW k \in N PROVE k + 1 \in N
  <2>1. k \in Nat /\ watched(Unread, repeated(k, p)) = mind(repeated(k, z), 0, 1, 0)
    OBVIOUS
  <2>2. watched(Unread, repeated(k, p) \o p) = watched(mind(repeated(k, z), 0, 1, 0), p)
    <3>1. repeated(k, p) \in Seq(Flash)
      BY <1>3, <2>1
    <3>2. watched(Unread, repeated(k, p) \o p) = watched(watched(Unread, repeated(k, p)), p)
      BY <1>1, <1>4, <3>1, WatchedConcat
    <3> QED BY <2>1, <3>2
  <2>3. watched(mind(repeated(k, z), 0, 1, 0), p) = mind(repeated(k, z) \o z, 0, 1, 0)
    BY <1>2, <1>3, <2>1
  <2>4. repeated(k + 1, p) = repeated(k, p) \o p /\ repeated(k + 1, z) = repeated(k, z) \o z
    BY <1>3, <2>1
  <2>5. watched(Unread, repeated(k + 1, p)) = mind(repeated(k + 1, z), 0, 1, 0)
    BY <2>2, <2>3, <2>4
  <2> QED BY <2>1, <2>5
<1> HIDE DEF N
<1>7. REPEATS \in N
  <2>1. N \in SUBSET Nat
    BY DEF N
  <2> QED BY <1>5, <1>6, <2>1, InductiveSet, SignalAssumption
<1>8. watched(Unread, repeated(REPEATS, p)).numbers = repeated(REPEATS, z)
  BY <1>7 DEF N, mind
<1> QED BY <1>8 DEF observed, p, z

-----------------------------------------------------------------------------
(***************************************************************************)
(* The reason of an abort.                                                 *)
(***************************************************************************)

\* The reasons abort() is called for: HalErr::Panic is one, whatever the others.
Given == Reasons \cup {Panic}

\* A reason is read off its signal, and from the signal of no other.
LEMMA SignalTells ==
  ASSUME NEW r \in Given
  PROVE  tells(signal_of(r), r)
<1>1. \A q \in Given :
        /\ q.code \in Nat /\ q = [kind |-> q.kind, code |-> q.code]
        /\ \/ q.kind = "HalError"
           \/ q.kind = "FwSizeInvalid" /\ q.code = 0
           \/ q.kind = "FwCrcMismatch" /\ q.code = 0
  <2> TAKE q \in Given
  <2>1. CASE q \in [kind : {"HalError"}, code : ErrorCodes]
    BY <2>1, SignalAssumption
  <2>2. CASE q \in [kind : {"FwSizeInvalid", "FwCrcMismatch"}, code : {0}]
    BY <2>2
  <2>3. CASE q = Panic
    BY <2>3 DEF Panic
  <2> QED BY <2>1, <2>2, <2>3 DEF Given, Reasons
<1> DEFINE x(q) == IF q.kind = "HalError" THEN 0 ELSE 1
           y(q) == IF q.kind = "HalError" THEN q.code ELSE IF q.kind = "FwSizeInvalid" THEN 0 ELSE 1
<1>2. \A q \in Given : values_of(q) = <<x(q), y(q)>> /\ x(q) \in Nat /\ y(q) \in Nat
  BY <1>1 DEF values_of
<1>3. \A p, q \in Given : x(p) = x(q) /\ y(p) = y(q) => p = q
  <2> TAKE p, q \in Given
  <2> HAVE x(p) = x(q) /\ y(p) = y(q)
  <2>1. p.kind = q.kind /\ p.code = q.code
    BY <1>1
  <2> QED BY <1>1, <2>1
<1> HIDE DEF x, y
<1>4. observed(signal_of(r)) = repeated(REPEATS, values_of(r))
  BY <1>2, SignalRead DEF signal_of
<1>5. \A other \in Reasons \ {r} : values_of(other) # values_of(r)
  <2> TAKE other \in Reasons \ {r}
  <2>1. other \in Given /\ other # r
    BY DEF Given
  <2> QED BY <1>2, <1>3, <2>1
<1> QED BY <1>4, <1>5 DEF tells

\* What the LED showed is the signal of the reason, or nothing.
SignalStands ==
  /\ led_fitted \in BOOLEAN
  /\ reason \in Given \cup {NotAborting}
  /\ signal = IF reason # NotAborting /\ led_fitted THEN signal_of(reason) ELSE <<>>

\* Who watches the LED of a board while abort() blinks knows why, for every error
\* code, any number of digits and of repetitions; at other times it is dark.
THEOREM ReasonReadable == BoardSpec => []ReasonIsReadable
<1>1. BoardInit => SignalStands
  BY DEF BoardInit, SignalStands
<1>2. ASSUME SignalStands, [BoardNext]_board
      PROVE  SignalStands'
  <2>1. ASSUME NEW r \in Given, abort(r) PROVE SignalStands'
    <3>1. r # NotAborting
      BY DEF Given, Reasons, Panic, NotAborting
    <3> QED BY <1>2, <2>1, <3>1 DEF abort, SignalStands
  <2>2. CASE firmware_invalid
    BY <2>1, <2>2 DEF firmware_invalid, Given
  <2>3. CASE panic
    BY <2>1, <2>3 DEF panic, Given
  <2>4. CASE sys_reset
    BY <1>2, <2>4 DEF sys_reset, SignalStands
  <2>5. CASE working
    BY <1>2, <2>5 DEF working, SignalStands
  <2>6. CASE UNCHANGED board
    BY <1>2, <2>6 DEF board, SignalStands
  <2> QED BY <1>2, <2>2, <2>3, <2>4, <2>5, <2>6 DEF BoardNext
<1>3. SignalStands => ReasonIsReadable
  BY SignalTells DEF SignalStands, ReasonIsReadable
<1> QED BY <1>1, <1>2, <1>3, PTL DEF BoardSpec
=============================================================================
