---------------------------- MODULE MspProgramming ----------------------------
(***************************************************************************)
(* The programming half of the MSPM0 HAL (mspm0cloader/src/lib.rs): how    *)
(* program_start(), program_write() and program_finish() drive the Flash   *)
(* controller.  Bytes are collected into 64-bit words; before the first    *)
(* word of a sector is programmed the sector is erased.                    *)
(*                                                                         *)
(* The caller is install_plain() of nanoloader: one program_start(), then  *)
(* bytes, then one program_finish(), given up at the first error.  A byte  *)
(* is the set of its bits that are 1, so that or is union.  Flash has ECC: *)
(* a word may be programmed only once between erasures, whatever its       *)
(* value, so the model remembers which words were programmed.              *)
(***************************************************************************)
EXTENDS Integers, Sequences

CONSTANTS
  WORD,        \* bytes of a Flash word (8)
  SECTOR,      \* bytes erased together  (FLASH_PAGE_SZ)
  FW_START,    \* first address of the firmware area
  FLASH_END,   \* first address after the Flash (FW_END)
  Bits,        \* the bits of a byte
  MaxBytes     \* bound on the length of an update

ASSUME GeometryAssumption ==
  /\ WORD \in Nat \ {0}
  /\ SECTOR \in Nat \ {0}
  /\ FW_START \in Nat
  /\ FLASH_END \in Nat
  /\ MaxBytes \in Nat
  /\ SECTOR % WORD = 0
  /\ FW_START % SECTOR = 0
  /\ FLASH_END % SECTOR = 0
  /\ FW_START + MaxBytes <= FLASH_END

VARIABLES
  flash,       \* [address -> byte]
  programmed,  \* addresses of the words programmed since they were erased
  prog,        \* FlashProgramming: address, buffer, count
  session,     \* "idle", "open", "finished" or "failed"
  given        \* the bytes the caller has handed over since program_start()

vars == <<flash, programmed, prog, session, given>>

Byte == SUBSET Bits
Ones == Bits
Zeros == {}

Addresses == 0 .. FLASH_END - 1
WordAddresses == { a \in Addresses : a % WORD = 0 }

\* The word that begins at a.
word_at(m, a) == [i \in 1 .. WORD |-> m[a + i - 1]]

-----------------------------------------------------------------------------
(***************************************************************************)
(* The Flash controller: erase_page() and write_word() of flash_util.      *)
(***************************************************************************)

\* The addresses of the sector that holds a.
sector(a) == { x \in Addresses : x \div SECTOR = a \div SECTOR }

erased(m, a) == [x \in Addresses |-> IF x \in sector(a) THEN Ones ELSE m[x]]

written(m, a, word) ==
  [x \in Addresses |-> IF a <= x /\ x < a + WORD THEN m[x] \cap word[x - a + 1] ELSE m[x]]

-----------------------------------------------------------------------------
(***************************************************************************)
(* The HAL.                                                                *)
(***************************************************************************)

\* FlashProgramming::default().
DefaultProg == [address |-> 0, buffer |-> [i \in 1 .. WORD |-> Zeros], count |-> 0]

\* program_start().
program_start ==
  /\ session = "idle"
  /\ prog' = [address |-> 0, buffer |-> [i \in 1 .. WORD |-> Ones], count |-> 0]
  /\ given' = <<>>
  /\ session' = "open"
  /\ UNCHANGED <<flash, programmed>>

\* program_add_byte(): the byte is or-ed into the buffer.
program_add_byte(p, b) ==
  [p EXCEPT !.buffer[p.count + 1] = @ \cup b, !.count = @ + 1]

\* Seeded fault: a word is only written when a byte too many was collected.
due_late(p, force) == p.count > WORD \/ (force /\ p.count # 0)

\* program_commit_word::<FORCE>() has something to write.
due(p, force) == p.count = WORD \/ (force /\ p.count # 0)

\* Seeded fault: only the first sector is erased.
starts_sector_once(p) == p.address = 0

\* The word about to be written is the first of its sector.
starts_sector(p) == p.address % SECTOR = 0

\* The Flash as the word of p finds it: blank, or written since that sector began.
blanked(p) == IF starts_sector(p) THEN erased(flash, p.address) ELSE flash

still_programmed(p) == IF starts_sector(p) THEN programmed \ sector(p.address) ELSE programmed

\* What program_commit_word() does to the Flash, and to the programming state.
commit(p) ==
  /\ flash' = written(blanked(p), p.address, p.buffer)
  /\ programmed' = still_programmed(p) \cup {p.address}
  /\ prog' = [address |-> p.address + WORD, buffer |-> [i \in 1 .. WORD |-> Ones], count |-> 0]

\* program_commit_word() ends early: nothing was done, the erasure did not take or
\* was all there was, or the word was perhaps written, in part or with any content.
commit_cut_short(p) ==
  \/ UNCHANGED <<flash, programmed>>
  \/ /\ starts_sector(p)
     /\ flash' = blanked(p)
     /\ programmed' \in { programmed, still_programmed(p) }
  \/ /\ flash' \in { blanked(p) } \cup { written(blanked(p), p.address, word) :
                                         word \in {p.buffer, [i \in 1 .. WORD |-> Zeros]} }
     /\ programmed' = still_programmed(p) \cup {p.address}

\* The words that may be about to be written, by program_finish() or by
\* program_write() with another byte.
pending ==
  { p \in {prog} : due(p, TRUE) }
    \cup { p \in { program_add_byte(prog, b) : b \in Byte } :
             due(p, FALSE) /\ Len(given) < MaxBytes }

\* program_write(): a byte is collected, and a full word is written.
program_write ==
  /\ session = "open"
  /\ Len(given) < MaxBytes
  /\ \E b \in Byte :
       /\ given' = Append(given, b)
       /\ LET p == program_add_byte(prog, b)
          IN  IF due(p, FALSE) THEN commit(p)
              ELSE prog' = p /\ UNCHANGED <<flash, programmed>>
  /\ session' = session

\* program_finish(): what is left in the buffer is written.
program_finish ==
  /\ session = "open"
  /\ IF due(prog, TRUE) THEN commit(prog) ELSE UNCHANGED <<flash, programmed, prog>>
  /\ session' = "finished"
  /\ given' = given

\* program_write() or program_finish() returns Err, and the caller gives up.
program_fails ==
  /\ session = "open"
  /\ \E p \in pending : commit_cut_short(p) /\ prog' = p
  /\ session' = "failed"
  /\ given' = given

\* Power is lost, or the loader is done and the device is reset sooner or later.
reset ==
  /\ \/ UNCHANGED <<flash, programmed>>
     \/ session = "open" /\ \E p \in pending : commit_cut_short(p)
  /\ prog' = DefaultProg
  /\ session' = "idle"
  /\ given' = <<>>

-----------------------------------------------------------------------------
\* The device as it is shipped: every word was programmed.
Init ==
  /\ flash = [a \in Addresses |-> Zeros]
  /\ programmed = WordAddresses
  /\ prog = DefaultProg
  /\ session = "idle"
  /\ given = <<>>

Next == program_start \/ program_write \/ program_finish \/ program_fails \/ reset

Spec == Init /\ [][Next]_vars

-----------------------------------------------------------------------------
(***************************************************************************)
(* Properties.                                                             *)
(***************************************************************************)

\* The types of the variables; count never reaches a full word between calls
\* that succeed, so that the shift in program_add_byte() stays within 64 bits.
TypeOK ==
  /\ flash \in [Addresses -> Byte]
  /\ programmed \subseteq WordAddresses
  /\ prog \in [address : Nat, buffer : [1 .. WORD -> Byte], count : 0 .. WORD]
  /\ session \in {"idle", "open", "finished", "failed"}
  /\ given \in Seq(Byte)
  /\ session = "open" => prog.count < WORD

\* A word is never programmed twice without an erasure in between, which ECC
\* Flash does not allow: however an earlier installation was cut short, what is
\* left of the sector being filled is blank.
WordsProgrammedOnce ==
  session = "open" /\ prog.address % SECTOR # 0
    => \A a \in sector(prog.address) : prog.address <= a => a \notin programmed

\* The bytes handed over, as whole words padded with ones.
padded(bytes) ==
  [i \in 1 .. ((Len(bytes) + WORD - 1) \div WORD) * WORD |->
     IF i <= Len(bytes) THEN bytes[i] ELSE Ones]

\* When program_finish() returns Ok, the bytes handed over are in Flash, one
\* after the other from where programming started.
BytesArrive ==
  session = "finished" =>
    LET start == prog.address - Len(padded(given))
    IN  \A i \in 1 .. Len(given) : flash[start + i - 1] = given[i]

\* Programming changes the firmware area only, never the boot loader below it.
BootLoaderUntouched ==
  [][ \A a \in Addresses : a < FW_START => flash'[a] = flash[a] ]_vars
=============================================================================
