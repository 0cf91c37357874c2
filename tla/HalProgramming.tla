----------------------------- MODULE HalProgramming -----------------------------
(***************************************************************************)
(* What the loader is promised by the three programming functions of the   *)
(* NanoHal trait: program_start(), then program_write() byte by byte, then *)
(* program_finish().  Bytes are collected into blocks of BLOCK bytes; when *)
(* a block is complete it is programmed, after its page has been erased if *)
(* the block is the first of the page; what is left at the end is padded   *)
(* with the value of erased bytes.                                         *)
(*                                                                         *)
(* NanoLoader uses these actions as the HAL it runs on.  TestHal, which    *)
(* models a board down to its single register writes, implements HalSpec.  *)
(***************************************************************************)
EXTENDS FirmwareArea

CONSTANTS
  BLOCK,              \* bytes per program operation
  program_bits(_, _)  \* what programming a byte leaves: (old, new) -> stored

ASSUME HalAssumption ==
  /\ BLOCK \in Nat \ {0}
  /\ FW_PAGE_SZ % BLOCK = 0
  /\ \A b \in Byte : program_bits(ERASED, b) = b
  /\ \A old, new \in Byte : program_bits(old, new) \in Byte

VARIABLES
  flash,     \* contents of the firmware area
  prog       \* the programming state: next address, bytes collected

-----------------------------------------------------------------------------
(***************************************************************************)
(* Flash operations.                                                       *)
(***************************************************************************)

\* Memory m after the page at a has been erased.
erased(m, a) ==
  [x \in fwarea |-> IF a <= x /\ x < a + FW_PAGE_SZ THEN ERASED ELSE m[x]]

\* Memory m after block has been programmed at a.
programmed(m, a, block) ==
  [x \in fwarea |-> IF a <= x /\ x < a + BLOCK
                    THEN program_bits(m[x], block[x - a + 1]) ELSE m[x]]

page_starts(a) == a % FW_PAGE_SZ = 0

\* Seeded fault: the page is never erased before it is programmed.
commit_unerased(m, a, block) == programmed(m, a, block)

\* Writing one block: erase its page if it is the first one there, program it.
commit(m, a, block) ==
  programmed(IF page_starts(a) THEN erased(m, a) ELSE m, a, block)

-----------------------------------------------------------------------------
(***************************************************************************)
(* The functions.                                                          *)
(***************************************************************************)

\* prog as MspM0CHal and TestHal are constructed by Default::default().
Idle == [address |-> 0, buffer |-> <<>>]

pad(bytes) ==
  [i \in 1 .. BLOCK |-> IF i <= Len(bytes) THEN bytes[i] ELSE ERASED]

\* Seeded fault: a block is only written once it is over-full.
completed_late(p, b) == IF Len(p.buffer) = BLOCK THEN p.buffer ELSE <<>>

\* The block that byte b completes, if it does.
completed(p, b) == IF Len(p.buffer) + 1 = BLOCK THEN Append(p.buffer, b) ELSE <<>>

\* Seeded fault: the bytes still collected are not written.
last_block_lost(p) == <<>>

\* The last, partial block, if there is one.
last_block(p) == IF p.buffer = <<>> THEN <<>> ELSE pad(p.buffer)

write_block(block) ==
  /\ prog' = [address |-> prog.address + BLOCK, buffer |-> <<>>]
  /\ flash' = commit(flash, prog.address, block)

Start ==
  /\ prog' = [address |-> FW_START, buffer |-> <<>>]
  /\ flash' = flash

Write(b) ==
  IF completed(prog, b) = <<>>
  THEN prog' = [prog EXCEPT !.buffer = Append(@, b)] /\ flash' = flash
  ELSE write_block(completed(prog, b))

Finish ==
  IF last_block(prog) = <<>> THEN UNCHANGED <<prog, flash>>
  ELSE write_block(last_block(prog))

\* The next boot constructs a new HAL.
Restart == prog' = Idle /\ flash' = flash

HalInit == prog = Idle /\ flash \in Memory

HalNext == Start \/ (\E b \in Byte : Write(b)) \/ Finish \/ Restart

HalSpec == HalInit /\ [][HalNext]_<<flash, prog>>
=============================================================================
