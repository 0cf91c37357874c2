---------------------------- MODULE FlashController ----------------------------
(***************************************************************************)
(* The Flash peripheral of moonbow (moonbow/src/peripherals/generic.rs):   *)
(* the memory reads as a plain array and changes only by commands written  *)
(* to the registers of the controller.                                     *)
(*                                                                         *)
(* A u32 is a Word of four bytes, least significant first.  A byte is the  *)
(* set of its bits that are 1, so that and is intersection; the bits of a  *)
(* byte are 0..BITS-1 (BITS is 8 in the code).                             *)
(***************************************************************************)
EXTENDS RegisterBlock

CONSTANTS
  BITS,         \* bits of a byte
  FLASH_SIZE,   \* data.len(); the Flash begins at address 0 (flash_base)
  PAGE,         \* page_size
  CMD_PROGRAM, CMD_ERASE   \* the two commands, as Words

Byte  == SUBSET (0 .. BITS - 1)
Ones  == 0 .. BITS - 1
Word  == [1 .. 4 -> Byte]

ASSUME ControllerAssumption ==
  /\ BITS \in Nat \ {0}
  /\ FLASH_SIZE \in Nat
  /\ PAGE \in Nat \ {0}
  /\ PAGE % 4 = 0
  /\ FLASH_SIZE % PAGE = 0
  /\ CMD_PROGRAM \in Word /\ CMD_ERASE \in Word /\ CMD_PROGRAM # CMD_ERASE

VARIABLES
  flash,        \* data
  reg           \* the registers that hold a value, by name

controller == <<flash, reg>>

Addresses == 0 .. FLASH_SIZE - 1

-----------------------------------------------------------------------------
(***************************************************************************)
(* Words and numbers.                                                      *)
(***************************************************************************)

AllOnes  == [i \in 1 .. 4 |-> Ones]      \* u32::MAX
AllZeros == [i \in 1 .. 4 |-> {}]

\* What is left of n after each of k shifts to the right.
shifted(n, k) ==
  LET left[i \in 0 .. k] == IF i = 0 THEN n ELSE left[i - 1] \div 2
  IN  left

\* The byte and the u32 with value n, and the numbers that a u32 can be.
byte_of(n) == { b \in Ones : shifted(n, BITS)[b] % 2 = 1 }
word_of(n) == [i \in 1 .. 4 |-> { b \in Ones : shifted(n, 4 * BITS)[BITS * (i - 1) + b] % 2 = 1 }]

fits_u32(n) == shifted(n, 4 * BITS)[4 * BITS] = 0

\* The number of n bits of which those in bits are 1.
number(bits, n) ==
  LET leading[k \in 0 .. n] ==
        IF k = 0 THEN 0 ELSE 2 * leading[k - 1] + (IF n - k \in bits THEN 1 ELSE 0)
  IN  leading[n]

value_of_byte == [byte \in Byte |-> number(byte, BITS)]

\* The number of values of a byte.
RADIX == value_of_byte[Ones] + 1

value_of(w) == number(UNION { { BITS * (i - 1) + b : b \in w[i] } : i \in 1 .. 4 }, 4 * BITS)

\* The word at address a, as the CPU reads it.
word_at(m, a) == [i \in 1 .. 4 |-> m[a + i - 1]]

-----------------------------------------------------------------------------
(***************************************************************************)
(* Commands.                                                               *)
(***************************************************************************)

align_down(n, size) == (n \div size) * size

check_addr(a) == a \in Addresses

\* Seeded fault: programming replaces the word.
programmed_over(m, a, w) ==
  [x \in DOMAIN m |-> IF x \in a .. a + 3 THEN w[x - a + 1] ELSE m[x]]

\* Programming clears bits and never sets one.
programmed(m, a, w) ==
  [x \in DOMAIN m |-> IF x \in a .. a + 3 THEN w[x - a + 1] \cap m[x] ELSE m[x]]

\* Erasing sets every bit of a page.
erased(m, a) == [x \in DOMAIN m |-> IF x \in a .. a + PAGE - 1 THEN Ones ELSE m[x]]

\* What set_reg_command() makes of memory m with registers r: an address outside
\* the Flash, or an unknown command, is ignored without an error.
set_reg_command(m, r, value) ==
  LET word == align_down(value_of(r.addr), 4)
      page == align_down(value_of(r.addr), PAGE)
  IN  CASE value = CMD_PROGRAM /\ check_addr(word) -> programmed(m, word, r.data)
        [] value = CMD_ERASE /\ check_addr(page)   -> erased(m, page)
        [] OTHER                                   -> m

-----------------------------------------------------------------------------
(***************************************************************************)
(* The registers.                                                          *)
(***************************************************************************)

Fields == << Register("status", Inherited, "nop"), Register("addr", Inherited, "store"),
             Register("data", Inherited, "store"), Register("command", Inherited, "setter") >>

\* What a write of value makes of a controller c; one that is refused changes
\* nothing, and the emulator only logs the error (handle_mmio_write).
accessed(c, offset, size, value) ==
  LET field == selected(Fields, offset, size)
  IN  CASE keeps(field)            -> [c EXCEPT !.reg[field.name] = value]
        [] field.write = "setter"  -> [c EXCEPT !.flash = set_reg_command(@, c.reg, value)]
        [] OTHER                   -> c

mmio_write(offset, size, value) ==
  LET c == accessed([flash |-> flash, reg |-> reg], offset, size, value)
  IN  flash' = c.flash /\ reg' = c.reg

\* FlashController::new(); the image that is loaded into the Flash is the caller's.
ControllerInit == reg = [name \in {"status", "addr", "data"} |-> AllZeros]
=============================================================================
