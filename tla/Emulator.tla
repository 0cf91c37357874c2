-------------------------------- MODULE Emulator --------------------------------
(***************************************************************************)
(* The memory of moonbow's device (moonbow/src/device/mod.rs, main.rs): a  *)
(* guest that may do anything loads from and stores to an address space    *)
(* made of the Flash, an SRAM, the registers of the Flash controller and   *)
(* those of the SCS (moonbow/src/peripherals/cortex_m0.rs).                *)
(*                                                                         *)
(* The Unicorn CPU decides which mapping an address belongs to; accesses   *)
(* are aligned to their size, as the Cortex-M0 demands.  The contents of   *)
(* the SRAM are the guest's own and are left out.                          *)
(***************************************************************************)
EXTENDS FlashController

CONSTANTS
  SRAM_BASE, SRAM_SIZE,
  CTRL_BASE, CTRL_SIZE,   \* the registers of the Flash controller
  SCS_BASE, SCS_SIZE,     \* the System Control Space
  VTOR,                   \* offset of its one register (0xd08)
  Stored                  \* the values a guest may store

ASSUME MapAssumption ==
  /\ {SRAM_BASE, SRAM_SIZE, CTRL_BASE, CTRL_SIZE, SCS_BASE, SCS_SIZE, VTOR} \subseteq Nat
  /\ FLASH_SIZE <= SRAM_BASE
  /\ SRAM_BASE + SRAM_SIZE <= CTRL_BASE
  /\ CTRL_BASE + CTRL_SIZE <= SCS_BASE
  /\ \A x \in {SRAM_BASE, SRAM_SIZE, CTRL_BASE, CTRL_SIZE, SCS_BASE, SCS_SIZE, VTOR} : x % 4 = 0
  /\ Stored \subseteq Word

VARIABLES
  vtor,
  status      \* "running", or "failed" when emu_start() returned an error

device == <<controller, vtor, status>>

Sram == SRAM_BASE .. SRAM_BASE + SRAM_SIZE - 1
Ctrl == CTRL_BASE .. CTRL_BASE + CTRL_SIZE - 1
Scs  == SCS_BASE .. SCS_BASE + SCS_SIZE - 1

Sizes == {1, 2, 4}

\* Where a guest may try its luck: in all mappings, and one word beyond them.
Accesses(size) == { a \in 0 .. SCS_BASE + SCS_SIZE + 3 : a % size = 0 }

\* The value of a store of n bytes, as a u32.
extended(bytes, n) == [i \in 1 .. 4 |-> IF i <= n THEN bytes[i] ELSE {}]

-----------------------------------------------------------------------------
(***************************************************************************)
(* The SCS.                                                                *)
(***************************************************************************)

ScsFields == << Register("vtor", VTOR, "store") >>

scs_write(offset, size, value) ==
  vtor' = IF keeps(selected(ScsFields, offset, size)) THEN value ELSE vtor

-----------------------------------------------------------------------------
(***************************************************************************)
(* The guest.                                                              *)
(***************************************************************************)

\* Nothing is said of loads: whatever they return, no register of these peripherals
\* is changed by being read.

\* The Flash is not mapped for writing, so a store to it is none to a mapping.
store ==
  /\ status = "running"
  /\ \E n \in Sizes : \E a \in Accesses(n), value \in Stored :
       \/ /\ a \in Sram
          /\ UNCHANGED <<controller, vtor>>
       \/ /\ a \in Ctrl
          /\ mmio_write(a - CTRL_BASE, n, extended(value, n))
          /\ UNCHANGED vtor
       \/ /\ a \in Scs
          /\ scs_write(a - SCS_BASE, n, extended(value, n))
          /\ UNCHANGED controller
  /\ status' = status

\* A store to the Flash, an access to no mapping (handle_mem_unmapped), or an
\* instruction that is none (handle_insn_invalid).
fault ==
  /\ status = "running"
  /\ status' = "failed"
  /\ UNCHANGED <<controller, vtor>>

\* Any image may have been loaded; its Flash differs from word to word.
DeviceInit ==
  /\ ControllerInit
  /\ flash \in { [a \in Addresses |-> IF a \div 4 % 2 = k THEN Ones ELSE {}] : k \in {0, 1} }
  /\ vtor = AllZeros
  /\ status = "running"

DeviceNext == store \/ fault

DeviceSpec == DeviceInit /\ [][DeviceNext]_device

-----------------------------------------------------------------------------
(***************************************************************************)
(* Properties.                                                             *)
(***************************************************************************)

\* The types of the variables; the status register keeps its reset value.
DeviceTypeOK ==
  /\ flash \in [Addresses -> Byte]
  /\ reg \in [{"status", "addr", "data"} -> Word] /\ reg.status = AllZeros
  /\ vtor \in Word
  /\ status \in {"running", "failed"}

\* The Flash behaves like Flash whatever the guest does: a step either clears bits
\* of one aligned word, and then only bits that are clear in the data register, or
\* it erases one whole page.
FlashIsFlash ==
  [][ flash' = flash
        \/ (\E a \in Addresses : a % 4 = 0 /\
              \A x \in Addresses :
                flash'[x] = IF x \div 4 = a \div 4 THEN flash[x] \cap reg.data[x - a + 1]
                            ELSE flash[x])
        \/ (\E a \in Addresses : a % PAGE = 0 /\
              \A x \in Addresses :
                flash'[x] = IF x \div PAGE = a \div PAGE THEN Ones ELSE flash[x]) ]_device
=============================================================================
