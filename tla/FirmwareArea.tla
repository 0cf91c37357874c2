----------------------------- MODULE FirmwareArea -----------------------------
(***************************************************************************)
(* The part of the Flash a boot loader hands to the firmware, as the       *)
(* constants of the NanoHal trait describe it (nanoloader/src/lib.rs): an  *)
(* array of bytes, addressed by absolute address and erased page by page.  *)
(* A byte ranges over 0..RADIX-1 (RADIX is 256 on a device, smaller for    *)
(* TLC).                                                                   *)
(***************************************************************************)
EXTENDS Integers, Sequences

CONSTANTS
  FW_START,      \* first address of the firmware area        (NanoHal::FW_START)
  FW_END,        \* first address after the firmware area     (NanoHal::FW_END)
  FW_PAGE_SZ,    \* bytes erased together                     (NanoHal::FW_PAGE_SZ)
  RADIX          \* number of values of a byte

ASSUME GeometryAssumption ==
  /\ FW_START \in Nat
  /\ FW_END \in Nat
  /\ FW_PAGE_SZ \in Nat \ {0}
  /\ RADIX \in Nat \ {0, 1}
  /\ FW_START < FW_END
  /\ FW_START % FW_PAGE_SZ = 0

Byte   == 0 .. RADIX - 1
ERASED == RADIX - 1     \* a byte of erased Flash, all bits set

fwarea  == FW_START .. FW_END - 1     \* the addresses of get_fwarea()
FW_LEN  == FW_END - FW_START          \* fwarea.len()
Memory  == [fwarea -> Byte]
=============================================================================
