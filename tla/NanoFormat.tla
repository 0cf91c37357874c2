------------------------------ MODULE NanoFormat ------------------------------
(***************************************************************************)
(* The pure half of nanoloader/src/lib.rs: how the boot loader reads the   *)
(* firmware area, which holds the installed firmware at its start and, at  *)
(* a higher address, the image of an update the application staged.        *)
(*                                                                         *)
(*   firmware:  ... | size (at FW_SIZE_OFF) | ... | crc (at offset size)   *)
(*   update:    checksum | upsize | uptype | fwsize | data                 *)
(*                                                                         *)
(* A u32 is four bytes, as in the code.  The checksum function is a        *)
(* parameter: HAL::checksum is supplied by the board.                      *)
(***************************************************************************)
EXTENDS FirmwareArea

CONSTANTS
  FW_SIZE_OFF,   \* offset of the size word of a firmware     (NanoHal::FW_SIZE_OFF)
  checksum(_)    \* checksum of a sequence of bytes           (NanoHal::checksum)

ASSUME SizeOffAssumption == FW_SIZE_OFF \in Nat

U32_SZ         == 4     \* size_of::<u32>(), and of usize on a Cortex-M
UPDATE_INFO_SZ == 16    \* size_of::<UpdateInfo>()
TYPE_PLAIN     == 0     \* UpdateInfo::TYPE_PLAIN

\* Option<usize>: an address, or None.
None == -1

-----------------------------------------------------------------------------
(***************************************************************************)
(* Reading.                                                                *)
(***************************************************************************)

\* The bytes of m at addresses first .. last-1.
slice(m, first, last) == [i \in 1 .. last - first |-> m[first + i - 1]]

\* The little-endian u32 stored at address a.
u32(m, a) == m[a] + RADIX * (m[a+1] + RADIX * (m[a+2] + RADIX * m[a+3]))

\* read_checked::<T>(fwarea, off) succeeds: the value lies in the area and is
\* aligned.  Every T the loader reads has the alignment of a u32.
readable(off, size) == off + size <= FW_LEN /\ (FW_START + off) % U32_SZ = 0

-----------------------------------------------------------------------------
(***************************************************************************)
(* Is there a valid firmware?                                              *)
(***************************************************************************)

fw_size(m) == u32(m, FW_START + FW_SIZE_OFF)

\* The size word must be readable, and the firmware and its checksum must fit
\* into the area.
firmware_fits(m) ==
  /\ readable(FW_SIZE_OFF, U32_SZ)
  /\ fw_size(m) <= FW_LEN
  /\ readable(fw_size(m), U32_SZ)

\* Seeded fault: a firmware is accepted on the strength of its size alone.
crc_ignored(m) == TRUE

\* The word that follows the firmware is its checksum.
crc_matches(m) ==
  checksum(slice(m, FW_START, FW_START + fw_size(m))) = u32(m, FW_START + fw_size(m))

check_firmware(m) ==
  IF ~firmware_fits(m) THEN "FwSizeInvalid"
  ELSE IF crc_matches(m) THEN "Ok" ELSE "FwCrcMismatch"

fw_ok(m) == check_firmware(m) = "Ok"

\* The firmware in m: its bytes with the checksum that follows them.
image(m) == slice(m, FW_START, FW_START + fw_size(m) + U32_SZ)

-----------------------------------------------------------------------------
(***************************************************************************)
(* Is there a valid update?  An Update carries its header by value; its    *)
(* data stays in Flash and is only referred to.                            *)
(***************************************************************************)

UpdateInfo == [checksum : Nat, upsize : Nat, uptype : Nat, fwsize : Nat]

update_info(m, a) ==
  [checksum |-> u32(m, a),
   upsize   |-> u32(m, a + 4),
   uptype   |-> u32(m, a + 8),
   fwsize   |-> u32(m, a + 12)]

update_at(m, a) == [info |-> update_info(m, a), address |-> a]

data_start(u) == u.address + UPDATE_INFO_SZ
data_len(u)   == u.info.upsize - UPDATE_INFO_SZ

\* check_update() returns Some: the pointer a points into the area, the header
\* and the whole update lie in it, and everything after the checksum field has
\* that checksum.  checked_add cannot fail where get(..) succeeds.
check_update(m, a) ==
  /\ a >= FW_START
  /\ readable(a - FW_START, UPDATE_INFO_SZ)
  /\ LET info == update_info(m, a)
     IN  /\ a + info.upsize <= FW_END
         /\ info.upsize >= UPDATE_INFO_SZ
         /\ info.checksum = checksum(slice(m, a + U32_SZ, a + info.upsize))

\* Pow2::align_up for the page size.
align_up(n) == ((n + FW_PAGE_SZ - 1) \div FW_PAGE_SZ) * FW_PAGE_SZ

\* Seeded fault: only the bytes of the firmware are kept clear of the update,
\* not the whole pages that are erased for them.
fits_unaligned(u) ==
  /\ u.info.fwsize = data_len(u)
  /\ FW_START + u.info.fwsize <= u.address

\* The two ensure()s of install_plain: the sizes agree, and the pages that will
\* be erased end before the update itself begins.
fits(u) ==
  /\ u.info.fwsize = data_len(u)
  /\ FW_START + align_up(u.info.fwsize) <= u.address

\* The update at address a is one the loader would install.
installable(m, a) ==
  /\ check_update(m, a)
  /\ update_info(m, a).uptype = TYPE_PLAIN
  /\ fits(update_at(m, a))
=============================================================================
