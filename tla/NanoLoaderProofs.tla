--------------------------- MODULE NanoLoaderProofs ---------------------------
(***************************************************************************)
(* Proofs about NanoLoader, for every geometry, block size, checksum and   *)
(* behaviour of the application, and for any number of power losses and    *)
(* Flash faults.                                                           *)
(*                                                                         *)
(* First, a device can always recover.  The argument: while                *)
(* install_plain() copies, the update it copies from is the pending one,   *)
(* and the pages it erases and the blocks it programs lie below it.  So    *)
(* the pending update can still be installed after every step, completed   *)
(* or cut short; and the pointer goes only when there is a firmware.       *)
(*                                                                         *)
(* Second, install_plain() writes the data of the update, byte for byte,   *)
(* and an update that could be installed is not given up before that.      *)
(* The argument: below the address of the HAL lies what was copied, what   *)
(* is collected is what comes next, and from there to the end of the page  *)
(* the Flash is erased, so that programming the next block stores it.      *)
(*                                                                         *)
(* Third, NanoLoader implements AtomicUpdate, provided that nothing is     *)
(* taken for a firmware or for an update by chance (NothingByChance).      *)
(* The argument: what installing the pending update makes of the firmware  *)
(* area depends only on what lies above the pages being written, so it is  *)
(* the same after every step of the copy; and when install_plain() reports *)
(* success the area is just that, the padding of its last page included.   *)
(***************************************************************************)
EXTENDS NanoLoaderRefinement, BasicLemmas

-----------------------------------------------------------------------------
(***************************************************************************)
(* Pages.                                                                  *)
(***************************************************************************)

\* align_up() returns a number of whole pages, and no fewer bytes than asked for.
LEMMA AlignUp ==
  ASSUME NEW n \in Nat
  PROVE  align_up(n) \in Nat /\ n <= align_up(n) /\ align_up(n) % FW_PAGE_SZ = 0
<1> DEFINE q == (n + FW_PAGE_SZ - 1) \div FW_PAGE_SZ
           r == (n + FW_PAGE_SZ - 1) % FW_PAGE_SZ
<1>1. n + FW_PAGE_SZ - 1 \in Nat /\ FW_PAGE_SZ \in Nat \ {0}
  BY GeometryAssumption
<1>2. q \in Nat /\ r \in 0 .. FW_PAGE_SZ - 1 /\ n + FW_PAGE_SZ - 1 = (FW_PAGE_SZ * q) + r
  BY <1>1, DivMod
<1>3. FW_PAGE_SZ * q >= n
  BY <1>1, <1>2
<1>4. align_up(n) = q * FW_PAGE_SZ
  BY DEF align_up
<1> HIDE DEF q, r
<1>5. q * FW_PAGE_SZ \in Nat /\ q * FW_PAGE_SZ = FW_PAGE_SZ * q
  BY <1>1, <1>2
<1> QED BY <1>1, <1>2, <1>3, <1>4, <1>5, MultipleAligned

-----------------------------------------------------------------------------
(***************************************************************************)
(* Reading.                                                                *)
(***************************************************************************)

\* A word read from inside the area is a natural number.
LEMMA U32Type ==
  ASSUME NEW m \in Memory, NEW a \in Nat, FW_START <= a, a + U32_SZ <= FW_END
  PROVE  u32(m, a) \in Nat
<1>1. m[a] \in Nat /\ m[a+1] \in Nat /\ m[a+2] \in Nat /\ m[a+3] \in Nat
  BY GeometryAssumption DEF Memory, fwarea, Byte, U32_SZ
<1>2. \A x, y \in Nat : x + (RADIX * y) \in Nat
  BY GeometryAssumption
<1> QED BY <1>1, <1>2 DEF u32

\* The range of a slice.
LEMMA SliceType ==
  ASSUME NEW m \in Memory, NEW first \in Nat, NEW end \in Nat,
         FW_START <= first, first <= end, end <= FW_END
  PROVE  slice(m, first, end) \in Seq(Byte) /\ Len(slice(m, first, end)) = end - first
  BY GeometryAssumption DEF slice, Memory, fwarea

\* What check_update() establishes about the sizes in the header.
LEMMA CheckedSizes ==
  ASSUME NEW m \in Memory, NEW a \in Nat \cup {None}, check_update(m, a)
  PROVE  /\ a \in Nat
         /\ FW_START <= a
         /\ a + UPDATE_INFO_SZ <= FW_END
         /\ update_info(m, a) \in UpdateInfo
         /\ update_info(m, a).upsize >= UPDATE_INFO_SZ
         /\ a + update_info(m, a).upsize <= FW_END
<1>1. a \in Nat /\ FW_START <= a /\ a + UPDATE_INFO_SZ <= FW_END
  BY GeometryAssumption DEF check_update, None, readable, FW_LEN, UPDATE_INFO_SZ
<1>2. u32(m, a) \in Nat /\ u32(m, a + 4) \in Nat /\ u32(m, a + 8) \in Nat
      /\ u32(m, a + 12) \in Nat
  BY <1>1, U32Type, GeometryAssumption DEF UPDATE_INFO_SZ, U32_SZ
<1>3. update_info(m, a) \in UpdateInfo
  BY <1>2 DEF update_info, UpdateInfo
<1> QED BY <1>1, <1>3 DEF check_update

\* Everything check_update() sees of an update lies at or above its address: two
\* memories that agree there hold the same update, or none.
LEMMA UpdateAgrees ==
  ASSUME NEW m \in Memory, NEW n \in Memory, NEW a \in Nat \cup {None},
         check_update(m, a),
         \A x \in fwarea : x >= a => n[x] = m[x]
  PROVE  /\ check_update(n, a)
         /\ update_at(n, a) = update_at(m, a)
         /\ slice(n, a, a + update_info(m, a).upsize)
              = slice(m, a, a + update_info(m, a).upsize)
<1> DEFINE info == update_info(m, a)
<1>1. /\ a \in Nat /\ FW_START <= a /\ a + UPDATE_INFO_SZ <= FW_END
      /\ info \in UpdateInfo
      /\ info.upsize >= UPDATE_INFO_SZ /\ a + info.upsize <= FW_END
  BY CheckedSizes
<1>2. ASSUME NEW b \in Nat, a <= b, b + U32_SZ <= FW_END
      PROVE  u32(n, b) = u32(m, b)
  <2>1. \A x \in b .. b + 3 : n[x] = m[x]
    BY <1>1, <1>2, GeometryAssumption DEF fwarea, U32_SZ
  <2> QED BY <2>1, <1>2 DEF u32
<1>3. update_info(n, a) = info
  <2>1. u32(n, a) = u32(m, a) /\ u32(n, a + 4) = u32(m, a + 4)
        /\ u32(n, a + 8) = u32(m, a + 8) /\ u32(n, a + 12) = u32(m, a + 12)
    BY <1>1, <1>2, GeometryAssumption DEF UPDATE_INFO_SZ, U32_SZ
  <2> QED BY <2>1 DEF update_info
<1>4. ASSUME NEW first \in Nat, a <= first
      PROVE  slice(n, first, a + info.upsize) = slice(m, first, a + info.upsize)
  <2> DEFINE len == a + info.upsize - first
  <2>1. info.upsize \in Nat /\ len \in Int
    BY <1>1, <1>4 DEF UpdateInfo
  <2>2. \A i \in 1 .. len : first + i - 1 \in fwarea /\ first + i - 1 >= a
    BY <1>1, <1>4, <2>1, GeometryAssumption DEF fwarea
  <2>3. \A i \in 1 .. len : n[first + i - 1] = m[first + i - 1]
    BY <2>2
  <2> QED BY <1>1, <2>1, <2>3 DEF slice
<1>5. a + U32_SZ \in Nat /\ a <= a + U32_SZ
  BY <1>1 DEF U32_SZ
<1>6. check_update(n, a)
  BY <1>3, <1>4, <1>5 DEF check_update
<1>7. update_at(n, a) = update_at(m, a)
  BY <1>3 DEF update_at
<1> QED BY <1>1, <1>4, <1>6, <1>7

\* In particular, whether the update would be installed.
LEMMA InstallableAgrees ==
  ASSUME NEW m \in Memory, NEW n \in Memory, NEW a \in Nat \cup {None},
         installable(m, a),
         \A x \in fwarea : x >= a => n[x] = m[x]
  PROVE  installable(n, a)
<1>1. check_update(m, a)
  BY DEF installable
<1>2. check_update(n, a) /\ update_at(n, a) = update_at(m, a)
  BY <1>1, UpdateAgrees
<1>3. update_info(n, a) = update_info(m, a)
  BY <1>2 DEF update_at
<1> QED BY <1>2, <1>3 DEF installable

-----------------------------------------------------------------------------
(***************************************************************************)
(* The invariant.                                                          *)
(***************************************************************************)

\* While an update is installed it is the pending one.
Installing ==
  pc \in {"install_plain", "copy"} =>
    /\ check_update(flash, pending)
    /\ up = update_at(flash, pending)
    /\ up.info.uptype = TYPE_PLAIN

\* The copy loop advances the HAL's address with the bytes it has consumed.
Copying ==
  pc = "copy" =>
    /\ fits(up)
    /\ copied <= data_len(up)
    /\ prog.address + Len(prog.buffer) = FW_START + copied
    /\ prog.address % BLOCK = 0

\* The update the pointer may be cleared for is still there.
Retiring == pc = "clear" => check_update(flash, pending)

\* The inductive invariant.
IInv == TypeOK /\ Installing /\ Copying /\ Retiring /\ Recoverable

-----------------------------------------------------------------------------
(***************************************************************************)
(* Flash operations.                                                       *)
(***************************************************************************)

Block == { b \in Seq(Byte) : Len(b) = BLOCK }

\* Where the last page ends that is erased for the update u.
pages_end(u) == FW_START + align_up(data_len(u))

\* Erasing and programming yield memories, and change nothing outside the page
\* and the block.
LEMMA CommitEffect ==
  ASSUME NEW m \in Memory, NEW a \in Nat, NEW block \in Block
  PROVE  /\ erased(m, a) \in Memory
         /\ commit(m, a, block) \in Memory
         /\ \A x \in fwarea : a + FW_PAGE_SZ <= x =>
              erased(m, a)[x] = m[x]
         /\ \A x \in fwarea : a + FW_PAGE_SZ <= x /\ a + BLOCK <= x =>
              commit(m, a, block)[x] = m[x]
         /\ ~page_starts(a) =>
              \A x \in fwarea : a + BLOCK <= x => commit(m, a, block)[x] = m[x]
<1>1. ERASED \in Byte
  BY GeometryAssumption DEF ERASED, Byte
<1>2. erased(m, a) \in Memory
  BY <1>1 DEF erased, Memory
<1>3. ASSUME NEW n \in Memory
      PROVE  /\ programmed(n, a, block) \in Memory
             /\ \A x \in fwarea : a + BLOCK <= x => programmed(n, a, block)[x] = n[x]
  <2>1. \A x \in fwarea : a <= x /\ x < a + BLOCK => block[x - a + 1] \in Byte
    BY HalAssumption, GeometryAssumption DEF Block, fwarea
  <2>2. \A x \in fwarea : n[x] \in Byte
    BY DEF Memory
  <2>3. \A x \in fwarea : a <= x /\ x < a + BLOCK =>
          program_bits(n[x], block[x - a + 1]) \in Byte
    BY <2>1, <2>2, HalAssumption
  <2>4. programmed(n, a, block) \in Memory
    BY <2>2, <2>3 DEF programmed, Memory
  <2>5. \A x \in fwarea : a + BLOCK <= x => programmed(n, a, block)[x] = n[x]
    BY HalAssumption, GeometryAssumption DEF programmed, fwarea
  <2> QED BY <2>4, <2>5
<1>4. \A x \in fwarea : a + FW_PAGE_SZ <= x => erased(m, a)[x] = m[x]
  BY GeometryAssumption DEF erased, fwarea
<1>5. CASE page_starts(a)
  BY <1>2, <1>3, <1>4, <1>5 DEF commit
<1>6. CASE ~page_starts(a)
  BY <1>2, <1>3, <1>4, <1>6 DEF commit
<1> QED BY <1>5, <1>6

\* An operation that is cut short leaves a memory, changed at most where the
\* operation was at work.
LEMMA CutShortEffect ==
  ASSUME NEW m \in Memory, NEW n \in Memory, NEW a \in Nat, NEW len \in Nat,
         NEW r \in cut_short(m, n, a, len)
  PROVE  r \in Memory /\ \A x \in fwarea : a + len <= x => r[x] = m[x]
<1>1. PICK done \in 0 .. len,
           rest \in {m} \cup { [x \in fwarea |-> t] : t \in Torn } :
        r = [x \in fwarea |-> IF x < a \/ x >= a + len THEN m[x]
                              ELSE IF x < a + done THEN n[x] ELSE rest[x]]
  BY DEF cut_short
<1>2. rest \in Memory
  BY FaultAssumption DEF Memory
<1> QED BY <1>1, <1>2, GeometryAssumption DEF Memory, fwarea

\* The same for a commit, which may be cut short while it erases or while it
\* programs.
LEMMA InterruptedEffect ==
  ASSUME NEW m \in Memory, NEW a \in Nat, NEW block \in Block,
         NEW r \in interrupted(m, a, block), NEW lim \in Nat,
         a + BLOCK <= lim,
         page_starts(a) => a + FW_PAGE_SZ <= lim
  PROVE  r \in Memory /\ \A x \in fwarea : lim <= x => r[x] = m[x]
<1>1. /\ erased(m, a) \in Memory /\ commit(m, a, block) \in Memory
      /\ \A x \in fwarea : a + FW_PAGE_SZ <= x => erased(m, a)[x] = m[x]
  BY CommitEffect
<1>2. BLOCK \in Nat /\ FW_PAGE_SZ \in Nat /\ fwarea \subseteq Nat
  BY HalAssumption, GeometryAssumption DEF fwarea
<1>3. CASE r \in cut_short(m, commit(m, a, block), a, BLOCK)
  <2>1. r \in Memory /\ \A x \in fwarea : a + BLOCK <= x => r[x] = m[x]
    BY <1>1, <1>2, <1>3, CutShortEffect
  <2> QED BY <1>2, <2>1
<1>4. CASE page_starts(a) /\ r \in cut_short(m, erased(m, a), a, FW_PAGE_SZ)
  <2>1. r \in Memory /\ \A x \in fwarea : a + FW_PAGE_SZ <= x => r[x] = m[x]
    BY <1>1, <1>2, <1>4, CutShortEffect
  <2> QED BY <1>2, <1>4, <2>1
<1>5. CASE page_starts(a) /\ r \in cut_short(erased(m, a), commit(m, a, block), a, BLOCK)
  <2>1. r \in Memory /\ \A x \in fwarea : a + BLOCK <= x => r[x] = erased(m, a)[x]
    BY <1>1, <1>2, <1>5, CutShortEffect
  <2> QED BY <1>1, <1>2, <1>5, <2>1
<1> QED BY <1>3, <1>4, <1>5 DEF interrupted

-----------------------------------------------------------------------------
(***************************************************************************)
(* The copy loop.                                                          *)
(***************************************************************************)

\* The calls of the copy loop write the block that is due, if there is one.
LEMMA WriteEffect ==
  ASSUME program_write
  PROVE  /\ block_due = <<>> => /\ prog' = [prog EXCEPT !.buffer = Append(@, next_byte)]
                                /\ flash' = flash
         /\ block_due # <<>> => /\ prog' = [address |-> prog.address + BLOCK, buffer |-> <<>>]
                                /\ flash' = commit(flash, prog.address, block_due)
<1>1. block_due = completed(prog, next_byte) /\ Write(next_byte)
  BY DEF program_write, block_due
<1> QED BY <1>1 DEF Write, write_block

LEMMA FinishEffect ==
  ASSUME program_finish, copied \in Nat, data_len(up) \in Nat
  PROVE  /\ block_due = <<>> => UNCHANGED <<prog, flash>>
         /\ block_due # <<>> => /\ prog' = [address |-> prog.address + BLOCK, buffer |-> <<>>]
                                /\ flash' = commit(flash, prog.address, block_due)
<1>1. block_due = last_block(prog) /\ Finish
  BY DEF program_finish, block_due
<1> QED BY <1>1 DEF Finish, write_block

\* What the invariant says of the update being copied, in numbers.
LEMMA CopyBounds ==
  ASSUME TypeOK, Installing, Copying, pc = "copy"
  PROVE  /\ pending \in Nat /\ up.address = pending /\ FW_START <= pending
         /\ data_len(up) \in Nat /\ data_start(up) \in Nat
         /\ FW_START <= data_start(up)
         /\ data_start(up) + data_len(up) <= FW_END
         /\ FW_START + align_up(data_len(up)) <= pending
<1>1. check_update(flash, pending) /\ up = update_at(flash, pending) /\ fits(up)
  BY DEF Installing, Copying
<1>2. flash \in Memory /\ pending \in Nat \cup {None}
  BY DEF TypeOK
<1> DEFINE info == update_info(flash, pending)
<1>3. /\ pending \in Nat /\ FW_START <= pending /\ info \in UpdateInfo
      /\ info.upsize >= UPDATE_INFO_SZ /\ pending + info.upsize <= FW_END
  BY <1>1, <1>2, CheckedSizes
<1>4. up.info = info /\ up.address = pending
  BY <1>1 DEF update_at
<1>5. data_len(up) = info.upsize - UPDATE_INFO_SZ /\ data_start(up) = pending + UPDATE_INFO_SZ
  BY <1>4 DEF data_len, data_start
<1>6. FW_START + align_up(data_len(up)) <= pending
  BY <1>1, <1>4 DEF fits
<1> QED BY <1>3, <1>4, <1>5, <1>6, GeometryAssumption DEF UpdateInfo, UPDATE_INFO_SZ

\* The byte read next is a byte of the update's data.
LEMMA NextByteType ==
  ASSUME TypeOK, Installing, Copying, pc = "copy", copied < data_len(up)
  PROVE  next_byte \in Byte
<1>1. data_start(up) + copied \in fwarea
  BY CopyBounds, GeometryAssumption DEF fwarea, TypeOK
<1> QED BY <1>1 DEF next_byte, TypeOK, Memory

\* A block that is due is a full block, and neither it nor the page it may begin
\* reaches beyond the pages of the update's firmware, which end below the update.
LEMMA BlockDue ==
  ASSUME TypeOK, Installing, Copying, pc = "copy", block_due # <<>>
  PROVE  /\ block_due \in Block
         /\ pages_end(up) \in Nat /\ pages_end(up) <= pending
         /\ prog.address + BLOCK <= pages_end(up)
         /\ page_starts(prog.address) => prog.address + FW_PAGE_SZ <= pages_end(up)
<1> DEFINE lim == pages_end(up)
<1>1. /\ pending \in Nat /\ data_len(up) \in Nat /\ lim <= pending
      /\ lim = FW_START + align_up(data_len(up))
  BY CopyBounds DEF pages_end
<1>2. /\ BLOCK \in Nat \ {0} /\ FW_PAGE_SZ \in Nat \ {0} /\ FW_PAGE_SZ % BLOCK = 0
      /\ FW_START \in Nat /\ FW_START % FW_PAGE_SZ = 0 /\ ERASED \in Byte
  BY HalAssumption, GeometryAssumption DEF ERASED, Byte
<1>3. /\ prog.address \in Nat /\ prog.buffer \in Seq(Byte) /\ Len(prog.buffer) < BLOCK
      /\ copied \in Nat
  BY DEF TypeOK
<1>4. /\ copied <= data_len(up) /\ prog.address % BLOCK = 0
      /\ prog.address + Len(prog.buffer) = FW_START + copied
  BY DEF Copying
<1>5. lim \in Nat /\ FW_START + data_len(up) <= lim /\ lim % FW_PAGE_SZ = 0
  <2>1. align_up(data_len(up)) \in Nat /\ data_len(up) <= align_up(data_len(up))
        /\ align_up(data_len(up)) % FW_PAGE_SZ = 0
    BY <1>1, AlignUp
  <2>2. (FW_START + align_up(data_len(up))) % FW_PAGE_SZ = 0
    BY <1>2, <2>1, AlignedSum
  <2> QED BY <1>1, <1>2, <2>1, <2>2
<1> HIDE DEF lim
<1>6. lim % BLOCK = 0
  BY <1>2, <1>5, AlignedDown
<1>7. block_due \in Block /\ prog.address < lim
  <2>1. CASE copied < data_len(up)
    <3>1. Len(prog.buffer) + 1 = BLOCK /\ block_due = Append(prog.buffer, next_byte)
      BY <2>1 DEF block_due, completed
    <3>2. next_byte \in Byte
      BY <2>1, NextByteType
    <3>3. block_due \in Block
      BY <1>3, <3>1, <3>2 DEF Block
    <3>4. prog.address < lim
      BY <1>1, <1>2, <1>3, <1>4, <1>5, <2>1
    <3> QED BY <3>3, <3>4
  <2>2. CASE ~(copied < data_len(up))
    <3>1. prog.buffer # <<>> /\ block_due = pad(prog.buffer)
      BY <2>2 DEF block_due, last_block
    <3>2. block_due \in Block
      BY <1>2, <1>3, <3>1 DEF pad, Block
    <3>3. Len(prog.buffer) > 0
      BY <1>3, <3>1
    <3>4. prog.address < lim
      BY <1>1, <1>2, <1>3, <1>4, <1>5, <3>3
    <3> QED BY <3>2, <3>4
  <2> QED BY <2>1, <2>2
<1>8. prog.address + BLOCK <= lim
  BY <1>2, <1>3, <1>4, <1>5, <1>6, <1>7, AlignedStep
<1>9. page_starts(prog.address) => prog.address + FW_PAGE_SZ <= lim
  BY <1>2, <1>3, <1>5, <1>7, AlignedStep DEF page_starts
<1> QED BY <1>1, <1>5, <1>7, <1>8, <1>9 DEF lim

\* Neither a completed commit nor an interrupted one reaches the update.
LEMMA CommitKeepsUpdate ==
  ASSUME TypeOK, Installing, Copying, pc = "copy", block_due # <<>>,
         NEW r \in {commit(flash, prog.address, block_due)}
                    \cup interrupted(flash, prog.address, block_due)
  PROVE  /\ r \in Memory
         /\ \A x \in fwarea : x >= pages_end(up) => r[x] = flash[x]
         /\ \A x \in fwarea : x >= pending => r[x] = flash[x]
<1> DEFINE lim == pages_end(up)
<1>1. /\ flash \in Memory /\ prog.address \in Nat /\ block_due \in Block
      /\ pending \in Nat /\ lim \in Nat /\ lim <= pending
      /\ prog.address + BLOCK <= lim
      /\ page_starts(prog.address) => prog.address + FW_PAGE_SZ <= lim
  BY BlockDue, CopyBounds DEF TypeOK
<1> HIDE DEF lim
<1>2. BLOCK \in Nat /\ FW_PAGE_SZ \in Nat /\ fwarea \subseteq Nat
  BY HalAssumption, GeometryAssumption DEF fwarea
<1>3. ASSUME r = commit(flash, prog.address, block_due)
      PROVE  r \in Memory /\ \A x \in fwarea : x >= lim => r[x] = flash[x]
  <2>1. /\ r \in Memory
        /\ \A x \in fwarea : prog.address + FW_PAGE_SZ <= x /\ prog.address + BLOCK <= x
              => r[x] = flash[x]
        /\ ~page_starts(prog.address) =>
             \A x \in fwarea : prog.address + BLOCK <= x => r[x] = flash[x]
    BY <1>1, <1>3, CommitEffect
  <2> QED BY <1>1, <1>2, <2>1
<1>4. ASSUME r \in interrupted(flash, prog.address, block_due)
      PROVE  r \in Memory /\ \A x \in fwarea : x >= lim => r[x] = flash[x]
  BY <1>1, <1>4, InterruptedEffect
<1>5. r \in Memory /\ \A x \in fwarea : x >= lim => r[x] = flash[x]
  BY <1>3, <1>4
<1>6. \A x \in fwarea : x >= pending => r[x] = flash[x]
  BY <1>1, <1>2, <1>5
<1> QED BY <1>5, <1>6 DEF lim

-----------------------------------------------------------------------------
(***************************************************************************)
(* The invariant is inductive.                                             *)
(***************************************************************************)

\* The state of the loader at the start of a boot has the right types.
LEMMA BootType ==
  ASSUME TRUE
  PROVE  /\ NoUpdate \in [info : UpdateInfo, address : Nat \cup {None}]
         /\ Idle \in [address : Nat, buffer : Seq(Byte)]
         /\ Len(Idle.buffer) < BLOCK
         /\ "process_update" \in Locations /\ "none" \in Outcomes
<1>1. NoUpdate.info \in UpdateInfo
  BY DEF NoUpdate, UpdateInfo, UPDATE_INFO_SZ, TYPE_PLAIN
<1> QED BY <1>1, HalAssumption DEF NoUpdate, Idle, Locations, Outcomes

LEMMA InitIInv == Init => IInv
<1> SUFFICES ASSUME Init PROVE IInv
  OBVIOUS
<1>1. PICK d \in Factory : flash = d.flash /\ pending = d.pending
  BY DEF Init
<1>2. flash \in Memory /\ pending \in Nat \cup {None} /\ Recoverable
  BY <1>1, FactoryAssumption DEF Recoverable
<1>3. TypeOK
  BY <1>2, BootType, HalAssumption, FaultAssumption DEF Init, TypeOK
<1> QED BY <1>2, <1>3 DEF Init, IInv, Installing, Copying, Retiring

\* While copying, a step that leaves the update alone and keeps the pointer
\* leaves the device recoverable, and the update to be read as it was.
LEMMA CopyStep ==
  ASSUME IInv, pc = "copy", pending' = pending,
         \/ flash' = flash
         \/ /\ block_due # <<>>
            /\ flash' \in {commit(flash, prog.address, block_due)}
                           \cup interrupted(flash, prog.address, block_due)
  PROVE  /\ flash' \in Memory
         /\ Recoverable'
         /\ check_update(flash', pending)
         /\ up = update_at(flash', pending)
<1>1. /\ flash \in Memory /\ pending \in Nat \cup {None}
      /\ check_update(flash, pending) /\ up = update_at(flash, pending)
      /\ up.info.uptype = TYPE_PLAIN /\ fits(up)
  BY DEF IInv, TypeOK, Installing, Copying, Retiring
<1>2. flash' \in Memory /\ \A x \in fwarea : x >= pending => flash'[x] = flash[x]
  <2>1. CASE flash' = flash
    BY <1>1, <2>1
  <2>2. CASE /\ block_due # <<>>
             /\ flash' \in {commit(flash, prog.address, block_due)}
                            \cup interrupted(flash, prog.address, block_due)
    BY <2>2, CommitKeepsUpdate DEF IInv
  <2> QED BY <2>1, <2>2
<1>3. installable(flash, pending)
  BY <1>1 DEF installable, update_at
<1>4. installable(flash', pending) /\ check_update(flash', pending)
      /\ update_at(flash', pending) = update_at(flash, pending)
  BY <1>1, <1>2, <1>3, InstallableAgrees, UpdateAgrees
<1> QED BY <1>1, <1>2, <1>4 DEF Recoverable

LEMMA NextIInv == IInv /\ [Next]_vars => IInv'
<1> SUFFICES ASSUME IInv, [Next]_vars PROVE IInv'
  OBVIOUS
<1> USE DEF locals, bounds
<1>1. CASE no_update
  BY <1>1 DEF no_update, IInv, TypeOK, Locations, Installing, Copying, Retiring, Recoverable
<1>2. CASE found_update
  <2>1. check_update(flash, pending) /\ up' = update_at(flash, pending)
    BY <1>2 DEF found_update
  <2>2. up' \in [info : UpdateInfo, address : Nat \cup {None}]
    BY <2>1, CheckedSizes DEF update_at, IInv, TypeOK
  <2>3. TypeOK'
    BY <1>2, <2>2 DEF found_update, IInv, TypeOK, Locations
  <2>4. Installing'
    BY <1>2 DEF found_update, Installing
  <2>5. Copying' /\ Retiring' /\ Recoverable'
    BY <1>2 DEF found_update, Copying, Retiring, IInv, Recoverable
  <2> QED BY <2>3, <2>4, <2>5 DEF IInv
<1>3. CASE update_address_fails
  BY <1>3, HalAssumption, FaultAssumption
     DEF update_address_fails, IInv, TypeOK, Locations, Installing, Copying, Retiring, Recoverable
<1>4. CASE reject_update
  BY <1>4 DEF reject_update, IInv, TypeOK, Locations, Outcomes, Installing, Copying, Retiring, Recoverable
<1>5. CASE program_start
  <2>1. TypeOK'
    BY <1>5, GeometryAssumption, HalAssumption DEF program_start, Start, IInv, TypeOK, Locations
  <2>2. Installing' /\ Retiring' /\ Recoverable'
    BY <1>5 DEF program_start, Start, IInv, Installing, Retiring, Recoverable
  <2>3. Copying'
    <3>1. data_len(up) \in Nat
      <4>1. check_update(flash, pending) /\ up = update_at(flash, pending)
        BY <1>5 DEF program_start, IInv, Installing
      <4>2. update_info(flash, pending) \in UpdateInfo
            /\ update_info(flash, pending).upsize >= UPDATE_INFO_SZ
        BY <4>1, CheckedSizes DEF IInv, TypeOK
      <4> QED BY <4>1, <4>2 DEF data_len, update_at, UpdateInfo, UPDATE_INFO_SZ
    <3>2. FW_START \in Nat /\ FW_START % BLOCK = 0
      BY AlignedDown, GeometryAssumption, HalAssumption
    <3> QED BY <1>5, <3>1, <3>2 DEF program_start, Start, Copying
  <2> QED BY <2>1, <2>2, <2>3 DEF IInv
<1>6. CASE program_write
  <2>1. /\ pc = "copy" /\ pending' = pending /\ pc' = pc /\ up' = up
        /\ copied < data_len(up) /\ copied' = copied + 1
    BY <1>6 DEF program_write
  <2>2. /\ flash' \in Memory /\ Recoverable' /\ check_update(flash', pending)
        /\ up = update_at(flash', pending)
    BY <1>6, <2>1, WriteEffect, CopyStep
  <2>3. Installing' /\ Retiring'
    BY <2>1, <2>2 DEF IInv, Installing, Retiring
  <2>4. /\ next_byte \in Byte /\ data_len(up) \in Nat
        /\ prog.address \in Nat /\ prog.buffer \in Seq(Byte) /\ copied \in Nat
        /\ Len(prog.buffer) < BLOCK /\ BLOCK \in Nat \ {0} /\ FW_START \in Nat
        /\ prog.address + Len(prog.buffer) = FW_START + copied
        /\ prog.address % BLOCK = 0
    BY <2>1, NextByteType, CopyBounds, HalAssumption, GeometryAssumption
       DEF IInv, TypeOK, Copying
  <2>5. /\ prog.address \in Nat /\ Len(prog.buffer) \in Nat /\ copied \in Nat
        /\ BLOCK \in Nat /\ FW_START \in Nat
        /\ prog.address + Len(prog.buffer) = FW_START + copied
    BY <2>4
  <2>6. /\ prog' \in [address : Nat, buffer : Seq(Byte)]
        /\ Len(prog'.buffer) < BLOCK
        /\ prog'.address + Len(prog'.buffer) = FW_START + copied'
        /\ prog'.address % BLOCK = 0
    <3>1. CASE block_due = <<>>
      <4>1. prog' = [prog EXCEPT !.buffer = Append(@, next_byte)]
        BY <1>6, <3>1, WriteEffect
      <4>2. Len(prog.buffer) + 1 # BLOCK
        BY <2>1, <2>4, <3>1 DEF block_due, completed
      <4>3. prog' = [address |-> prog.address, buffer |-> Append(prog.buffer, next_byte)]
        BY <4>1 DEF IInv, TypeOK
      <4>4. /\ Append(prog.buffer, next_byte) \in Seq(Byte)
            /\ Len(Append(prog.buffer, next_byte)) = Len(prog.buffer) + 1
            /\ Len(prog.buffer) \in Nat
        BY <2>4
      <4>5. prog'.address = prog.address /\ prog'.buffer = Append(prog.buffer, next_byte)
        BY <4>3
      <4> HIDE DEF next_byte
      <4>6. prog' \in [address : Nat, buffer : Seq(Byte)]
        BY <2>4, <4>3, <4>4
      <4>7. Len(prog'.buffer) < BLOCK
        BY <2>4, <4>2, <4>4, <4>5
      <4>8. Len(prog'.buffer) = Len(prog.buffer) + 1
        BY <4>4, <4>5
      <4>9. prog'.address + Len(prog'.buffer) = FW_START + copied'
        <5>1. copied' = copied + 1 /\ prog'.address = prog.address
          BY <2>1, <4>5
        <5> QED BY <2>5, <4>8, <5>1
      <4> QED BY <2>4, <4>5, <4>6, <4>7, <4>9
    <3>2. CASE block_due # <<>>
      <4>1. prog' = [address |-> prog.address + BLOCK, buffer |-> <<>>]
        BY <1>6, <3>2, WriteEffect
      <4>2. Len(prog.buffer) + 1 = BLOCK
        BY <2>1, <3>2 DEF block_due, completed
      <4>3. (prog.address + BLOCK) % BLOCK = 0
        BY <2>4, AlignedSum
      <4>4. /\ prog'.address = prog.address + BLOCK /\ prog'.buffer = <<>>
            /\ Len(prog'.buffer) = 0 /\ Len(prog.buffer) \in Nat
        BY <2>4, <4>1
      <4>5. prog' \in [address : Nat, buffer : Seq(Byte)]
        BY <2>4, <4>1
      <4>6. prog'.address + Len(prog'.buffer) = FW_START + copied'
        <5>1. copied' = copied + 1
          BY <2>1
        <5> QED BY <2>5, <4>2, <4>4, <5>1
      <4>7. prog'.address % BLOCK = 0 /\ Len(prog'.buffer) < BLOCK
        BY <2>4, <4>3, <4>4
      <4> QED BY <4>5, <4>6, <4>7
    <3> QED BY <3>1, <3>2
  <2>7. Copying'
    BY <2>1, <2>4, <2>6 DEF IInv, Copying
  <2>8. TypeOK'
    <3>1. UNCHANGED <<pending, pc, up, outcome, crashes, faults, updates>>
      BY <1>6 DEF program_write
    <3>2. copied' \in Nat
      BY <2>1 DEF IInv, TypeOK
    <3> QED BY <2>2, <2>6, <3>1, <3>2 DEF IInv, TypeOK
  <2> QED BY <2>2, <2>3, <2>7, <2>8 DEF IInv
<1>7. CASE program_finish
  <2>0. pc = "copy" /\ pending' = pending /\ copied \in Nat /\ data_len(up) \in Nat
    BY <1>7, CopyBounds DEF program_finish, IInv, TypeOK
  <2>1. flash' \in Memory /\ Recoverable' /\ check_update(flash', pending)
    BY <1>7, <2>0, FinishEffect, CopyStep
  <2>2. prog' \in [address : Nat, buffer : Seq(Byte)] /\ Len(prog'.buffer) < BLOCK
    <3>1. CASE prog' = prog
      BY <3>1 DEF IInv, TypeOK
    <3>2. CASE prog' = [address |-> prog.address + BLOCK, buffer |-> <<>>]
      <4>1. prog.address + BLOCK \in Nat
        BY HalAssumption DEF IInv, TypeOK
      <4>2. prog'.buffer = <<>> /\ Len(prog'.buffer) = 0
        BY <3>2
      <4> QED BY <3>2, <4>1, <4>2, HalAssumption
    <3> QED BY <1>7, <2>0, <3>1, <3>2, FinishEffect
  <2>3. TypeOK'
    BY <1>7, <2>1, <2>2 DEF program_finish, IInv, TypeOK, Locations, Outcomes
  <2>4. Installing' /\ Copying' /\ Retiring'
    BY <1>7, <2>0, <2>1 DEF program_finish, Installing, Copying, Retiring
  <2> QED BY <2>1, <2>3, <2>4 DEF IInv
<1>8. CASE program_fails
  <2>1. flash' \in Memory /\ Recoverable' /\ check_update(flash', pending)
    BY <1>8, CopyStep DEF program_fails
  <2>2. TypeOK'
    BY <1>8, <2>1, HalAssumption, FaultAssumption DEF program_fails, IInv, TypeOK, Locations, Outcomes
  <2>3. Installing' /\ Copying' /\ Retiring'
    BY <1>8, <2>1 DEF program_fails, Installing, Copying, Retiring
  <2> QED BY <2>1, <2>2, <2>3 DEF IInv
<1>9. CASE update_clear
  <2>1. Recoverable'
    BY <1>9 DEF update_clear, update_done, IInv, Recoverable
  <2>2. TypeOK'
    BY <1>9 DEF update_clear, IInv, TypeOK, Locations
  <2>3. Installing' /\ Copying' /\ Retiring'
    BY <1>9 DEF update_clear, Installing, Copying, Retiring
  <2> QED BY <2>1, <2>2, <2>3 DEF IInv
<1>10. CASE update_clear_fails
  <2>1. pending' \in Nat \cup {None}
    BY <1>10, HalAssumption, FaultAssumption DEF update_clear_fails, IInv, TypeOK
  <2>2. TypeOK'
    BY <1>10, <2>1, HalAssumption, FaultAssumption DEF update_clear_fails, IInv, TypeOK, Locations
  <2> QED BY <1>10, <2>2 DEF update_clear_fails, update_done, IInv, Installing, Copying, Retiring, Recoverable
<1>11. CASE start_or_abort
  BY <1>11 DEF start_or_abort, IInv, TypeOK, Locations, Installing, Copying, Retiring, Recoverable
<1>12. CASE abort_resets
  <2>1. TypeOK'
    BY <1>12, BootType DEF abort_resets, boot_afresh, IInv, TypeOK
  <2> QED BY <1>12, <2>1
          DEF abort_resets, boot_afresh, IInv, Installing, Copying, Retiring, Recoverable
<1>13. CASE power_loss
  <2>1. flash' \in Memory /\ pending' \in Nat \cup {None} /\ Recoverable'
    <3>1. CASE UNCHANGED <<flash, pending>>
      BY <3>1 DEF IInv, TypeOK, Recoverable
    <3>2. CASE /\ pc = "copy"
               /\ block_due # <<>>
               /\ flash' \in interrupted(flash, prog.address, block_due)
               /\ pending' = pending
      BY <3>2, CopyStep DEF IInv, TypeOK
    <3>3. CASE /\ pc = "clear"
               /\ update_done
               /\ pending' \in TornPointers
               /\ flash' = flash
      BY <3>3, FaultAssumption DEF update_done, IInv, TypeOK, Recoverable
    <3> QED BY <1>13, <3>1, <3>2, <3>3 DEF power_loss
  <2>2. TypeOK'
    BY <1>13, <2>1, BootType, HalAssumption, FaultAssumption DEF power_loss, boot_afresh, IInv, TypeOK
  <2>3. Installing' /\ Copying' /\ Retiring'
    BY <1>13 DEF power_loss, boot_afresh, Installing, Copying, Retiring
  <2> QED BY <2>1, <2>2, <2>3 DEF IInv
<1>14. CASE application_resets
  <2>1. TypeOK'
    BY <1>14, BootType DEF application_resets, boot_afresh, IInv, TypeOK
  <2> QED BY <1>14, <2>1
          DEF application_resets, boot_afresh, IInv, Installing, Copying, Retiring, Recoverable
<1>15. CASE stage_update
  <2>1. PICK u \in Staged : /\ flash' = stored(flash, u.address, u.bytes)
                            /\ fw_ok(flash')
                            /\ pending' = u.address
    BY <1>15 DEF stage_update
  <2>2. flash' \in Memory /\ pending' \in Nat
    <3>1. u.address \in Nat /\ u.bytes \in Seq(Byte) /\ flash \in Memory
      BY StagedAssumption DEF IInv, TypeOK
    <3>2. \A x \in fwarea : u.address <= x /\ x < u.address + Len(u.bytes)
            => u.bytes[x - u.address + 1] \in Byte
      BY <3>1, GeometryAssumption DEF fwarea
    <3> QED BY <2>1, <3>1, <3>2 DEF stored, Memory
  <2>3. TypeOK'
    BY <1>15, <2>2, HalAssumption, FaultAssumption DEF stage_update, IInv, TypeOK
  <2> QED BY <1>15, <2>1, <2>3 DEF stage_update, IInv, Installing, Copying, Retiring, Recoverable
<1>16. CASE UNCHANGED vars
  BY <1>16 DEF vars, IInv, TypeOK, Installing, Copying, Retiring, Recoverable
<1> QED
  BY <1>1, <1>2, <1>3, <1>4, <1>5, <1>6, <1>7, <1>8, <1>9, <1>10, <1>11, <1>12, <1>13,
     <1>14, <1>15, <1>16 DEF Next, Loader, HardwareFault, Application

-----------------------------------------------------------------------------
(***************************************************************************)
(* The theorems.                                                           *)
(***************************************************************************)

\* The inductive invariant holds in every reachable state.
THEOREM Invariance == Spec => []IInv
  BY InitIInv, NextIInv, PTL DEF Spec

\* The variables keep their types.
THEOREM TypeCorrect == Spec => []TypeOK
<1>1. IInv => TypeOK
  BY DEF IInv
<1> QED BY Invariance, <1>1, PTL

\* Wherever power is lost and whatever fails, the device has a firmware to start
\* or an update that the next boot can install.
THEOREM AlwaysRecoverable == Spec => []Recoverable
<1>1. IInv => Recoverable
  BY DEF IInv
<1> QED BY Invariance, <1>1, PTL

\* No step changes a byte of a pending update that has been verified, so that an
\* interrupted installation can always be begun again.
THEOREM ImageUntouched == Spec => StagedImageUntouched
<1> DEFINE end     == pending + update_info(flash, pending).upsize
           Kept    == /\ check_update(flash', pending)
                      /\ slice(flash', pending, end) = slice(flash, pending, end)
           Pending == pending # None /\ pending' = pending /\ check_update(flash, pending)
<1>1. ASSUME IInv, [Next]_vars, Pending
      PROVE  Kept
  <2>1. CASE flash' = flash
    BY <1>1, <2>1
  <2>2. CASE flash' # flash
    <3>1. ~stage_update
      BY <1>1 DEF stage_update
    <3>0. pc = "copy" => copied \in Nat /\ data_len(up) \in Nat
      BY <1>1, CopyBounds DEF IInv, TypeOK
    <3>2. /\ pc = "copy" /\ block_due # <<>>
          /\ flash' \in {commit(flash, prog.address, block_due)}
                         \cup interrupted(flash, prog.address, block_due)
      BY <1>1, <2>2, <3>0, <3>1, WriteEffect, FinishEffect
         DEF Next, Loader, HardwareFault, Application, vars, no_update, found_update,
             update_address_fails, reject_update, program_start, Start, program_write,
             program_finish, program_fails, update_clear, update_clear_fails,
             start_or_abort, abort_resets, power_loss, application_resets
    <3>3. flash' \in Memory /\ \A x \in fwarea : x >= pending => flash'[x] = flash[x]
      BY <1>1, <3>2, CommitKeepsUpdate DEF IInv
    <3> QED BY <1>1, <3>3, UpdateAgrees DEF IInv, TypeOK
  <2> QED BY <2>1, <2>2
<1>2. IInv /\ [Next]_vars => [Pending => Kept]_vars
  BY <1>1
<1> QED BY <1>2, Invariance, PTL DEF Spec, StagedImageUntouched

\* The pointer goes only when a verified update is still there where it leads and a
\* valid firmware is in place: a pointer to anything else is never given up.
THEOREM OnlyUpdatesRetired == Spec => OnlyUpdatesAreRetired
<1> DEFINE Retired == pending # None /\ pending' # pending
                        => check_update(flash, pending) /\ fw_ok(flash)
<1>1. ASSUME IInv, [Next]_vars, pending # None, pending' # pending
      PROVE  check_update(flash, pending) /\ fw_ok(flash)
  <2>1. ~stage_update
    BY <1>1 DEF stage_update
  <2>2. pc = "clear" /\ fw_ok(flash)
    BY <1>1, <2>1
       DEF Next, Loader, HardwareFault, Application, vars, no_update, found_update,
           update_address_fails, reject_update, program_start, program_write,
           program_finish, program_fails, update_clear, update_clear_fails, update_done,
           start_or_abort, abort_resets, power_loss, application_resets
  <2> QED BY <1>1, <2>2 DEF IInv, Retiring
<1>2. IInv /\ [Next]_vars => [Retired]_vars
  BY <1>1
<1> QED BY <1>2, Invariance, PTL DEF Spec, OnlyUpdatesAreRetired

-----------------------------------------------------------------------------
(***************************************************************************)
(* The copy.                                                               *)
(***************************************************************************)

\* The byte of the update u in m that belongs at address x.
source(m, u, x) == m[data_start(u) + x - FW_START]

\* Where the firmware ends that the update u installs.
copy_end(u) == FW_START + data_len(u)

\* What is left of a page at a.
rest_of_page(a) == FW_PAGE_SZ - (a % FW_PAGE_SZ)

\* From a to the end of its page m is erased, unless the page is yet to be.
ErasedAhead(m, a) ==
  ~page_starts(a) => \A x \in fwarea : a <= x /\ x < a + rest_of_page(a) => m[x] = ERASED

\* What the copy loop has done so far.
CopiedSoFar ==
  pc = "copy" =>
    /\ \A x \in FW_START .. prog.address - 1 : flash[x] = source(flash, up, x)
    /\ \A i \in 1 .. Len(prog.buffer) :
         prog.buffer[i] = source(flash, up, prog.address + i - 1)
    /\ ErasedAhead(flash, prog.address)

\* What the outcome of install_plain() says of the update.
Concluded ==
  /\ pc \in {"process_update", "install_plain", "copy"} => outcome = "none"
  /\ pc = "clear" =>
       /\ up = update_at(flash, pending)
       /\ outcome = "none" => up.info.uptype # TYPE_PLAIN
       /\ outcome = "rejected" => ~fits(up)
       /\ outcome = "installed" =>
            \A x \in FW_START .. copy_end(up) - 1 : flash[x] = source(flash, up, x)

CopyInv == CopiedSoFar /\ Concluded

-----------------------------------------------------------------------------
(***************************************************************************)
(* One block.                                                              *)
(***************************************************************************)

\* A block that does not complete its page leaves the next one in that page.
LEMMA NextInPage ==
  ASSUME NEW a \in Nat, a % BLOCK = 0, ~page_starts(a + BLOCK)
  PROVE  /\ rest_of_page(a + BLOCK) \in Nat
         /\ rest_of_page(a) = BLOCK + rest_of_page(a + BLOCK)
<1>1. FW_PAGE_SZ \in Nat \ {0} /\ BLOCK \in Nat \ {0} /\ FW_PAGE_SZ % BLOCK = 0
  BY HalAssumption, GeometryAssumption
<1>2. (a + BLOCK) % FW_PAGE_SZ # 0
  BY DEF page_starts
<1>3. (a + BLOCK) % FW_PAGE_SZ = (a % FW_PAGE_SZ) + BLOCK
  BY <1>1, <1>2, NextRemainder
<1>4. a + BLOCK \in Nat /\ a % FW_PAGE_SZ \in Nat
  BY <1>1, DivMod
<1>5. (a + BLOCK) % FW_PAGE_SZ \in 0 .. FW_PAGE_SZ - 1
  BY <1>1, <1>4, DivMod
<1> QED BY <1>1, <1>3, <1>4, <1>5 DEF rest_of_page

\* A block at a, where the Flash is erased or is about to be, is stored as it is;
\* nothing below it changes, and what follows it in its page is erased.
LEMMA CommitExact ==
  ASSUME NEW m \in Memory, NEW a \in Nat, NEW block \in Block, a % BLOCK = 0,
         ErasedAhead(m, a)
  PROVE  /\ \A x \in fwarea : x < a => commit(m, a, block)[x] = m[x]
         /\ \A x \in fwarea : a <= x /\ x < a + BLOCK =>
              commit(m, a, block)[x] = block[x - a + 1]
         /\ ErasedAhead(commit(m, a, block), a + BLOCK)
<1> DEFINE n == IF page_starts(a) THEN erased(m, a) ELSE m
<1>1. /\ BLOCK \in Nat \ {0} /\ FW_PAGE_SZ \in Nat \ {0} /\ fwarea \subseteq Nat
      /\ \A b \in Byte : program_bits(ERASED, b) = b
  BY HalAssumption, GeometryAssumption DEF fwarea
<1>2. commit(m, a, block) =
        [x \in fwarea |-> IF a <= x /\ x < a + BLOCK
                          THEN program_bits(n[x], block[x - a + 1]) ELSE n[x]]
  BY DEF commit, programmed
<1>3. /\ rest_of_page(a) \in Nat
      /\ \A x \in fwarea : a <= x /\ x < a + rest_of_page(a) => n[x] = ERASED
  <2>1. a % FW_PAGE_SZ \in 0 .. FW_PAGE_SZ - 1
    BY <1>1, DivMod
  <2>2. rest_of_page(a) \in Nat
    BY <1>1, <2>1 DEF rest_of_page
  <2>3. CASE page_starts(a)
    BY <1>1, <2>1, <2>3 DEF erased, page_starts, rest_of_page
  <2>4. CASE ~page_starts(a)
    BY <2>2, <2>4 DEF ErasedAhead
  <2> QED BY <2>2, <2>3, <2>4
<1>4. \A x \in fwarea : x < a => n[x] = m[x]
  <2>1. \A x \in fwarea : x < a => erased(m, a)[x] = m[x]
    BY <1>1 DEF erased
  <2> QED BY <2>1
<1> HIDE DEF n
<1>5. BLOCK <= rest_of_page(a)
  <2>1. FW_PAGE_SZ % BLOCK = 0
    BY HalAssumption
  <2>2. (a % FW_PAGE_SZ) + BLOCK <= FW_PAGE_SZ
    BY <1>1, <2>1, RoomForStep
  <2>3. a % FW_PAGE_SZ \in Nat
    BY <1>1, DivMod
  <2> QED BY <1>1, <2>2, <2>3 DEF rest_of_page
<1>6. ASSUME NEW x \in fwarea, a <= x, x < a + BLOCK
      PROVE  commit(m, a, block)[x] = block[x - a + 1]
  <2>1. block[x - a + 1] \in Byte
    BY <1>1, <1>6 DEF Block
  <2>2. n[x] = ERASED
    BY <1>1, <1>3, <1>5, <1>6
  <2> QED BY <1>1, <1>2, <1>6, <2>1, <2>2
<1>7. ErasedAhead(commit(m, a, block), a + BLOCK)
  <2>1. SUFFICES ASSUME ~page_starts(a + BLOCK), NEW x \in fwarea,
                        a + BLOCK <= x, x < a + BLOCK + rest_of_page(a + BLOCK)
                 PROVE  commit(m, a, block)[x] = ERASED
    BY DEF ErasedAhead
  <2>2. x < a + rest_of_page(a) /\ a <= x /\ ~(x < a + BLOCK)
    <3>1. rest_of_page(a + BLOCK) \in Nat /\ rest_of_page(a) = BLOCK + rest_of_page(a + BLOCK)
      BY <2>1, NextInPage
    <3> QED BY <1>1, <2>1, <3>1
  <2> QED BY <1>2, <1>3, <2>2
<1>8. \A x \in fwarea : x < a => commit(m, a, block)[x] = m[x]
  BY <1>1, <1>2, <1>4
<1> QED BY <1>6, <1>7, <1>8

-----------------------------------------------------------------------------
(***************************************************************************)
(* The copy loop.                                                          *)
(***************************************************************************)

\* The places in the loop, in numbers.
LEMMA CopyNumbers ==
  ASSUME IInv, pc = "copy"
  PROVE  /\ FW_START \in Nat /\ BLOCK \in Nat \ {0}
         /\ prog.address \in Nat /\ Len(prog.buffer) \in Nat
         /\ Len(prog.buffer) < BLOCK
         /\ copied \in Nat /\ data_len(up) \in Nat /\ copied <= data_len(up)
         /\ copy_end(up) \in Nat /\ copy_end(up) = FW_START + data_len(up)
         /\ prog.address + Len(prog.buffer) = FW_START + copied
         /\ FW_START <= prog.address /\ FW_END \in Nat
         /\ pending \in Nat /\ copy_end(up) <= pending /\ pending <= FW_END
         /\ data_start(up) \in Nat /\ pending <= data_start(up)
         /\ data_start(up) + data_len(up) <= FW_END
<1>1. /\ FW_START \in Nat /\ FW_START % FW_PAGE_SZ = 0 /\ FW_PAGE_SZ \in Nat \ {0}
      /\ BLOCK \in Nat \ {0} /\ FW_PAGE_SZ % BLOCK = 0 /\ FW_END \in Nat
  BY GeometryAssumption, HalAssumption
<1>2. /\ prog.address \in Nat /\ prog.buffer \in Seq(Byte) /\ Len(prog.buffer) \in Nat
      /\ Len(prog.buffer) < BLOCK /\ prog.address % BLOCK = 0
      /\ copied \in Nat /\ copied <= data_len(up)
      /\ prog.address + Len(prog.buffer) = FW_START + copied
  BY DEF IInv, TypeOK, Copying
<1>3. /\ pending \in Nat /\ up.address = pending /\ data_len(up) \in Nat
      /\ data_start(up) \in Nat /\ data_start(up) + data_len(up) <= FW_END
      /\ FW_START + align_up(data_len(up)) <= pending
  BY CopyBounds DEF IInv
<1>4. FW_START <= prog.address
  <2>1. SUFFICES ASSUME prog.address < FW_START PROVE FALSE
    BY <1>1, <1>2
  <2>2. FW_START % BLOCK = 0
    BY <1>1, AlignedDown
  <2>3. prog.address + BLOCK <= FW_START
    BY <1>1, <1>2, <2>1, <2>2, AlignedStep
  <2> QED BY <1>1, <1>2, <2>3
<1>5. FW_START + data_len(up) <= pending
  <2>1. align_up(data_len(up)) \in Nat /\ data_len(up) <= align_up(data_len(up))
    BY <1>3, AlignUp
  <2> QED BY <1>1, <1>3, <2>1
<1>6. data_start(up) = pending + UPDATE_INFO_SZ
  BY <1>3 DEF data_start
<1>7. pending <= data_start(up) /\ pending <= FW_END
  BY <1>3, <1>6, GeometryAssumption DEF UPDATE_INFO_SZ
<1>8. copy_end(up) = FW_START + data_len(up) /\ copy_end(up) \in Nat
  BY <1>1, <1>3 DEF copy_end
<1> QED BY <1>1, <1>2, <1>3, <1>4, <1>5, <1>7, <1>8

\* The bytes to be copied lie in the area, and are the same in every memory that
\* has not changed from the update on.
LEMMA SourceKept ==
  ASSUME IInv, pc = "copy", NEW r, \A y \in fwarea : y >= pending => r[y] = flash[y],
         NEW x \in FW_START .. copy_end(up) - 1
  PROVE  /\ x \in fwarea
         /\ source(r, up, x) = source(flash, up, x)
<1>1. /\ FW_START \in Nat /\ FW_END \in Nat /\ copy_end(up) \in Nat /\ pending \in Nat
      /\ copy_end(up) <= pending /\ pending <= FW_END
      /\ x \in Nat /\ FW_START <= x /\ x < copy_end(up)
  BY CopyNumbers
<1>2. x \in fwarea
  BY <1>1 DEF fwarea
<1> DEFINE off == x - FW_START
<1>3. off \in Nat /\ off < data_len(up)
  BY <1>1, CopyNumbers
<1>4. /\ FW_START <= pending /\ pending <= data_start(up) /\ data_start(up) \in Nat
      /\ data_len(up) \in Nat /\ data_start(up) + data_len(up) <= FW_END
  BY <1>1, CopyNumbers
<1> HIDE DEF off
<1>5. data_start(up) + off \in fwarea /\ data_start(up) + off >= pending
  BY <1>1, <1>3, <1>4 DEF fwarea
<1>6. r[data_start(up) + off] = flash[data_start(up) + off]
  BY <1>5
<1> QED BY <1>2, <1>6 DEF source, off

\* Once the block that is due is written, what lies below the next one is copied,
\* as far as the block was copied.
LEMMA BlockStored ==
  ASSUME IInv, CopiedSoFar, pc = "copy", block_due # <<>>,
         flash' = commit(flash, prog.address, block_due), NEW lim \in Nat,
         lim <= prog.address + BLOCK, lim <= copy_end(up),
         \A x \in prog.address .. lim - 1 :
           block_due[x - prog.address + 1] = source(flash, up, x)
  PROVE  /\ \A x \in FW_START .. lim - 1 : flash'[x] = source(flash', up, x)
         /\ ErasedAhead(flash', prog.address + BLOCK)
<1>1. /\ flash \in Memory /\ block_due \in Block
  BY BlockDue DEF IInv, TypeOK
<1>2. /\ \A x \in fwarea : x < prog.address => flash'[x] = flash[x]
      /\ \A x \in fwarea : prog.address <= x /\ x < prog.address + BLOCK =>
           flash'[x] = block_due[x - prog.address + 1]
      /\ ErasedAhead(flash', prog.address + BLOCK)
  BY <1>1, CommitExact DEF CopiedSoFar, IInv, TypeOK, Copying
<1>3. \A y \in fwarea : y >= pending => flash'[y] = flash[y]
  BY CommitKeepsUpdate DEF IInv
<1>4. ASSUME NEW x \in FW_START .. lim - 1
      PROVE  flash'[x] = source(flash', up, x)
  <2>1. x \in FW_START .. copy_end(up) - 1
    BY CopyNumbers
  <2>2. x \in fwarea /\ source(flash', up, x) = source(flash, up, x)
    BY <1>3, <2>1, SourceKept
  <2>3. flash'[x] = source(flash, up, x)
    <3>1. CASE x < prog.address
      <4>1. x \in FW_START .. prog.address - 1
        BY <3>1, CopyNumbers
      <4>2. flash[x] = source(flash, up, x)
        BY <4>1 DEF CopiedSoFar
      <4> QED BY <1>2, <2>2, <3>1, <4>2
    <3>2. CASE prog.address <= x
      <4>1. x \in prog.address .. lim - 1 /\ x < prog.address + BLOCK
        BY <3>2, CopyNumbers
      <4> QED BY <1>2, <2>2, <3>2, <4>1
    <3> QED BY <3>1, <3>2, CopyNumbers
  <2> QED BY <2>2, <2>3
<1> QED BY <1>2, <1>4

\* A turn of the loop: program_write() of the next byte.
LEMMA WriteCopies ==
  ASSUME IInv, CopiedSoFar, program_write
  PROVE  CopiedSoFar'
<1>1. /\ pc = "copy" /\ pc' = "copy" /\ up' = up
      /\ copied < data_len(up)
  BY DEF program_write
<1>0. /\ FW_START \in Nat /\ BLOCK \in Nat /\ prog.address \in Nat /\ FW_START <= prog.address
      /\ Len(prog.buffer) \in Nat /\ Len(prog.buffer) < BLOCK
      /\ copied \in Nat /\ data_len(up) \in Nat
      /\ prog.address + Len(prog.buffer) = FW_START + copied
  BY <1>1, CopyNumbers
<1>2. next_byte = source(flash, up, FW_START + copied)
  <2>1. data_start(up) + copied = data_start(up) + (FW_START + copied) - FW_START
    BY <1>1, CopyNumbers
  <2> QED BY <2>1 DEF next_byte, source
<1>3. CASE block_due = <<>>
  <2>1. prog' = [prog EXCEPT !.buffer = Append(@, next_byte)] /\ flash' = flash
    BY <1>3, WriteEffect
  <2>2. prog'.address = prog.address /\ prog'.buffer = Append(prog.buffer, next_byte)
    BY <2>1 DEF IInv, TypeOK
  <2>3. \A i \in 1 .. Len(prog'.buffer) :
          prog'.buffer[i] = source(flash, up, prog.address + i - 1)
    <3>1. \A i \in 1 .. Len(prog.buffer) :
            prog.buffer[i] = source(flash, up, prog.address + i - 1)
      BY <1>1 DEF CopiedSoFar
    <3>2. next_byte = source(flash, up, prog.address + (Len(prog.buffer) + 1) - 1)
      <4>1. FW_START + copied = prog.address + (Len(prog.buffer) + 1) - 1
        BY <1>1, CopyNumbers
      <4> QED BY <1>2, <4>1
    <3>3. prog.buffer \in Seq(Byte)
      BY DEF IInv, TypeOK
    <3> HIDE DEF next_byte
    <3> QED BY <2>2, <3>1, <3>2, <3>3
  <2> QED BY <1>1, <2>1, <2>2, <2>3 DEF CopiedSoFar
<1>4. CASE block_due # <<>>
  <2> DEFINE next == prog.address + BLOCK
  <2>1. /\ prog'.address = next /\ prog'.buffer = <<>>
        /\ flash' = commit(flash, prog.address, block_due)
    BY <1>4, WriteEffect
  <2>2. block_due = Append(prog.buffer, next_byte)
    BY <1>1, <1>4 DEF block_due, completed
  <2>6. Len(prog.buffer) + 1 = BLOCK
    BY <1>1, <1>4 DEF block_due, completed
  <2>3. next = FW_START + copied + 1 /\ next \in Nat /\ next <= copy_end(up)
    <3>1. copied + 1 <= data_len(up)
      BY <1>0, <1>1
    <3>2. prog.address + BLOCK = FW_START + copied + 1
      BY <1>0, <2>6
    <3> QED BY <1>0, <3>1, <3>2 DEF copy_end
  <2>4. ASSUME NEW x \in prog.address .. next - 1
        PROVE  block_due[x - prog.address + 1] = source(flash, up, x)
    <3> DEFINE i == x - prog.address + 1
    <3>1. i \in 1 .. BLOCK /\ x = prog.address + i - 1
      BY <1>0, <2>4
    <3>4. prog.buffer \in Seq(Byte)
      BY DEF IInv, TypeOK
    <3> SUFFICES block_due[i] = source(flash, up, x)
      OBVIOUS
    <3> HIDE DEF i, next_byte, next
    <3>2. CASE i = BLOCK
      <4>1. x = FW_START + copied
        BY <1>0, <2>6, <3>1, <3>2
      <4>2. block_due[i] = next_byte
        BY <2>2, <2>6, <3>2, <3>4
      <4> QED BY <1>2, <4>1, <4>2
    <3>3. CASE i # BLOCK
      <4>1. i \in 1 .. Len(prog.buffer)
        BY <1>0, <2>6, <3>1, <3>3
      <4>2. block_due[i] = prog.buffer[i]
        BY <2>2, <4>1, <3>4
      <4>3. prog.buffer[i] = source(flash, up, prog.address + i - 1)
        BY <1>1, <4>1 DEF CopiedSoFar
      <4> QED BY <3>1, <4>2, <4>3
    <3> QED BY <3>2, <3>3
  <2>5. /\ \A x \in FW_START .. next - 1 : flash'[x] = source(flash', up, x)
        /\ ErasedAhead(flash', next)
    BY <1>1, <1>4, <2>1, <2>3, <2>4, BlockStored
  <2> QED BY <1>1, <2>1, <2>5 DEF CopiedSoFar
<1> QED BY <1>3, <1>4

\* After the loop: program_finish().
LEMMA FinishCopies ==
  ASSUME IInv, CopiedSoFar, program_finish
  PROVE  \A x \in FW_START .. copy_end(up) - 1 : flash'[x] = source(flash', up, x)
<1>1. pc = "copy" /\ copied = data_len(up)
  BY DEF program_finish
<1>2. /\ prog.address \in Nat /\ Len(prog.buffer) \in Nat /\ BLOCK \in Nat
      /\ Len(prog.buffer) < BLOCK
      /\ copy_end(up) \in Nat /\ copy_end(up) = prog.address + Len(prog.buffer)
  BY <1>1, CopyNumbers
<1>3. CASE block_due = <<>>
  <2>1. flash' = flash
    BY <1>1, <1>3, CopyNumbers, FinishEffect
  <2>2. Len(prog.buffer) = 0
    <3>1. CASE prog.buffer = <<>>
      BY <3>1
    <3>2. CASE prog.buffer # <<>>
      <4>1. pad(prog.buffer) = <<>>
        BY <1>1, <1>3, <3>2, CopyNumbers DEF block_due, last_block
      <4>2. Len(pad(prog.buffer)) = BLOCK
        BY <1>2 DEF pad
      <4> QED BY <1>2, <4>1, <4>2
    <3> QED BY <3>1, <3>2
  <2>3. copy_end(up) = prog.address
    BY <1>2, <2>2
  <2> QED BY <1>1, <2>1, <2>3 DEF CopiedSoFar
<1>4. CASE block_due # <<>>
  <2>1. flash' = commit(flash, prog.address, block_due)
    BY <1>1, <1>4, CopyNumbers, FinishEffect
  <2>2. block_due = pad(prog.buffer)
    BY <1>1, <1>4, CopyNumbers DEF block_due, last_block
  <2>3. ASSUME NEW x \in prog.address .. copy_end(up) - 1
        PROVE  block_due[x - prog.address + 1] = source(flash, up, x)
    <3> DEFINE i == x - prog.address + 1
    <3>0. x \in Int /\ prog.address <= x /\ x < prog.address + Len(prog.buffer)
      BY <1>2, <2>3
    <3>1. i \in 1 .. Len(prog.buffer) /\ i \in 1 .. BLOCK /\ x = prog.address + i - 1
      BY <1>2, <3>0
    <3> SUFFICES block_due[i] = source(flash, up, x)
      OBVIOUS
    <3> HIDE DEF i
    <3>2. block_due[i] = prog.buffer[i]
      BY <2>2, <3>1 DEF pad
    <3>3. prog.buffer[i] = source(flash, up, prog.address + i - 1)
      BY <1>1, <3>1 DEF CopiedSoFar
    <3> QED BY <3>1, <3>2, <3>3
  <2>4. copy_end(up) <= prog.address + BLOCK /\ copy_end(up) <= copy_end(up)
    BY <1>2
  <2> QED BY <1>1, <1>2, <1>4, <2>1, <2>3, <2>4, BlockStored
<1> QED BY <1>3, <1>4

-----------------------------------------------------------------------------
(***************************************************************************)
(* The invariant is inductive, relative to that of NanoLoaderProofs.       *)
(***************************************************************************)

LEMMA InitCopyInv == Init => CopyInv
  BY DEF Init, CopyInv, CopiedSoFar, Concluded

LEMMA NextCopyInv == IInv /\ CopyInv /\ [Next]_vars => CopyInv'
<1> SUFFICES ASSUME IInv, CopyInv, [Next]_vars PROVE CopyInv'
  OBVIOUS
<1> USE DEF locals, bounds
<1>1. CASE no_update
  BY <1>1 DEF no_update, CopyInv, CopiedSoFar, Concluded
<1>2. CASE found_update
  <2>1. /\ pc' \in {"install_plain", "clear"} /\ outcome' = "none"
        /\ flash' = flash /\ pending' = pending /\ up' = update_at(flash, pending)
        /\ pc' = "clear" => up'.info.uptype # TYPE_PLAIN
    BY <1>2 DEF found_update, CopyInv, Concluded
  <2> QED BY <2>1 DEF CopyInv, CopiedSoFar, Concluded
<1>3. CASE update_address_fails
  BY <1>3 DEF update_address_fails, CopyInv, CopiedSoFar, Concluded
<1>4. CASE reject_update
  <2>1. /\ pc' = "clear" /\ outcome' = "rejected" /\ ~fits(up)
        /\ flash' = flash /\ pending' = pending /\ up' = up
        /\ up = update_at(flash, pending)
    BY <1>4 DEF reject_update, IInv, Installing
  <2> QED BY <2>1 DEF CopyInv, CopiedSoFar, Concluded
<1>5. CASE program_start
  <2>1. /\ pc' = "copy" /\ outcome' = "none"
        /\ prog'.address = FW_START /\ prog'.buffer = <<>>
    BY <1>5 DEF program_start, Start, CopyInv, Concluded
  <2>2. page_starts(FW_START) /\ FW_START \in Nat
    BY GeometryAssumption DEF page_starts
  <2>3. CopiedSoFar'
    BY <2>1, <2>2 DEF CopiedSoFar, ErasedAhead
  <2> QED BY <2>1, <2>3 DEF CopyInv, Concluded
<1>6. CASE program_write
  <2>1. CopiedSoFar'
    BY <1>6, WriteCopies DEF CopyInv
  <2>2. pc' = "copy" /\ outcome' = "none"
    BY <1>6 DEF program_write, CopyInv, Concluded
  <2> QED BY <2>1, <2>2 DEF CopyInv, Concluded
<1>7. CASE program_finish
  <2>1. /\ pc = "copy" /\ pc' = "clear" /\ outcome' = "installed"
        /\ pending' = pending /\ up' = up
    BY <1>7 DEF program_finish
  <2>2. \A x \in FW_START .. copy_end(up) - 1 : flash'[x] = source(flash', up, x)
    BY <1>7, FinishCopies DEF CopyInv
  <2>3. copied \in Nat /\ data_len(up) \in Nat
    BY <2>1, CopyNumbers
  <2>4. up = update_at(flash', pending)
    BY <1>7, <2>1, <2>3, FinishEffect, CopyStep
  <2> QED BY <2>1, <2>2, <2>4 DEF CopyInv, CopiedSoFar, Concluded
<1>8. CASE program_fails
  <2>1. /\ pc' = "clear" /\ outcome' = "failed" /\ pending' = pending /\ up' = up
    BY <1>8 DEF program_fails
  <2>2. up = update_at(flash', pending)
    BY <1>8, CopyStep DEF program_fails
  <2> QED BY <2>1, <2>2 DEF CopyInv, CopiedSoFar, Concluded
<1>9. CASE update_clear
  BY <1>9 DEF update_clear, CopyInv, CopiedSoFar, Concluded
<1>10. CASE update_clear_fails
  BY <1>10 DEF update_clear_fails, CopyInv, CopiedSoFar, Concluded
<1>11. CASE start_or_abort
  BY <1>11 DEF start_or_abort, CopyInv, CopiedSoFar, Concluded
<1>12. CASE abort_resets
  BY <1>12 DEF abort_resets, boot_afresh, CopyInv, CopiedSoFar, Concluded
<1>13. CASE power_loss
  BY <1>13 DEF power_loss, boot_afresh, CopyInv, CopiedSoFar, Concluded
<1>14. CASE application_resets
  BY <1>14 DEF application_resets, boot_afresh, CopyInv, CopiedSoFar, Concluded
<1>15. CASE stage_update
  BY <1>15 DEF stage_update, CopyInv, CopiedSoFar, Concluded
<1>16. CASE UNCHANGED vars
  BY <1>16 DEF vars, CopyInv, CopiedSoFar, Concluded
<1> QED
  BY <1>1, <1>2, <1>3, <1>4, <1>5, <1>6, <1>7, <1>8, <1>9, <1>10, <1>11, <1>12, <1>13,
     <1>14, <1>15, <1>16 DEF Next, Loader, HardwareFault, Application

-----------------------------------------------------------------------------
(***************************************************************************)
(* The theorems.                                                           *)
(***************************************************************************)

\* The invariant of the copy holds in every reachable state.
THEOREM CopyInvariance == Spec => [](IInv /\ CopyInv)
<1>1. Init => IInv /\ CopyInv
  BY InitIInv, InitCopyInv
<1>2. (IInv /\ CopyInv) /\ [Next]_vars => (IInv /\ CopyInv)'
  BY NextIInv, NextCopyInv
<1> QED BY <1>1, <1>2, PTL DEF Spec

\* Bytes that are where they were copied from make up equal slices.
LEMMA CopiedSlice ==
  ASSUME NEW u, data_start(u) \in Nat, data_len(u) \in Nat,
         \A x \in FW_START .. copy_end(u) - 1 : flash[x] = source(flash, u, x)
  PROVE  slice(flash, FW_START, FW_START + data_len(u))
           = slice(flash, data_start(u), data_start(u) + data_len(u))
<1> DEFINE len == data_len(u)
           from == data_start(u)
<1>1. FW_START \in Nat /\ len \in Nat /\ from \in Nat
  BY GeometryAssumption
<1>2. \A x \in FW_START .. (FW_START + len) - 1 : flash[x] = flash[from + x - FW_START]
  BY DEF source, copy_end
<1>3. slice(flash, FW_START, FW_START + len) = [i \in 1 .. len |-> flash[FW_START + i - 1]]
  BY <1>1 DEF slice
<1>4. slice(flash, from, from + len) = [i \in 1 .. len |-> flash[from + i - 1]]
  BY <1>1 DEF slice
<1> HIDE DEF len, from
<1>5. ASSUME NEW i \in 1 .. len
      PROVE  flash[FW_START + i - 1] = flash[from + i - 1]
  <2> DEFINE x == FW_START + i - 1
  <2>1. x \in FW_START .. (FW_START + len) - 1 /\ from + x - FW_START = from + i - 1
    BY <1>1, <1>5
  <2> QED BY <1>2, <2>1
<1>6. slice(flash, FW_START, FW_START + len) = slice(flash, from, from + len)
  BY <1>3, <1>4, <1>5
<1> QED BY <1>6 DEF len, from

\* What the invariants say at the end of process_update() of an installed update.
LEMMA InstalledExactly ==
  ASSUME IInv, CopyInv, pc = "clear", outcome = "installed"
  PROVE  slice(flash, FW_START, FW_START + data_len(up))
           = slice(flash, data_start(up), data_start(up) + data_len(up))
<1>1. up = update_at(flash, pending) /\ check_update(flash, pending)
  BY DEF IInv, Retiring, CopyInv, Concluded
<1>2. /\ pending \in Nat /\ update_info(flash, pending) \in UpdateInfo
      /\ update_info(flash, pending).upsize >= UPDATE_INFO_SZ
  BY <1>1, CheckedSizes DEF IInv, TypeOK
<1>3. data_start(up) \in Nat /\ data_len(up) \in Nat
  BY <1>1, <1>2 DEF data_start, data_len, update_at, UpdateInfo, UPDATE_INFO_SZ
<1> QED BY <1>3, CopiedSlice DEF CopyInv, Concluded

\* When install_plain() reports success, the firmware area starts with exactly the
\* data of the update, whatever its size and whatever the Flash held before.
THEOREM CopiesExactly == Spec => []CopyIsExact
<1>1. IInv /\ CopyInv => CopyIsExact
  BY InstalledExactly DEF CopyIsExact
<1> QED BY CopyInvariance, <1>1, PTL

\* An update that could have been installed is given up only after it was, byte for
\* byte, or after a Flash operation failed in the same boot.
THEOREM NoneLost == Spec => NoUpdateLost
<1> DEFINE Lost == pending # None /\ pending' # pending /\ installable(flash, pending)
           u    == update_at(flash, pending)
           Kept == \/ outcome = "failed"
                   \/ /\ outcome = "installed"
                      /\ fw_ok(flash')
                      /\ slice(flash', FW_START, FW_START + data_len(u))
                           = slice(flash, data_start(u), data_start(u) + data_len(u))
<1>1. ASSUME IInv, CopyInv, [Next]_vars, Lost
      PROVE  Kept
  <2>1. ~stage_update
    BY <1>1 DEF stage_update
  <2>2. pc = "clear" /\ fw_ok(flash) /\ flash' = flash
    BY <1>1, <2>1
       DEF Next, Loader, HardwareFault, Application, vars, no_update, found_update,
           update_address_fails, reject_update, program_start, program_write,
           program_finish, program_fails, update_clear, update_clear_fails, update_done,
           start_or_abort, abort_resets, power_loss, application_resets
  <2>3. up = u /\ outcome \in {"failed", "installed"}
    BY <1>1, <2>2 DEF IInv, TypeOK, Outcomes, CopyInv, Concluded, installable, update_at
  <2>4. CASE outcome = "installed"
    <3>1. slice(flash, FW_START, FW_START + data_len(up))
            = slice(flash, data_start(up), data_start(up) + data_len(up))
      BY <1>1, <2>2, <2>4, InstalledExactly
    <3> QED BY <2>2, <2>3, <2>4, <3>1
  <2> QED BY <2>3, <2>4
<1>2. IInv /\ CopyInv /\ [Next]_vars => [Lost => Kept]_vars
  BY <1>1
<1> QED BY <1>2, CopyInvariance, PTL DEF Spec, NoUpdateLost

-----------------------------------------------------------------------------
(***************************************************************************)
(* The refinement.                                                         *)
(***************************************************************************)

\* An installed firmware is followed by erased Flash to the end of its last page.
Padded(m, u) ==
  \A x \in fwarea : copy_end(u) <= x /\ x < pages_end(u) => m[x] = ERASED

\* What the loader's place says beyond the invariants of the other modules.
Settled ==
  /\ pc = "clear" /\ outcome = "installed" => Padded(flash, up)
  /\ outcome = "failed" => faults > 0
  /\ pc = "running" => fw_ok(flash)

\* The history variables are what they were introduced as.
History ==
  /\ current = current_firmware(flash)
  /\ staged = staged_firmware(flash, pending)
  /\ current # Broken => last = current

\* Everything that is needed of a state.
RInv == IInv /\ CopyInv /\ Settled /\ History

\* The abstract specification may be about all the firmwares there are.
AllImages == \A m \in Memory : fw_ok(m) => image(m) \in Images

-----------------------------------------------------------------------------
(***************************************************************************)
(* The last page.                                                          *)
(***************************************************************************)

\* The page of a ends where one begins.
LEMMA PageEnd ==
  ASSUME NEW a \in Nat
  PROVE  /\ rest_of_page(a) \in Nat
         /\ (a + rest_of_page(a)) % FW_PAGE_SZ = 0
<1> DEFINE q == a \div FW_PAGE_SZ
           r == a % FW_PAGE_SZ
<1>1. FW_PAGE_SZ \in Nat \ {0}
  BY GeometryAssumption
<1>2. q \in Nat /\ r \in 0 .. FW_PAGE_SZ - 1 /\ a = (FW_PAGE_SZ * q) + r
  BY <1>1, DivMod
<1>3. rest_of_page(a) = FW_PAGE_SZ - r
  BY DEF rest_of_page
<1> HIDE DEF q, r
<1>4. a + rest_of_page(a) = (q + 1) * FW_PAGE_SZ
  BY <1>1, <1>2, <1>3
<1>5. ((q + 1) * FW_PAGE_SZ) % FW_PAGE_SZ = 0
  <2>1. q + 1 \in Nat
    BY <1>2
  <2> QED BY <1>1, <2>1, MultipleAligned
<1> QED BY <1>1, <1>2, <1>3, <1>4, <1>5

\* No page is erased beyond the first that begins at or after the end of the firmware.
LEMMA LastPage ==
  ASSUME NEW u, data_len(u) \in Nat, NEW t \in Nat, t % FW_PAGE_SZ = 0, copy_end(u) <= t
  PROVE  copy_end(u) \in Nat /\ pages_end(u) \in Nat /\ pages_end(u) <= t
<1> DEFINE n == data_len(u)
           q == (n + FW_PAGE_SZ - 1) \div FW_PAGE_SZ
           r == (n + FW_PAGE_SZ - 1) % FW_PAGE_SZ
<1>1. FW_PAGE_SZ \in Nat \ {0} /\ FW_START \in Nat /\ FW_START % FW_PAGE_SZ = 0
  BY GeometryAssumption
<1>2. n \in Nat /\ n + FW_PAGE_SZ - 1 \in Nat
  BY <1>1
<1>3. q \in Nat /\ r \in 0 .. FW_PAGE_SZ - 1 /\ n + FW_PAGE_SZ - 1 = (FW_PAGE_SZ * q) + r
  BY <1>1, <1>2, DivMod
<1>4. align_up(n) = q * FW_PAGE_SZ
  BY DEF align_up
<1>5. align_up(n) \in Nat /\ align_up(n) % FW_PAGE_SZ = 0
  BY <1>2, AlignUp
<1>6. pages_end(u) = FW_START + align_up(n) /\ copy_end(u) = FW_START + n
  BY DEF pages_end, copy_end
<1>7. pages_end(u) \in Nat /\ pages_end(u) % FW_PAGE_SZ = 0
  <2>1. (FW_START + align_up(n)) % FW_PAGE_SZ = 0
    BY <1>1, <1>5, AlignedSum
  <2> QED BY <1>1, <1>5, <1>6, <2>1
<1> HIDE DEF n, q, r
<1>8. align_up(n) < n + FW_PAGE_SZ
  <2>1. q * FW_PAGE_SZ = FW_PAGE_SZ * q /\ FW_PAGE_SZ * q \in Nat
    BY <1>1, <1>3
  <2> QED BY <1>1, <1>2, <1>3, <1>4, <2>1
<1>9. pages_end(u) <= t
  <2>1. SUFFICES ASSUME t < pages_end(u) PROVE FALSE
    BY <1>7
  <2>2. t + FW_PAGE_SZ <= pages_end(u)
    BY <1>1, <1>7, <2>1, AlignedStep
  <2> QED BY <1>1, <1>2, <1>5, <1>6, <1>8, <2>2
<1> QED BY <1>1, <1>2, <1>6, <1>7, <1>9

\* A memory that is erased ahead, from an address at or after the end of the
\* firmware, is erased to the end of the pages.
LEMMA AheadToTheEnd ==
  ASSUME NEW u, data_len(u) \in Nat, NEW m, NEW a \in Nat, copy_end(u) <= a,
         ErasedAhead(m, a), NEW x \in fwarea, a <= x, x < pages_end(u)
  PROVE  m[x] = ERASED
<1>1. FW_START \in Nat /\ fwarea \subseteq Nat
  BY GeometryAssumption DEF fwarea
<1>2. copy_end(u) \in Nat
  BY <1>1 DEF copy_end
<1>3. ~page_starts(a)
  <2>1. SUFFICES ASSUME a % FW_PAGE_SZ = 0 PROVE FALSE
    BY DEF page_starts
  <2>2. pages_end(u) \in Nat /\ pages_end(u) <= a
    BY <2>1, LastPage
  <2> QED BY <1>1, <2>2
<1>4. pages_end(u) \in Nat /\ pages_end(u) <= a + rest_of_page(a) /\ rest_of_page(a) \in Nat
  <2> DEFINE t == a + rest_of_page(a)
  <2>1. rest_of_page(a) \in Nat /\ t % FW_PAGE_SZ = 0
    BY PageEnd
  <2>2. t \in Nat /\ copy_end(u) <= t
    BY <1>2, <2>1
  <2> HIDE DEF t
  <2>3. pages_end(u) \in Nat /\ pages_end(u) <= t
    BY <2>1, <2>2, LastPage
  <2> QED BY <2>1, <2>3 DEF t
<1>5. x < a + rest_of_page(a)
  BY <1>1, <1>4
<1> QED BY <1>3, <1>5 DEF ErasedAhead

\* program_finish() leaves the rest of the last page erased.
LEMMA FinishPads ==
  ASSUME IInv, CopiedSoFar, program_finish
  PROVE  Padded(flash', up)
<1>1. pc = "copy" /\ copied = data_len(up)
  BY DEF program_finish
<1>2. /\ prog.address \in Nat /\ Len(prog.buffer) \in Nat /\ BLOCK \in Nat \ {0}
      /\ Len(prog.buffer) < BLOCK /\ data_len(up) \in Nat
      /\ copy_end(up) \in Nat /\ copy_end(up) = prog.address + Len(prog.buffer)
  BY <1>1, CopyNumbers
<1>3. SUFFICES ASSUME NEW x \in fwarea, copy_end(up) <= x, x < pages_end(up)
               PROVE  flash'[x] = ERASED
  BY DEF Padded
<1>4. CASE block_due = <<>>
  <2>1. flash' = flash
    BY <1>1, <1>2, <1>4, FinishEffect, CopyNumbers
  <2>2. copy_end(up) = prog.address
    <3>1. CASE prog.buffer = <<>>
      BY <1>2, <3>1
    <3>2. CASE prog.buffer # <<>>
      <4>1. pad(prog.buffer) = <<>>
        BY <1>1, <1>2, <1>4, <3>2 DEF block_due, last_block
      <4>2. Len(pad(prog.buffer)) = BLOCK
        BY <1>2 DEF pad
      <4> QED BY <1>2, <4>1, <4>2
    <3> QED BY <3>1, <3>2
  <2>3. ErasedAhead(flash, prog.address)
    BY <1>1 DEF CopiedSoFar
  <2>4. copy_end(up) <= prog.address /\ prog.address <= x
    BY <1>2, <1>3, <2>2
  <2> QED BY <1>2, <1>3, <2>1, <2>3, <2>4, AheadToTheEnd
<1>5. CASE block_due # <<>>
  <2>1. flash' = commit(flash, prog.address, block_due)
    BY <1>1, <1>2, <1>5, FinishEffect, CopyNumbers
  <2>2. block_due = pad(prog.buffer) /\ block_due \in Block /\ flash \in Memory
        /\ prog.address % BLOCK = 0 /\ ErasedAhead(flash, prog.address)
    BY <1>1, <1>2, <1>5, BlockDue
       DEF IInv, TypeOK, block_due, last_block, Copying, CopiedSoFar
  <2>3. /\ \A y \in fwarea : prog.address <= y /\ y < prog.address + BLOCK =>
             flash'[y] = block_due[y - prog.address + 1]
        /\ ErasedAhead(flash', prog.address + BLOCK)
    BY <1>2, <2>1, <2>2, CommitExact
  <2>4. x \in Nat
    BY GeometryAssumption DEF fwarea
  <2>5. CASE x < prog.address + BLOCK
    <3> DEFINE i == x - prog.address + 1
    <3>1. i \in 1 .. BLOCK /\ ~(i <= Len(prog.buffer)) /\ prog.address <= x
      BY <1>2, <1>3, <2>4, <2>5
    <3>2. flash'[x] = block_due[i]
      BY <1>3, <2>3, <2>5, <3>1
    <3> HIDE DEF i
    <3>3. block_due[i] = ERASED
      BY <2>2, <3>1 DEF pad
    <3> QED BY <3>2, <3>3
  <2>6. CASE ~(x < prog.address + BLOCK)
    <3>1. prog.address + BLOCK \in Nat /\ copy_end(up) <= prog.address + BLOCK
          /\ prog.address + BLOCK <= x
      BY <1>2, <2>4, <2>6
    <3> QED BY <1>2, <1>3, <2>3, <3>1, AheadToTheEnd
  <2> QED BY <2>5, <2>6
<1> QED BY <1>4, <1>5

-----------------------------------------------------------------------------
(***************************************************************************)
(* What an installation makes of the firmware area.                        *)
(***************************************************************************)

\* An update that can be installed, in numbers.
LEMMA InstallableNumbers ==
  ASSUME NEW m \in Memory, NEW a \in Nat \cup {None}, installable(m, a)
  PROVE  LET u == update_at(m, a)
         IN  /\ a \in Nat /\ FW_START \in Nat /\ FW_END \in Nat
             /\ data_len(u) \in Nat /\ data_start(u) \in Nat
             /\ copy_end(u) \in Nat /\ copy_end(u) = FW_START + data_len(u)
             /\ pages_end(u) \in Nat /\ pages_end(u) = FW_START + align_up(data_len(u))
             /\ copy_end(u) <= pages_end(u) /\ pages_end(u) <= a
             /\ a <= data_start(u) /\ data_start(u) + data_len(u) <= FW_END
<1> DEFINE u == update_at(m, a)
<1>1. /\ a \in Nat /\ FW_START \in Nat /\ FW_END \in Nat
      /\ u.info \in UpdateInfo /\ u.info.upsize >= UPDATE_INFO_SZ
      /\ a + u.info.upsize <= FW_END /\ u.address = a
  BY CheckedSizes, GeometryAssumption DEF installable, update_at
<1>2. fits(u)
  BY DEF installable
<1> HIDE DEF u
<1>3. u.info.upsize \in Nat /\ UPDATE_INFO_SZ = 16
  BY <1>1 DEF UpdateInfo, UPDATE_INFO_SZ
<1>4. data_len(u) = u.info.upsize - 16 /\ data_start(u) = a + 16
  BY <1>1, <1>3 DEF data_len, data_start
<1>5. data_len(u) \in Nat /\ data_start(u) \in Nat /\ a <= data_start(u)
      /\ data_start(u) + data_len(u) <= FW_END
  BY <1>1, <1>3, <1>4
<1>6. /\ copy_end(u) = FW_START + data_len(u)
      /\ pages_end(u) = FW_START + align_up(data_len(u))
  BY DEF copy_end, pages_end
<1>7. pages_end(u) <= a
  BY <1>1, <1>2, <1>6 DEF fits
<1>8. align_up(data_len(u)) \in Nat /\ data_len(u) <= align_up(data_len(u))
  BY <1>5, AlignUp
<1>9. /\ copy_end(u) \in Nat /\ pages_end(u) \in Nat /\ copy_end(u) <= pages_end(u)
  BY <1>1, <1>5, <1>6, <1>8
<1> QED BY <1>1, <1>5, <1>6, <1>7, <1>9 DEF u

\* An installation yields a memory.
LEMMA AfterInstallType ==
  ASSUME NEW m \in Memory, NEW a \in Nat \cup {None}, installable(m, a)
  PROVE  after_install(m, a) \in Memory
<1> DEFINE u == update_at(m, a)
<1>1. /\ FW_START \in Nat /\ FW_END \in Nat /\ a \in Nat
      /\ data_len(u) \in Nat /\ data_start(u) \in Nat /\ FW_START <= a
      /\ a <= data_start(u) /\ data_start(u) + data_len(u) <= FW_END
  BY InstallableNumbers, CheckedSizes DEF installable
<1>2. ERASED \in Byte
  BY GeometryAssumption DEF ERASED, Byte
<1> HIDE DEF u
<1>3. ASSUME NEW x \in fwarea, x < FW_START + data_len(u)
      PROVE  data_start(u) + x - FW_START \in fwarea
  BY <1>1, <1>3 DEF fwarea
<1>4. ASSUME NEW x \in fwarea, x < FW_START + data_len(u)
      PROVE  m[data_start(u) + x - FW_START] \in Byte
  <2> DEFINE y == data_start(u) + x - FW_START
  <2>1. y \in fwarea
    BY <1>3, <1>4
  <2> HIDE DEF y
  <2>2. m[y] \in Byte
    BY <2>1 DEF Memory
  <2> QED BY <2>2 DEF y
<1>5. \A x \in fwarea : m[x] \in Byte
  BY DEF Memory
<1>6. after_install(m, a) =
        [x \in fwarea |->
           IF x < FW_START + data_len(u) THEN m[data_start(u) + x - FW_START]
           ELSE IF x < FW_START + align_up(data_len(u)) THEN ERASED ELSE m[x]]
  BY DEF after_install, u
<1> QED BY <1>2, <1>4, <1>5, <1>6 DEF Memory

\* A memory into which the update has been copied, and that is erased to the end of
\* the last page, is what the installation was to make of it.
LEMMA Installed ==
  ASSUME NEW m \in Memory, NEW a \in Nat \cup {None}, installable(m, a),
         \A x \in FW_START .. copy_end(update_at(m, a)) - 1 :
           m[x] = source(m, update_at(m, a), x),
         Padded(m, update_at(m, a))
  PROVE  after_install(m, a) = m
<1> DEFINE u == update_at(m, a)
<1>1. /\ FW_START \in Nat /\ FW_END \in Nat
      /\ copy_end(u) \in Nat /\ copy_end(u) = FW_START + data_len(u)
      /\ pages_end(u) = FW_START + align_up(data_len(u))
  BY InstallableNumbers
<1>2. /\ \A x \in FW_START .. copy_end(u) - 1 : m[x] = source(m, u, x)
      /\ Padded(m, u)
  OBVIOUS
<1>3. after_install(m, a) =
        [x \in fwarea |->
           IF x < copy_end(u) THEN source(m, u, x)
           ELSE IF x < pages_end(u) THEN ERASED ELSE m[x]]
  BY <1>1 DEF after_install, source
<1> HIDE DEF u
<1>4. \A x \in fwarea : x < copy_end(u) => source(m, u, x) = m[x]
  BY <1>1, <1>2 DEF fwarea
<1>5. \A x \in fwarea : ~(x < copy_end(u)) /\ x < pages_end(u) => m[x] = ERASED
  BY <1>1, <1>2 DEF Padded, fwarea
<1>6. \A x \in fwarea : after_install(m, a)[x] = m[x]
  BY <1>3, <1>4, <1>5
<1> QED BY <1>3, <1>6 DEF Memory

\* What the installation will make of the area does not depend on the pages that
\* are erased for it.
LEMMA SameResult ==
  ASSUME NEW m \in Memory, NEW n \in Memory, NEW a \in Nat \cup {None}, installable(m, a),
         \A x \in fwarea : x >= pages_end(update_at(m, a)) => n[x] = m[x]
  PROVE  /\ installable(n, a) /\ update_at(n, a) = update_at(m, a)
         /\ after_install(n, a) = after_install(m, a)
<1> DEFINE u == update_at(m, a)
<1>1. /\ a \in Nat /\ FW_START \in Nat /\ FW_END \in Nat
      /\ data_len(u) \in Nat /\ data_start(u) \in Nat
      /\ copy_end(u) \in Nat /\ copy_end(u) = FW_START + data_len(u)
      /\ pages_end(u) \in Nat /\ pages_end(u) = FW_START + align_up(data_len(u))
      /\ copy_end(u) <= pages_end(u) /\ pages_end(u) <= a
      /\ a <= data_start(u) /\ data_start(u) + data_len(u) <= FW_END
  BY InstallableNumbers
<1>2. \A x \in fwarea : x >= pages_end(u) => n[x] = m[x]
  OBVIOUS
<1> HIDE DEF u
<1>3. \A x \in fwarea : x >= a => n[x] = m[x]
  BY <1>1, <1>2 DEF fwarea
<1>4. installable(n, a) /\ update_at(n, a) = u
  BY <1>3, InstallableAgrees, UpdateAgrees DEF installable, u
<1>5. ASSUME NEW x \in fwarea, x < copy_end(u)
      PROVE  n[data_start(u) + x - FW_START] = m[data_start(u) + x - FW_START]
  <2>1. data_start(u) + x - FW_START \in fwarea /\ data_start(u) + x - FW_START >= a
    BY <1>1, <1>5 DEF fwarea
  <2> QED BY <1>3, <2>1
<1>6. \A x \in fwarea : ~(x < pages_end(u)) => n[x] = m[x]
  BY <1>1, <1>2 DEF fwarea
<1>7. /\ after_install(m, a) =
           [x \in fwarea |->
              IF x < copy_end(u) THEN m[data_start(u) + x - FW_START]
              ELSE IF x < pages_end(u) THEN ERASED ELSE m[x]]
      /\ after_install(n, a) =
           [x \in fwarea |->
              IF x < copy_end(u) THEN n[data_start(u) + x - FW_START]
              ELSE IF x < pages_end(u) THEN ERASED ELSE n[x]]
  BY <1>1, <1>4 DEF after_install, u
<1>8. after_install(n, a) = after_install(m, a)
  BY <1>5, <1>6, <1>7
<1> QED BY <1>4, <1>8 DEF u

-----------------------------------------------------------------------------
(***************************************************************************)
(* The invariant.                                                          *)
(***************************************************************************)

LEMMA InitRInv == HistoryInit => RInv
<1> SUFFICES ASSUME HistoryInit PROVE RInv
  OBVIOUS
<1>1. IInv /\ CopyInv
  BY InitIInv, InitCopyInv DEF HistoryInit
<1>2. Settled
  BY DEF HistoryInit, Init, Settled
<1>3. History
  BY DEF HistoryInit, History
<1> QED BY <1>1, <1>2, <1>3 DEF RInv

LEMMA NextSettled == IInv /\ CopyInv /\ Settled /\ [Next]_vars => Settled'
<1> SUFFICES ASSUME IInv, CopyInv, Settled, [Next]_vars PROVE Settled'
  OBVIOUS
<1> USE DEF locals, bounds
<1>0. faults \in Nat
  BY FaultAssumption DEF IInv, TypeOK
<1>1. CASE no_update
  BY <1>1 DEF no_update, Settled
<1>2. CASE found_update
  <2>1. outcome' = "none" /\ pc' # "running"
    BY <1>2 DEF found_update, CopyInv, Concluded
  <2> QED BY <2>1 DEF Settled
<1>3. CASE update_address_fails
  BY <1>0, <1>3 DEF update_address_fails, Settled
<1>4. CASE reject_update
  BY <1>4 DEF reject_update, Settled
<1>5. CASE program_start
  BY <1>5 DEF program_start, Settled
<1>6. CASE program_write
  BY <1>6 DEF program_write, Settled
<1>7. CASE program_finish
  <2>1. Padded(flash', up)
    BY <1>7, FinishPads DEF CopyInv
  <2> QED BY <1>7, <2>1 DEF program_finish, Settled
<1>8. CASE program_fails
  BY <1>0, <1>8 DEF program_fails, Settled
<1>9. CASE update_clear
  BY <1>9 DEF update_clear, Settled
<1>10. CASE update_clear_fails
  BY <1>0, <1>10 DEF update_clear_fails, Settled
<1>11. CASE start_or_abort
  BY <1>11 DEF start_or_abort, Settled
<1>12. CASE abort_resets
  BY <1>12 DEF abort_resets, boot_afresh, Settled
<1>13. CASE power_loss
  BY <1>13 DEF power_loss, boot_afresh, Settled
<1>14. CASE application_resets
  BY <1>14 DEF application_resets, boot_afresh, Settled
<1>15. CASE stage_update
  BY <1>15 DEF stage_update, Settled
<1>16. CASE UNCHANGED vars
  BY <1>16 DEF vars, Settled
<1> QED
  BY <1>1, <1>2, <1>3, <1>4, <1>5, <1>6, <1>7, <1>8, <1>9, <1>10, <1>11, <1>12, <1>13,
     <1>14, <1>15, <1>16 DEF Next, Loader, HardwareFault, Application

LEMMA NextRInv == RInv /\ [HistoryNext]_<<vars, current, last, staged>> => RInv'
<1> SUFFICES ASSUME RInv, [HistoryNext]_<<vars, current, last, staged>> PROVE RInv'
  OBVIOUS
<1>1. [Next]_vars
  BY DEF HistoryNext
<1>2. IInv' /\ CopyInv'
  BY <1>1, NextIInv, NextCopyInv DEF RInv
<1>3. Settled'
  BY <1>1, NextSettled DEF RInv
<1>4. History'
  <2>1. CASE HistoryNext
    BY <2>1 DEF HistoryNext, History
  <2>2. CASE UNCHANGED <<vars, current, last, staged>>
    BY <2>2 DEF RInv, History, vars
  <2> QED BY <2>1, <2>2
<1> QED BY <1>2, <1>3, <1>4 DEF RInv

-----------------------------------------------------------------------------
(***************************************************************************)
(* Every step is one of AtomicUpdate, or none.                             *)
(***************************************************************************)

\* What the abstract loader sees of the staged update.
LEMMA StagedView ==
  ASSUME AllImages, NEW m \in Memory, NEW a \in Nat \cup {None}
  PROVE  /\ staged_firmware(m, a) \in Images \cup {Nothing, Unbootable}
         /\ installable(m, a) => staged_firmware(m, a) # Nothing
         /\ ~installable(m, a) => staged_firmware(m, a) = Nothing
<1>1. CASE ~installable(m, a)
  BY <1>1 DEF staged_firmware
<1>2. CASE installable(m, a)
  <2>1. after_install(m, a) \in Memory
    BY <1>2, AfterInstallType
  <2>2. promising(m, a) => image(after_install(m, a)) \in Images
    BY <2>1 DEF AllImages, promising
  <2>3. staged_firmware(m, a) \in Images \cup {Unbootable}
    BY <1>2, <2>2 DEF staged_firmware
  <2> QED BY <1>2, <2>3, NoFirmwareAssumption
<1> QED BY <1>1, <1>2

\* A step that changes neither the Flash nor the pointer is not noticed.
LEMMA SameView ==
  ASSUME RInv, HistoryNext, flash' = flash, pending' = pending
  PROVE  UNCHANGED <<current, last, staged>>
<1>1. current' = current /\ staged' = staged
  BY DEF RInv, History, HistoryNext
<1> QED BY <1>1 DEF RInv, History, HistoryNext

\* A step of the copy, completed or not.
LEMMA CopyView ==
  ASSUME RInv, HistoryNext, AllImages, pc = "copy", pending' = pending,
         block_due # <<>>,
         flash' \in {commit(flash, prog.address, block_due)}
                      \cup interrupted(flash, prog.address, block_due),
         fw_ok(flash') => image(flash') \in {last, staged}
  PROVE  \/ Atomic!Begin \/ Atomic!Complete \/ Atomic!Reappear
         \/ UNCHANGED <<current, last, staged>>
<1>1. /\ flash \in Memory /\ pending \in Nat \cup {None}
      /\ installable(flash, pending) /\ up = update_at(flash, pending)
  BY DEF RInv, IInv, TypeOK, Installing, Copying, installable, update_at
<1>2. /\ flash' \in Memory
      /\ \A x \in fwarea : x >= pages_end(up) => flash'[x] = flash[x]
  BY CommitKeepsUpdate DEF RInv, IInv
<1>3. /\ installable(flash', pending)
      /\ after_install(flash', pending) = after_install(flash, pending)
  BY <1>1, <1>2, SameResult
<1>4. staged' = staged /\ staged # Nothing
  <2>1. staged' = staged_firmware(flash', pending)
    BY DEF HistoryNext
  <2>2. staged = staged_firmware(flash, pending)
    BY DEF RInv, History
  <2>3. staged_firmware(flash', pending) = staged_firmware(flash, pending)
    BY <1>1, <1>3 DEF staged_firmware, promising
  <2>4. staged_firmware(flash, pending) # Nothing
    BY <1>1, StagedView
  <2> QED BY <2>1, <2>2, <2>3, <2>4
<1>5. CASE ~fw_ok(flash')
  <2>1. current' = Broken /\ last' = last
    BY <1>5 DEF HistoryNext, current_firmware
  <2> QED BY <1>4, <2>1 DEF Atomic!Begin
<1>6. CASE fw_ok(flash')
  <2>1. /\ current' = image(flash') /\ current' \in Images /\ current' # Broken
        /\ last' = current'
    <3>1. current' = image(flash')
      BY <1>6 DEF HistoryNext, current_firmware
    <3>2. image(flash') \in Images
      BY <1>2, <1>6 DEF AllImages
    <3>3. current' # Broken
      BY <3>1, <3>2, NoFirmwareAssumption
    <3> QED BY <3>1, <3>2, <3>3 DEF HistoryNext
  <2>2. CASE current' = staged
    BY <1>4, <2>1, <2>2 DEF Atomic!Complete
  <2>3. CASE current' = last /\ current = Broken
    BY <1>4, <2>1, <2>3 DEF Atomic!Reappear
  <2>4. CASE current' = last /\ current # Broken
    BY <1>4, <2>1, <2>4 DEF RInv, History
  <2> QED BY <1>6, <2>1, <2>2, <2>3, <2>4
<1> QED BY <1>5, <1>6

\* The end of the copy, when there is a last block: what is in place now is what
\* was staged, a firmware or not.
LEMMA FinishView ==
  ASSUME RInv, HistoryNext, AllImages, program_finish, fw_ok(flash')
  PROVE  image(flash') = staged
<1>1. /\ flash \in Memory /\ pending \in Nat \cup {None} /\ pending' = pending
      /\ installable(flash, pending) /\ up = update_at(flash, pending) /\ pc = "copy"
  BY DEF RInv, IInv, TypeOK, Installing, Copying, installable, update_at, program_finish
<1>2. copied \in Nat /\ data_len(up) \in Nat
  BY <1>1, CopyNumbers DEF RInv
<1>3. /\ flash' \in Memory
      /\ \A x \in fwarea : x >= pages_end(up) => flash'[x] = flash[x]
  <2>1. CASE block_due = <<>>
    BY <1>1, <1>2, <2>1, FinishEffect
  <2>2. CASE block_due # <<>>
    BY <1>1, <1>2, <2>2, FinishEffect, CommitKeepsUpdate DEF RInv, IInv
  <2> QED BY <2>1, <2>2
<1>4. /\ installable(flash', pending) /\ update_at(flash', pending) = up
      /\ after_install(flash', pending) = after_install(flash, pending)
  BY <1>1, <1>3, SameResult
<1>5. /\ \A x \in FW_START .. copy_end(up) - 1 : flash'[x] = source(flash', up, x)
      /\ Padded(flash', up)
  BY FinishCopies, FinishPads DEF RInv, CopyInv
<1>6. after_install(flash, pending) = flash'
  <2>1. after_install(flash', pending) = flash'
    BY <1>1, <1>3, <1>4, <1>5, Installed
  <2> QED BY <1>4, <2>1
<1>7. staged = image(after_install(flash, pending))
  BY <1>1, <1>6 DEF RInv, History, staged_firmware, promising
<1> QED BY <1>6, <1>7

\* The end of process_update(), when the pointer goes.
LEMMA ClearView ==
  ASSUME RInv, HistoryNext, AllImages, pc = "clear", fw_ok(flash), flash' = flash,
         ~installable(flash', pending'), pending' \in Nat \cup {None}
  PROVE  Atomic!Retire \/ UNCHANGED <<current, last, staged>>
<1>1. flash \in Memory /\ pending \in Nat \cup {None} /\ outcome \in Outcomes
  BY DEF RInv, IInv, TypeOK
<1>2. current = image(flash) /\ current # Broken /\ last = current
  <2>1. current = image(flash)
    BY DEF RInv, History, current_firmware
  <2>2. image(flash) \in Images
    BY <1>1 DEF AllImages
  <2> QED BY <2>1, <2>2, NoFirmwareAssumption DEF RInv, History
<1>3. current' = current /\ last' = last /\ staged' = Nothing
  <2>1. current' = current
    BY DEF RInv, History, HistoryNext
  <2>2. staged' = Nothing
    BY DEF HistoryNext, staged_firmware
  <2> QED BY <1>2, <2>1, <2>2 DEF HistoryNext
<1>4. staged = staged_firmware(flash, pending)
  BY DEF RInv, History
<1>5. CASE ~installable(flash, pending)
  BY <1>3, <1>4, <1>5 DEF staged_firmware
<1>6. CASE installable(flash, pending)
  <2>1. staged # Nothing
    BY <1>1, <1>4, <1>6, StagedView
  <2>2. up = update_at(flash, pending) /\ outcome \in {"failed", "installed"}
    BY <1>1, <1>6 DEF RInv, CopyInv, Concluded, Outcomes, installable, update_at
  <2>3. current = staged \/ faults > 0
    <3>1. CASE outcome = "failed"
      BY <3>1 DEF RInv, Settled
    <3>2. CASE outcome = "installed"
      <4>1. /\ \A x \in FW_START .. copy_end(up) - 1 : flash[x] = source(flash, up, x)
            /\ Padded(flash, up)
        BY <3>2 DEF RInv, CopyInv, Concluded, Settled
      <4>2. after_install(flash, pending) = flash
        BY <1>1, <1>6, <2>2, <4>1, Installed
      <4> QED BY <1>2, <1>4, <1>6, <4>2 DEF staged_firmware, promising
    <3> QED BY <2>2, <3>1, <3>2
  <2> QED BY <1>2, <1>3, <2>1, <2>3 DEF Atomic!Retire
<1> QED BY <1>5, <1>6

\* The application stages an update.
LEMMA StageView ==
  ASSUME RInv, HistoryNext, AllImages, stage_update
  PROVE  Atomic!Stage \/ UNCHANGED <<current, last, staged>>
<1>1. PICK s \in Staged : /\ flash' = stored(flash, s.address, s.bytes)
                          /\ fw_ok(flash') /\ image(flash') = image(flash)
                          /\ pending' = s.address
  BY DEF stage_update
<1>2. flash \in Memory /\ pending = None /\ fw_ok(flash)
  BY DEF stage_update, RInv, IInv, TypeOK, Settled
<1>3. flash' \in Memory /\ pending' \in Nat \cup {None}
  BY NextRInv DEF RInv, IInv, TypeOK
<1>4. current' = current /\ current # Broken /\ last' = last
  <2>1. current = image(flash) /\ current' = image(flash)
    BY <1>1, <1>2 DEF RInv, History, HistoryNext, current_firmware
  <2>2. image(flash) \in Images
    BY <1>2 DEF AllImages
  <2>3. current # Broken
    BY <2>1, <2>2, NoFirmwareAssumption
  <2> QED BY <2>1, <2>3 DEF RInv, History, HistoryNext
<1>5. staged = Nothing
  <2>1. ~installable(flash, pending)
    BY <1>2, GeometryAssumption DEF installable, check_update, None
  <2> QED BY <2>1 DEF RInv, History, staged_firmware
<1>6. staged' \in Images \cup {Nothing, Unbootable}
  <2>1. staged' = staged_firmware(flash', pending')
    BY DEF HistoryNext
  <2> QED BY <1>3, <2>1, StagedView
<1> QED BY <1>4, <1>5, <1>6 DEF Atomic!Stage

\* A Flash fault is never forgotten.
LEMMA FaultsStay ==
  ASSUME RInv, Next
  PROVE  faults > 0 => faults' > 0
<1>1. faults \in Nat
  BY FaultAssumption DEF RInv, IInv, TypeOK
<1>2. faults' \in {faults, faults + 1}
  BY DEF Next, Loader, HardwareFault, Application, bounds, no_update, found_update,
         update_address_fails, reject_update, program_start, program_write,
         program_finish, program_fails, update_clear, update_clear_fails,
         start_or_abort, abort_resets, power_loss, application_resets, stage_update
<1> QED BY <1>1, <1>2

\* What NothingByChance says of a step.
ByDesign ==
  /\ (pc = "copy" /\ outcome' # "installed" /\ fw_ok(flash'))
       => image(flash') \in {last, staged}
  /\ (pc = "clear" /\ pending' # pending) => ~installable(flash', pending')

LEMMA StepSimulates ==
  ASSUME RInv, HistoryNext, ByDesign, AllImages
  PROVE  Atomic!Next
<1> USE DEF locals, bounds
<1> DEFINE Seen == \/ Atomic!Stage \/ Atomic!Begin \/ Atomic!Complete \/ Atomic!Reappear
                   \/ Atomic!Retire \/ UNCHANGED <<current, last, staged>>
<1>0. Next /\ pending' \in Nat \cup {None}
  BY NextRInv DEF HistoryNext, RInv, IInv, TypeOK
<1> SUFFICES Seen
  BY <1>0, FaultsStay DEF Atomic!Next
<1>1. ASSUME flash' = flash, pending' = pending
      PROVE  Seen
  BY <1>1, SameView
<1>2. ASSUME pc = "copy", pending' = pending, block_due # <<>>,
             flash' \in {commit(flash, prog.address, block_due)}
                          \cup interrupted(flash, prog.address, block_due),
             fw_ok(flash') => image(flash') \in {last, staged}
      PROVE  Seen
  BY <1>2, CopyView
<1>3. ASSUME pc = "clear", fw_ok(flash), flash' = flash
      PROVE  Seen
  <2>1. CASE pending' = pending
    BY <1>1, <1>3, <2>1
  <2>2. CASE pending' # pending
    BY <1>0, <1>3, <2>2, ClearView DEF ByDesign
  <2> QED BY <2>1, <2>2
<1> HIDE DEF Seen
<1>4. CASE program_write
  <2>1. pc = "copy" /\ outcome' = outcome /\ pending' = pending
    BY <1>4 DEF program_write
  <2>2. outcome' # "installed"
    BY <2>1 DEF RInv, CopyInv, Concluded
  <2>3. CASE block_due = <<>>
    BY <1>1, <1>4, <2>1, <2>3, WriteEffect
  <2>4. CASE block_due # <<>>
    BY <1>2, <1>4, <2>1, <2>2, <2>4, WriteEffect DEF ByDesign
  <2> QED BY <2>3, <2>4
<1>5. CASE program_finish
  <2>1. pc = "copy" /\ pending' = pending
    BY <1>5 DEF program_finish
  <2>2. copied \in Nat /\ data_len(up) \in Nat
    BY <2>1, CopyNumbers DEF RInv
  <2>3. CASE block_due = <<>>
    BY <1>1, <1>5, <2>1, <2>2, <2>3, FinishEffect
  <2>4. CASE block_due # <<>>
    BY <1>2, <1>5, <2>1, <2>2, <2>4, FinishEffect, FinishView
  <2> QED BY <2>3, <2>4
<1>6. CASE program_fails
  <2>1. outcome' # "installed"
    BY <1>6 DEF program_fails
  <2> QED BY <1>2, <1>6, <2>1 DEF program_fails, ByDesign
<1>7. CASE power_loss
  <2>1. outcome' # "installed"
    BY <1>7 DEF power_loss, boot_afresh
  <2>2. \/ flash' = flash /\ pending' = pending
        \/ /\ pc = "copy" /\ block_due # <<>> /\ pending' = pending
           /\ flash' \in interrupted(flash, prog.address, block_due)
        \/ pc = "clear" /\ fw_ok(flash) /\ flash' = flash
    BY <1>7 DEF power_loss, update_done
  <2> QED BY <1>1, <1>2, <1>3, <2>1, <2>2 DEF ByDesign
<1>8. CASE stage_update
  BY <1>8, StageView DEF Seen
<1>9. CASE update_clear
  <2>1. pc = "clear" /\ flash' = flash /\ (pending' = pending \/ fw_ok(flash))
    BY <1>9 DEF update_clear, update_done
  <2> QED BY <1>1, <1>3, <2>1
<1>10. CASE update_clear_fails
  BY <1>3, <1>10 DEF update_clear_fails, update_done
<1>11. CASE \/ no_update \/ found_update \/ update_address_fails \/ reject_update
            \/ program_start \/ start_or_abort \/ abort_resets \/ application_resets
  <2>1. flash' = flash /\ pending' = pending
    BY <1>11 DEF no_update, found_update, update_address_fails, reject_update,
                 program_start, Start, start_or_abort, abort_resets, application_resets
  <2> QED BY <1>1, <2>1
<1> QED
  BY <1>0, <1>4, <1>5, <1>6, <1>7, <1>8, <1>9, <1>10, <1>11
     DEF Next, Loader, HardwareFault, Application

\* The initial states are initial states of the promise.
LEMMA InitSimulates ==
  ASSUME HistoryInit, AllImages
  PROVE  Atomic!Init
<1>1. RInv
  BY InitRInv
<1>2. flash \in Memory /\ pending \in Nat \cup {None}
  BY <1>1 DEF RInv, IInv, TypeOK
<1>3. staged \in Images \cup {Nothing, Unbootable}
  BY <1>2, StagedView DEF HistoryInit
<1>4. current \in Images \cup {Broken} /\ last = current
  BY <1>2 DEF HistoryInit, current_firmware, AllImages
<1>5. current = Broken => staged # Nothing
  <2>1. SUFFICES ASSUME current = Broken PROVE staged # Nothing
    OBVIOUS
  <2>2. ~fw_ok(flash)
    <3>1. fw_ok(flash) => current \in Images
      BY <1>2 DEF HistoryInit, current_firmware, AllImages
    <3> QED BY <2>1, <3>1, NoFirmwareAssumption
  <2>3. installable(flash, pending)
    BY <1>1, <2>2 DEF RInv, IInv, Recoverable
  <2> QED BY <1>2, <2>3, StagedView DEF HistoryInit
<1>6. ~(faults > 0)
  BY DEF HistoryInit, Init
<1> QED BY <1>3, <1>4, <1>5, <1>6 DEF Atomic!Init

-----------------------------------------------------------------------------
(***************************************************************************)
(* The theorem.                                                            *)
(***************************************************************************)

\* Every step of the loader, interrupted or not, is a step of AtomicUpdate or
\* invisible to it, unless a checksum or a damaged pointer deceives it.
THEOREM LoaderUpdatesAtomically ==
  ASSUME AllImages
  PROVE  HistorySpec /\ NothingByChance => UpdatesAtomically
<1> DEFINE hvars == <<vars, current, last, staged>>
<1>1. HistoryInit => RInv
  BY InitRInv
<1>2. RInv /\ [HistoryNext]_hvars => RInv'
  BY NextRInv
<1>3. HistoryInit => Atomic!Init
  BY InitSimulates
<1>4. RInv /\ [HistoryNext]_hvars /\ [ByDesign]_hvars
        => [Atomic!Next]_<<current, last, staged, faults > 0>>
  <2>1. SUFFICES ASSUME RInv, [HistoryNext]_hvars, [ByDesign]_hvars
                 PROVE  [Atomic!Next]_<<current, last, staged, faults > 0>>
    OBVIOUS
  <2>2. CASE HistoryNext /\ ByDesign
    BY <2>1, <2>2, StepSimulates
  <2>3. CASE UNCHANGED hvars
    <3>1. UNCHANGED <<current, last, staged>> /\ faults' = faults
      BY <2>3 DEF vars, bounds
    <3> QED BY <3>1
  <2> QED BY <2>1, <2>2, <2>3
<1>5. NothingByChance <=> [][ByDesign]_hvars
  BY DEF NothingByChance, ByDesign
<1> QED BY <1>1, <1>2, <1>3, <1>4, <1>5, PTL DEF HistorySpec, UpdatesAtomically, Atomic!Spec
=============================================================================
