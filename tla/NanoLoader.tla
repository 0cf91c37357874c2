------------------------------ MODULE NanoLoader ------------------------------
(***************************************************************************)
(* The boot loader of nanoloader/src/lib.rs as a process: boot() processes *)
(* a pending update, verifies the firmware, and either starts it or gives  *)
(* up.  It runs against the NanoHal trait, whose programming functions are *)
(* those of HalProgramming.                                                *)
(*                                                                         *)
(* The loader itself is sequential.  What makes it hard is everything that *)
(* may happen between two of its steps: power may be lost at any point, in *)
(* the middle of an erase or a program operation too; a Flash operation    *)
(* may report an error; and the application, once it runs, stages any      *)
(* update it likes and asks for it by storing its address.                 *)
(***************************************************************************)
EXTENDS NanoFormat, HalProgramming

CONSTANTS
  Torn,                \* values a byte may read as after an interrupted operation
  TornPointers,        \* what an interrupted clear may leave of the update pointer
  Factory,             \* devices as shipped: [flash, pending]
  Staged,              \* what the application may stage: [address, bytes]
  MaxCrashes,          \* bound on the number of power losses
  MaxFaults,           \* bound on the number of failing Flash operations
  MaxUpdates           \* bound on the number of updates the application stages

VARIABLES
  pending,   \* what HAL::update_address() returns: an address or None
  pc,        \* where boot() is, or who runs instead of it
  up,        \* the Update returned by check_update()
  copied,    \* number of bytes of the update the copy loop has consumed
  outcome,   \* how install_plain() ended in this boot
  crashes, faults, updates   \* counters for the bounds

locals == <<up, copied, prog, outcome>>
bounds == <<crashes, faults, updates>>
vars   == <<flash, pending, pc, locals, bounds>>

Locations == {"process_update", "install_plain", "copy", "clear", "verify",
              "running", "aborted"}
Outcomes  == {"none", "rejected", "failed", "installed"}

NoUpdate == [info    |-> [checksum |-> 0, upsize |-> UPDATE_INFO_SZ,
                          uptype |-> TYPE_PLAIN, fwsize |-> 0],
             address |-> None]

ASSUME FaultAssumption ==
  /\ Torn \subseteq Byte
  /\ TornPointers \subseteq Nat \cup {None}
  /\ MaxCrashes \in Nat /\ MaxFaults \in Nat /\ MaxUpdates \in Nat

\* A device leaves the factory with a firmware, or with an update that will
\* install one.
ASSUME FactoryAssumption ==
  \A d \in Factory : /\ d.flash \in Memory
                     /\ d.pending \in Nat \cup {None}
                     /\ fw_ok(d.flash) \/ installable(d.flash, d.pending)

ASSUME StagedAssumption ==
  \A s \in Staged : /\ s.address \in Nat
                    /\ s.bytes \in Seq(Byte)

-----------------------------------------------------------------------------
(***************************************************************************)
(* Flash operations that do not complete.                                  *)
(***************************************************************************)

\* What an operation turning m into n at addresses a .. a+len-1 leaves if it
\* is cut short: some of the bytes are done, the others are as they were or
\* read as some half-way value.
cut_short(m, n, a, len) ==
  { [x \in fwarea |-> IF x < a \/ x >= a + len THEN m[x]
                      ELSE IF x < a + done THEN n[x] ELSE rest[x]] :
      done \in 0 .. len,
      rest \in {m} \cup { [x \in fwarea |-> t] : t \in Torn } }

\* Every memory a commit that does not complete may leave.
interrupted(m, a, block) ==
  IF page_starts(a)
  THEN cut_short(m, erased(m, a), a, FW_PAGE_SZ)
         \cup cut_short(erased(m, a), commit(m, a, block), a, BLOCK)
  ELSE cut_short(m, commit(m, a, block), a, BLOCK)

\* The next byte of update.data.  It is a slice of the Flash, not a copy of it.
next_byte == flash[data_start(up) + copied]

\* The block the next call of program_write() or program_finish() writes;
\* empty if that call only collects a byte or has nothing left to write.
block_due ==
  IF copied < data_len(up) THEN completed(prog, next_byte) ELSE last_block(prog)

-----------------------------------------------------------------------------
(***************************************************************************)
(* process_update()                                                        *)
(***************************************************************************)

\* check_update() finds nothing to do.
no_update ==
  /\ pc = "process_update"
  /\ ~check_update(flash, pending)
  /\ pc' = "verify"
  /\ UNCHANGED <<flash, pending, locals, bounds>>

\* check_update() returns an update; only plain updates are installed.
found_update ==
  /\ pc = "process_update"
  /\ check_update(flash, pending)
  /\ up' = update_at(flash, pending)
  /\ pc' = IF up'.info.uptype = TYPE_PLAIN THEN "install_plain" ELSE "clear"
  /\ UNCHANGED <<flash, pending, copied, prog, outcome, bounds>>

\* The HAL cannot tell whether an update is pending and answers None.
update_address_fails ==
  /\ pc = "process_update"
  /\ pending # None
  /\ faults < MaxFaults
  /\ faults' = faults + 1
  /\ pc' = "verify"
  /\ UNCHANGED <<flash, pending, locals, crashes, updates>>

\* install_plain() returns early: the sizes disagree or the update is in the way.
reject_update ==
  /\ pc = "install_plain"
  /\ ~fits(up)
  /\ outcome' = "rejected"
  /\ pc' = "clear"
  /\ UNCHANGED <<flash, pending, up, copied, prog, bounds>>

\* install_plain() calls program_start() and enters the copy loop.
program_start ==
  /\ pc = "install_plain"
  /\ fits(up)
  /\ Start
  /\ copied' = 0
  /\ pc' = "copy"
  /\ UNCHANGED <<pending, up, outcome, bounds>>

\* One iteration of the copy loop: program_write() of the next byte.
program_write ==
  /\ pc = "copy"
  /\ copied < data_len(up)
  /\ copied' = copied + 1
  /\ Write(next_byte)
  /\ UNCHANGED <<pending, pc, up, outcome, bounds>>

\* After the loop: program_finish() pads the last block and writes it.
program_finish ==
  /\ pc = "copy"
  /\ copied = data_len(up)
  /\ Finish
  /\ outcome' = "installed"
  /\ pc' = "clear"
  /\ UNCHANGED <<pending, up, copied, bounds>>

\* program_write() or program_finish() returns Err: the operation did not
\* complete, and install_plain() gives up where it is.
program_fails ==
  /\ pc = "copy"
  /\ block_due # <<>>
  /\ faults < MaxFaults
  /\ faults' = faults + 1
  /\ flash' \in interrupted(flash, prog.address, block_due)
  /\ outcome' = "failed"
  /\ pc' = "clear"
  /\ UNCHANGED <<pending, up, copied, prog, crashes, updates>>

\* Seeded fault: the pointer is cleared whatever the state of the firmware.
update_done_always == TRUE

\* process_update() has no more use for the update.
update_done == fw_ok(flash)

\* The end of process_update(): the pointer is cleared if there is a valid
\* firmware, and kept for the next boot if there is none.
update_clear ==
  /\ pc = "clear"
  /\ pending' = IF update_done THEN None ELSE pending
  /\ pc' = "verify"
  /\ UNCHANGED <<flash, locals, bounds>>

\* The HAL fails to clear the pointer, or damages it; update_clear() returns
\* nothing, so the loader goes on regardless.
update_clear_fails ==
  /\ pc = "clear"
  /\ update_done
  /\ faults < MaxFaults
  /\ faults' = faults + 1
  /\ pending' \in {pending} \cup TornPointers
  /\ pc' = "verify"
  /\ UNCHANGED <<flash, locals, crashes, updates>>

-----------------------------------------------------------------------------
(***************************************************************************)
(* The end of boot(), resets, and the application.                         *)
(***************************************************************************)

\* boot() starts the firmware if it is valid and calls HAL::abort() otherwise.
start_or_abort ==
  /\ pc = "verify"
  /\ pc' = IF fw_ok(flash) THEN "running" ELSE "aborted"
  /\ UNCHANGED <<flash, pending, locals, bounds>>

\* A boot begins with fresh RAM: boot() is entered with a default HAL.
boot_afresh ==
  /\ pc' = "process_update"
  /\ up' = NoUpdate
  /\ copied' = 0
  /\ prog' = Idle
  /\ outcome' = "none"

\* HAL::abort() ends in a system reset.
abort_resets ==
  /\ pc = "aborted"
  /\ boot_afresh
  /\ UNCHANGED <<flash, pending, bounds>>

\* Power is lost.  A Flash operation in progress is cut short.
power_loss ==
  /\ crashes < MaxCrashes
  /\ crashes' = crashes + 1
  /\ \/ UNCHANGED <<flash, pending>>
     \/ /\ pc = "copy"
        /\ block_due # <<>>
        /\ flash' \in interrupted(flash, prog.address, block_due)
        /\ pending' = pending
     \/ /\ pc = "clear"
        /\ update_done
        /\ pending' \in TornPointers
        /\ flash' = flash
  /\ boot_afresh
  /\ UNCHANGED <<faults, updates>>

\* The application resets the device, for instance to have an update applied.
application_resets ==
  /\ pc = "running"
  /\ boot_afresh
  /\ UNCHANGED <<flash, pending, bounds>>

\* Memory m with bytes stored at address a, where they lie in the area.
stored(m, a, bytes) ==
  [x \in fwarea |-> IF a <= x /\ x < a + Len(bytes) THEN bytes[x - a + 1] ELSE m[x]]

\* The application stores an update and then its address, if none is pending
\* (a damaged pointer that no update is found at counts as pending).
\* It may stage anything, but it does not overwrite the firmware it runs from.
stage_update ==
  /\ pc = "running"
  /\ pending = None
  /\ updates < MaxUpdates
  /\ updates' = updates + 1
  /\ \E s \in Staged :
       /\ flash' = stored(flash, s.address, s.bytes)
       /\ fw_ok(flash') /\ image(flash') = image(flash)
       /\ pending' = s.address
  /\ UNCHANGED <<pc, locals, crashes, faults>>

-----------------------------------------------------------------------------
Init ==
  /\ \E d \in Factory : flash = d.flash /\ pending = d.pending
  /\ pc = "process_update"
  /\ up = NoUpdate
  /\ copied = 0
  /\ prog = Idle
  /\ outcome = "none"
  /\ crashes = 0 /\ faults = 0 /\ updates = 0

\* The loader's own steps, as they go when the hardware does what it is told.
Loader ==
  \/ no_update \/ found_update
  \/ reject_update \/ program_start \/ program_write \/ program_finish
  \/ update_clear
  \/ start_or_abort \/ abort_resets

HardwareFault ==
  update_address_fails \/ program_fails \/ update_clear_fails \/ power_loss

Application == stage_update \/ application_resets

Next == Loader \/ HardwareFault \/ Application

Spec == Init /\ [][Next]_vars

\* The loader is straight-line code on a processor that runs: it never rests in
\* the middle.  Nothing is assumed of the application or of the faults.
FairSpec == Spec /\ WF_vars(Loader)

-----------------------------------------------------------------------------
(***************************************************************************)
(* Properties.                                                             *)
(***************************************************************************)

\* The types of the variables; the programming state never holds a full block.
TypeOK ==
  /\ flash \in Memory
  /\ pending \in Nat \cup {None}
  /\ pc \in Locations
  /\ up \in [info : UpdateInfo, address : Nat \cup {None}]
  /\ copied \in Nat
  /\ prog \in [address : Nat, buffer : Seq(Byte)]
  /\ Len(prog.buffer) < BLOCK
  /\ outcome \in Outcomes
  /\ crashes \in 0 .. MaxCrashes
  /\ faults \in 0 .. MaxFaults
  /\ updates \in 0 .. MaxUpdates

\* A device is never left with neither a valid firmware nor an update that the
\* next boot can install, wherever power is lost and whichever Flash operation
\* fails: process_update() keeps the pointer and install_plain() keeps the image
\* until a firmware is there.
Recoverable == fw_ok(flash) \/ installable(flash, pending)

\* While an update is pending, no step of the loader changes a byte of it, not
\* even by erasing the page it shares with the firmware being written.
StagedImageUntouched ==
  [][ pending # None /\ pending' = pending /\ check_update(flash, pending)
      => /\ check_update(flash', pending)
         /\ slice(flash', pending, pending + update_info(flash, pending).upsize)
              = slice(flash, pending, pending + update_info(flash, pending).upsize)
    ]_vars

\* When install_plain() reports success, the firmware area starts with exactly
\* the data of the update: every byte was copied, in order, onto erased Flash,
\* the bytes of the last, partial block included.
CopyIsExact ==
  pc = "clear" /\ outcome = "installed"
    => slice(flash, FW_START, FW_START + data_len(up))
         = slice(flash, data_start(up), data_start(up) + data_len(up))

\* An update that could have been installed is given up only after it was, or
\* after a Flash operation failed in the same boot: no order of crashes and
\* restarts makes the loader lose one silently.
NoUpdateLost ==
  [][ pending # None /\ pending' # pending /\ installable(flash, pending)
      => \/ outcome = "failed"
         \/ /\ outcome = "installed"
            /\ fw_ok(flash')
            /\ LET u == update_at(flash, pending)
               IN  slice(flash', FW_START, FW_START + data_len(u))
                     = slice(flash, data_start(u), data_start(u) + data_len(u))
    ]_vars

\* The pointer goes only when a verified update is still there where it leads and
\* a valid firmware is in place.  So a pointer that leads to no update, damaged or
\* wrong from the start, is never given up: every boot finds it again, and it
\* stands in the way of every later request (process_update() returns before
\* HAL::update_clear()).
OnlyUpdatesAreRetired ==
  [][ pending # None /\ pending' # pending
        => check_update(flash, pending) /\ fw_ok(flash) ]_vars

\* A firmware that is started is one whose first two words, the stack pointer and
\* the entry point that bootload() takes from it, the checksum vouches for
\* (lib.rs:45 takes "firmware is valid" to mean that it is safe to boot into).
VectorsVouchedFor == pc = "running" => fw_size(flash) >= 2 * U32_SZ
=============================================================================
