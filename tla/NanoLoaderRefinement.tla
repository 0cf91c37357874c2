------------------------- MODULE NanoLoaderRefinement -------------------------
(***************************************************************************)
(* NanoLoader implements AtomicUpdate.  The current firmware is what       *)
(* check_firmware() accepts, the staged one what installing the pending    *)
(* update would make of the firmware area, and the last one is remembered. *)
(* All three are history variables: they follow from the loader's state,   *)
(* before and after each step, and no step depends on them.                *)
(***************************************************************************)
EXTENDS NanoLoader

CONSTANTS Broken, Nothing, Unbootable, Images

\* What is said in place of a firmware is none.
ASSUME NoFirmwareAssumption ==
  /\ {Broken, Nothing, Unbootable} \cap Images = {}
  /\ Nothing # Unbootable

VARIABLES current, last, staged

\* The memory the device will have once the update at address a is installed.
after_install(m, a) ==
  LET u == update_at(m, a)
      len == data_len(u)
  IN  [x \in fwarea |->
         IF x < FW_START + len THEN m[data_start(u) + x - FW_START]
         ELSE IF x < FW_START + align_up(len) THEN ERASED ELSE m[x]]

\* The update at a would give the device a firmware it can start.
promising(m, a) == installable(m, a) /\ fw_ok(after_install(m, a))

current_firmware(m) == IF fw_ok(m) THEN image(m) ELSE Broken

staged_firmware(m, a) ==
  IF installable(m, a)
  THEN IF promising(m, a) THEN image(after_install(m, a)) ELSE Unbootable
  ELSE Nothing

HistoryInit ==
  /\ Init
  /\ current = current_firmware(flash)
  /\ last = current
  /\ staged = staged_firmware(flash, pending)

HistoryNext ==
  /\ Next
  /\ current' = current_firmware(flash')
  /\ last' = IF current' = Broken THEN last ELSE current'
  /\ staged' = staged_firmware(flash', pending')

HistorySpec == HistoryInit /\ [][HistoryNext]_<<vars, current, last, staged>>

\* With the fairness of the loader.
HistoryFairSpec == HistorySpec /\ WF_vars(Loader)

Atomic == INSTANCE AtomicUpdate WITH faulty <- faults > 0

\* Every step of the loader, interrupted or not, is a step of the promise or
\* invisible to it.  In particular no mixture of two firmwares is ever accepted,
\* and power losses alone, in whatever number and order, lose no update.
UpdatesAtomically == Atomic!Spec

\* What no boot loader can rule out does not happen: a checksum has collisions, and a
\* pointer that is being overwritten may read as any address.  A firmware that
\* is accepted while the new one is still being written is the old one or the new
\* one, and an interrupted clear leaves no pointer to some other update.
NothingByChance ==
  [][ /\ (pc = "copy" /\ outcome' # "installed" /\ fw_ok(flash'))
           => image(flash') \in {last, staged}
      /\ (pc = "clear" /\ pending' # pending) => ~installable(flash', pending')
    ]_<<vars, current, last, staged>>

\* A device whose firmware was destroyed half-way, but whose update is sound,
\* gets to run a firmware again by itself, faults or not: process_update() keeps
\* the pointer of an update whose installation failed.
BrokenDeviceRecovers == (current = Broken /\ staged \in Images) ~> pc = "running"

\* Unless a Flash operation fails, a sound update that a boot finds is eventually
\* run, however often power losses interrupt its installation.
SoundUpdateRuns ==
  \A fw \in Images :
    (pc = "process_update" /\ staged = fw)
      ~> (pc = "running" /\ current = fw) \/ faults > 0
=============================================================================
