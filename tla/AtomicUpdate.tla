----------------------------- MODULE AtomicUpdate -----------------------------
(***************************************************************************)
(* What an update-capable boot loader promises, without Flash, power or    *)
(* copy loops.  The device holds at most one firmware it can run and at    *)
(* most one staged update.  Installing is not atomic - the old firmware is *)
(* gone before the new one is there - but it is atomic in effect: once the *)
(* old firmware is gone, the only firmware the device can have next is the *)
(* staged one or, if the two share their first pages, the old one again.   *)
(* The staged one stays staged until the device has a firmware.            *)
(***************************************************************************)
CONSTANTS
  Images,     \* firmwares that can be installed
  Broken,     \* there is no firmware to run
  Nothing,    \* no update is staged
  Unbootable  \* the staged update installs something that is no firmware

VARIABLES
  current,    \* the firmware the device can run, or Broken
  last,       \* the firmware it could run most recently
  staged,     \* what is staged
  faulty      \* a Flash operation has failed

Init == /\ current \in Images \cup {Broken}
        /\ last = current
        /\ staged \in Images \cup {Nothing, Unbootable}
        /\ current = Broken => staged # Nothing
        /\ ~faulty

\* A running firmware stages an update.
Stage == /\ current # Broken
         /\ staged = Nothing
         /\ staged' \in Images \cup {Unbootable}
         /\ UNCHANGED <<current, last>>

\* Installation of the staged update begins: what was there is gone.
Begin == /\ staged # Nothing
         /\ current' = Broken
         /\ UNCHANGED <<last, staged>>

\* Installation completes: the staged firmware is the current one.
Complete == /\ staged \in Images
            /\ current' = staged
            /\ last' = staged
            /\ staged' = staged

\* The part written so far is the same in the old firmware, the rest of which
\* is still there.
Reappear == /\ staged # Nothing
            /\ current = Broken
            /\ current' = last
            /\ UNCHANGED <<last, staged>>

\* The staged update is retired: it was installed, or the Flash failed.
Retire == /\ current # Broken
          /\ staged # Nothing
          /\ current = staged \/ faulty
          /\ staged' = Nothing
          /\ UNCHANGED <<current, last>>

\* A Flash operation may fail in any step, and in a step that does nothing else.
Next == /\ \/ Stage \/ Begin \/ Complete \/ Reappear \/ Retire
           \/ UNCHANGED <<current, last, staged>>
        /\ faulty => faulty'

Spec == Init /\ [][Next]_<<current, last, staged, faulty>>
=============================================================================
