------------------------------- MODULE AbortSignal -------------------------------
(***************************************************************************)
(* How the MSPM0 HAL reports why it gives up: abort() of                   *)
(* mspm0cloader/src/lib.rs has Blinker blink two numbers on a LED, digit   *)
(* by digit, a few times over.  All an observer sees is for how long the   *)
(* LED is on and off, in units of tu_cycles.                               *)
(***************************************************************************)
EXTENDS Integers, Sequences, SequencesExt

CONSTANTS
  BASE,       \* number of values of a nibble (16)
  REPEATS,    \* times the numbers are blinked (3)
  ErrorCodes  \* what NanoReason::HalError may carry, u16

ASSUME SignalAssumption ==
  /\ BASE \in Nat \ {0, 1}
  /\ REPEATS \in Nat
  /\ ErrorCodes \subseteq Nat

\* NanoReason.
Reasons == [kind : {"HalError"}, code : ErrorCodes]
             \cup [kind : {"FwSizeInvalid", "FwCrcMismatch"}, code : {0}]

-----------------------------------------------------------------------------
(***************************************************************************)
(* Blinker and abort().                                                    *)
(***************************************************************************)

\* led(): the LED flashes, on for as long as off.
led(units) == << [on |-> units, off |-> units] >>

\* pause() after a flash.
paused(seen, units) == [seen EXCEPT ![Len(seen)].off = @ + units]

repeated(n, s) == FlattenSeq([i \in 1 .. n |-> s])

\* Seeded fault: a nibble of 0 is not to be seen.
flashes_of_zero(nibble) == nibble

\* How often the LED flashes for a nibble.
flashes(nibble) == nibble + 1

\* blink(): the nibbles of a value, the lowest first, until nothing of it remains.
blink[value \in Nat] ==
  LET seen == paused(repeated(flashes(value % BASE), led(1)), 2)
  IN  IF value \div BASE = 0 THEN paused(seen, 4) ELSE seen \o blink[value \div BASE]

pattern(values) == led(4) \o FlattenSeq([i \in DOMAIN values |-> blink[values[i]]])

\* The numbers that stand for a reason.
values_of(r) ==
  CASE r.kind = "HalError"      -> <<0, r.code>>
    [] r.kind = "FwSizeInvalid" -> <<1, 0>>
    [] r.kind = "FwCrcMismatch" -> <<1, 1>>

signal_of(r) == repeated(REPEATS, pattern(values_of(r)))

-----------------------------------------------------------------------------
(***************************************************************************)
(* What an observer makes of it.  The short flashes up to a pause longer   *)
(* than a flash are a digit, one too many; a pause longer still ends the   *)
(* number, whose lowest digit came first; a long flash begins anew.        *)
(***************************************************************************)

Unread == [numbers |-> <<>>, number |-> 0, weight |-> 1, count |-> 0]

sees(o, flash) ==
  LET count  == IF flash.on = 1 THEN o.count + 1 ELSE 0
      number == o.number + (count - 1) * o.weight
  IN  CASE flash.on = 4 \/ flash.off = 1 -> [o EXCEPT !.count = count]
        [] flash.on = 1 /\ flash.off = 3 ->
             [o EXCEPT !.count = 0, !.number = number, !.weight = @ * BASE]
        [] OTHER -> [Unread EXCEPT !.numbers = Append(o.numbers, number)]

\* What becomes of an observer o who watches a signal, flash by flash.
watched(o, signal) ==
  LET after[i \in 0 .. Len(signal)] == IF i = 0 THEN o ELSE sees(after[i - 1], signal[i])
  IN  after[Len(signal)]

observed(signal) == watched(Unread, signal).numbers

\* The numbers a signal gives, over and over; numbers that stand for no other reason.
tells(signal, r) ==
  /\ observed(signal) = repeated(REPEATS, values_of(r))
  /\ \A other \in Reasons \ {r} : values_of(other) # values_of(r)
=============================================================================
