------------------------------ MODULE Semihosting ------------------------------
(***************************************************************************)
(* moonbow's semihosting (moonbow/src/device/demisemihosting.rs): what the *)
(* emulator does when the guest executes a BKPT, and where the text goes   *)
(* that the guest prints.  The text passes through a LineWriter of Rust's  *)
(* standard library before LogWriter (moonbow/src/device/mod.rs) logs it.  *)
(*                                                                         *)
(* A guest is the list of calls it is going to make.  A byte is a newline  *)
(* or something visible; that is all the way to the log tells apart.       *)
(***************************************************************************)
EXTENDS Integers, Sequences, SequencesExt

CONSTANTS
  Visible,     \* the visible bytes
  Newline,     \* the other byte
  CAPACITY,    \* of the LineWriter (1024)
  MaxText,     \* bound on the length of a text printed at once
  MaxCalls     \* bound on the number of calls of a guest

ASSUME SemihostingAssumption ==
  /\ Newline \notin Visible
  /\ CAPACITY \in Nat \ {0}
  /\ MaxText \in Nat /\ MaxCalls \in Nat

VARIABLES
  guest,       \* the calls the guest makes, one after the other
  pc,          \* how many of them it is past
  r0,          \* the result of the last
  buffer,      \* what the LineWriter holds
  entries,     \* what was handed to LogWriter, write by write
  status       \* "running", "stopped", "ended" or "aborted"

vars == <<guest, pc, r0, buffer, entries, status>>

Text == Visible \cup {Newline}

FILENO_STDIO_MAGIC == 4660
NO_FILE            == -1      \* as u32::MAX

\* The calls.  A guest may pass pointers to memory it does not have.
Open  == [call : {"SYS_OPEN"}, tt : BOOLEAN]
Write == [call : {"SYS_WRITE"}, fd : {FILENO_STDIO_MAGIC}, text : BoundedSeq(Text, MaxText)]
           \cup [call : {"SYS_WRITE"}, fd : {3}, text : BoundedSeq({Newline}, MaxText)]
Exit  == [call : {"ANGEL_REPORT_EXCEPTION"}, reason : {"exit", "error", "other"}]
Wrong == [call : {"bad pointer", "other call", "other interrupt"}]

Calls == Open \cup Write \cup Exit \cup Wrong

-----------------------------------------------------------------------------
(***************************************************************************)
(* The LineWriter.                                                         *)
(***************************************************************************)

\* Position of the last newline of s, 0 if there is none.
last_newline(s) == SelectLastInSeq(s, LAMBDA b : b = Newline)

flushed(e) == IF buffer = <<>> THEN e ELSE Append(e, buffer)

\* Seeded fault: the buffer may grow beyond its capacity.
flushes_at_newline(text) == last_newline(text) > 0

\* What is buffered must be written before text is dealt with.
flushes(text) == last_newline(text) > 0 \/ Len(buffer) + Len(text) > CAPACITY

\* LineWriter::write().  With a newline in it, the text up to the last one is
\* written at once, after what is buffered, and the rest is buffered; without, it
\* is buffered if it fits, perhaps after a flush.  A rest as large as the buffer is
\* left to another call of write(), which log() does not make.
line_write(text) ==
  LET n     == last_newline(text)
      lines == IF n > 0 THEN << SubSeq(text, 1, n) >> ELSE <<>>
      tail  == SubSeq(text, n + 1, Len(text))
  IN  IF Len(tail) >= CAPACITY
      THEN /\ entries' = flushed(entries) \o (IF n > 0 THEN lines ELSE <<text>>)
           /\ buffer' = <<>>
      ELSE /\ entries' = (IF flushes(text) THEN flushed(entries) ELSE entries) \o lines
           /\ buffer' = (IF flushes(text) THEN <<>> ELSE buffer) \o tail

-----------------------------------------------------------------------------
(***************************************************************************)
(* The calls.                                                              *)
(***************************************************************************)

call == guest[pc + 1]

\* The guest executes its next BKPT, and call is of kind k.
bkpt(k) ==
  /\ status = "running"
  /\ pc < Len(guest)
  /\ call.call = k

\* Seeded fault: the guest is resumed at the BKPT.
advance_pc_not == pc' = pc

\* advance_pc(): the guest is resumed after the BKPT.
advance_pc == pc' = pc + 1

sys_open ==
  /\ bkpt("SYS_OPEN")
  /\ r0' = IF call.tt THEN FILENO_STDIO_MAGIC ELSE NO_FILE
  /\ advance_pc
  /\ UNCHANGED <<guest, buffer, entries, status>>

\* The result is the number of bytes not written.
sys_write ==
  /\ bkpt("SYS_WRITE")
  /\ IF call.fd = FILENO_STDIO_MAGIC
     THEN r0' = 0 /\ line_write(call.text)
     ELSE r0' = Len(call.text) /\ UNCHANGED <<buffer, entries>>
  /\ advance_pc
  /\ UNCHANGED <<guest, status>>

\* The emulator is stopped, whether the guest reports success or an error.
angel_report_exception ==
  /\ bkpt("ANGEL_REPORT_EXCEPTION")
  /\ call.reason # "other"
  /\ status' = "stopped"
  /\ advance_pc
  /\ UNCHANGED <<guest, r0, buffer, entries>>

\* dispatch() returns an error, or handle_intr() does not know the interrupt: the
\* emulator panics in a callback, which ends the process then and there.
panics ==
  /\ status = "running"
  /\ pc < Len(guest)
  /\ \/ call.call \in {"bad pointer", "other call", "other interrupt"}
     \/ call.call = "ANGEL_REPORT_EXCEPTION" /\ call.reason = "other"
  /\ status' = "aborted"
  /\ UNCHANGED <<guest, pc, r0, buffer, entries>>

\* run() returns, and the emulator is dropped: the LineWriter is flushed.
main_returns ==
  /\ status = "stopped"
  /\ entries' = flushed(entries)
  /\ buffer' = <<>>
  /\ status' = "ended"
  /\ UNCHANGED <<guest, pc, r0>>

Init ==
  /\ guest \in BoundedSeq(Calls, MaxCalls)
  /\ pc = 0
  /\ r0 = 0
  /\ buffer = <<>>
  /\ entries = <<>>
  /\ status = "running"

Next == sys_open \/ sys_write \/ angel_report_exception \/ panics \/ main_returns

Spec == Init /\ [][Next]_vars

-----------------------------------------------------------------------------
(***************************************************************************)
(* Properties.                                                             *)
(***************************************************************************)

\* The types of the variables; the LineWriter never holds a complete line nor more
\* than it can.
TypeOK ==
  /\ guest \in Seq(Calls)
  /\ pc \in 0 .. Len(guest)
  /\ r0 \in {FILENO_STDIO_MAGIC, NO_FILE} \cup 0 .. MaxText
  /\ entries \in Seq(Seq(Text))
  /\ Len(buffer) <= CAPACITY /\ buffer \in Seq(Visible)
  /\ status \in {"running", "stopped", "ended", "aborted"}

\* LogWriter::write() logs an entry without the white space at its end, if
\* anything is left of it.
logged(entry) ==
  LET visible == SelectLastInSeq(entry, LAMBDA b : b \in Visible)
  IN  SubSeq(entry, 1, visible)

log_of(e) == FlattenSeq([i \in DOMAIN e |-> logged(e[i])])

shown(b)      == IF b \in Visible THEN <<b>> ELSE <<>>
visible_of(s) == FlattenSeq([i \in DOMAIN s |-> shown(s[i])])

\* The part of a text that log() passes on: all of it, unless the bytes after its
\* last newline would fill the LineWriter.
passed_on(text) ==
  LET n == last_newline(text)
  IN  IF n > 0 /\ Len(text) - n >= CAPACITY THEN SubSeq(text, 1, n) ELSE text

\* What the guest has printed so far.
printed_by(c) ==
  IF c.call = "SYS_WRITE" /\ c.fd = FILENO_STDIO_MAGIC THEN passed_on(c.text) ELSE <<>>

printed == FlattenSeq([i \in 1 .. pc |-> printed_by(guest[i])])

\* Everything the guest printed, but for what passed_on() leaves out, is in the log
\* or still buffered, once and in its order, however it was cut into calls; and
\* nothing is left in the buffer when the emulator ends in good order.
LogIsComplete ==
  /\ visible_of(log_of(entries) \o buffer) = visible_of(printed)
  /\ status = "ended" => buffer = <<>>
=============================================================================
