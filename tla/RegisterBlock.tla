----------------------------- MODULE RegisterBlock -----------------------------
(***************************************************************************)
(* What #[derive(Peripheral)] of moonbow-macros makes of the fields of a   *)
(* peripheral that are marked #[register(..)]: the offset of each, and the *)
(* match over offsets that the generated accessors perform.                *)
(*                                                                         *)
(* A field is a record: its name, its offset argument if it has one, and   *)
(* what a write does: "store" (a u32), "nop" (write_nop), or "setter" (a   *)
(* unit, for which a function of the peripheral is called).                *)
(***************************************************************************)
EXTENDS Integers, Sequences, FiniteSetsExt

Inherited == -1     \* RegisterSettings::offset is None

Register(name, offset, write) == [name |-> name, offset |-> offset, write |-> write]

NoRegister == Register("none", Inherited, "refused")

\* A field without an offset of its own follows the one declared before it.
offsets(fields) ==
  LET at[i \in DOMAIN fields] ==
        IF fields[i].offset # Inherited THEN fields[i].offset
        ELSE IF i = 1 THEN 0 ELSE at[i - 1] + 4
  IN  at

\* The field an access of size bytes at offset reaches: the first one that matches.
selected(fields, offset, size) ==
  LET matches == { i \in DOMAIN fields : offsets(fields)[i] \div 4 = offset \div 4 }
  IN  IF size = 4 /\ offset % 4 = 0 /\ matches # {} THEN fields[Min(matches)]
      ELSE NoRegister

\* Seeded fault: write_nop is not honoured.
keeps_nop(field) == field.write \in {"store", "nop"}

keeps(field) == field.write = "store"
=============================================================================
