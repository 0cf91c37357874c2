-------------------------------- MODULE Loading --------------------------------
(***************************************************************************)
(* How main() of moonbow fills the memory before the CPU is started        *)
(* (moonbow/src/main.rs): the ELF files of the command line are loaded     *)
(* first and the Intel HEX files after them, each kind in its order; the   *)
(* two options are collected apart, so how they alternate on the command   *)
(* line is lost.  Any error ends the program (unwrap()).                   *)
(***************************************************************************)
EXTENDS IntelHex, FiniteSetsExt

CONSTANTS
  Types,       \* p_type of a program header
  PT_LOAD,     \* the one that is loaded
  Paddrs,      \* p_paddr of a program header, a u64
  VECTOR,      \* bytes of an entry of the vector table (4)
  MaxFiles     \* bound on the number of files

ASSUME LoadingAssumption ==
  /\ PT_LOAD \in Types
  /\ Paddrs \subseteq Nat
  /\ VECTOR \in Nat /\ 0 .. 2 * VECTOR - 1 \subseteq Mapped
  /\ MaxFiles \in Nat \ {0}

VARIABLES
  file,        \* the kind of the current file: "elf" or "ihex"
  earlier,     \* what the files before it held
  cpu          \* what the CPU starts with: <<SP, PC>>, or Stopped

main == <<file, earlier, cpu>>
vars == <<read, left, parser, loaded, memory, status, main>>

Stopped == <<>>

-----------------------------------------------------------------------------
(***************************************************************************)
(* load_elf().                                                             *)
(***************************************************************************)

loadable(phdr) == phdr.type = PT_LOAD /\ phdr.value # <<>>

\* One turn of the loop of load_elf(), whose filter passes over some of the headers.
program_header ==
  /\ file = "elf"
  /\ \E type \in Types, paddr \in Paddrs, value \in Values :
       LET phdr == [kind |-> "phdr", type |-> type, paddr |-> paddr, value |-> value]
       IN  /\ yield(phdr)
           /\ IF loadable(phdr) THEN load_segment(Segment(paddr, value))
              ELSE UNCHANGED <<memory, status>>
  /\ UNCHANGED <<parser, loaded, main>>

load_elf ==
  /\ file = "elf" /\ status = "reading"
  /\ status' = "Ok"
  /\ UNCHANGED <<read, left, parser, loaded, memory, main>>

-----------------------------------------------------------------------------
(***************************************************************************)
(* main().                                                                 *)
(***************************************************************************)

hex == file = "ihex" /\ HexNext /\ UNCHANGED main

\* The file is no ELF file, a line is no record, or there is none that ends it.
bad_file ==
  /\ status = "reading"
  /\ status' = "Err"
  /\ UNCHANGED <<read, left, parser, loaded, memory, main>>

\* The kinds of file that may come next: once there are hex files, only those.
next_kinds == IF file = "elf" THEN {"elf", "ihex"} ELSE {"ihex"}

next_file ==
  /\ status = "Ok"
  /\ Len(earlier) + 1 < MaxFiles
  /\ earlier' = Append(earlier, read)
  /\ file' \in next_kinds
  /\ read' = <<>>
  /\ segments_starts
  /\ status' = "reading"
  /\ UNCHANGED <<left, memory, cpu>>

\* Entry i of the vector table, which is at address 0.
vector(i) == [b \in 1 .. VECTOR |-> memory[i * VECTOR + b - 1]]

\* There is no other file, and run() starts the CPU with the first two vectors.
run ==
  /\ status = "Ok"
  /\ cpu' = <<vector(0), vector(1)>>
  /\ status' = "running"
  /\ UNCHANGED <<read, left, parser, loaded, memory, file, earlier>>

Init ==
  /\ read = <<>> /\ left = MaxRecords
  /\ HexInit
  /\ memory = [x \in Mapped |-> Unwritten]
  /\ status = "reading"
  /\ file \in {"elf", "ihex"}
  /\ earlier = <<>>
  /\ cpu = Stopped

Next == program_header \/ load_elf \/ hex \/ bad_file \/ next_file \/ run

Spec == Init /\ [][Next]_vars

-----------------------------------------------------------------------------
(***************************************************************************)
(* Properties.                                                             *)
(***************************************************************************)

\* The types of the variables; no segment is empty.
TypeOK ==
  /\ left \in 0 .. MaxRecords /\ Len(earlier) < MaxFiles
  /\ address_base \in Nat /\ segment_start \in Nat
  /\ loaded \in 0 .. Len(segments)
  /\ DOMAIN memory = Mapped
  /\ status \in {"reading", "loading", "Ok", "Err", "running"}
  /\ file \in {"elf", "ihex"}
  /\ (status = "running") = (cpu # Stopped)
  /\ \A i \in DOMAIN segments : Len(segments[i].data) > 0

\* The base that holds for record i of a hex file: that of the last extended
\* address record, which no earlier file has any part in.
base_at(records, i) ==
  LET last == SelectLastInSubSeq(records, 1, i - 1, LAMBDA r : r.kind \in {"segment", "linear"})
  IN  IF last = 0 THEN 0
      ELSE records[last].base * (IF records[last].kind = "segment" THEN PARAGRAPH ELSE OFFSETS)

\* Where the bytes of record i belong.
first_at(records, i) ==
  IF records[i].kind = "phdr" THEN records[i].paddr % ADDRESSES
  ELSE base_at(records, i) + records[i].offset

\* The records that say something of address x.
covering(records, x) ==
  { i \in DOMAIN records :
      /\ \/ records[i].kind = "data"
         \/ records[i].kind = "phdr" /\ records[i].type = PT_LOAD
      /\ x - first_at(records, i) \in 0 .. Len(records[i].value) - 1 }

\* What files say of address x: the last of them with something to say does, and
\* in it the last record.
said(files, x) ==
  LET telling == { n \in DOMAIN files : covering(files[n], x) # {} }
  IN  IF telling = {} THEN Unwritten
      ELSE LET records == files[Max(telling)]
               i       == Max(covering(records, x))
           IN  records[i].value[x - first_at(records, i) + 1]

\* A file that loads puts into memory what it says over what the files before it
\* left there, and nothing else, whatever the order of its records and however
\* they touch or overlap; and the CPU starts at the vectors the files give.
MemoryIsWhatTheFilesSay ==
  LET says(x) == said(Append(earlier, read), x)
  IN  /\ status \in {"Ok", "running"} => \A x \in Mapped : memory[x] = says(x)
      /\ status = "running" =>
           \A i \in {1, 2}, b \in 1 .. VECTOR : cpu[i][b] = says((i - 1) * VECTOR + b - 1)
=============================================================================
