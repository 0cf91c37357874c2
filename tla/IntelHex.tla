-------------------------------- MODULE IntelHex --------------------------------
(***************************************************************************)
(* Loading an Intel HEX file into moonbow: segments() of                   *)
(* moonbow/src/device/intelhex.rs merges the data records into segments,   *)
(* and load_ihex() of moonbow/src/device/mod.rs writes them one by one.    *)
(*                                                                         *)
(* The records come from the ihex crate, which also reports a line that is *)
(* no record.  An offset has OFFSETS values (2^16); a segment base counts  *)
(* paragraphs (of 16 bytes); ADDRESSES is the size of the address space of *)
(* the emulated CPU (2^32).                                                *)
(***************************************************************************)
EXTENDS Integers, Sequences, SequencesExt

CONSTANTS
  OFFSETS,     \* number of values of an offset
  PARAGRAPH,   \* bytes of a paragraph
  ADDRESSES,   \* size of the address space
  Mapped,      \* addresses that are backed by memory
  Values,      \* what a data record may hold: sequences of bytes
  Bases,       \* what an extended address record may hold
  MaxRecords   \* bound on the number of records of all files, their ends not counted

ASSUME HexAssumption ==
  /\ OFFSETS \in Nat \ {0} /\ PARAGRAPH \in Nat \ {0} /\ ADDRESSES \in Nat \ {0}
  /\ Mapped \subseteq 0 .. ADDRESSES - 1
  /\ \A base \in Bases : base \in Nat /\ base * OFFSETS + OFFSETS <= ADDRESSES
  /\ PARAGRAPH <= OFFSETS /\ OFFSETS <= ADDRESSES
  /\ Values \subseteq Seq(Nat)
  /\ MaxRecords \in Nat

VARIABLES
  read,           \* the records the reader has yielded
  left,           \* counter for the bound
  address_base,
  segment_start, segment_buf,
  segments,
  loaded,         \* number of segments load_ihex() has written
  memory,         \* [Mapped -> byte], Unwritten where nothing was loaded
  status          \* "reading", "loading", "Ok" or "Err"

parser == <<address_base, segment_start, segment_buf, segments>>

Unwritten == -1     \* no byte

Segment(address, data) == [address |-> address, data |-> data]

-----------------------------------------------------------------------------
(***************************************************************************)
(* segments().                                                             *)
(***************************************************************************)

\* Seeded fault: it is pushed even so.
pushed_always == Append(segments, Segment(segment_start, segment_buf))

\* segment_buf is pushed, unless it is empty.
pushed ==
  IF segment_buf = <<>> THEN segments
  ELSE Append(segments, Segment(segment_start, segment_buf))

yield(record) ==
  /\ status = "reading"
  /\ left > 0
  /\ left' = left - 1
  /\ read' = Append(read, record)

\* Seeded fault: a record that starts where the last segment started, and not
\* where it ended, is taken for its continuation.
continues_segment_start(addr) == addr = segment_start

\* The record goes on where the current segment ends.
continues_segment(addr) == addr = segment_start + Len(segment_buf)

data ==
  /\ \E offset \in 0 .. OFFSETS - 1, value \in Values :
       LET addr == address_base + offset
       IN  /\ yield([kind |-> "data", offset |-> offset, value |-> value])
           /\ IF continues_segment(addr)
              THEN /\ segment_buf' = segment_buf \o value
                   /\ UNCHANGED <<segment_start, segments>>
              ELSE /\ segments' = pushed
                   /\ segment_buf' = value
                   /\ segment_start' = addr
  /\ UNCHANGED <<address_base, loaded, memory, status>>

\* ExtendedSegmentAddress and ExtendedLinearAddress.
extended_address ==
  /\ \E base \in Bases, kind \in {"segment", "linear"} :
       /\ yield([kind |-> kind, base |-> base])
       /\ address_base' = IF kind = "segment" THEN base * PARAGRAPH ELSE base * OFFSETS
  /\ UNCHANGED <<segment_start, segment_buf, segments, loaded, memory, status>>

\* The records that carry a start address.
other_record ==
  /\ yield([kind |-> "start"])
  /\ UNCHANGED <<parser, loaded, memory, status>>

\* EndOfFile: segments() returns, and whatever follows is not looked at.
end_of_file ==
  /\ status = "reading"
  /\ segments' = pushed
  /\ status' = "loading"
  /\ UNCHANGED <<read, left, address_base, segment_start, segment_buf, loaded, memory>>

-----------------------------------------------------------------------------
(***************************************************************************)
(* load_ihex().                                                            *)
(***************************************************************************)

\* The addresses load_segment() writes s to; the address is cut off to a u32.
target(s) ==
  LET address == s.address % ADDRESSES
  IN  address .. address + Len(s.data) - 1

\* What writing d to the addresses from a on leaves in m.
written(m, a, d) ==
  [x \in Mapped |-> IF a <= x /\ x < a + Len(d) THEN d[x - a + 1] ELSE m[x]]

\* load_segment(): all of s, or an error if some of it is not backed by memory.
load_segment(s) ==
  IF target(s) \subseteq Mapped
  THEN memory' = written(memory, s.address % ADDRESSES, s.data) /\ status' = status
  ELSE status' = "Err" /\ memory' = memory

\* One turn of the loop of load_ihex().
load_next ==
  /\ status = "loading"
  /\ loaded < Len(segments)
  /\ load_segment(segments[loaded + 1])
  /\ loaded' = loaded + 1
  /\ UNCHANGED <<read, left, parser>>

\* All segments are written.
load_ihex ==
  /\ status = "loading"
  /\ loaded = Len(segments)
  /\ status' = "Ok"
  /\ UNCHANGED <<read, left, parser, loaded, memory>>

-----------------------------------------------------------------------------
\* segments() begins: in the first file, and in a later one.
HexInit ==
  /\ address_base = 0
  /\ segment_start = 0 /\ segment_buf = <<>>
  /\ segments = <<>>
  /\ loaded = 0

segments_starts ==
  /\ address_base' = 0
  /\ segment_start' = 0 /\ segment_buf' = <<>>
  /\ segments' = <<>>
  /\ loaded' = 0

HexNext ==
  \/ data \/ extended_address \/ other_record \/ end_of_file
  \/ load_next \/ load_ihex
=============================================================================
