---------------------------------- MODULE Lz4 ----------------------------------
(***************************************************************************)
(* decompress() of nanoloader/src/lz4/mod.rs: a block is read as a series  *)
(* of sequences, each a token, literals and a back reference, and handed   *)
(* on to a Sink call by call.  The sink is the trait: it may refuse a call *)
(* and is otherwise only recorded.                                         *)
(*                                                                         *)
(* The numbers of the format are parameters: NIBBLE is the largest value   *)
(* of half a token (15), so that a byte ranges over 0..MAX_BYTE (255).     *)
(***************************************************************************)
EXTENDS Integers, Sequences, FiniteSetsExt, SequencesExt

CONSTANTS
  NIBBLE,      \* largest value of half a token         (15)
  MIN_MATCH,   \* length of the shortest back reference (4)
  USIZE_MAX,   \* usize::MAX
  MaxSource,   \* bound on the length of an input
  Blocks       \* call lists an encoder writes down, see Encodings

ASSUME FormatAssumption ==
  /\ NIBBLE \in Nat \ {0}
  /\ MIN_MATCH \in Nat
  /\ USIZE_MAX \in Nat
  /\ MaxSource \in Nat

HALF     == NIBBLE + 1
MAX_BYTE == HALF * HALF - 1
Byte     == 0 .. MAX_BYTE

VARIABLES
  source,      \* the argument
  rest,        \* what the iterator has yet to yield
  pending,     \* the low half of the last token, until its match is read
  status,      \* where the loop is, or what was returned
  calls        \* the sink's calls so far

vars == <<source, rest, pending, status, calls>>

\* The calls of a sink; the parameters of backref() are a u16 and a usize.
Literals == [call : {"literal"}, data : Seq(Byte)]
Backrefs == [call : {"backref"}, offset : 0 .. (MAX_BYTE + 1) * (MAX_BYTE + 1) - 1,
             length : MIN_MATCH .. USIZE_MAX]

Literal(data) == [call |-> "literal", data |-> data]
Backref(offset, length) == [call |-> "backref", offset |-> offset, length |-> length]

-----------------------------------------------------------------------------
(***************************************************************************)
(* Reading.                                                                *)
(***************************************************************************)

drop(s, n) == SubSeq(s, n + 1, Len(s))

\* How many bytes of s extend a length: those up to the first that is not 255;
\* 0 if there is no such byte.
extension(s) ==
  LET last == { i \in DOMAIN s : s[i] # MAX_BYTE }
  IN  IF last = {} THEN 0 ELSE Min(last)

\* The sum that extend_length() arrives at: all bytes but the last are 255.
extended(len, s) ==
  IF len # NIBBLE THEN len
  ELSE len + (extension(s) - 1) * MAX_BYTE + s[extension(s)]

\* Seeded fault: additions are not checked.
no_overflow_unchecked(n) == TRUE

\* checked_add() returns Some.
no_overflow(n) == n <= USIZE_MAX

\* extend_length(len, s) returns Some: the bytes do not end too early, and the
\* sum fits a usize.
has_length(len, s) ==
  len = NIBBLE => extension(s) # 0 /\ no_overflow(extended(len, s))

\* What the iterator has left after that.
after_length(len, s) == IF len = NIBBLE THEN drop(s, extension(s)) ELSE s

token_literals == Head(rest) \div HALF
token_match    == Head(rest) % HALF

\* Seeded fault: literals may not reach to the end of the input.
holds_beyond(data, n) == n < Len(data)

holds(data, n) == n <= Len(data)

\* There is a token, the length of its literals, and as many bytes.
literals_readable ==
  /\ rest # <<>>
  /\ has_length(token_literals, Tail(rest))
  /\ holds(after_length(token_literals, Tail(rest)), extended(token_literals, Tail(rest)))

\* There is an offset and the length of a match, also when 4 is added to it.
match_readable ==
  /\ holds(rest, 2)
  /\ has_length(pending, drop(rest, 2))
  /\ no_overflow(extended(pending, drop(rest, 2)) + MIN_MATCH)

\* Seeded fault: the bytes of the offset are swapped.
offset_msb_first == rest[2] + (MAX_BYTE + 1) * rest[1]

\* The offset of the match, a little-endian u16.
offset == rest[1] + (MAX_BYTE + 1) * rest[2]

-----------------------------------------------------------------------------
(***************************************************************************)
(* The loop: the literals of a token, then its match.                      *)
(***************************************************************************)

\* Literals are handed on.  An input that ends after literals is complete.
literals ==
  /\ status = "token"
  /\ literals_readable
  /\ LET length == extended(token_literals, Tail(rest))
         data   == after_length(token_literals, Tail(rest))
     IN  /\ calls' = Append(calls, Literal(SubSeq(data, 1, length)))
         /\ rest' = drop(data, length)
         /\ status' = IF Len(data) = length THEN "Some" ELSE "match"
  /\ pending' = token_match
  /\ source' = source

\* A match is handed on.
match ==
  /\ status = "match"
  /\ match_readable
  /\ calls' = Append(calls, Backref(offset, extended(pending, drop(rest, 2)) + MIN_MATCH))
  /\ rest' = after_length(pending, drop(rest, 2))
  /\ status' = "token"
  /\ UNCHANGED <<source, pending>>

\* The input is no good: decompress() returns None.
malformed ==
  /\ \/ status = "token" /\ ~literals_readable
     \/ status = "match" /\ ~match_readable
  /\ status' = "None"
  /\ UNCHANGED <<source, rest, pending, calls>>

\* The sink refuses the next call, and decompress() returns None on its behalf.
sink_refuses ==
  /\ \/ status = "token" /\ literals_readable
     \/ status = "match" /\ match_readable
  /\ status' = "refused"
  /\ UNCHANGED <<source, rest, pending, calls>>

-----------------------------------------------------------------------------
(***************************************************************************)
(* The encoder's view: the bytes that a list of calls is written as.       *)
(* Lengths are divided here, not summed up byte by byte.                   *)
(***************************************************************************)

half_of(n) == Min({n, NIBBLE})

extension_of(n) ==
  IF n < NIBBLE THEN <<>>
  ELSE [i \in 1 .. (n - NIBBLE) \div MAX_BYTE |-> MAX_BYTE] \o <<(n - NIBBLE) % MAX_BYTE>>

\* The bytes of call i of list c; low is the unused half of the last token.
bytes_of(c, i, low) ==
  IF c[i].call = "literal"
  THEN LET n == Len(c[i].data)
           m == IF i = Len(c) THEN low ELSE half_of(c[i+1].length - MIN_MATCH)
       IN  <<HALF * half_of(n) + m>> \o extension_of(n) \o c[i].data
  ELSE <<c[i].offset % (MAX_BYTE + 1), c[i].offset \div (MAX_BYTE + 1)>>
         \o extension_of(c[i].length - MIN_MATCH)

encode(c, low) == FlattenSeq([i \in DOMAIN c |-> bytes_of(c, i, low)])

\* What an encoder makes of the given blocks.
Encodings == { encode(c, 0) : c \in Blocks }

\* Literals and back references take turns, and literals come first and last.
ASSUME BlocksAssumption ==
  \A c \in Blocks :
    /\ Len(c) % 2 = 1
    /\ c \in Seq(Literals \cup Backrefs)
    /\ \A i \in DOMAIN c :
         IF i % 2 = 1 THEN c[i] \in Literals /\ Len(c[i].data) <= USIZE_MAX
                      ELSE c[i] \in Backrefs

Init ==
  /\ source \in BoundedSeq(Byte, MaxSource) \cup Encodings
  /\ rest = source
  /\ pending = 0
  /\ status = "token"
  /\ calls = <<>>

Next == literals \/ match \/ malformed \/ sink_refuses

Spec == Init /\ [][Next]_vars

-----------------------------------------------------------------------------
(***************************************************************************)
(* Properties.                                                             *)
(***************************************************************************)

\* The types of the variables; every length handed to the sink is the sum of an
\* addition that did not overflow.
TypeOK ==
  /\ source \in Seq(Byte) /\ rest \in Seq(Byte)
  /\ pending \in 0 .. NIBBLE
  /\ status \in {"token", "match", "Some", "None", "refused"}
  /\ calls \in Seq(Literals \cup Backrefs)

\* At every point of the loop, what was consumed of the input is exactly what
\* an encoder would write for the calls the sink has seen: nothing is skipped,
\* invented or read twice, at the length boundaries 15 and 270 as elsewhere.
CallsEncodeInput ==
  /\ status \in {"token", "match"} =>
       source = encode(calls, pending) \o rest
  /\ status = "Some" => source = encode(calls, pending)

\* decompress() rejects nothing that an encoder writes.
NoEncodingRejected == status = "None" => source \notin Encodings
=============================================================================
