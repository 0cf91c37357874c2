--------------------------------- MODULE MCLz4 ---------------------------------
(***************************************************************************)
(* Lz4 with half bytes of one bit: a byte ranges over 0..3, a length of 1  *)
(* is the first to be extended, 4 the first to take two more bytes, and 7  *)
(* the largest back reference that fits the usize.                         *)
(***************************************************************************)
EXTENDS Lz4

\* Texts of one byte value suffice to tell the lengths of literals apart; the
\* byte itself runs through all values in the inputs that are enumerated.
MCTexts == { [i \in 1 .. n |-> 2] : n \in {0, 1, 3, 4, 5, 7} }

MCLiterals == { Literal(t) : t \in MCTexts }
MCMatches  == { Backref(o, n) : o \in {0, 1, 6, 15}, n \in MIN_MATCH .. USIZE_MAX }

\* One, two and three sequences.
MCBlocks ==
  { <<l>> : l \in MCLiterals }
    \cup { <<l, b, k>> : l \in MCLiterals, b \in MCMatches, k \in MCLiterals }
    \cup { <<l, b, k, b, l>> : l \in MCLiterals, b \in MCMatches, k \in MCLiterals }
=============================================================================
