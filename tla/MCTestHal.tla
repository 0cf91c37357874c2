------------------------------- MODULE MCTestHal -------------------------------
(***************************************************************************)
(* TestHal with bytes of two bits, so that an address of this small Flash  *)
(* fits a register: pages of 8 bytes, a log of three words in the first    *)
(* two, and two pages of firmware area.                                    *)
(***************************************************************************)
EXTENDS TestHal

MCProgram == <<{1}, {0, 1}, {0}, {1}>>
MCErase   == <<{0, 1}, {1}, {0}, {}>>

MCRequests == {word_of(17), word_of(24)}

\* One that needs a second page and a part of a word, and one that differs.
MCUpdates == { << {}, {0}, {1}, {0, 1}, {1}, {}, {0}, {1}, {0}, {} >>,
               << {}, {1}, {0}, {}, {0}, {1}, {} >> }
=============================================================================
