------------------------------- MODULE MCLoading -------------------------------
(***************************************************************************)
(* Loading with offsets 0..2, paragraphs of 2 bytes, and an address space  *)
(* of 9 of which the last 2 addresses are not backed by memory.  Records   *)
(* of up to two bytes can touch, overlap and leave holes.                  *)
(***************************************************************************)
EXTENDS Loading

MCMapped == 0 .. 6
MCValues == {<<>>, <<1>>, <<2, 3>>}
=============================================================================
