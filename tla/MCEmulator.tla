------------------------------- MODULE MCEmulator -------------------------------
(***************************************************************************)
(* Emulator with bytes of two bits and two pages of Flash of two words     *)
(* each.  The three values a guest stores are addresses in both pages, not *)
(* aligned, and one outside the Flash; they are data and the two commands  *)
(* at the same time.                                                       *)
(***************************************************************************)
EXTENDS Emulator

MCProgram == word_of(13)
MCErase   == word_of(200)
MCStored  == {word_of(6), word_of(13), word_of(200)}
=============================================================================
