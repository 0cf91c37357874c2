-------------------------------- MODULE TestHal --------------------------------
(***************************************************************************)
(* The HAL of the test loader (testloader/src/main.rs) on moonbow's Flash  *)
(* controller.  A function of the HAL is a sequence of stores to the       *)
(* registers of the controller, which the CPU performs one after the other *)
(* on whatever the registers were left with.                               *)
(*                                                                         *)
(* The functions are called as boot() of nanoloader calls them: the update *)
(* is looked up once per boot, a firmware is programmed byte by byte, and  *)
(* then, or at once, the update may be cleared and the firmware started.   *)
(***************************************************************************)
EXTENDS FlashController, SequencesExt

CONSTANTS
  BL_OPTS,     \* address of the log of updates
  OPTS,        \* number of its words (256)
  FW_START,    \* first address of the firmware area
  Requests,    \* the words an application may request an update with
  Updates      \* the updates, and their prefixes, that may be installed

ASSUME TestGeometryAssumption ==
  /\ BL_OPTS \in Nat /\ OPTS \in Nat
  /\ FW_START \in Nat
  /\ BL_OPTS % 4 = 0
  /\ FW_START % PAGE = 0
  /\ BL_OPTS + 4 * OPTS <= FW_START
  /\ FW_START < FLASH_SIZE
  /\ \A a \in Addresses : fits_u32(a)
  /\ Requests \subseteq Word \ {AllZeros, AllOnes}
  /\ Updates # {} /\ \A u \in Updates : u \in Seq(Byte) /\ FW_START + Len(u) <= FLASH_SIZE

VARIABLES
  prog_addr,    \* current_prog_addr
  prog_data,    \* current_prog_data, a Word
  pc,           \* what the loader does, or that the firmware runs
  answer,       \* what update_address() returned in this boot, None as AllOnes
  given         \* the bytes handed over since program_start()

hal  == <<prog_addr, prog_data>>
vars == <<controller, hal, pc, answer, given>>

-----------------------------------------------------------------------------
(***************************************************************************)
(* Stores.                                                                 *)
(***************************************************************************)

\* The offsets of the registers in the struct FlashController of the loader.
ADDR    == 4
DATA    == 8
COMMAND == 12

programming(a, w) == << <<ADDR, word_of(a)>>, <<DATA, w>>, <<COMMAND, CMD_PROGRAM>> >>
erasing(a)        == << <<ADDR, word_of(a)>>, <<COMMAND, CMD_ERASE>> >>

\* The CPU performs stores, each a word, in their order.
performed(c, stores) ==
  LET after[i \in 0 .. Len(stores)] ==
        IF i = 0 THEN c ELSE accessed(after[i - 1], stores[i][1], 4, stores[i][2])
  IN  after[Len(stores)]

perform(stores) ==
  LET c == performed([flash |-> flash, reg |-> reg], stores)
  IN  flash' = c.flash /\ reg' = c.reg

-----------------------------------------------------------------------------
(***************************************************************************)
(* The log of updates: a word that is 0 was retired, one that is u32::MAX  *)
(* is free.                                                                *)
(***************************************************************************)

Entries == 1 .. OPTS

entry_address(i) == BL_OPTS + 4 * (i - 1)
entry(i) == word_at(flash, entry_address(i))

open == { i \in Entries : entry(i) # AllZeros }

NoEntry == 0

\* Seeded fault: the log is searched from its end.
update_find_backwards ==
  LET requests == { i \in open : entry(i) # AllOnes }
  IN  IF requests = {} THEN NoEntry ELSE Max(requests)

\* Seeded fault: the search leaves out the last word.
update_find_short ==
  LET rest == open \ {OPTS}
  IN  IF rest = {} \/ entry(Min(rest)) = AllOnes THEN NoEntry ELSE Min(rest)

\* update_find(): the first word that is not 0, unless it is u32::MAX.
update_find ==
  IF open = {} \/ entry(Min(open)) = AllOnes THEN NoEntry ELSE Min(open)

\* update_address().  The word was found by volatile reads but is read again
\* through a plain reference to an immutable static that is initialized to
\* u32::MAX: the build may answer with that instead of what is in Flash.
update_address ==
  /\ pc = "update_address"
  /\ answer' \in IF update_find = NoEntry THEN {AllOnes} ELSE {AllOnes, entry(update_find)}
  /\ pc' = "process_update"
  /\ UNCHANGED <<controller, hal, given>>

\* update_clear(): the log is searched again, and the word found is set to 0.
update_clear ==
  /\ pc \in {"process_update", "finished"}
  /\ answer # AllOnes
  /\ IF update_find = NoEntry THEN UNCHANGED controller
     ELSE perform(programming(entry_address(update_find), AllZeros))
  /\ pc' = "start"
  /\ UNCHANGED <<hal, answer, given>>

-----------------------------------------------------------------------------
(***************************************************************************)
(* Programming.                                                            *)
(***************************************************************************)

\* Seeded fault: programming starts at the start of the Flash.
first_address_zero == 0

first_address == FW_START

\* program_start().
program_start ==
  /\ pc = "process_update"
  /\ answer # AllOnes
  /\ prog_addr' = first_address
  /\ prog_data' = AllZeros
  /\ given' = <<>>
  /\ pc' = "programming"
  /\ UNCHANGED <<controller, answer>>

\* data << 8 | b: the bytes move up, and b comes in below.
shift_in(w, b) == [i \in 1 .. 4 |-> IF i = 1 THEN b ELSE w[i - 1]]

\* Seeded fault: the bytes are programmed in the order they were collected.
swap_bytes_not(w) == w

swap_bytes(w) == Reverse(w)

\* Seeded fault: no page is erased.
first_of_page_never(a) == FALSE

\* The word at a is the first of its page, which is erased.
first_of_page(a) == a % PAGE = 0

\* Seeded fault: the last word is padded although it is complete.
incomplete_always(a) == TRUE

\* The word that a lies in has bytes before a but is not complete.
incomplete(a) == a % 4 # 0

\* program_write(b).
write_byte(b) ==
  LET w == shift_in(prog_data, b)
      a == prog_addr + 1 - 4
  IN  /\ prog_addr' = prog_addr + 1
      /\ prog_data' = IF (prog_addr + 1) % 4 = 0 THEN AllZeros ELSE w
      /\ IF (prog_addr + 1) % 4 = 0
         THEN perform((IF first_of_page(a) THEN erasing(a) ELSE <<>>)
                        \o programming(a, swap_bytes(w)))
         ELSE UNCHANGED controller

\* The loader calls program_write() with the next byte of some update.
program_write ==
  /\ pc = "programming"
  /\ \E u \in Updates :
       /\ IsStrictPrefix(given, u)
       /\ write_byte(u[Len(given) + 1])
       /\ given' = Append(given, u[Len(given) + 1])
  /\ UNCHANGED <<pc, answer>>

\* One turn of the loop of program_finish(), which pads the last word with 0xff.
program_finish_pads ==
  /\ pc \in {"programming", "finishing"}
  /\ incomplete(prog_addr)
  /\ write_byte(Ones)
  /\ pc' = "finishing"
  /\ UNCHANGED <<answer, given>>

\* program_finish() returns.
program_finish ==
  /\ pc \in {"programming", "finishing"}
  /\ ~incomplete(prog_addr)
  /\ pc' = "finished"
  /\ UNCHANGED <<controller, hal, answer, given>>

\* The loader is done: the firmware is started.  This is also where a loader ends
\* that found no valid update, or whose new firmware is not valid.
started ==
  /\ pc \in {"process_update", "finished", "start"}
  /\ pc' = "running"
  /\ UNCHANGED <<controller, hal, answer, given>>

-----------------------------------------------------------------------------
(***************************************************************************)
(* The application: it has the Flash controller to itself, and may jump    *)
(* back to the loader.                                                     *)
(***************************************************************************)

free == { i \in Entries : entry(i) = AllOnes /\ \A j \in 1 .. i - 1 : entry(j) # AllOnes }

request_update ==
  /\ pc = "running"
  /\ \E i \in free, r \in Requests : perform(programming(entry_address(i), r))
  /\ UNCHANGED <<hal, pc, answer, given>>

\* The new main() starts from TestHal::default().
boots_again ==
  /\ pc = "running"
  /\ prog_addr' = 0 /\ prog_data' = AllZeros
  /\ pc' = "update_address"
  /\ answer' = AllOnes
  /\ given' = <<>>
  /\ UNCHANGED controller

-----------------------------------------------------------------------------
\* An image was loaded that leaves no bit of the firmware area set; the log is
\* the one the loader is linked with.
Init ==
  /\ ControllerInit
  /\ flash = [a \in Addresses |-> IF a \in BL_OPTS .. BL_OPTS + 4 * OPTS - 1 THEN Ones ELSE {}]
  /\ prog_addr = 0 /\ prog_data = AllZeros
  /\ pc = "update_address"
  /\ answer = AllOnes
  /\ given = <<>>

Loader ==
  \/ update_address \/ program_start \/ program_write \/ program_finish_pads
  \/ program_finish \/ update_clear \/ started

Next == Loader \/ request_update \/ boots_again

Spec == Init /\ [][Next]_vars

\* update_address() reads the word it found; the loader comes to update_clear().
told   == pc = "update_address" /\ update_find # NoEntry /\ answer' = entry(update_find)
clears == pc \in {"process_update", "finished"} /\ answer # AllOnes /\ pc' = "start"

\* The loader, which has no endless loop, always comes to an end and is started
\* again; the build is one that reads the word it found, if not in every boot; and
\* an update that is offered in boot after boot is installed in one of them, as
\* NanoLoader shows of a sound one.
FairSpec ==
  /\ Spec
  /\ []<>(pc = "running") /\ WF_pc(boots_again)
  /\ SF_answer(told) /\ SF_pc(clears)

-----------------------------------------------------------------------------
(***************************************************************************)
(* Properties.                                                             *)
(***************************************************************************)

\* The types of the variables; programming stays inside the Flash.
TypeOK ==
  /\ flash \in [Addresses -> Byte]
  /\ reg \in [{"status", "addr", "data"} -> Word]
  /\ prog_addr \in 0 .. FLASH_SIZE /\ prog_data \in Word
  /\ pc \in {"update_address", "process_update", "programming", "finishing", "finished",
             "start", "running"}
  /\ answer \in Word
  /\ \E u \in Updates : IsPrefix(given, u)

\* What program_finish() has done when it returns: the bytes handed over are in
\* Flash in their order, whatever was there before, and the rest of the last word
\* is blank.
BytesArrive ==
  pc = "finished" =>
    \A a \in FW_START .. prog_addr - 1 :
      flash[a] = IF a - FW_START < Len(given) THEN given[a - FW_START + 1] ELSE Ones

\* Programming a firmware changes no byte outside the pages the firmware needs,
\* which is what install_plain() relies on when it compares the end of the last
\* page with the address of the update: not the boot loader, not the log, not the
\* update being copied.
OnlyItsPages ==
  [][ (pc \in {"programming", "finishing"}) =>
        \A a \in Addresses :
          flash'[a] # flash[a] =>
            (FW_START <= a /\ align_down(a, PAGE) < FW_START + Len(given')) ]_vars

\* The bytes handed over for a word that is not complete, without its padding.
collected ==
  IF incomplete(prog_addr)
  THEN [i \in 1 .. Len(given) % 4 |-> value_of_byte[given[align_down(Len(given), 4) + i]]]
  ELSE <<>>

and_bits(old, new) == value_of_byte[byte_of(old) \cap byte_of(new)]

Hal == INSTANCE HalProgramming WITH
         FW_END <- FLASH_SIZE, FW_PAGE_SZ <- PAGE, BLOCK <- 4, program_bits <- and_bits,
         flash <- [a \in FW_START .. FLASH_SIZE - 1 |-> value_of_byte[flash[a]]],
         prog  <- [address |-> align_down(prog_addr, 4), buffer |-> collected]

\* The stores of the HAL, performed on whatever the registers were left with, do
\* what NanoLoader takes the HAL to do: a word is programmed when it is complete,
\* in the order of its bytes, its page is erased first if it is the first there,
\* the end is padded, and nothing else in the firmware area changes.
ProgramsAsPromised == Hal!HalSpec

\* The requests not yet retired, in the order they were made: the words from the
\* first that is not 0 to the last before a free one.
first(entries) == Min(entries \cup {OPTS + 1})
oldest == first(open)
unused == first({ i \in Entries : entry(i) = AllOnes })
queue  == SubSeq([i \in Entries |-> entry(i)], oldest, unused - 1)

Queue == INSTANCE UpdateQueue WITH Values <- Requests, NoRequest <- AllOnes

\* The log is a queue: a boot is told of the oldest request or of none, and a
\* clear retires that request and no other, although it searches anew.
LogIsQueue == Queue!Spec

\* Every word of the log serves an update, the last one included when it is the
\* only one still open: a request is found and retired wherever it lies.
EveryWordServes == \A i \in Entries : entry(i) \in Requests ~> entry(i) = AllZeros
=============================================================================
