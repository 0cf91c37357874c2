# nanoloader in TLA+

A verification development of [nanoloader](../src/README.md): TLA+ modules
translated from the Rust sources, TLC runs on small instances, and proofs that
the TLA+ proof system checks for every value of the constants. Line numbers
refer to the files under `src/`; `PROJECT.json` maps every definition to the
lines it models.

## The system

| Part | State | Operations | Talks to |
|---|---|---|---|
| `nanoloader/src/lib.rs`: boot loader core | none of its own: everything is in Flash, in the HAL object and in the locals of one boot | `boot`, `process_update`, `check_update`, `check_firmware`, `install_plain`, `read_checked` | the `NanoHal` trait; the firmware area by direct reads |
| `nanoloader/src/lz4/mod.rs`: LZ4 block decoder | an iterator over the source | `decompress`, `extend_length` | a `Sink`; not called by the loader yet |
| `mspm0cloader/src/lib.rs`: HAL for TI MSPM0 | `FlashProgramming` (address, 64-bit buffer, count); the log page `BL_DATA` | `update_find/clear`, `program_start/write/finish`, `abort`, `flash_util::*` | the Flash controller's registers; the application writes the log |
| `testloader/src/main.rs`: HAL for the emulator | current word and address; the log `BL_OPTS` | the same trait | moonbow's `FlashController`, semihosting |
| `moonbow/src/peripherals`: emulated SRAM, Flash controller, SCS | Flash bytes and three registers | `mmio_read/write`, `set_reg_command` | the device's memory map |
| `moonbow/moonbow-macros`: register accessors | - | generated `read/write_register(s)` | peripherals |
| `moonbow/src/device`: CPU emulation, loading, semihosting, Intel HEX | memory map, run state | `run`, `handle_intr`, `handle_mmio_*`, `load_*`, `dispatch`, `segments` | Unicorn, the debuggee |
| `moonbow/src/main.rs`: command line | the files named, by kind | `main` | `load_elf`, `load_ihex`, `run` |

The core is sequential. What makes it hard lies between its steps. An update is
staged *in the firmware area itself*, above the firmware, and copied down over
the firmware byte by byte; power may be lost at any moment, in the middle of an
erase too; any Flash operation may fail; the loader forgets everything at a
reset except what is in Flash; and the application stages whatever it likes.
The two logs are written by one program and retired by another, a word at a
time. `PROJECT.json` lists the hazards line by line, with the properties that
watch each.

What makes each part correct:

* core: the device always has a firmware to start or an update it can install;
  an update being installed is not damaged by its own installation; an
  installable update is not lost; no mixture of two firmwares is ever started;
* update logs: requests are answered oldest first, the request retired is the
  one that was answered, a word is written once between erasures, and the page
  serves as many updates as it has room for;
* programming: the bytes handed over arrive, in order, in erased Flash, in the
  firmware area and nowhere else;
* abort: whoever watches the LED can tell the reason, whatever its code;
* emulator: registers behave as declared whatever the access size, commands
  change the addressed word or page only; what the files of the command line
  say ends up at their addresses, and the CPU starts where they say; what a
  guest prints reaches the log once and in order.

## Modules

| Module | Models |
|---|---|
| `FirmwareArea` | the constants of `NanoHal`: the firmware area, its pages and bytes |
| `HalProgramming` | what `NanoHal` promises of `program_start`, `program_write` and `program_finish` |
| `NanoFormat` | the pure half of `lib.rs`: `read_checked`, `check_firmware`, `check_update`, the `ensure`s of `install_plain`, over a byte array |
| `NanoLoader` | `boot()` as a process on `HalProgramming`, with one action per step that touches Flash, the pointer or the control flow, power losses, Flash faults and the application |
| `AtomicUpdate` | what an update-capable loader promises: a current firmware, a staged one |
| `NanoLoaderRefinement` | the mapping from `NanoLoader` to `AtomicUpdate`, what chance must not do, and the liveness properties stated in its terms |
| `MCNanoLoader` | a small device for TLC, used by three configurations |
| `BasicLemmas` | lemmas about least and greatest numbers, remainders, induction and recursion over numbers, and sequences of sequences |
| `NanoLoaderProofs` | theorems about the loader: its invariant, what it copies, its refinement of `AtomicUpdate` |
| `MspUpdateLogProofs`, `MspProgrammingProofs` | theorems about the MSPM0 HAL |
| `Lz4Proofs` | theorems about `decompress` |
| `FlashControllerProofs` | theorems about moonbow's Flash under any guest, and about the test loader's HAL on it |
| `LoadingProofs`, `SemihostingProofs` | theorems about moonbow: what it loads, what it logs |
| `UpdateQueue` | what an update log promises: a queue of requests |
| `MspUpdateLog` | the MSPM0 log page: `update_find`, `update_clear`, `update_address` |
| `MspProgramming` | the MSPM0 programming calls on ECC Flash |
| `AbortSignal` | `Blinker` and the numbers `abort()` blinks, and somebody who reads them |
| `MspBoard` | `MspProgramming` and `AbortSignal` composed: a boot that may abort or panic at any point |
| `RegisterBlock` | what moonbow's macros generate for the registers of a peripheral |
| `FlashController` | moonbow's Flash peripheral, a `RegisterBlock`; used by the next two |
| `TestHal`, `MCTestHal` | the test loader's HAL, store by store, on `FlashController`; shown to implement `HalProgramming` and `UpdateQueue` |
| `Emulator`, `MCEmulator` | a guest that stores anything anywhere: memory map, SRAM, `FlashController`, SCS |
| `Semihosting` | BKPT, `dispatch` and its calls, and the way of the text to the log |
| `IntelHex` | `segments`, `load_ihex`, `load_segment` |
| `Loading`, `MCLoading` | `main`: `load_elf`, then `load_ihex` (`IntelHex`), file after file, then `run` |
| `Lz4`, `MCLz4` | `decompress` against a `Sink`, and an encoder to compare it with |

An operator whose comment begins with "Seeded fault" is a defect somebody might
introduce; no specification uses it. It stands beside the operator it perverts,
and `PROJECT.json` (`mutants`) names the property that notices the exchange.

### The loader

`NanoLoader`'s variable `pc` is the place in `boot()`: `process_update` (about
to call `check_update`), `install_plain` (past it, with `up` the `Update`),
`copy` (in the `for` loop; `copied` counts the bytes consumed), `clear` (at the
`check_firmware().is_ok()` of `process_update`), `verify` (at the
`check_firmware` of `boot`), `running` (the firmware) and `aborted`
(`HAL::abort`, which resets). `flash` is the firmware area, `pending` what the
HAL's `update_address()` would return.

The loader calls the `NanoHal` trait. `HalProgramming` is what it relies on:
bytes are collected into blocks of `BLOCK` bytes (4 on testloader, 8 on MSPM0), a
page is erased when its first block is due, the last block is padded with ones.
`NanoLoader` uses its actions `Start`, `Write` and `Finish`, and `TestHal` implements
its `HalSpec`, so what is shown of the loader holds on that board. (It is also
what the MSPM0 HAL sets out to do; `msp_bytes` and `msp_boot_loader` show where it
does not.) An operation that fails or is interrupted leaves any
prefix of its bytes done and the others as they were or reading as one of the
values `Torn`; a clear that is interrupted leaves the pointer, none, or one of
`TornPointers`. Data of an update is read from `flash` at the moment the loop
reads it, because `Update.data` is a slice of Flash and not a copy.

A step that reads only (`check_update`, `check_firmware`) is one action: nothing
else writes the Flash while the loader runs.

### The MSPM0 HAL

`MspUpdateLog` has the log page as pairs of words that are blank or not, with
`update_find()` as the search it performs, and any `blank_verify()` or
`write_word()` failing. A word whose programming was cut short settles to one
value; words that read differently from one time to the next are not modelled.
The application (not in the repository) writes requests to the first blank pair.
`writes1` and `writes2` are history: how often each word was really programmed. A
`write_word()` that fails may have programmed its word or left it blank. In the second case
the next boot writes it again, as it should, and that is the first time the word is
programmed. In the first case the word must not be written again
(`WordsWrittenOnce`), as would happen if, say, an error of `blank_verify()` were
taken for a blank word.

`MspProgramming` has Flash down to address 0, because that is where
`program_start()` sets out. It does not model what becomes of the processor when
the code it executes is erased: the runs that show this stop there.

`MspBoard` puts these calls into a boot that may end in `abort()` at any point: a
panic in the middle of an installation, or a reason the loader or a HAL gives
otherwise. `abort(why)` blinks two numbers for as long as `signal` is not empty, and
then resets the device with the sectors as they are. A signal is the sequence of
flashes, each with the time the LED is on and then off, in units of `tu_cycles`:
the code's `led(n)` switches on for n and off for n, `pause(n)` prolongs the dark. The
observer of `AbortSignal` is not in the code; it is what a person does who knows
no more than the lengths.

### The emulated board

`TestHal` has every function of the HAL as the sequence of stores it asks the CPU
for: `program_write` makes up to five (two for the erase, three for the word), and
`perform` has `FlashController` take them one after the other (`performed`), so that the order of
address, data and command is part of the model; nothing happens between two of
them, since the emulated CPU runs nothing else. In `update_address` the word that
volatile reads found is read again through an immutable static
(`testloader/src/main.rs:89`); the compiler may answer with the static's initial
value, and the model lets it.

The refinement mapping to `HalProgramming` takes the Flash above `FW_START`, the
address rounded down to a word, and as bytes collected those handed over since
then. It is the word register of the HAL that holds them in the code, in another
order: that this makes no difference is what `ProgramsAsPromised` shows. A request is a
word of the log, and `queue` the words between the retired ones and the free ones.

`RegisterBlock` computes the offsets of the registers as the macro does, from the
declarations of the fields (`Fields`, `ScsFields`): a field without an offset
follows the one before it. The offsets the loader uses are its own
(`TestHal!ADDR` and so on), as they are in the code.

`FlashController` has a byte as the set of its 1 bits, which makes `&=` an
intersection. `Emulator` drives it with stores of any size to any mapping and to
the gaps between them; a store that no mapping takes ends the emulation
(`fault`). The contents of the SRAM are nobody's business but the guest's, so a
store there changes nothing in the model.

`Semihosting` has the guest as the list of calls it will make. The standard
library's `LineWriter` is modelled from its documented behaviour, since
`LogWriter` sees what it passes on and nothing else. `log()` makes one call of
`write()` and drops the count it returns, so a text whose end after its last
newline fills the writer loses that end; `passed_on` says exactly which texts.
An application that reports an error stops the emulator like one that exits:
`angel_report_exception` logs the difference and no status carries it.

`Loading` is `main()`: files of either kind, ELF before Intel HEX as the options are
collected, each record by record. A program header is loaded as it is met, its
address cut to the width of the bus; `IntelHex` reads the records of a file,
merges them into segments, and writes these one by one when the file ends. An
error anywhere ends the program, with what is in memory by then. `run` starts the
CPU with the two words at address 0. `read` and `earlier` remember the records for
the property to look at.

`Lz4` is the loop of `decompress()`; what `extend_length()` consumes is found by
looking for the first byte that is not 255 rather than by counting.

## Runs

Every run uses `-workers 2`. Sizes are chosen so that every boundary occurs and
a run ends within a minute or two.

| Run | Question | Bounds |
|---|---|---|
| `updates` | safety and refinement under every mix of faults, which pointers are ever given up, and that nothing in it happens by chance | one update after the factory one, two power losses, one Flash fault |
| `recovery` | a sound update is eventually run, a broken device comes back | 8-byte blocks, one update, one power loss, one fault |
| `zeros_boot` (violation) | whether "valid" implies "safe to boot into" | one update, of zeros |
| `msp_log` | the log as a queue, that each pair of it serves, and that no word is programmed twice | four pairs, two addresses, one kind of damage, two failing commands |
| `msp_board` | each word programmed once, whatever cuts an installation short; the reason of an abort can be read | 2-byte words, two words per sector, 7 bytes; nine codes of one to four nibbles |
| `msp_bytes` (violation) | whether the bytes arrive | the same words and sectors |
| `msp_boot_loader` (violation) | whether the boot loader stays | the same words and sectors |
| `test_hal` | bytes, pages and log of the test loader, each word of which serves; that it is the HAL `NanoLoader` runs on | a log of three words, two requests, every prefix of two updates of 10 and 7 bytes |
| `emulated_flash` | Flash under an arbitrary guest | four words in two pages, three values, stores of 1, 2 and 4 bytes to every address |
| `lz4` | `decompress` inverts an encoder | every input of up to 7 bytes of 4 values; encodings of up to three sequences |
| `loading` | memory is what the files say, and the CPU starts at their vectors | up to two files with four records between them, of 0 to 2 bytes |
| `semihosting` | the log is complete | three calls, texts of up to 3 bytes, a buffer of 2 |

The device of `MCNanoLoader` has six pages of eight bytes and firmwares of 12 to
16 bytes, so that an installation spans pages, ends in a full or a partial block
and in a full or a partial page, and the staged image ends at the end of the
area or before it. The updates staged are sound ones and one of each kind that
the loader must refuse or survive: unknown type, sizes that disagree, an intact
update that is no firmware, one that shares a page with the firmware, a wrong
checksum, and pointers that are misaligned, too close to the end, or below the
area. Firmwares A and C are alike in their first page, so that half-way through
an installation the old one is whole again. A byte has two bits; the checksum
has no collisions among the contents that occur. Two power losses are the least
that interrupt the recovery from an interruption, and the fault may fall before,
between or after them; every boot that follows starts from what they left.

The abstract loader remembers whether a Flash operation has failed (`faulty`,
mapped to `faults > 0`) and lets an update go uninstalled only then. So `updates`
also shows that power losses alone lose none, and `SoundUpdateRuns` asks for the
update to run unless a fault occurs.

`test_hal` starts from an erased log and a firmware area without a bit set, so
that a word that is programmed without an erase does not go unnoticed. A page has
two words: the 10-byte update needs the second page and a part of a word of it.
In `lz4` half a byte is one bit, so that the lengths that take one or two bytes
more, and the sum that overflows, are reached by short inputs.

`loading` has an address space of nine addresses of which the last two are not
backed by memory, so that a segment may fail to load half-way through a file. With
offsets 0 to 2 and records of up to two bytes, records touch, overlap, leave holes
and repeat one another; the bases of the two kinds of extended address records
differ in scale; one of the two physical addresses of program headers needs the
cut to the width of the bus. Two files are the least that show an order, and that
nothing of the first's base or segments is left when the second is read.

`msp_board` has codes on both sides of every number of nibbles, and with nibbles of
0 at either end and in the middle. In `semihosting` the buffer is smaller than the
longest text, as only then texts get past it. `emulated_flash`, `lz4`, `loading` and
`semihosting` do not check for deadlock where the program ends (`CHECK_DEADLOCK
FALSE` in the configuration).

### Fairness

`NanoLoader`: weak fairness of the loader's own steps, one sequential program on
a processor that runs. `abort_resets` is among them: the MSPM0 board's
`abort()` ends in a system reset (`mspm0cloader/src/lib.rs:296`); the emulated
board's stops the emulator instead, so there the liveness properties assume that
somebody restarts it. Nothing is assumed of the application; power losses and
faults are finitely many.

`MspUpdateLog`: weak fairness of the loader and of the reset that the
application performs to have an update applied, and strong fairness of
`update_clear` for undamaged requests: an update that is offered in boot after
boot is installed in one of them, which is what `recovery` shows of a sound one.
A request whose programming was cut short leads to no update; nothing retires it,
and `EveryPairServes` promises nothing of the requests after it.

`TestHal`: every boot of the loader, which has no endless loop, comes to its end
and the device is started again (`[]<>(pc = "running")` and `WF_pc(boots_again)`); `update_clear()` is
reached again and again if it could be (strong fairness of `clears`), for the same
reason as above; and the build is one that reads the word it found again and
again (strong fairness of `told`). Only `EveryWordServes` uses this, and only
of such a build is it claimed. `told` and `clears` are the effects of
`update_address()` and `update_clear()` on `answer` and `pc` alone, because for TLC to decide
whether the whole actions are enabled takes too long.

## Proofs

Everything in this section is proved for every value of the constants that
satisfies the assumptions of the modules: every geometry, block size, checksum
function and page of the log, any number of power losses, faults, bytes and
requests (the bounds named `Max...` only limit what TLC explores, and a proof
holds for each value of them).

### The loader

`NanoLoaderProofs`:

* `TypeCorrect`: `Spec => []TypeOK`;
* `AlwaysRecoverable`: `Spec => []Recoverable`;
* `ImageUntouched`: `Spec => StagedImageUntouched`;
* `OnlyUpdatesRetired`: `Spec => OnlyUpdatesAreRetired`;
* `CopiesExactly`: `Spec => []CopyIsExact`;
* `NoneLost`: `Spec => NoUpdateLost`.

The assumptions: pages hold whole blocks and the area
starts on a page (`GeometryAssumption`, `HalAssumption`), programming an erased
byte stores it, a device leaves the factory with a firmware or an installable
update (`FactoryAssumption`), what is staged consists of bytes
(`StagedAssumption`). The application's own obligation is in `stage_update`: it
leaves the firmware it runs from as it is.

`Recoverable` is not inductive by itself: a step of the copy loop keeps it only
because of what the loop is doing. The invariant `IInv` adds that while an update
is installed it is the pending one, verified and of the plain type
(`Installing`), and that in the loop the HAL's address and buffer account for
exactly the bytes consumed, block-aligned, with the update above the last page
that will be erased (`Copying`), and that at the end of `process_update()` the update
just dealt with still verifies (`Retiring`). The argument then is `BlockDue`: the block due
begins below `FW_START + align_up(fwsize)`; both are aligned, so the block, and
the page if it begins one, end there too, below the update. By
`InterruptedEffect` nothing at or above the update changes, completed or cut
short, and by `UpdateAgrees` `check_update` sees only what lies there.

What is copied takes a second invariant, `CopyInv`, on top of `IInv`. In the loop
(`CopiedSoFar`) everything below the HAL's address is as in the update, the bytes
collected are those that come next, and from there to the end of the page, unless
the page is still to be erased, the Flash reads as erased. By `CommitExact` the
block due is then stored as it is, where an erase or a byte programmed twice would
spoil it, and the rest of the page stays erased; that there is a rest, or that the
next page begins, is arithmetic (`NextRemainder`). After the loop (`Concluded`) the
update is still the one that `process_update()` set out with, and its outcome says
whether it was of the wrong type, did not fit, was copied to its end, or failed.
`NoneLost` reads off that only the last two retire what was installable.

### The loader keeps its promise

`LoaderUpdatesAtomically` is the refinement: under `AllImages`,
`HistorySpec /\ NothingByChance => UpdatesAtomically`. Both hypotheses are about
what no boot loader decides:

* `AllImages`: `Images`, the set that `AtomicUpdate` draws firmwares from, holds
  every firmware that `check_firmware()` accepts. It only says that the constant
  is chosen large enough. (`MCNanoLoader` lists the few firmwares that occur.)
* `NothingByChance`: no mixture of two firmwares has a correct checksum by accident,
  and a pointer that is read while it is half overwritten does not lead to some
  other, installable update. A checksum of 32 bits cannot exclude the one and
  the log cannot exclude the other. That the instance of `updates` satisfies
  it is checked there, so the theorem is about behaviours that exist.

The mapping gives the abstract loader as its firmware the one that is in the area
or, while it is being overwritten, the one that the update will install; so the
proof has to know, in the middle of the loop, what an installation *started anew*
would give. `after_install` is that memory; it depends on the update alone and on
what lies outside the pages it covers (`pages_end`), and no step of the loop changes either
(`SameResult`): so the abstract state stands still until the loop ends, and by `Installed`
(from `CopiedSoFar` and `FinishPads`, the padding of the last block) it ends with exactly that
memory. The invariant is `RInv`: `IInv`, `CopyInv`, what is settled when
`process_update()` is about to return (`Settled`: after an installation that succeeded the last
page is padded with erased bytes, one that failed had a fault to blame, and what is
started is a valid firmware), and that the history variables are what their
names say (`History`). `StepSimulates` then has one case per action, power losses
included.

### The MSPM0 HAL

`MspUpdateLogProofs`: `TypeCorrect`, `WordsOnce` (`Spec => []WordsWrittenOnce`)
and `LogImplementsQueue` (`Spec => LogIsQueue`, the refinement of `UpdateQueue`). The
page is not a queue by its looks: `update_find()` takes the first pair with a
request and no mark, wherever it is. The invariant says that pairs are used from the first
on without a gap (`UsedInOrder`), that they are retired in that order too
(`RetiredInOrder`), and that between `update_address()` and `update_clear()` the
answer stands (`AnswerStands`), so that the second search finds what the first
found. The queue is what lies between the last mark and the first blank pair;
each action changes one end of it or nothing. For `WordsOnce` the invariant also says
that a word was programmed once if it is not blank and never if it is (`Counted`); it
is kept because every write goes to a word that is blank: the first blank pair,
or the second word of the pair the search ended at.

`MspProgrammingProofs`: `TypeCorrect` and `SectorsFilledOnce` (`Spec =>
[]WordsProgrammedOnce`), which ECC Flash demands. The invariant adds that the
address is that of a word (`WordAligned`) and that each byte handed over is in the Flash
or in the buffer (`Counted`). `EccAlwaysRespected` says the same of the step to
come: the word that is programmed next is an erased one. `BoardImplementsProgramming` shows
that `MspBoard`, whose boots may abort or panic anywhere, takes only the steps of
`MspProgramming`, and `BoardFillsSectorsOnce` follows. Where the code programs
and what arrives there is another matter: see the findings.

`ReasonReadable` (`BoardSpec => []ReasonIsReadable`) has the observer read any reason
whose code is a number, in any base and with any number of repetitions. An
observer who watches one signal after another has watched the two joined
(`WatchedConcat`), so a signal may be taken apart: the flashes of a nibble are counted
(`FlashesCounted`), a pause makes them a digit (`DigitRead`), `blink` shows a digit and
then what remains, which is smaller, so that an induction over the number gives `BlinkRead`; the
weight that the observer has reached by then is part of what the induction is about. That
`blink`, a recursion over quotients, is the function its definition says, is
`BlinkIs`. Two numbers make a pattern (`PatternRead`), patterns a signal (`SignalRead`), and
different reasons have different numbers (`SignalTells`).

### The decoder

`Lz4Proofs`: `TypeCorrect`; `CallsAreInput` (`Spec => []CallsEncodeInput`), which says of
any source, well-formed or not, that what was consumed is an encoding of the
calls made, so that nothing is passed to the sink twice, left out or
made up; `EncodingsAccepted` (`Spec => []NoEncodingRejected`); and
`DecodesEncodings`, that an encoding that is accepted has made the calls it encodes,
so that `decompress()` inverts the encoder. The invariant of the first two adds
that literals and back references alternate (`Alternating`); that of the last two
is `FollowsEncoder`: if the source is an encoding, the decoder is past a
prefix of its calls and `rest` is the encoding of those that remain.
`BlocksAssumption` says what a block is: a list of calls that begins and ends with literals.

The encoder joins one sequence of bytes per call (`FlattenSeq`), and what a length is
encoded as has any number of bytes. Facts about all such lists are proved by
induction over a number, with the set of the numbers for which they hold in the place of a
predicate (`InductiveSet` in `BasicLemmas`), which the provers can instantiate.

### The emulated Flash

`FlashControllerProofs` has the theorems of the two modules that use
`FlashController`. Of `Emulator` it proves `DeviceTypeCorrect` (`DeviceSpec => []DeviceTypeOK`)
and `FlashRemainsFlash` (`DeviceSpec => FlashIsFlash`), for
every layout of the memory map that keeps the mappings apart, every width of a byte and any
two commands. The generated accessors are a search over offsets that a macro
counts out; the proof needs of it only that what is found is a declared field
(`SelectedField`). The effect of a command (`CommandEffect`) stays within a unit because
the address is aligned down first, whatever the register holds: that a unit is the
addresses with one quotient is `AlignedDownTo`, and that the register holds a
number at all is an induction over its bits (`NumberIsNat`).

### The test loader's HAL

Of `TestHal` it proves `TypeCorrect`, `BytesDoArrive` (`Spec => []BytesArrive`), `PagesOnly`
(`Spec => OnlyItsPages`), `HalKeepsPromise` (`Spec => ProgramsAsPromised`, the refinement of
`HalProgramming`) and `LogImplementsQueue` (`Spec => LogIsQueue`, the refinement of
`UpdateQueue`), for every geometry, length of the log, set of updates and width of a byte.
`TestGeometryAssumption` says that the log lies below the firmware area, that both are
aligned as the code has them, that an update fits, and that every address of the Flash
fits the 32 bits of a register.

The last of these is what the proofs begin with. An address goes to the controller as
a word of bytes of bits, and comes back as a number: `ValueOfWord` says that the
controller finds the address it was given. `word_of` shifts the number to the right and `value_of`
adds the bits up from the most significant one, so the proof is an induction over
bits, as the definitions are local recursive functions whose existence is an induction too
(`RecursionExists` in `BasicLemmas`). The stores of one call are a recursion of the same kind
(`PerformedIs`), which `StoresDo` unrolls into what the two sequences of stores
amount to: `WordProgrammed`, `ProgrammingDoes` and `ErasingDoes`, whatever the registers were left with.

The invariant `IInv` then says that the address is as many bytes past the start as were handed over
and padded (`Counted`); that the register of the HAL holds the bytes of the word
being collected in reverse (`Collects`), which is why swapping it puts them in
order; that below that word the Flash holds the bytes handed over, then blanks (`Written`);
and that from there to the end of the page the Flash is blank unless the page is still to be erased
(`RestIsBlank`), without which a word that is programmed would come out as the
conjunction of two. `WriteByte` has the effect of one call; `WriteRefines` and `PadRefines` map it to the
step of `HalProgramming` it implements.

For the log, `LogInv` says that its words are retired ones, then requests, then
free ones, in this order (`Logs`), and that between `update_address()` and `update_clear()`
the answer is the oldest request (`Stands`): the second search finds what
the first found. Retiring takes the head off the queue (`RetireStep`) and a new request
goes to its end (`AppendStep`).

`BoardFitsLoader` says that what `FirmwareArea` and `HalProgramming` assume of a board holds
on this one: an erased byte takes any value it is programmed with, because a
byte has the bits of its value and a number below `RADIX` is the value of its bits
(`ByteOfValue`, `ValueOfByte`). With it and the refinement, the
programming functions that `NanoLoader` is proved on are those of the test loader. (Power
losses and failing operations are not part of `TestHal`: the emulator has neither.)

### What is loaded

`LoadingProofs`: `TypeCorrect` and `MemoryIsLoaded` (`Spec => []MemoryIsWhatTheFilesSay`),
for files of any number and length and any memory map. The assumptions are about
widths: an offset and a base together stay in the address space, a paragraph is no
larger than the range of an offset, and the vectors are in mapped memory.

A record and a segment are both a *piece* of memory, empty if it says nothing; of a list
of pieces the last that covers an address says what is there (`Says`). That
segments may be merged is then one lemma: two pieces of which one begins where the other ends
say what they say joined (`SaysMerged`). The invariant `IInv` says
that the parser has the base that holds for the next record (`BaseStands`), that the segments,
with the one being read, say what the records do (`SegmentsSay`), and
what the memory holds while a file is read, while its segments are written, and after
(`MemoryHolds`). The property speaks of bases and records of the file as a
whole; that a further record changes none of those before is `BaseStays`
and `PiecesAppend`, and a further file `SaidAppend`.

### What is logged

`SemihostingProofs`: `TypeCorrect` and `LogAlwaysComplete` (`Spec => []LogIsComplete`), for
texts of any length and a buffer of any capacity. A call of `line_write()` may cut its
text up to three times: what completes the buffered line, the full lines, the
rest. What is visible of two texts is what is visible of them joined
(`VisibleConcat`); the trimming of an entry loses nothing that is visible (`LoggedVisible`); so
each call lengthens the log and the buffer together by what is visible of its text
(`LineWrite`), and the invariant needs nothing more than the types.

### Only model-checked

* Liveness: `SoundUpdateRuns`, `BrokenDeviceRecovers`, `EveryPairServes` and
  `EveryWordServes`, whose proofs need fairness and `ENABLED`.
* `NothingByChance`, which no proof can give: it is about the contents that occur in
  the instance of `updates`.

## Findings

* **An area of zeros boots** (`zeros_boot`). `check_firmware()` accepts a size
  word of 0; CRC-32 of no bytes is 0. The comment at `nanoloader/src/lib.rs:45`
  takes a valid firmware to be safe to boot into.
* **MSPM0: bytes do not arrive** (`msp_bytes`). The buffer starts as all ones
  and bytes are or-ed into it (`mspm0cloader/src/lib.rs:240,314`).
* **MSPM0: programming starts at address 0** (`msp_boot_loader`,
  `mspm0cloader/src/lib.rs:313`), where `memory.x` puts the boot loader.

Not disagreements with any text, but worth knowing: an update whose pointer or
checksum is bad is never cleared and hides later requests (`OnlyUpdatesAreRetired`
states it, and `updates` and the prover agree); an intact update that
is no firmware destroys the one there was; after a Flash fault that leaves the
old firmware valid the update is dropped.

## Plan

1. (done) The core, its refinement and its first theorems; the MSPM0 HAL; the
   emulated board: `FlashController`, `TestHal`, `Emulator`, `Semihosting`,
   `IntelHex`; `Lz4`.
2. (done) `HalProgramming` between the loader and its boards, with `TestHal` shown to
   implement it; the LED signal and the aborts of the MSPM0 board; the register
   macros; the loading of files.
3. (done) Proofs: the refinement of `AtomicUpdate`, the MSPM0 log and its programming
   calls, the decoder; the emulator's Flash, what it loads and what it logs.
4. (done) Proofs: the test loader's HAL, with the two conversions between words and
   numbers shown inverse; that the board fits the loader; the signals of an abort. Every
   invariant the runs check is a theorem now. What is left to a prover is liveness.

## Not modelled

* The formatting of log messages, the options of the command line (crate `clap`),
  linker glue, and the set-up of clocks and pins, which boards outside the
  repository do.
* The Unicorn CPU, and with it what a guest computes; loads, which change
  nothing; the contents of the SRAM.
* The parsing of ELF files and of the lines of Intel HEX files (crates `elf`
  and `ihex`): `Loading` has what it may yield, an error included. The parsing of
  the attributes of the register macros happens when the emulator is compiled.
* The jump into the firmware, beyond the fact that it happens.

`PROJECT.json` gives each part's status.
