----------------------------- MODULE MCNanoLoader -----------------------------
(***************************************************************************)
(* A small device for TLC: bytes of two bits, pages of two blocks, and a   *)
(* firmware area of six pages.                                             *)
(***************************************************************************)
EXTENDS NanoLoaderRefinement, Bitwise

\* A number as the four bytes of a u32.
Le(n) == << n % 4, (n \div 4) % 4, (n \div 16) % 4, (n \div 64) % 4 >>

\* Firmware bodies: a first word, the size word at offset 4, and the rest.  A
\* and C are alike in their first page.
BodyA == Le(3) \o Le(12) \o Le(58)
BodyB == Le(2) \o Le(8)
BodyC == Le(3) \o Le(12) \o Le(57)
Bodies == <<BodyA, BodyB, BodyC>>

\* Checksums are taken to have no collisions: everything checksummed on purpose
\* has a code, and everything else a value that no word can hold.  The empty
\* sequence has checksum 0, as with CRC-32.
BodyCode(i) == 16 + i
FwA == BodyA \o Le(BodyCode(1))
FwB == BodyB \o Le(BodyCode(2))
FwC == BodyC \o Le(BodyCode(3))
FwBLong == FwB \o <<2>>              \* with a trailing byte: not whole blocks
NoFw    == BodyB \o Le(BodyCode(1))  \* B with the checksum of A
Zeros   == Le(0) \o Le(0) \o Le(0)


\* An update without its checksum field: the rest of the header, and the data.
Contents(type, fwsize, data) == Le(16 + Len(data)) \o Le(type) \o Le(fwsize) \o data

UpdateContents == << Contents(0, 12, FwB),        \* 1: a plain update, whole blocks
            Contents(0, 13, FwBLong),    \* 2: its last block is partial
            Contents(0, 16, FwC),        \* 3: fills its pages exactly
            Contents(1, 12, FwB),        \* 4: of a type the loader does not know
            Contents(0, 8, FwB),         \* 5: sizes disagree
            Contents(0, 12, NoFw),       \* 6: intact, but installs no firmware
            Contents(0, 12, Zeros) >>    \* 7: intact, installs zeros

UpdateCode(i) == 32 + i

MCchecksum(bytes) ==
  IF bytes = <<>> THEN 0
  ELSE IF \E i \in DOMAIN Bodies : Bodies[i] = bytes
  THEN BodyCode(CHOOSE i \in DOMAIN Bodies : Bodies[i] = bytes)
  ELSE IF \E i \in DOMAIN UpdateContents : UpdateContents[i] = bytes
  THEN UpdateCode(CHOOSE i \in DOMAIN UpdateContents : UpdateContents[i] = bytes)
  ELSE 256

Update(i, address) == [address |-> address, bytes |-> Le(UpdateCode(i)) \o UpdateContents[i]]

\* NOR Flash: programming can only clear bits.
MCprogram_bits(old, new) == old & new

\* A word that is being programmed to zero loses its bits one by one.
MCTornPointers == {24, 20, 16, 8, 4, 0}

Blank      == [x \in fwarea |-> ERASED]
Holding(m, fw) == stored(m, FW_START, fw)

\* A device with a firmware, and one with nothing but an update.
MCFactory ==
  { [flash |-> Holding(Blank, FwA), pending |-> None],
    [flash |-> stored(Blank, 28, Update(1, 28).bytes), pending |-> 28] }

Sound    == { Update(1, 24), Update(2, 24), Update(3, 24) }
Unsound  ==
  { Update(4, 24), Update(5, 24), Update(6, 24),
    Update(1, 20),                                   \* shares a page with firmware B
    [address |-> 24, bytes |-> Le(1) \o UpdateContents[1]],   \* wrong checksum
    [address |-> 25, bytes |-> <<>>],                \* pointers to no update at all
    [address |-> 52, bytes |-> <<>>],
    [address |-> 4,  bytes |-> <<>>] }

MCStaged     == Sound \cup Unsound
ZerosStaged  == { Update(7, 24) }
MCImages     == { FwA, FwB, FwC }
=============================================================================
