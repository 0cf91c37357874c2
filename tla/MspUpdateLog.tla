----------------------------- MODULE MspUpdateLog -----------------------------
(***************************************************************************)
(* The update log of the MSPM0 boards: update_find() and update_clear() of *)
(* mspm0cloader/src/lib.rs on the page BL_DATA.                            *)
(*                                                                         *)
(* The page is an array of pairs of 64-bit words.  The application writes  *)
(* the address of an update into the first word of the first blank pair;   *)
(* the loader retires the update by writing the second.  A Flash word is   *)
(* written once between erasures, and a word written to all ones is not    *)
(* blank, so the only thing asked of a word is whether it is blank.        *)
(* Nothing in the repository erases the page.                              *)
(***************************************************************************)
EXTENDS Integers, Sequences, FiniteSetsExt

Mark == "written"       \* the second word of a pair after write_word(.., 0)

CONSTANTS
  PAIRS,       \* FLASH_PAGE_SZ / size_of::<u64>() / 2
  Addresses,   \* addresses an application may request
  Damaged,     \* what a request may read as whose programming was cut short
  Blank,       \* an erased word
  NoRequest,   \* update_address() returns None
  MaxErrors    \* bound on the number of Flash commands that fail

ASSUME LogAssumption ==
  /\ PAIRS \in Nat \ {0}
  /\ Blank \notin Addresses \cup Damaged \cup {Mark}
  /\ NoRequest \notin Addresses \cup Damaged
  /\ MaxErrors \in Nat

VARIABLES
  w1, w2,      \* the pairs: the request, and the mark that it was retired
  writes1, writes2,  \* how often each word was programmed: a history variable
  pc,          \* where the loader is, or that the application runs
  answer,      \* what update_address() returned in this boot
  errors       \* counter for the bound

page == <<w1, w2, writes1, writes2>>
vars == <<page, pc, answer, errors>>

Pairs     == 1 .. PAIRS
NoPair    == 0               \* update_find() returns None

-----------------------------------------------------------------------------
(***************************************************************************)
(* The HAL.                                                                *)
(***************************************************************************)

blank(w) == w = Blank

\* Pair i is one the loop of update_find() passes over: both words are written.
retired(i) == ~blank(w1[i]) /\ ~blank(w2[i])

open == { i \in Pairs : ~retired(i) }

\* Seeded fault: the search leaves out the last pair of the page.
update_find_short ==
  LET rest == open \ {PAIRS}
  IN  IF rest = {} \/ blank(w1[Min(rest)]) THEN NoPair ELSE Min(rest)

\* Seeded fault: the page is searched from its end.
update_find_backwards ==
  LET requests == { i \in open : ~blank(w1[i]) }
  IN  IF requests = {} THEN NoPair ELSE Max(requests)

\* update_find(), if no blank_verify() fails: the first pair that is not retired,
\* if there is one and a request was written to it.
update_find ==
  IF open = {} \/ blank(w1[Min(open)]) THEN NoPair ELSE Min(open)

\* A Flash command fails: blank_verify(), which makes update_find() return None,
\* or write_word(), whose error update_clear() ignores.
command_fails == errors < MaxErrors /\ errors' = errors + 1

\* update_address(), once per boot.
update_address ==
  /\ pc = "update_address"
  /\ \/ /\ answer' = IF update_find = NoPair THEN NoRequest ELSE w1[update_find]
        /\ errors' = errors
     \/ command_fails /\ answer' = NoRequest
  /\ pc' = "process_update"
  /\ UNCHANGED page

\* The first word of pair i is programmed with v, whatever it held.  This and
\* mark() are the writes that have an effect: one that fails and leaves its word as
\* it was counts for nothing.
program_request(i, v) ==
  /\ w1' = [w1 EXCEPT ![i] = v] /\ writes1' = [writes1 EXCEPT ![i] = @ + 1]
  /\ UNCHANGED <<w2, writes2>>

\* Seeded fault: the mark goes to the word update_find() returned, not the next.
mark_request(i) == program_request(i, Mark)

\* write_word() programs the second word of pair i.
mark(i) ==
  /\ w2' = [w2 EXCEPT ![i] = Mark] /\ writes2' = [writes2 EXCEPT ![i] = @ + 1]
  /\ UNCHANGED <<w1, writes1>>

clearing == pc = "process_update" /\ answer # NoRequest

\* The loader calls update_clear(): it searches again, and marks what it finds.
update_clear ==
  /\ clearing
  /\ update_find # NoPair
  /\ mark(update_find)
  /\ pc' = "running"
  /\ UNCHANGED <<answer, errors>>

\* Seeded fault: a blank_verify() that fails reads as a blank word, so the search
\* may end at a pair that is retired.
update_clear_unverified ==
  /\ clearing
  /\ command_fails
  /\ UNCHANGED page \/ \E i \in Pairs : (retired(i) \/ i = update_find) /\ mark(i)
  /\ pc' = "running"
  /\ UNCHANGED answer

\* The call fails: nothing is found, or the mark is perhaps not written.
update_clear_fails ==
  /\ clearing
  /\ command_fails
  /\ UNCHANGED page \/ (update_find # NoPair /\ mark(update_find))
  /\ pc' = "running"
  /\ UNCHANGED answer

\* There was no update, or none to install, or no firmware came of it.
no_clear ==
  /\ pc = "process_update"
  /\ pc' = "running"
  /\ UNCHANGED <<page, answer, errors>>

-----------------------------------------------------------------------------
(***************************************************************************)
(* Resets and the application.                                             *)
(***************************************************************************)

boot == pc' = "update_address" /\ answer' = NoRequest

\* The application, or HAL::abort(), resets the device.
reset ==
  /\ pc = "running"
  /\ boot
  /\ UNCHANGED <<page, errors>>

\* Power is lost, perhaps while the loader marks an update as retired.
power_loss ==
  /\ boot
  /\ UNCHANGED page \/ (clearing /\ update_find # NoPair /\ mark(update_find))
  /\ UNCHANGED errors

\* The pair the application writes its next request to.
next_free == { i \in Pairs : blank(w1[i]) /\ \A j \in 1 .. i - 1 : ~blank(w1[j]) }

\* The application requests the update at a.  It need not wait for an earlier
\* request to be retired.
request_update ==
  /\ pc = "running"
  /\ \E i \in next_free, a \in Addresses : program_request(i, a)
  /\ UNCHANGED <<pc, answer, errors>>

\* Power is lost while the application does so.
request_damaged ==
  /\ pc = "running"
  /\ \E i \in next_free, d \in Damaged : program_request(i, d)
  /\ boot
  /\ UNCHANGED errors

-----------------------------------------------------------------------------
Init ==
  /\ w1 = [i \in Pairs |-> Blank]
  /\ w2 = [i \in Pairs |-> Blank]
  /\ writes1 = [i \in Pairs |-> 0]
  /\ writes2 = [i \in Pairs |-> 0]
  /\ pc = "update_address"
  /\ answer = NoRequest
  /\ errors = 0

Loader == update_address \/ update_clear \/ update_clear_fails \/ no_clear

Environment == reset \/ power_loss \/ request_update \/ request_damaged

Next == Loader \/ Environment

Spec == Init /\ [][Next]_vars

\* The loader runs, the device is reset again and again (without a reset nothing
\* is installed), and an update offered in boot after boot is installed in one of
\* them: NanoLoader shows that a sound one is.  Nothing is assumed of a damaged
\* request, at which the loader finds no update to install.
FairSpec ==
  /\ Spec /\ WF_vars(Loader) /\ WF_vars(reset)
  /\ SF_vars(update_clear /\ answer \in Addresses)

-----------------------------------------------------------------------------
(***************************************************************************)
(* Properties.                                                             *)
(***************************************************************************)

\* The types of the variables.
TypeOK ==
  /\ w1 \in [Pairs -> {Blank} \cup Addresses \cup Damaged]
  /\ w2 \in [Pairs -> {Blank, Mark}]
  /\ writes1 \in [Pairs -> Nat] /\ writes2 \in [Pairs -> Nat]
  /\ pc \in {"update_address", "process_update", "running"}
  /\ answer \in {NoRequest} \cup Addresses \cup Damaged
  /\ errors \in 0 .. MaxErrors

\* The first of a set of pairs, or the end of the page if there is none.
first(pairs) == Min(pairs \cup {PAIRS + 1})

\* The requests not yet retired, in the order they were made.  They lie side by
\* side, because pairs are used and retired in their order.
oldest == first(open)
unused == first({ i \in Pairs : blank(w1[i]) })
queue  == SubSeq(w1, oldest, unused - 1)

Queue == INSTANCE UpdateQueue WITH Values <- Addresses \cup Damaged

\* The log is a queue: a boot is told of the oldest request or of none, and what
\* update_clear() retires is the request that boot was told of, although it
\* searches the page anew and any command of either search may fail.
LogIsQueue == Queue!Spec

\* No word of the page is programmed a second time (the page is never erased, and
\* ECC Flash takes one write to a word between erasures, lib.rs:206-211): neither
\* by a mark that is made again after the first seemed to fail but did not, nor by
\* one that goes to the wrong word, whatever blank_verify() or write_word() fails
\* and wherever the power is lost.
WordsWrittenOnce == \A i \in Pairs : writes1[i] <= 1 /\ writes2[i] <= 1

\* Every pair of the page serves an update, the last one included, so that the
\* page lasts for as many updates as it has pairs (lib.rs:211) - unless a request
\* was damaged, which nothing retires and which hides those after it.
EveryPairServes ==
  \A i \in Pairs :
    (w1[i] \in Addresses /\ \A j \in 1 .. i - 1 : w1[j] \notin Damaged) ~> ~blank(w2[i])
=============================================================================
