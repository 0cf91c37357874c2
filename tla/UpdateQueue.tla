------------------------------ MODULE UpdateQueue ------------------------------
(***************************************************************************)
(* What the boards' update logs promise to the loader and the application: *)
(* a queue of requests.  The application appends the address of an update; *)
(* HAL::update_address() answers with the oldest request, or with None if  *)
(* there is none or the HAL cannot tell; HAL::update_clear() removes the   *)
(* request that was answered in this boot, if it does anything at all.     *)
(***************************************************************************)
EXTENDS Sequences

CONSTANTS
  Values,     \* what a request may read as: addresses, and damaged ones
  NoRequest   \* the answer None

VARIABLES
  queue,      \* requests, oldest first
  answer      \* what update_address() answered in this boot

Init == queue = <<>> /\ answer = NoRequest

\* The application requests an update; a request damaged by a power loss counts.
Request == /\ \E v \in Values : queue' = Append(queue, v)
           /\ answer' \in {answer, NoRequest}

\* update_address().
Answer == /\ \/ answer' = NoRequest
             \/ queue # <<>> /\ answer' = Head(queue)
          /\ queue' = queue

\* update_clear() retires the request that was answered, and no other.
Clear == /\ queue # <<>>
         /\ answer = Head(queue)
         /\ queue' = Tail(queue)
         /\ answer' \in {answer, NoRequest}

\* A clear that is cut short damages the request it was to retire.
Damage == /\ queue # <<>>
          /\ answer = Head(queue)
          /\ \E v \in Values : queue' = <<v>> \o Tail(queue)
          /\ answer' \in {answer, NoRequest}

Next == Request \/ Answer \/ Clear \/ Damage

Spec == Init /\ [][Next]_<<queue, answer>>
=============================================================================
