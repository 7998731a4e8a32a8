----------------------------- MODULE ByteStream ------------------------------
(***************************************************************************)
(* What generate() of src/rdrand-gen.c promises main() for a request of a  *)
(* given amount: bytes leave it in the order in which they were generated  *)
(* and never more than the amount.  Unless something was lost on the way,  *)
(* the amount is complete when it returns, and the returned size is the    *)
(* amount.  Threads, buffers, rounds and repairs do not show.              *)
(***************************************************************************)
EXTENDS Naturals

CONSTANTS
  Totals   \* bound: the numbers of bytes, and of ages, that are considered

VARIABLES
  request,   \* the amount
  out,       \* bytes delivered
  newest,    \* the age of the newest byte delivered in a full round
  returned,  \* the size that generate() returns
  status,    \* "open", "closed" when it returned, or "undefined"
  lost,      \* bytes fell short or were not taken
  stale      \* bytes of unknown age may be delivered

vars == <<request, out, newest, returned, status, lost, stale>>

Init ==
  /\ request \in Totals
  /\ out = 0 /\ newest = 0 /\ returned = 0
  /\ status = "open"
  /\ lost = FALSE /\ stale = FALSE

(* What went wrong once stays known. *)
Trouble ==
  /\ lost' \in {lost, TRUE}
  /\ stale' \in {stale, TRUE}

(* A piece of the stream, all of it younger than what left before. *)
Emit ==
  /\ status = "open"
  /\ Trouble
  /\ out' \in Totals /\ out < out' /\ out' <= request
  /\ newest' \in Totals
  /\ stale' \/ newest < newest'
  /\ UNCHANGED <<request, returned, status>>

Degrade ==
  /\ status = "open"
  /\ Trouble
  /\ UNCHANGED <<request, out, newest, returned, status>>

(* generate() returns, after the last piece. *)
Close ==
  /\ status = "open"
  /\ status' = "closed"
  /\ Trouble
  /\ out' \in Totals /\ out <= out'
  /\ returned' \in Totals /\ out' <= returned' /\ returned' <= request
  /\ lost' \/ (out' = request /\ returned' = request)
  /\ UNCHANGED <<request, newest>>

(* Nothing is promised once the buffer was overrun. *)
Break ==
  /\ status = "open"
  /\ status' = "undefined"
  /\ Trouble /\ lost'
  /\ UNCHANGED <<request, out, newest, returned>>

Next == Emit \/ Degrade \/ Close \/ Break

Spec == Init /\ [][Next]_vars
=============================================================================
