--------------------------- MODULE GenerateStream ---------------------------
(***************************************************************************)
(* The generator loop implements ByteStream: the refinement mapping for    *)
(* requests that have an end.                                              *)
(***************************************************************************)
EXTENDS Generate

CONSTANTS Totals   \* see ByteStream

ASSUME TotalsAssumption == Totals \subseteq Nat

StreamStatus ==
  CASE pc = "done"      -> "closed"
    [] pc = "undefined" -> "undefined"
    [] pc \in Stages \ {"done", "undefined"} -> "open"

(* What makes the age of the output unknown, see FreshOutput. *)
Mixups == {"encryption", "overrun"}

Stream == INSTANCE ByteStream WITH
  request  <- cfg.bytes,
  out      <- emitted,
  returned <- result,
  status   <- StreamStatus,
  lost     <- incidents \intersect Losses # {},
  stale    <- incidents \intersect Mixups # {}

(* Whatever the threads, the repairs and the failures do inside, outside   *)
(* generate() is a stream: pieces leave in the order of generation, never  *)
(* more than the amount, and what it returns is the amount unless there    *)
(* was a loss.                                                             *)
ImplementsStream == Stream!Spec
=============================================================================
