----------------------------- MODULE MCGenerate -----------------------------
(***************************************************************************)
(* Generate for TLC.  A block is 2 bytes instead of 8 and a chunk at most  *)
(* 1 to 4 blocks instead of 2048; the AES buffer is 4 bytes and a key      *)
(* serves 8, in the proportions of the code (2048 and 4096).               *)
(***************************************************************************)
EXTENDS GenerateStream

Request(b, t, m, k) == [bytes |-> b, threads |-> t, method |-> m, keys |-> k]

(* Without AES: no chunk at all, one round, several rounds, an ending of   *)
(* whole blocks and of odd bytes; one thread with chunks of 1 to 3 blocks  *)
(* for the slow path; several rounds in several threads, which underflows  *)
(* give up one by one.                                                     *)
PlainRequests ==
  { Request(b, 1, "get_bytes", "none") : b \in {1, 2, 6, 9, 13, 21} } \union
  { Request(b, 2, "get_bytes", "none") : b \in {3, 9, 12, 25} } \union
  { Request(b, 3, "get_bytes", "none") : b \in {7, 13} } \union
  { Request(b, t, "reseed_skip", "none") : b \in {6, 14}, t \in {1, 2} } \union
  { Request(39, 3, "reseed_delay", "none") }

(* With AES: buffers smaller than one AES buffer, of exactly one, of       *)
(* several and a tail; up to three rounds and the one that drains.         *)
AesRequests ==
  { Request(b, t, "get_bytes", k) :
      b \in {1, 2, 9, 13}, t \in {1, 2}, k \in {"given", "generated"} } \union
  { Request(25, 2, "reseed_delay", "generated") }

AllRequests == PlainRequests \union AesRequests

(* Requests without an end. *)
InfiniteRequests ==
  { Request(0, t, "get_bytes", k) : t \in {1, 2}, k \in Keys }

InfinitePlain   == { Request(0, 2, "get_bytes", "none") }
OneThread       == { Request(8, 1, "get_bytes", "none") }
GivenKeys       == { Request(18, 2, "get_bytes", "given") }
ReseedOddEnding == { Request(9, 2, "reseed_delay", "none") }

(* The largest request and its rounds. *)
MCTotals == 0..39

SomeDraws == {0, 3, MAX_BUFFER_SIZE, MAX_COUNTER}
=============================================================================
