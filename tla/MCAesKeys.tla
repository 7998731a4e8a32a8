------------------------------ MODULE MCAesKeys ------------------------------
(***************************************************************************)
(* AesKeys for TLC.  A buffer is 4 bytes and a key serves 8, in the        *)
(* proportions of the code.  Key lengths are those of the code: below, at  *)
(* and above the limits, and not a power of two.                           *)
(***************************************************************************)
EXTENDS AesKeys

SomeDraws      == {0, 3, MAX_COUNTER}
SomeAmounts    == {0, 1, 2}
SomeKeyLengths == {4, 12, 16}
SomeLengths    == {3, 4, 9}
TailsOnly      == {3}

(* isPowerOfTwo() finds the powers of two. *)
ASSUME PowersOfTwo ==
  \A x \in 0..256 : IsPowerOfTwo(x) <=> x \in {2^k : k \in 0..8}
=============================================================================
