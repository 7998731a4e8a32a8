------------------------------- MODULE CTypes -------------------------------
(***************************************************************************)
(* The widths of the C types that the sizes and counters of the program    *)
(* live in.  They are parameters, so that small instances can reach the    *)
(* boundaries.                                                             *)
(***************************************************************************)
EXTENDS Integers

CONSTANTS
  WORD,        \* sizeof(uint64_t), 8: the bytes of one block
  UINT_RANGE   \* number of values of unsigned int, 2^32

ASSUME WordAssumption == WORD \in Nat /\ WORD >= 1
ASSUME UintAssumption == UINT_RANGE \in Nat /\ UINT_RANGE >= 2
=============================================================================
