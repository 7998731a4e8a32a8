---------------------------- MODULE MCRdRandCalls ----------------------------
(***************************************************************************)
(* RdRandCalls for TLC, with words of 8 bytes as in the code.  The default *)
(* retry limit is 2 instead of 10 and reseed_skip throws 2 values away     *)
(* instead of 1024; unsigned int has 32 values.                            *)
(***************************************************************************)
EXTENDS RdRandCalls

CallOf(fn, first, count, limit) ==
  [fn |-> fn, first |-> first, count |-> count, limit |-> limit]

(* Every alignment; no byte, less than a word, whole words and odd bytes;  *)
(* more bytes than unsigned int has values; retry limits that stand for    *)
(* the default, for no retry and for more than the default.                *)
AllCalls ==
  { CallOf(fn, 4, 1, limit) : fn \in Singles, limit \in {-1, 0, 1, 3} } \union
  { CallOf("uint8_array", 3, count, -1) : count \in {0, 5, 8, 20} } \union
  { CallOf("uint16_array", 2, count, -1) : count \in 0..9 } \union
  { CallOf("uint32_array", 4, count, -1) : count \in 0..5 } \union
  { CallOf(fn, 0, count, limit) :
      fn \in {"uint64_array"} \union Reseeds, count \in 0..3, limit \in {-1, 3} } \union
  { CallOf("get_bytes", first, count, -1) :
      first \in 0..7, count \in {0, 3, 7, 8, 9, 15, 16, 24, 27} } \union
  { CallOf("get_bytes", first, count, 0) : first \in {0, 5}, count \in {33, 40, 45} } \union
  { CallOf("fwrite", 0, count, limit) : count \in {0, 3, 8, 19}, limit \in {-1, 0, 3} }

FwriteCalls == { CallOf("fwrite", 0, 16, -1) }
RetryCalls  == { CallOf("uint16", 0, 1, 3) }
=============================================================================
