------------------------------ MODULE ChunkPlan ------------------------------
(***************************************************************************)
(* How rdrand-gen cuts a request into chunks: compute_chunk_size() of      *)
(* src/rdrand-gen.c.  The request is a number of bytes; the generator      *)
(* works in rounds, each round filling one chunk per thread; whatever does *)
(* not fill a round is left for a single-threaded ending.                  *)
(*                                                                         *)
(* Sizes are mathematical integers here: the divisions only shrink, so no  *)
(* intermediate value exceeds the request and size_t cannot overflow.      *)
(***************************************************************************)
EXTENDS CTypes

CONSTANTS
  MAX_CHUNK_SIZE   \* blocks in the largest chunk, 2048 in the code

ASSUME ChunkAssumption == MAX_CHUNK_SIZE \in Nat /\ MAX_CHUNK_SIZE >= 1

AtMost(x, bound) == IF x > bound THEN bound ELSE x

(* config->blocks *)
Blocks(bytes) == bytes \div WORD

ChunkSizeUncapped(bytes, threads) ==
  IF bytes = 0 THEN MAX_CHUNK_SIZE ELSE Blocks(bytes) \div threads

(* config->chunk_size, in blocks.  A request of 0 bytes means "unlimited". *)
ChunkSize(bytes, threads) ==
  IF bytes = 0
  THEN MAX_CHUNK_SIZE
  ELSE AtMost(Blocks(bytes) \div threads, MAX_CHUNK_SIZE)

(* Blocks that one round of all threads fills. *)
RoundSize(bytes, threads) == ChunkSize(bytes, threads) * threads

ChunkCountRoundsUp(bytes, threads) ==
  IF bytes = 0 \/ ChunkSize(bytes, threads) = 0
  THEN 0
  ELSE (Blocks(bytes) \div RoundSize(bytes, threads)) + 1

(* config->chunk_count: the number of full rounds in the request. *)
ChunkCount(bytes, threads) ==
  IF bytes = 0 \/ ChunkSize(bytes, threads) = 0
  THEN 0
  ELSE Blocks(bytes) \div RoundSize(bytes, threads)

EndingInBlocks(bytes, threads) ==
  IF ChunkSize(bytes, threads) = 0 \/ bytes = 0
  THEN bytes
  ELSE Blocks(bytes) % (RoundSize(bytes, threads) * ChunkCount(bytes, threads))

(* config->ending_bytes: what the full rounds leave over. *)
EndingBytes(bytes, threads) ==
  IF ChunkSize(bytes, threads) = 0 \/ bytes = 0
  THEN bytes
  ELSE bytes % (RoundSize(bytes, threads) * ChunkCount(bytes, threads) * WORD)
=============================================================================
