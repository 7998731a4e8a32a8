--------------------------- MODULE ChunkPlanProofs ---------------------------
(***************************************************************************)
(* What compute_chunk_size() computes, for every request, every number of  *)
(* threads and every value of the constants: the rounds and the ending     *)
(* together are the request, and the ending is smaller than a round.       *)
(***************************************************************************)
EXTENDS ChunkPlan, TLAPS

(* Integer division by a positive number: the plan only divides by        *)
(* threads, by a round's blocks and by sizeof(uint64_t).                   *)
LEMMA DivMod ==
  ASSUME NEW a \in Nat, NEW b \in Nat, b >= 1
  PROVE  /\ a \div b \in Nat
         /\ a % b \in Nat
         /\ a % b < b
         /\ a = b * (a \div b) + (a % b)
  BY SMT

(* The remainder is the only one with its defining property: what          *)
(* config->ending_bytes is computed with.                                  *)
LEMMA ModUnique ==
  ASSUME NEW a \in Nat, NEW d \in Nat, d >= 1,
         NEW q \in Nat, NEW r \in Nat, r < d, a = d * q + r
  PROVE  a % d = r
  BY SMT

(* Products of naturals are naturals, and positive factors do not shrink   *)
(* (the sizes of rounds and of the whole plan are such products).          *)
LEMMA ProductBounds ==
  ASSUME NEW a \in Nat, NEW b \in Nat
  PROVE  /\ a * b \in Nat
         /\ (a >= 1 /\ b >= 1) => (a * b >= a /\ a * b >= b)
  BY SMT

(* config->blocks is a natural number and accounts for all but the last    *)
(* few bytes of the request.                                               *)
LEMMA BlocksType ==
  ASSUME NEW bytes \in Nat
  PROVE  /\ Blocks(bytes) \in Nat
         /\ bytes % WORD \in Nat
         /\ bytes % WORD < WORD
         /\ bytes = WORD * Blocks(bytes) + (bytes % WORD)
  BY DivMod, WordAssumption DEF Blocks

(* A chunk never exceeds MAX_CHUNK_SIZE, and one chunk per thread never    *)
(* exceeds the request.                                                    *)
LEMMA ChunkSizeType ==
  ASSUME NEW bytes \in Nat, NEW threads \in Nat, threads >= 1
  PROVE  /\ ChunkSize(bytes, threads) \in 0..MAX_CHUNK_SIZE
         /\ RoundSize(bytes, threads) \in Nat
         /\ bytes # 0 => RoundSize(bytes, threads) <= Blocks(bytes)
         /\ ChunkSize(bytes, threads) # 0 => RoundSize(bytes, threads) >= 1
<1> DEFINE share == Blocks(bytes) \div threads
           cs    == ChunkSize(bytes, threads)
<1>1. share \in Nat /\ threads * share <= Blocks(bytes)
  <2>1. Blocks(bytes) \in Nat
    BY BlocksType
  <2>2. /\ share \in Nat
        /\ Blocks(bytes) % threads \in Nat
        /\ Blocks(bytes) = threads * share + (Blocks(bytes) % threads)
    BY <2>1, DivMod
  <2>3. threads * share \in Nat
    BY <2>2, ProductBounds
  <2> QED
    BY <2>1, <2>2, <2>3
<1>2. cs \in 0..MAX_CHUNK_SIZE /\ (bytes # 0 => cs <= share)
  BY <1>1, ChunkAssumption DEF ChunkSize, AtMost
<1>3. cs \in Nat
  BY <1>2, ChunkAssumption
<1>4. bytes # 0 => cs * threads <= threads * share
  BY <1>1, <1>2, <1>3
<1>5. cs * threads \in Nat /\ (cs # 0 => cs * threads >= 1)
  BY <1>3, ProductBounds
<1> QED
  BY <1>1, <1>2, <1>4, <1>5, BlocksType DEF RoundSize

(* The plan of a request that is cut into chunks: at least one round; the  *)
(* ending is what is missing to the request, and less than a round.        *)
LEMMA ChunkedPlan ==
  ASSUME NEW bytes \in Nat, NEW threads \in Nat, threads >= 1,
         bytes # 0, ChunkSize(bytes, threads) # 0
  PROVE  LET D  == RoundSize(bytes, threads)
             cc == ChunkCount(bytes, threads)
             e  == EndingBytes(bytes, threads)
         IN  /\ cc \in Nat /\ cc >= 1
             /\ e \in Nat /\ e < WORD * D
             /\ bytes = WORD * (D * cc) + e
<1> DEFINE D  == RoundSize(bytes, threads)
           cc == ChunkCount(bytes, threads)
           e  == EndingBytes(bytes, threads)
           r  == Blocks(bytes) % D
           b  == bytes % WORD
<1>1. D \in Nat /\ D >= 1 /\ D <= Blocks(bytes) /\ Blocks(bytes) \in Nat
  BY ChunkSizeType, BlocksType
<1>2. cc = Blocks(bytes) \div D
  BY DEF ChunkCount
<1>3. cc \in Nat /\ r \in Nat /\ r < D /\ Blocks(bytes) = D * cc + r
  <2> HIDE DEF D, cc
  <2>1. /\ Blocks(bytes) \div D \in Nat /\ r \in Nat /\ r < D
        /\ Blocks(bytes) = D * (Blocks(bytes) \div D) + r
    BY <1>1, DivMod
  <2> QED
    BY <1>2, <2>1
<1>4. cc >= 1
  <2>1. cc = 0 => Blocks(bytes) = r
    BY <1>1, <1>3
  <2> QED
    BY <2>1, <1>1, <1>3
<1>5. b \in Nat /\ b < WORD /\ bytes = WORD * Blocks(bytes) + b
  BY BlocksType
<1> HIDE DEF D, cc, r, b
<1>6. WORD * r + b \in Nat /\ WORD * r + b < WORD * D
  <2>1. WORD * r \in Nat /\ WORD * r + WORD = WORD * (r + 1)
    BY <1>3, WordAssumption
  <2>2. WORD * (r + 1) <= WORD * D
    BY <1>1, <1>3, WordAssumption
  <2>3. WORD * (r + 1) \in Nat /\ WORD * D \in Nat
    BY <1>1, <1>3, WordAssumption, ProductBounds
  <2> QED
    BY <2>1, <2>2, <2>3, <1>5, WordAssumption
<1>7. bytes = WORD * (D * cc) + (WORD * r + b)
  <2>1. WORD * (D * cc + r) = WORD * (D * cc) + WORD * r
    BY <1>1, <1>3, WordAssumption
  <2>2. /\ D * cc \in Nat /\ WORD * (D * cc) \in Nat
        /\ WORD * r \in Nat
    BY <1>1, <1>3, WordAssumption, ProductBounds
  <2> QED
    BY <2>1, <2>2, <1>3, <1>5
<1>8. e = WORD * r + b
  <2> DEFINE d == D * cc * WORD
  <2>1. e = bytes % d
    BY DEF EndingBytes, D, cc
  <2>2. d = WORD * (D * cc) /\ d \in Nat
    BY <1>1, <1>3, WordAssumption, ProductBounds
  <2>3. d >= WORD * D
    <3>1. D * cc >= D /\ D * cc \in Nat
      BY <1>1, <1>3, <1>4, ProductBounds
    <3> QED
      BY <3>1, <2>2, <1>1, WordAssumption
  <2>4. d >= 1
    BY <2>2, <2>3, <1>1, <1>6, WordAssumption
  <2> HIDE DEF d
  <2>5. WORD * r + b < d
    BY <1>6, <2>3, <2>2, <1>1, WordAssumption, ProductBounds
  <2>6. bytes = d * 1 + (WORD * r + b)
    BY <1>7, <2>2
  <2> QED
    BY <2>1, <2>2, <2>4, <2>5, <2>6, <1>6, ModUnique
<1> QED
  BY <1>3, <1>4, <1>6, <1>7, <1>8 DEF D, cc

(* The fields that compute_chunk_size() stores are natural numbers.        *)
THEOREM PlanTypes ==
  ASSUME NEW bytes \in Nat, NEW threads \in Nat, threads >= 1
  PROVE  /\ ChunkSize(bytes, threads) \in 0..MAX_CHUNK_SIZE
         /\ RoundSize(bytes, threads) \in Nat
         /\ ChunkCount(bytes, threads) \in Nat
         /\ EndingBytes(bytes, threads) \in Nat
<1>1. CASE ChunkSize(bytes, threads) = 0 \/ bytes = 0
  BY <1>1, ChunkSizeType DEF ChunkCount, EndingBytes
<1>2. CASE ChunkSize(bytes, threads) # 0 /\ bytes # 0
  BY <1>2, ChunkSizeType, ChunkedPlan
<1> QED
  BY <1>1, <1>2

(* compute_chunk_size() loses no byte and invents none: the full rounds    *)
(* and the ending add up to the request, for every request and every       *)
(* number of threads; and the ending, which one thread generates, is       *)
(* always less than one round (or one block per thread when there is no    *)
(* round at all).                                                          *)
THEOREM PlanExact ==
  ASSUME NEW bytes \in Nat, NEW threads \in Nat, threads >= 1, bytes # 0
  PROVE  /\ bytes = WORD * (RoundSize(bytes, threads) * ChunkCount(bytes, threads))
                    + EndingBytes(bytes, threads)
         /\ ChunkSize(bytes, threads) # 0 =>
              EndingBytes(bytes, threads) < WORD * RoundSize(bytes, threads)
<1>1. CASE ChunkSize(bytes, threads) = 0
  <2>1. ChunkCount(bytes, threads) = 0 /\ EndingBytes(bytes, threads) = bytes
    BY <1>1 DEF ChunkCount, EndingBytes
  <2> QED
    BY <1>1, <2>1, ChunkSizeType, WordAssumption
<1>2. CASE ChunkSize(bytes, threads) # 0
  BY <1>2, ChunkedPlan
<1> QED
  BY <1>1, <1>2
=============================================================================
