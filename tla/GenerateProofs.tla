--------------------------- MODULE GenerateProofs ---------------------------
(***************************************************************************)
(* Theorems about the generator loop, for all requests and all sizes: the  *)
(* types, and that the output never exceeds the request.                   *)
(***************************************************************************)
EXTENDS Generate, ChunkPlanProofs, FiniteSetTheorems

-----------------------------------------------------------------------------
(* The functions the loop calls.                                           *)

(* A filling call sets finitely many bytes, so what it returns is a number *)
(* (rdrand_get_uint64_array_retry and rdrand_get_uint8_array_retry).       *)
LEMMA SpanFinite ==
  ASSUME NEW first \in Int, NEW count \in Int
  PROVE  IsFiniteSet(Span(first, count))
  BY FS_Interval DEF Span

LEMMA ArrayFillsFinite ==
  ASSUME NEW first \in Int, NEW count \in Int
  PROVE  /\ \A F \in Uint64ArrayFills(first, count) : IsFiniteSet(F)
         /\ count \in Nat => \A F \in Uint8ArrayFills(first, count) : IsFiniteSet(F)
<1>1. \A k \in 0..count : IsFiniteSet(Span(first, WORD * k))
  BY SpanFinite, WordAssumption
<1>2. ASSUME count \in Nat
      PROVE  \A k \in 0..(count \div WORD) :
                IsFiniteSet(Span(first, (count % WORD) + WORD * k))
  BY <1>2, SpanFinite, DivMod, WordAssumption
<1> QED
  BY <1>1, <1>2, FS_EmptySet DEF Uint64ArrayFills, Uint8ArrayFills

(* generate_with_metod(): its result is a number whatever the method. *)
LEMMA FillsFinite ==
  ASSUME NEW method, NEW first \in Nat, NEW size \in Nat,
         NEW F \in Fills(method, first, size)
  PROVE  IsFiniteSet(F) /\ Cardinality(F) \in Nat
<1> DEFINE offset == Offset(first, size)
           words  == AlignedBytes(first, size) \div WORD
           rest   == AlignedBytes(first, size) % WORD
<1>1. offset \in Nat /\ size - offset \in Nat
  <2>1. first % WORD \in Nat /\ first % WORD < WORD
    BY DivMod, WordAssumption
  <2> QED
    BY <2>1, WordAssumption DEF Offset
<1>2. words \in Nat /\ rest \in Nat
  <2>1. AlignedBytes(first, size) = (size - offset) % UINT_RANGE
    BY DEF AlignedBytes, offset
  <2> HIDE DEF offset
  <2>2. AlignedBytes(first, size) \in Nat
    BY <1>1, <2>1, DivMod, UintAssumption
  <2> QED
    BY <2>2, DivMod, WordAssumption
<1> HIDE DEF offset, words, rest
<1>3. ASSUME F \in GetBytesFills(first, size)
      PROVE  IsFiniteSet(F)
  <2>1. PICK head \in Uint8ArrayFills(first, offset),
             middle \in Uint64ArrayFills(first + offset, words),
             tail \in Uint8ArrayFills(first + offset + WORD * words, rest) :
               F = head \union middle \union tail
    BY <1>3 DEF GetBytesFills, offset, words, rest
  <2>2. IsFiniteSet(head) /\ IsFiniteSet(middle) /\ IsFiniteSet(tail)
    BY <1>1, <1>2, ArrayFillsFinite, WordAssumption
  <2> QED
    BY <2>1, <2>2, FS_Union
<1>4. size \div WORD \in Nat
  BY DivMod, WordAssumption
<1>5. IsFiniteSet(F)
  BY <1>3, <1>4, SpanFinite, ArrayFillsFinite, WordAssumption DEF Fills
<1> QED
  BY <1>5, FS_CardinalityType

(* counter() keeps next_counter between 0 and MAX_COUNTER. *)
LEMMA CounterType ==
  ASSUME NEW keys, NEW next \in 0..MAX_COUNTER, NEW num \in Nat,
         NEW c \in Counter(keys, next, num)
  PROVE  c.next \in 0..MAX_COUNTER
<1>1. CASE ~MustChangeKey(next, num)
  <2>1. c = [ok |-> FALSE, next |-> next - num]
    BY <1>1 DEF Counter
  <2>2. c.next = next - num
    BY <2>1
  <2> QED
    BY <1>1, <2>2, CounterAssumption DEF MustChangeKey
<1>2. CASE MustChangeKey(next, num) /\ keys = "given"
  <2>1. c = [ok |-> TRUE, next |-> MAX_COUNTER]
    BY <1>2 DEF Counter
  <2>2. c.next = MAX_COUNTER
    BY <2>1
  <2> QED
    BY <2>2, CounterAssumption
<1>3. CASE MustChangeKey(next, num) /\ keys # "given"
  <2>1. c \in [ok : CryptoResults, next : RandomizedCounts(next)]
    BY <1>3 DEF Counter
  <2>2. c.next \in RandomizedCounts(next)
    BY <2>1
  <2> QED
    BY <2>2, DrawsAssumption DEF RandomizedCounts
<1> QED
  BY <1>1, <1>2, <1>3

-----------------------------------------------------------------------------
(* The plan of the request that the loop serves.                           *)

(* Whatever request is served, its plan consists of natural numbers, and   *)
(* the current threads fill at most what the arrays were declared with.    *)
LEMMA PlanFacts ==
  ASSUME cfg \in Requests
  PROVE  /\ cfg.bytes \in Nat
         /\ cfg.threads \in Nat /\ cfg.threads >= 1
         /\ cfg.keys \in Keys
         /\ chunk_size \in Nat
         /\ chunk_count \in Nat
         /\ ending_bytes \in Nat
         /\ RoundSize(cfg.bytes, cfg.threads) \in Nat
         /\ RoundSize(cfg.bytes, cfg.threads) = chunk_size * cfg.threads
         /\ buf_size_bytes \in Nat
         /\ aes_thread \in {0, 1}
<1>1. cfg.bytes \in Nat /\ cfg.threads \in Nat /\ cfg.threads >= 1 /\ cfg.keys \in Keys
  BY RequestsAssumption
<1>2. /\ chunk_size \in Nat
      /\ chunk_count \in Nat
      /\ ending_bytes \in Nat
      /\ RoundSize(cfg.bytes, cfg.threads) \in Nat
  <2>1. /\ ChunkSize(cfg.bytes, cfg.threads) \in 0..MAX_CHUNK_SIZE
        /\ RoundSize(cfg.bytes, cfg.threads) \in Nat
        /\ ChunkCount(cfg.bytes, cfg.threads) \in Nat
        /\ EndingBytes(cfg.bytes, cfg.threads) \in Nat
    BY <1>1, PlanTypes
  <2> QED
    BY <2>1, ChunkAssumption DEF chunk_size, chunk_count, ending_bytes
<1>3. RoundSize(cfg.bytes, cfg.threads) = chunk_size * cfg.threads
  BY DEF RoundSize, chunk_size
<1>4. buf_size_bytes \in Nat
  BY <1>2, WordAssumption, ProductBounds DEF buf_size_bytes
<1> QED
  BY <1>1, <1>2, <1>3, <1>4 DEF aes_thread

(* buf_size never exceeds the number of blocks in the arrays, however many *)
(* threads were given up.                                                  *)
LEMMA RoundFits ==
  ASSUME cfg \in Requests, threads \in 1..cfg.threads,
         buf_size = chunk_size * threads
  PROVE  /\ buf_size \in Nat
         /\ buf_size <= RoundSize(cfg.bytes, cfg.threads)
         /\ buf_size >= 1 => buf_size_bytes >= 1
<1>1. /\ chunk_size \in Nat /\ threads \in Nat /\ threads <= cfg.threads
      /\ cfg.threads \in Nat
      /\ RoundSize(cfg.bytes, cfg.threads) = chunk_size * cfg.threads
      /\ RoundSize(cfg.bytes, cfg.threads) \in Nat
  BY PlanFacts
<1>2. chunk_size * threads <= chunk_size * cfg.threads /\ chunk_size * threads \in Nat
  BY <1>1
<1>3. RoundSize(cfg.bytes, cfg.threads) >= 1 => buf_size_bytes >= 1
  BY <1>1, WordAssumption, ProductBounds DEF buf_size_bytes
<1> QED
  BY <1>1, <1>2, <1>3

-----------------------------------------------------------------------------
(* Setting bytes of a buffer, and copying bytes of one to another, yields  *)
(* a buffer (the stores of the library and of EVP_EncryptUpdate()).        *)
LEMMA BufferStores ==
  ASSUME NEW S, NEW dest \in [S -> Nat], NEW src \in [S -> Nat],
         NEW tag \in Nat, NEW where
  PROVE  /\ Overlay(dest, where, tag) \in [S -> Nat]
         /\ Copied(dest, src, where) \in [S -> Nat]
  BY DEF Overlay, Copied

(* The history of incidents stays within its type.                         *)
LEMMA IncidentType ==
  ASSUME incidents \subseteq Incidents, NEW cond, NEW what \in Incidents,
         Incident(cond, what)
  PROVE  incidents' \subseteq Incidents
  BY DEF Incident

(* Incrementing, decrementing and incrementing an unsigned int keeps it in *)
(* its range.                                                              *)
LEMMA CounterInRange ==
  ASSUME NEW x \in 0..(UINT_RANGE - 1)
  PROVE  /\ Increment(x) \in 0..(UINT_RANGE - 1)
         /\ Redo(x) = x
         /\ x + 1 < UINT_RANGE => Increment(x) = x + 1
<1>1. Increment(x) \in 0..(UINT_RANGE - 1)
  BY UintAssumption, DivMod DEF Increment
<1>2. x + 1 < UINT_RANGE => Increment(x) = x + 1
  BY UintAssumption DEF Increment
<1>3. Redo(x) = x
  <2>1. CASE x = 0
    <3>1. (x - 1) % UINT_RANGE = UINT_RANGE - 1
      BY <2>1, UintAssumption
    <3> QED
      BY <3>1, <2>1, UintAssumption DEF Redo, Increment
  <2>2. CASE x # 0
    <3>1. (x - 1) % UINT_RANGE = x - 1
      BY <2>2, UintAssumption
    <3> QED
      BY <3>1, UintAssumption DEF Redo, Increment
  <2> QED
    BY <2>1, <2>2
<1> QED
  BY <1>1, <1>2, <1>3

-----------------------------------------------------------------------------
(* Type correctness.                                                       *)

(* generate() starts with typed variables. *)
LEMMA InitType == Init => TypeOK
<1> SUFFICES ASSUME Init PROVE TypeOK
  OBVIOUS
<1>1. cfg \in Requests
  BY DEF Init
<1>2. /\ threads \in 1..cfg.threads
      /\ buf_size = chunk_size * threads
  BY <1>1, PlanFacts DEF Init
<1>3. mem \in [Buffers -> [0..(buf_size_bytes - 1) -> Nat]]
  BY DEF Init
<1>4. next_counter \in 0..MAX_COUNTER
  BY CounterAssumption DEF Init, FirstCounter
<1> QED
  BY <1>1, <1>2, <1>3, <1>4, UintAssumption, LimitAssumption
     DEF Init, TypeOK, Stages, Buffers, Incidents

(* The plan does not change while the request does not. *)
LEMMA PlanFixed ==
  ASSUME cfg' = cfg
  PROVE  /\ chunk_size' = chunk_size
         /\ chunk_count' = chunk_count
         /\ ending_bytes' = ending_bytes
         /\ buf_size_bytes' = buf_size_bytes
         /\ aes_thread' = aes_thread
         /\ Aes' = Aes
         /\ Infinite' = Infinite
BY DEF chunk_size, chunk_count, ending_bytes, buf_size_bytes, aes_thread, Aes, Infinite

(* Entering and leaving the loop. *)
LEMMA LoopType ==
  ASSUME TypeOK, LoopEnter \/ LoopExit
  PROVE  TypeOK'
<1>1. cfg' = cfg
  BY DEF LoopEnter, LoopExit, config_vars
<1>2. CASE LoopEnter
  <2>1. todo' = 0..(threads + aes_thread - 1)
    BY <1>2 DEF LoopEnter
  <2>2. threads \in 1..cfg.threads /\ cfg \in Requests
    BY DEF TypeOK
  <2>3. cfg.threads \in Nat /\ aes_thread \in {0, 1}
    BY <2>2, PlanFacts
  <2>4. threads + aes_thread - 1 \in 0..cfg.threads
    BY <2>2, <2>3
  <2>5. todo' \subseteq 0..cfg.threads
    BY <2>1, <2>3, <2>4
  <2> QED
    BY <1>1, <1>2, <2>5, PlanFixed
       DEF TypeOK, LoopEnter, Stages, config_vars, buffers, output
<1>3. CASE LoopExit
  BY <1>1, <1>3, PlanFixed
     DEF TypeOK, LoopExit, Stages, config_vars, buffers, tasks, output
<1> QED
  BY <1>2, <1>3

(* The iterations of the parallel loop. *)
LEMMA TaskType ==
  ASSUME TypeOK, Task
  PROVE  TypeOK'
<1>1. PICK i \in 0..cfg.threads :
        \/ StartTask(i) \/ FillTask(i) \/ IdleTask(i)
        \/ EncryptChunk(i) \/ EncryptTail(i)
  BY DEF Task
<1>2. cfg' = cfg
  BY <1>1 DEF StartTask, FillTask, IdleTask, EncryptChunk, EncryptTail,
              FinishTask, config_vars
<1>3. CASE StartTask(i)
  BY <1>2, <1>3, PlanFixed
     DEF TypeOK, StartTask, config_vars, buffers, output
<1>4. CASE FillTask(i)
  <2>1. PICK filled \in Fills(cfg.method, TaskStart(i), WORD * chunk_size) :
          /\ mem' = [mem EXCEPT ![gen_current] = Overlay(@, filled, round)]
          /\ written' = written + (Cardinality(filled) \div WORD)
          /\ Incident(Cardinality(filled) # WORD * chunk_size, "short")
    BY <1>4 DEF FillTask
  <2>2. /\ TaskStart(i) \in Nat
        /\ WORD * chunk_size \in Nat
    <3>1. i \in Nat /\ chunk_size \in Nat
      BY PlanFacts DEF TypeOK
    <3>2. i * WORD \in Nat /\ WORD * chunk_size \in Nat
      BY <3>1, WordAssumption, ProductBounds
    <3> QED
      BY <3>1, <3>2, ProductBounds DEF TaskStart
  <2>3. Cardinality(filled) \in Nat
    BY <2>2, FillsFinite
  <2>4. written' \in Nat
    BY <2>1, <2>3, DivMod, WordAssumption DEF TypeOK
  <2>5. mem' \in [Buffers -> [0..(buf_size_bytes - 1) -> Nat]]
    <3>1. mem[gen_current] \in [0..(buf_size_bytes - 1) -> Nat]
      BY DEF TypeOK
    <3>2. Overlay(mem[gen_current], filled, round) \in [0..(buf_size_bytes - 1) -> Nat]
      BY <3>1, BufferStores DEF TypeOK
    <3> QED
      BY <2>1, <3>2 DEF TypeOK
  <2>6. incidents' \subseteq Incidents
    BY <2>1, IncidentType DEF TypeOK, Incidents
  <2> QED
    BY <1>2, <1>4, <2>4, <2>5, <2>6, PlanFixed
       DEF TypeOK, FillTask, FinishTask, config_vars, output
<1>5. CASE IdleTask(i)
  BY <1>2, <1>5, PlanFixed
     DEF TypeOK, IdleTask, FinishTask, config_vars, output
<1>6. CASE EncryptChunk(i)
  <2> DEFINE where == Span(enc_pos * MAX_BUFFER_SIZE, MAX_BUFFER_SIZE)
  <2>1. PICK c \in Counter(cfg.keys, next_counter, MAX_BUFFER_SIZE),
             evp \in CryptoResults :
          /\ next_counter' = c.next
          /\ IF c.ok /\ evp
             THEN /\ mem' = [mem EXCEPT !["buf"] =
                               Copied(@, mem[gen_previous], where)]
                  /\ enc_pos' = enc_pos + 1
                  /\ UNCHANGED <<config_vars, output, todo, running, pc, n, first_run,
                                 retry, round, gen_current, gen_previous, incidents>>
             ELSE /\ Incident(TRUE, "encryption")
                  /\ FinishTask(i)
                  /\ UNCHANGED <<mem, enc_pos>>
    BY <1>6 DEF EncryptChunk
  <2>2. written' = written
    BY <1>6 DEF EncryptChunk
  <2>3. next_counter' \in 0..MAX_COUNTER
    BY <2>1, CounterType, CounterAssumption DEF TypeOK
  <2>4. Copied(mem["buf"], mem[gen_previous], where) \in [0..(buf_size_bytes - 1) -> Nat]
    BY BufferStores DEF TypeOK, Buffers
  <2>5. CASE c.ok /\ evp
    <3>1. /\ mem' = [mem EXCEPT !["buf"] = Copied(@, mem[gen_previous], where)]
          /\ enc_pos' = enc_pos + 1
          /\ UNCHANGED <<config_vars, output, todo, running, pc, n, first_run,
                         retry, round, gen_current, gen_previous, incidents>>
      BY <2>1, <2>5, Zenon
    <3>2. mem' \in [Buffers -> [0..(buf_size_bytes - 1) -> Nat]]
      BY <3>1, <2>4 DEF TypeOK
    <3> HIDE DEF where
    <3> QED
      BY <1>2, <2>2, <2>3, <3>1, <3>2, PlanFixed
         DEF TypeOK, config_vars, output
  <2>6. CASE ~(c.ok /\ evp)
    <3>1. incidents' \subseteq Incidents
      BY <2>1, <2>6, IncidentType DEF TypeOK, Incidents
    <3> QED
      BY <1>2, <2>1, <2>2, <2>3, <2>6, <3>1, PlanFixed
         DEF TypeOK, FinishTask, config_vars, output
  <2> QED
    BY <2>5, <2>6
<1>7. CASE EncryptTail(i)
  <2> DEFINE where == Span(enc_pos * MAX_BUFFER_SIZE, buf_size_bytes % MAX_BUFFER_SIZE)
  <2>1. \/ /\ mem' = [mem EXCEPT !["buf"] = Copied(@, mem[gen_previous], where)]
           /\ incidents' = incidents
        \/ Incident(TRUE, "encryption") /\ mem' = mem
    BY <1>7 DEF EncryptTail
  <2>2. mem' \in [Buffers -> [0..(buf_size_bytes - 1) -> Nat]]
    <3>1. Copied(mem["buf"], mem[gen_previous], where) \in [0..(buf_size_bytes - 1) -> Nat]
      BY BufferStores DEF TypeOK, Buffers
    <3> QED
      BY <2>1, <3>1 DEF TypeOK
  <2>3. incidents' \subseteq Incidents
    BY <2>1, IncidentType DEF TypeOK, Incidents
  <2> QED
    BY <1>2, <1>7, <2>2, <2>3, PlanFixed
       DEF TypeOK, EncryptTail, FinishTask, config_vars, output
<1> QED
  BY <1>1, <1>3, <1>4, <1>5, <1>6, <1>7

(* Handing a round on, after the join or after the slow path. *)
LEMMA HandOverType ==
  ASSUME TypeOK, HandOver
  PROVE  TypeOK'
<1>1. cfg' = cfg
  BY DEF HandOver, config_vars
<1>2. gen_current' \in Buffers /\ gen_previous' \in Buffers
  BY DEF HandOver, Swap, TypeOK
<1>3. n' \in 0..(UINT_RANGE - 1) /\ first_run' \in BOOLEAN /\ pc' \in Stages
  BY CounterInRange DEF HandOver, TypeOK, Stages
<1> QED
  BY <1>1, <1>2, <1>3, PlanFixed DEF HandOver, TypeOK, config_vars, tasks, output

(* Repairing a round: giving up a thread never takes the last one. *)
LEMMA RepairType ==
  ASSUME TypeOK,
         DropThread \/ EnterSlowPath \/ SlowRetry \/ SlowGiveUp
  PROVE  TypeOK'
<1>1. cfg' = cfg
  BY DEF DropThread, EnterSlowPath, SlowRetry, SlowGiveUp, config_vars
<1>2. CASE DropThread
  <2>1. threads' \in 1..cfg.threads
    <3>1. threads' = threads - 1 /\ threads # 1
      BY <1>2 DEF DropThread, LastThread
    <3>2. cfg.threads \in Nat /\ threads \in 1..cfg.threads
      BY PlanFacts DEF TypeOK
    <3> QED
      BY <3>1, <3>2
  <2>2. buf_size' = chunk_size * threads'
    <3>1. chunk_size \in Nat /\ threads \in Nat
      BY PlanFacts DEF TypeOK
    <3>2. buf_size' = chunk_size * threads - chunk_size /\ threads' = threads - 1
      BY <1>2 DEF DropThread, TypeOK
    <3> QED
      BY <3>1, <3>2
  <2>3. n' = n
    BY <1>2, CounterInRange DEF DropThread, TypeOK
  <2> QED
    BY <1>1, <1>2, <2>1, <2>2, <2>3, PlanFixed
       DEF DropThread, TypeOK, Stages, buffers, tasks, output
<1>3. CASE EnterSlowPath
  <2>1. retry' \in 0..SLOW_RETRY_LIMIT_CYCLES
    BY <1>3, LimitAssumption DEF EnterSlowPath
  <2> QED
    BY <1>1, <1>3, <2>1, PlanFixed
       DEF EnterSlowPath, TypeOK, Stages, config_vars, buffers, tasks, output
<1>4. CASE SlowRetry
  <2>1. PICK filled \in Fills(cfg.method, written, SlowRequest) :
          /\ \/ /\ mem' = [mem EXCEPT ![gen_current] = Overlay(@, filled, round)]
                /\ written' = written + (Cardinality(filled) \div WORD)
                /\ pc' = pc
             \/ /\ pc' = "undefined"
                /\ mem' = mem /\ written' = written
          /\ incidents' = incidents \union SlowIncidents(filled)
    BY <1>4 DEF SlowRetry
  <2>2. SlowRequest \in Nat
    <3>1. threads * chunk_size - written * WORD \in Int
      BY PlanFacts, WordAssumption DEF TypeOK
    <3> QED
      BY <3>1, UintAssumption DEF SlowRequest
  <2>3. Cardinality(filled) \in Nat
    BY <2>2, FillsFinite DEF TypeOK
  <2>4. written' \in Nat
    BY <2>1, <2>3, DivMod, WordAssumption DEF TypeOK
  <2>5. mem' \in [Buffers -> [0..(buf_size_bytes - 1) -> Nat]]
    <3>1. Overlay(mem[gen_current], filled, round) \in [0..(buf_size_bytes - 1) -> Nat]
      BY BufferStores DEF TypeOK
    <3> QED
      BY <2>1, <3>1 DEF TypeOK
  <2>6. incidents' \subseteq Incidents
    BY <2>1 DEF TypeOK, Incidents, SlowIncidents
  <2>7. retry' \in 0..SLOW_RETRY_LIMIT_CYCLES /\ pc' \in Stages
    <3>1. retry' = retry + 1 /\ retry < SLOW_RETRY_LIMIT_CYCLES
      BY <1>4 DEF SlowRetry, CountRetry
    <3>2. retry' \in 0..SLOW_RETRY_LIMIT_CYCLES
      BY <3>1, LimitAssumption DEF TypeOK
    <3>3. pc' \in Stages
      BY <2>1 DEF TypeOK, Stages
    <3> QED
      BY <3>2, <3>3
  <2> QED
    BY <1>1, <1>4, <2>4, <2>5, <2>6, <2>7, PlanFixed
       DEF SlowRetry, TypeOK, config_vars, tasks, output
<1>5. CASE SlowGiveUp
  <2>1. incidents' \subseteq Incidents
    BY <1>5, IncidentType DEF SlowGiveUp, TypeOK, Incidents
  <2> QED
    BY <1>1, <1>5, <2>1, PlanFixed
       DEF SlowGiveUp, TypeOK, Stages, config_vars, buffers, tasks, output
<1> QED
  BY <1>2, <1>3, <1>4, <1>5

(* fwrite() of a round. *)
LEMMA WriteChunkType ==
  ASSUME TypeOK, WriteChunk
  PROVE  TypeOK'
<1>1. cfg' = cfg
  BY DEF WriteChunk, config_vars
<1>2. PICK taken \in SinkTakes(buf_size) :
        /\ written' = taken
        /\ written_total' = written_total + taken
        /\ newest' = IF taken = 0 THEN newest ELSE mem["buf"][0]
        /\ IF taken = buf_size
           THEN pc' = "loop" /\ n' = Increment(n)
           ELSE pc' = "ending" /\ UNCHANGED n
        /\ Incident(taken # buf_size, "sink")
  BY DEF WriteChunk
<1>3. buf_size \in Nat /\ (buf_size >= 1 => buf_size_bytes >= 1) /\ buf_size_bytes \in Nat
  BY RoundFits, PlanFacts DEF TypeOK
<1>4. taken \in Nat /\ taken <= buf_size
  BY <1>3 DEF SinkTakes
<1>5. newest' \in Nat
  <2>1. taken # 0 => 0 \in 0..(buf_size_bytes - 1)
    BY <1>3, <1>4
  <2>2. taken # 0 => mem["buf"][0] \in Nat
    BY <2>1 DEF TypeOK, Buffers
  <2> QED
    BY <1>2, <2>2 DEF TypeOK
<1>6. n' \in 0..(UINT_RANGE - 1) /\ pc' \in Stages
  BY <1>2, CounterInRange DEF TypeOK, Stages
<1>7. incidents' \subseteq Incidents
  BY <1>2, IncidentType DEF TypeOK, Incidents
<1> QED
  BY <1>1, <1>2, <1>4, <1>5, <1>6, <1>7, PlanFixed
     DEF WriteChunk, TypeOK, config_vars, buffers, tasks

(* generate_ending(). *)
LEMMA EndingType ==
  ASSUME TypeOK, FillEnding \/ EncryptEnding \/ WriteEnding
  PROVE  TypeOK'
<1>1. cfg' = cfg /\ cfg \in Requests
  BY DEF FillEnding, EncryptEnding, WriteEnding, config_vars, TypeOK
<1>2. ending_bytes \in Nat /\ written_total * WORD \in Nat
  BY <1>1, PlanFacts, WordAssumption, ProductBounds DEF TypeOK
<1>3. CASE FillEnding
  <2>1. PICK filled \in Fills(cfg.method, 0, ending_bytes) :
          IF Cardinality(filled) = ending_bytes
          THEN /\ pc' = IF Aes THEN "encrypt ending" ELSE "write ending"
               /\ UNCHANGED <<result, incidents>>
          ELSE /\ pc' = "done"
               /\ result' = written_total * WORD + Cardinality(filled)
               /\ Incident(TRUE, "ending")
    BY <1>3 DEF FillEnding
  <2>2. Cardinality(filled) \in Nat
    BY <1>2, FillsFinite
  <2>3. result' \in Nat /\ pc' \in Stages
    <3>1. CASE Cardinality(filled) = ending_bytes
      BY <2>1, <3>1 DEF TypeOK, Stages
    <3>2. CASE Cardinality(filled) # ending_bytes
      <4>1. /\ pc' = "done"
            /\ result' = written_total * WORD + Cardinality(filled)
        BY <2>1, <3>2
      <4> QED
        BY <4>1, <1>2, <2>2 DEF Stages
    <3> QED
      BY <3>1, <3>2
  <2>4. incidents' \subseteq Incidents
    BY <2>1, IncidentType DEF TypeOK, Incidents
  <2> QED
    BY <1>1, <1>3, <2>3, <2>4, PlanFixed
       DEF FillEnding, TypeOK, config_vars, buffers
<1>4. CASE EncryptEnding
  <2>1. next_counter' \in 0..MAX_COUNTER
    <3>1. \/ \E c \in Counter(cfg.keys, next_counter, MAX_BUFFER_SIZE) :
                next_counter' = c.next
          \/ next_counter' = next_counter
      BY <1>4 DEF EncryptEnding
    <3> QED
      BY <3>1, CounterType, CounterAssumption DEF TypeOK
  <2>2. enc_pos' \in Nat /\ pc' \in Stages
    <3>1. /\ enc_pos' = enc_pos + 1 \/ enc_pos' = enc_pos
          /\ pc' = pc \/ pc' = "write ending"
      BY <1>4 DEF EncryptEnding
    <3>2. enc_pos \in Nat /\ pc \in Stages
      BY DEF TypeOK
    <3>3. enc_pos' \in Nat
      <4>1. enc_pos' = enc_pos + 1 \/ enc_pos' = enc_pos
        BY <3>1, Zenon
      <4>2. enc_pos \in Nat
        BY <3>2, Zenon
      <4>3. CASE enc_pos' = enc_pos
        BY <4>2, <4>3
      <4>4. CASE enc_pos' = enc_pos + 1
        BY <4>2, <4>4
      <4> QED
        BY <4>1, <4>3, <4>4
    <3>4. pc' \in Stages
      BY <3>1, <3>2 DEF Stages
    <3> QED
      BY <3>3, <3>4
  <2>3. incidents' \subseteq Incidents
    BY <1>4, IncidentType DEF EncryptEnding, TypeOK, Incidents
  <2> QED
    BY <1>1, <1>4, <2>1, <2>2, <2>3, PlanFixed
       DEF EncryptEnding, TypeOK, config_vars, buffers, output
<1>5. CASE WriteEnding
  <2>1. PICK taken \in SinkTakes(ending_bytes) :
          /\ ending_out' = taken
          /\ result' = written_total * WORD + taken
          /\ Incident(taken # ending_bytes, "sink")
    BY <1>5 DEF WriteEnding
  <2>2. taken \in Nat
    BY <1>2 DEF SinkTakes
  <2>3. ending_out' \in Nat /\ result' \in Nat
    BY <1>2, <2>1, <2>2
  <2>4. incidents' \subseteq Incidents
    BY <2>1, IncidentType DEF TypeOK, Incidents
  <2> QED
    BY <1>1, <1>5, <2>3, <2>4, PlanFixed
       DEF WriteEnding, TypeOK, Stages, config_vars, buffers, tasks
<1> QED
  BY <1>3, <1>4, <1>5

(* Whatever the hardware, the output, OpenSSL and the scheduler do, every  *)
(* variable of the generator loop keeps its type: threads never reaches 0, *)
(* the buffer pointers always point to buffers, and no call of the         *)
(* parallel loop writes outside the buffer it was given.                   *)
THEOREM TypeCorrect == Spec => []TypeOK
<1>1. Init => TypeOK
  BY InitType
<1>2. TypeOK /\ [Next]_vars => TypeOK'
  <2> SUFFICES ASSUME TypeOK, [Next]_vars
               PROVE  TypeOK'
    OBVIOUS
  <2>1. CASE LoopEnter \/ LoopExit
    BY <2>1, LoopType
  <2>2. CASE Task
    BY <2>2, TaskType
  <2>3. CASE ChunkReady \/ SlowDone
    BY <2>3, HandOverType DEF ChunkReady, SlowDone
  <2>4. CASE DropThread \/ EnterSlowPath \/ SlowRetry \/ SlowGiveUp
    BY <2>4, RepairType
  <2>5. CASE WriteChunk
    BY <2>5, WriteChunkType
  <2>6. CASE FillEnding \/ EncryptEnding \/ WriteEnding
    BY <2>6, EndingType
  <2>7. CASE UNCHANGED vars
    <3>1. cfg' = cfg
      BY <2>7 DEF vars, config_vars
    <3> QED
      BY <2>7, <3>1, PlanFixed DEF vars, config_vars, buffers, tasks, output, TypeOK
  <2> QED
    BY <2>1, <2>2, <2>3, <2>4, <2>5, <2>6, <2>7 DEF Next, Stopped
<1> QED
  BY <1>1, <1>2, PTL DEF Spec

-----------------------------------------------------------------------------
(* The output never exceeds the request.                                   *)

(* The round counter fits its C type for every request.  (Without this the *)
(* loop of generate_chunk() does not end.)                                 *)
NoRoundWrap ==
  \A r \in Requests : ChunkCount(r.bytes, r.threads) + 1 < UINT_RANGE

(* Arithmetic of the rounds of `full` blocks each. *)
LEMMA RoundArithmetic ==
  ASSUME NEW full \in Nat, NEW a \in Nat, NEW b \in Nat
  PROVE  /\ full * a \in Nat
         /\ a <= b => full * a <= full * b
         /\ full * (a + 1) = full * a + full
  BY SMT

(* What the invariant says about a state of a bounded request: the rounds  *)
(* counted are planned ones, and while a round is under way there is room  *)
(* for it in the plan.                                                     *)
LEMMA RoundsFacts ==
  ASSUME TypeOK, OutputAccounted, ~Infinite
  PROVE  LET full == RoundSize(cfg.bytes, cfg.threads)
         IN  /\ full \in Nat /\ chunk_count \in Nat /\ RoundsOut \in Nat
             /\ written_total <= full * chunk_count
             /\ (pc \in InLoop \ {"loop"} /\ ~(Aes /\ first_run))
                  => RoundsOut + 1 <= chunk_count
<1> DEFINE full == RoundSize(cfg.bytes, cfg.threads)
<1>1. full \in Nat /\ chunk_count \in Nat /\ n \in Nat /\ written_total \in Nat
  BY PlanFacts, UintAssumption DEF TypeOK
<1>2. RoundsOut \in Nat /\ RoundsOut <= chunk_count
  BY <1>1 DEF OutputAccounted, RoundsOut
<1>3. full * RoundsOut <= full * chunk_count /\ full * RoundsOut \in Nat
      /\ full * chunk_count \in Nat
  <2> HIDE DEF full
  <2> QED
    BY <1>1, <1>2, RoundArithmetic
<1>4. written_total <= full * chunk_count
  <2>1. CASE pc \in InLoop
    <3>1. written_total <= full * RoundsOut
      BY <2>1 DEF OutputAccounted
    <3> HIDE DEF full
    <3> QED
      BY <3>1, <1>1, <1>3
  <2>2. CASE pc \notin InLoop
    BY <2>2 DEF OutputAccounted
  <2> QED
    BY <2>1, <2>2
<1>5. (pc \in InLoop \ {"loop"} /\ ~(Aes /\ first_run)) => RoundsOut + 1 <= chunk_count
  BY <1>1 DEF OutputAccounted, RoundsOut, aes_thread
<1> QED
  BY <1>1, <1>2, <1>4, <1>5

(* A step that writes nothing, counts no round and stays where it was, or  *)
(* moves to the next stage of the same round, changes no account.          *)
LEMMA SameAccounts ==
  ASSUME TypeOK, OutputAccounted, ~Infinite,
         UNCHANGED <<cfg, n, first_run, written_total, ending_out>>,
         \/ pc' = pc
         \/ pc \in InLoop \ {"loop"} /\ pc' \in InLoop \ {"write"}
         \/ pc = "loop" /\ pc' = "parallel" /\ MoreRounds
         \/ pc # "done" /\ pc' \notin InLoop
  PROVE  OutputAccounted'
<1> DEFINE full == RoundSize(cfg.bytes, cfg.threads)
<1>1. /\ chunk_count' = chunk_count /\ ending_bytes' = ending_bytes
      /\ aes_thread' = aes_thread /\ (Aes <=> Aes') /\ Infinite' = Infinite
      /\ RoundsOut' = RoundsOut /\ full' = full
  BY PlanFixed DEF RoundsOut
<1>2. written_total <= full * chunk_count
  BY RoundsFacts
<1> HIDE DEF full
<1>3. CASE pc' = pc
  BY <1>1, <1>3 DEF OutputAccounted, full
<1>4. CASE pc \in InLoop \ {"loop"} /\ pc' \in InLoop \ {"write"}
  BY <1>1, <1>4 DEF OutputAccounted, full, InLoop
<1>5. CASE pc = "loop" /\ pc' = "parallel" /\ MoreRounds
  BY <1>1, <1>5 DEF OutputAccounted, full, InLoop, MoreRounds
<1>6. CASE pc # "done" /\ pc' \notin InLoop
  BY <1>1, <1>2, <1>6 DEF OutputAccounted, full, InLoop
<1> QED
  BY <1>3, <1>4, <1>5, <1>6

(* The first round with AES counts but leaves nothing to write. *)
LEMMA HandOverAccounts ==
  ASSUME TypeOK, OutputAccounted, NoRoundWrap, ~Infinite,
         pc \in {"parallel", "slow"}, HandOver
  PROVE  OutputAccounted'
<1> DEFINE full == RoundSize(cfg.bytes, cfg.threads)
<1>1. /\ cfg' = cfg /\ written_total' = written_total /\ ending_out' = ending_out
  BY DEF HandOver, config_vars, output
<1>2. /\ chunk_count' = chunk_count /\ ending_bytes' = ending_bytes
      /\ aes_thread' = aes_thread /\ (Aes <=> Aes') /\ Infinite' = Infinite
      /\ full' = full
  BY <1>1, PlanFixed
<1>3. /\ full \in Nat /\ chunk_count \in Nat
      /\ n \in 0..(UINT_RANGE - 1) /\ written_total \in Nat
      /\ chunk_count + 1 < UINT_RANGE
  BY PlanFacts DEF TypeOK, NoRoundWrap, chunk_count
<1>4. CASE Aes /\ first_run
  <2>1. /\ n' = Increment(n) /\ pc' = "loop" /\ first_run' = FALSE
    BY <1>4 DEF HandOver
  <2>2. n = 0 /\ written_total <= full * 0
    <3>1. n = 0 /\ RoundsOut = 0 /\ pc \in InLoop
      BY <1>4 DEF OutputAccounted, RoundsOut, InLoop
    <3> QED
      BY <3>1 DEF OutputAccounted
  <2>3. n' = 1
    <3>1. n + 1 < UINT_RANGE => Increment(n) = n + 1
      BY <1>3, CounterInRange
    <3> QED
      BY <3>1, <2>1, <2>2, UintAssumption
  <2>4. RoundsOut' = 0
    BY <1>2, <1>4, <2>1, <2>3 DEF RoundsOut
  <2> HIDE DEF full
  <2> QED
    BY <1>1, <1>2, <1>3, <1>4, <2>1, <2>2, <2>3, <2>4
       DEF OutputAccounted, full, InLoop
<1>5. CASE ~(Aes /\ first_run)
  <2>1. pc' = "write" /\ n' = n /\ first_run' = first_run
    BY <1>5 DEF HandOver
  <2>2. RoundsOut' = RoundsOut
    BY <1>2, <2>1 DEF RoundsOut
  <2> HIDE DEF full
  <2> QED
    BY <1>1, <1>2, <1>5, <2>1, <2>2 DEF OutputAccounted, full, InLoop
<1> QED
  BY <1>4, <1>5

(* Writing a round: it was still missing to the plan. *)
LEMMA WriteChunkAccounts ==
  ASSUME TypeOK, OutputAccounted, NoRoundWrap, ~Infinite, WriteChunk
  PROVE  OutputAccounted'
<1> DEFINE full == RoundSize(cfg.bytes, cfg.threads)
<1>1. /\ pc = "write" /\ cfg' = cfg /\ first_run' = first_run
      /\ ending_out' = ending_out
  BY DEF WriteChunk, config_vars
<1>2. /\ chunk_count' = chunk_count /\ ending_bytes' = ending_bytes
      /\ aes_thread' = aes_thread /\ (Aes <=> Aes') /\ Infinite' = Infinite
      /\ full' = full
  BY <1>1, PlanFixed
<1>3. /\ full \in Nat /\ chunk_count \in Nat
      /\ n \in 0..(UINT_RANGE - 1) /\ written_total \in Nat
      /\ chunk_count + 1 < UINT_RANGE
      /\ buf_size \in Nat /\ buf_size <= full
  BY PlanFacts, RoundFits DEF TypeOK, NoRoundWrap, chunk_count
<1>4. PICK taken \in SinkTakes(buf_size) :
        /\ written_total' = written_total + taken
        /\ \/ taken = buf_size /\ pc' = "loop" /\ n' = Increment(n)
           \/ pc' = "ending" /\ n' = n
  BY DEF WriteChunk
<1>5. taken \in Nat /\ taken <= full
  BY <1>3 DEF SinkTakes
<1>6. /\ ~(Aes /\ first_run)
      /\ RoundsOut \in Nat /\ RoundsOut + 1 <= chunk_count
      /\ written_total <= full * RoundsOut
      /\ n < chunk_count + aes_thread
  BY <1>1, RoundsFacts DEF OutputAccounted, InLoop
<1>7. written_total' <= full * (RoundsOut + 1)
  <2> HIDE DEF full
  <2>1. full * (RoundsOut + 1) = full * RoundsOut + full /\ full * RoundsOut \in Nat
    BY <1>3, <1>6, RoundArithmetic
  <2> QED
    BY <2>1, <1>3, <1>4, <1>5, <1>6
<1>8. full * (RoundsOut + 1) <= full * chunk_count
      /\ full * (RoundsOut + 1) \in Nat /\ full * chunk_count \in Nat
  <2> HIDE DEF full
  <2> QED
    BY <1>3, <1>6, RoundArithmetic
<1>9. written_total' <= full * chunk_count /\ written_total' \in Nat
  <2> HIDE DEF full
  <2> QED
    BY <1>3, <1>4, <1>5, <1>7, <1>8
<1>10. CASE pc' = "loop" /\ n' = Increment(n)
  <2>1. aes_thread \in {0, 1}
    BY DEF aes_thread
  <2>2. n' = n + 1
    <3>1. n + 1 < UINT_RANGE
      BY <1>3, <1>6, <2>1, UintAssumption
    <3>2. n + 1 < UINT_RANGE => Increment(n) = n + 1
      BY <1>3, CounterInRange
    <3> QED
      BY <1>10, <3>1, <3>2
  <2>3. RoundsOut' = RoundsOut + 1
    BY <1>1, <1>2, <1>3, <1>6, <2>2 DEF RoundsOut
  <2> HIDE DEF full
  <2> QED
    BY <1>1, <1>2, <1>3, <1>6, <1>7, <1>10, <2>2, <2>3
       DEF OutputAccounted, full, InLoop
<1>11. CASE pc' = "ending" /\ n' = n
  <2>1. RoundsOut' = RoundsOut
    BY <1>1, <1>2, <1>11 DEF RoundsOut
  <2> HIDE DEF full
  <2> QED
    BY <1>1, <1>2, <1>9, <1>11, <2>1 DEF OutputAccounted, full, InLoop
<1> QED
  BY <1>4, <1>10, <1>11

(* Writing the ending, which happens once. *)
LEMMA WriteEndingAccounts ==
  ASSUME TypeOK, OutputAccounted, ~Infinite, WriteEnding
  PROVE  OutputAccounted'
<1> DEFINE full == RoundSize(cfg.bytes, cfg.threads)
<1>1. /\ cfg' = cfg /\ pc = "write ending" /\ pc' = "done"
      /\ n' = n /\ first_run' = first_run /\ written_total' = written_total
  BY DEF WriteEnding, config_vars
<1>2. /\ chunk_count' = chunk_count /\ ending_bytes' = ending_bytes
      /\ aes_thread' = aes_thread /\ (Aes <=> Aes') /\ Infinite' = Infinite
      /\ RoundsOut' = RoundsOut /\ full' = full
  <2>1. /\ chunk_count' = chunk_count /\ ending_bytes' = ending_bytes
        /\ aes_thread' = aes_thread /\ (Aes <=> Aes') /\ Infinite' = Infinite
    <3>1. cfg' = cfg
      BY <1>1
    <3> QED
      BY <3>1, PlanFixed
  <2>2. RoundsOut' = RoundsOut
    BY <1>1, <2>1 DEF RoundsOut
  <2>3. full' = full
    BY <1>1
  <2> QED
    BY <2>1, <2>2, <2>3
<1>3. ending_out' \in 0..ending_bytes /\ ending_bytes \in Nat
  <2>1. ending_bytes \in Nat
    BY PlanFacts DEF TypeOK
  <2>2. ending_out' \in SinkTakes(ending_bytes)
    BY DEF WriteEnding
  <2> QED
    BY <2>1, <2>2 DEF SinkTakes
<1>4. ending_out' <= ending_bytes
  BY <1>3
<1> HIDE DEF full
<1> QED
  BY <1>1, <1>2, <1>4 DEF OutputAccounted, full, InLoop

(* The invariant behind the bound, for every request whose rounds the      *)
(* unsigned round counter can count: giving up threads, retrying, running  *)
(* one round behind with AES and stopping early never write a round that   *)
(* was not planned.                                                        *)
THEOREM Accounted ==
  ASSUME NoRoundWrap
  PROVE  Spec => []OutputAccounted
<1>1. Init => OutputAccounted
  <2> SUFFICES ASSUME Init PROVE OutputAccounted
    OBVIOUS
  <2>1. RoundSize(cfg.bytes, cfg.threads) \in Nat /\ chunk_count \in Nat
        /\ ending_bytes \in Nat
    BY PlanFacts DEF Init
  <2>2. RoundsOut = 0
    BY DEF Init, RoundsOut
  <2> QED
    BY <2>1, <2>2 DEF Init, OutputAccounted, InLoop
<1>2. TypeOK /\ OutputAccounted /\ [Next]_vars => OutputAccounted'
  <2> SUFFICES ASSUME TypeOK, OutputAccounted, [Next]_vars, ~Infinite'
               PROVE  OutputAccounted'
    BY DEF OutputAccounted
  <2>0. cfg' = cfg
    BY DEF Next, LoopEnter, LoopExit, Task, StartTask, FillTask, IdleTask,
           EncryptChunk, EncryptTail, FinishTask, ChunkReady, HandOver, DropThread,
           EnterSlowPath, SlowRetry, SlowDone, SlowGiveUp, WriteChunk, FillEnding,
           EncryptEnding, WriteEnding, Stopped, vars, config_vars
  <2>1. ~Infinite
    BY <2>0 DEF Infinite
  <2>2. CASE LoopEnter \/ LoopExit
    BY <2>1, <2>2, SameAccounts
       DEF LoopEnter, LoopExit, config_vars, output, InLoop
  <2>3. CASE Task
    <3>1. UNCHANGED <<cfg, n, first_run, written_total, ending_out, pc>>
      BY <2>3 DEF Task, StartTask, FillTask, IdleTask, EncryptChunk, EncryptTail,
                  FinishTask, config_vars, output
    <3> QED
      BY <2>1, <3>1, SameAccounts
  <2>4. CASE ChunkReady \/ SlowDone
    BY <2>1, <2>4, HandOverAccounts DEF ChunkReady, SlowDone, Joined
  <2>5. CASE DropThread \/ EnterSlowPath \/ SlowRetry \/ SlowGiveUp
    <3>1. UNCHANGED <<cfg, first_run, written_total, ending_out>>
      BY <2>0, <2>5 DEF DropThread, EnterSlowPath, SlowRetry, SlowGiveUp, output
    <3>2. n' = n
      BY <2>5, CounterInRange
         DEF DropThread, EnterSlowPath, SlowRetry, SlowGiveUp, TypeOK
    <3>3. \/ pc' = pc
          \/ pc \in InLoop \ {"loop"} /\ pc' \in InLoop \ {"write"}
          \/ pc # "done" /\ pc' \notin InLoop
      BY <2>5 DEF DropThread, EnterSlowPath, SlowRetry, SlowGiveUp, Joined, InLoop
    <3> QED
      BY <2>1, <3>1, <3>2, <3>3, SameAccounts
  <2>6. CASE WriteChunk
    BY <2>1, <2>6, WriteChunkAccounts
  <2>7. CASE FillEnding \/ EncryptEnding
    BY <2>0, <2>1, <2>7, SameAccounts
       DEF FillEnding, EncryptEnding, output, InLoop
  <2>8. CASE WriteEnding
    BY <2>1, <2>8, WriteEndingAccounts
  <2>9. CASE UNCHANGED vars
    BY <2>1, <2>9, SameAccounts DEF vars, config_vars, output
  <2> QED
    BY <2>2, <2>3, <2>4, <2>5, <2>6, <2>7, <2>8, <2>9 DEF Next, Stopped
<1> QED
  BY <1>1, <1>2, TypeCorrect, PTL DEF Spec

(* generate() never writes more bytes than were asked for, whatever fails, *)
(* as long as the round counter does not wrap.                             *)
THEOREM NeverTooMuch ==
  ASSUME NoRoundWrap
  PROVE  Spec => []OutputBounded
<1>1. TypeOK /\ OutputAccounted => OutputBounded
  <2> SUFFICES ASSUME TypeOK, OutputAccounted, ~Infinite
               PROVE  emitted <= cfg.bytes
    BY DEF OutputBounded
  <2> DEFINE full == RoundSize(cfg.bytes, cfg.threads)
  <2>1. /\ full \in Nat /\ chunk_count \in Nat
        /\ written_total <= full * chunk_count /\ written_total \in Nat
        /\ ending_out <= ending_bytes
        /\ ending_out \in Nat /\ ending_bytes \in Nat
    BY RoundsFacts, PlanFacts DEF TypeOK, OutputAccounted
  <2>2. cfg.bytes = WORD * (full * chunk_count) + ending_bytes
    BY PlanExact, PlanFacts DEF TypeOK, Infinite, chunk_count, ending_bytes
  <2> HIDE DEF full
  <2>3. /\ full * chunk_count \in Nat
        /\ written_total * WORD <= WORD * (full * chunk_count)
    BY <2>1, WordAssumption, ProductBounds
  <2>4. written_total * WORD \in Nat /\ WORD * (full * chunk_count) \in Nat
    BY <2>1, <2>3, WordAssumption, ProductBounds
  <2> QED
    BY <2>1, <2>2, <2>3, <2>4 DEF emitted
<1> QED
  BY <1>1, Accounted, TypeCorrect, PTL
=============================================================================
