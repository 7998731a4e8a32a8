---------------------------- MODULE BufferProofs ----------------------------
(***************************************************************************)
(* The buffers of generate_chunk(), for every number of threads, every     *)
(* chunk size and every schedule: the parallel loop has no data race, and  *)
(* what is written to the output was generated completely, in one round,   *)
(* and later than anything written before.                                 *)
(***************************************************************************)
EXTENDS GenerateProofs

(* The pointers name different buffers, and with AES neither is the one    *)
(* that is written to the output.                                          *)
PointersApart ==
  IF Aes THEN /\ gen_current \in {"gen_buf1", "gen_buf2"}
              /\ gen_previous \in {"gen_buf1", "gen_buf2"}
              /\ gen_current # gen_previous
  ELSE gen_current = "buf"

(* Iterations exist only inside the parallel loop, whose bound cannot      *)
(* change while one is left.                                               *)
Team ==
  /\ pc # "parallel" => todo = {} /\ running = {}
  /\ todo \subseteq 0..(threads + aes_thread - 1)
  /\ running \subseteq 0..(threads + aes_thread - 1)

RaceInv == PointersApart /\ Team

-----------------------------------------------------------------------------
(* The chunks of two iterations do not overlap: the pointers passed to     *)
(* generate_with_metod() are chunk_size blocks apart.                      *)
LEMMA RegionsApart ==
  ASSUME TypeOK, NEW i \in Nat, NEW j \in Nat, i # j
  PROVE  TaskRegion(i) \intersect TaskRegion(j) = {}
<1> DEFINE size == WORD * chunk_size
<1>1. WORD \in Nat /\ chunk_size \in Nat
  BY PlanFacts, WordAssumption DEF TypeOK
<1>2. size \in Nat
  BY <1>1, ProductBounds
<1>3. ASSUME NEW k \in Nat
      PROVE  TaskRegion(k) = (k * size)..(k * size + size - 1)
  <2>1. (k * WORD) * chunk_size = k * (WORD * chunk_size)
    BY <1>1, SMT
  <2> QED
    BY <2>1 DEF TaskRegion, TaskStart, Span
<1> HIDE DEF size
<1>4. ASSUME NEW k \in Nat, NEW m \in Nat, k < m
      PROVE  k * size + size <= m * size /\ k * size \in Nat /\ m * size \in Nat
  <2>1. PICK d \in Nat : m = k + 1 + d
    <3>1. m - k - 1 \in Nat /\ m = k + 1 + (m - k - 1)
      BY <1>4
    <3> QED
      BY <3>1
  <2>2. (k + 1 + d) * size = k * size + size + d * size
    BY <1>2, SMT
  <2>3. d * size \in Nat /\ k * size \in Nat /\ m * size \in Nat
    BY <1>2, ProductBounds
  <2> QED
    BY <1>2, <2>1, <2>2, <2>3
<1>5. ASSUME NEW k \in Nat, NEW m \in Nat, k < m
      PROVE  TaskRegion(k) \intersect TaskRegion(m) = {}
  <2>1. TaskRegion(k) = (k * size)..(k * size + size - 1)
    BY <1>3
  <2>2. TaskRegion(m) = (m * size)..(m * size + size - 1)
    BY <1>3
  <2>3. k * size + size <= m * size /\ k * size \in Nat /\ m * size \in Nat
    BY <1>4, <1>5
  <2>4. ASSUME NEW a \in Nat, NEW b \in Nat, a + size <= b
        PROVE  (a..(a + size - 1)) \intersect (b..(b + size - 1)) = {}
    BY <1>2, <2>4
  <2> QED
    BY <2>1, <2>2, <2>3, <2>4
<1>6. i < j \/ j < i
  OBVIOUS
<1> QED
  BY <1>5, <1>6

(* With the pointers apart and at most one encrypting iteration, no two    *)
(* iterations meet.                                                        *)
LEMMA ApartIsRaceFree ==
  ASSUME TypeOK, RaceInv
  PROVE  RaceFree
<1> SUFFICES ASSUME NEW i \in running, NEW j \in running, i # j
             PROVE  WrittenBy(i) \intersect (WrittenBy(j) \union ReadBy(j)) = {}
  BY DEF RaceFree
<1>1. threads \in Nat /\ threads >= 1 /\ aes_thread \in {0, 1}
  BY PlanFacts DEF TypeOK
<1>2. /\ i \in Nat /\ i <= threads + aes_thread - 1
      /\ j \in Nat /\ j <= threads + aes_thread - 1
  BY <1>1 DEF RaceInv, Team
<1>3. i >= threads \/ j >= threads => Aes
  BY <1>1, <1>2 DEF aes_thread
<1>4. i < threads \/ j < threads
  BY <1>1, <1>2
<1>5. ASSUME NEW k \in running, k < threads
      PROVE  /\ WrittenBy(k) \subseteq Bytes(gen_current, TaskRegion(k))
             /\ ReadBy(k) = {}
  BY <1>1, <1>2, <1>5 DEF WrittenBy, ReadBy, Encrypting, RaceInv, Team
<1>6. ASSUME NEW k \in running, ~(k < threads)
      PROVE  /\ WrittenBy(k) \subseteq Bytes("buf", DOMAIN mem["buf"])
             /\ ReadBy(k) \subseteq Bytes(gen_previous, DOMAIN mem[gen_previous])
  BY <1>6 DEF WrittenBy, ReadBy
<1>7. ASSUME NEW b, NEW c, NEW X, NEW Y, b # c \/ X \intersect Y = {}
      PROVE  Bytes(b, X) \intersect Bytes(c, Y) = {}
  BY <1>7 DEF Bytes
<1>8. CASE i < threads /\ j < threads
  <2>1. TaskRegion(i) \intersect TaskRegion(j) = {}
    BY <1>2, RegionsApart
  <2>2. Bytes(gen_current, TaskRegion(i)) \intersect Bytes(gen_current, TaskRegion(j)) = {}
    BY <1>7, <2>1
  <2> QED
    BY <1>5, <1>8, <2>2
<1>9. CASE i < threads /\ ~(j < threads)
  <2>1. gen_current # "buf" /\ gen_current # gen_previous
    BY <1>1, <1>2, <1>3, <1>9 DEF RaceInv, PointersApart
  <2>2. /\ Bytes(gen_current, TaskRegion(i)) \intersect Bytes("buf", DOMAIN mem["buf"]) = {}
        /\ Bytes(gen_current, TaskRegion(i))
             \intersect Bytes(gen_previous, DOMAIN mem[gen_previous]) = {}
    BY <1>7, <2>1
  <2> QED
    BY <1>5, <1>6, <1>9, <2>2
<1>10. CASE ~(i < threads)
  <2>1. j < threads /\ gen_current # "buf"
    BY <1>1, <1>2, <1>3, <1>4, <1>10 DEF RaceInv, PointersApart
  <2>2. Bytes("buf", DOMAIN mem["buf"]) \intersect Bytes(gen_current, TaskRegion(j)) = {}
    BY <1>7, <2>1
  <2> QED
    BY <1>5, <1>6, <1>10, <2>1, <2>2
<1> QED
  BY <1>8, <1>9, <1>10

-----------------------------------------------------------------------------
(* The swap keeps the pointers apart.                                      *)
LEMMA HandOverRace ==
  ASSUME RaceInv, HandOver, pc # "parallel" \/ Joined
  PROVE  RaceInv'
<1>1. cfg' = cfg /\ threads' = threads /\ todo' = todo /\ running' = running
  BY DEF HandOver, config_vars, tasks
<1>2. Aes' = Aes /\ aes_thread' = aes_thread
  BY <1>1, PlanFixed
<1>3. todo = {} /\ running = {}
  BY DEF RaceInv, Team, Joined
<1>4. PointersApart'
  BY <1>2 DEF HandOver, Swap, RaceInv, PointersApart
<1> QED
  BY <1>1, <1>2, <1>3, <1>4 DEF RaceInv, Team

(* The iterations only leave the sets, and touch no pointer.               *)
LEMMA TaskRace ==
  ASSUME RaceInv, Task
  PROVE  RaceInv'
<1>1. PICK i \in 0..cfg.threads :
        \/ StartTask(i) \/ FillTask(i) \/ IdleTask(i)
        \/ EncryptChunk(i) \/ EncryptTail(i)
  BY DEF Task
<1>2. /\ cfg' = cfg /\ threads' = threads
      /\ gen_current' = gen_current /\ gen_previous' = gen_previous
      /\ pc' = pc
  BY <1>1 DEF StartTask, FillTask, IdleTask, EncryptChunk, EncryptTail,
              FinishTask, config_vars, buffers
<1>3. /\ todo' \subseteq todo
      /\ running' \subseteq todo \union running
  BY <1>1 DEF StartTask, FillTask, IdleTask, EncryptChunk, EncryptTail, FinishTask
<1>4. Aes' = Aes /\ aes_thread' = aes_thread
  BY <1>2, PlanFixed
<1> QED
  BY <1>2, <1>3, <1>4 DEF RaceInv, PointersApart, Team

(* The other steps leave the pointers alone and happen while no iteration  *)
(* is left.                                                                *)
LEMMA SequentialRace ==
  ASSUME RaceInv,
         \/ LoopEnter \/ LoopExit
         \/ DropThread \/ EnterSlowPath \/ SlowRetry \/ SlowGiveUp
         \/ WriteChunk \/ FillEnding \/ EncryptEnding \/ WriteEnding
  PROVE  RaceInv'
<1>1. /\ cfg' = cfg
      /\ gen_current' = gen_current /\ gen_previous' = gen_previous
  BY DEF LoopEnter, LoopExit, DropThread, EnterSlowPath, SlowRetry, SlowGiveUp,
         WriteChunk, FillEnding, EncryptEnding, WriteEnding, config_vars, buffers
<1>2. Aes' = Aes /\ aes_thread' = aes_thread
  BY <1>1, PlanFixed
<1>3. PointersApart'
  BY <1>1, <1>2 DEF RaceInv, PointersApart
<1>4. CASE LoopEnter
  <2>1. running = {}
    BY <1>4 DEF LoopEnter, RaceInv, Team
  <2> QED
    BY <1>2, <1>3, <1>4, <2>1 DEF LoopEnter, RaceInv, Team, config_vars
<1>5. CASE ~LoopEnter
  <2>1. todo = {} /\ running = {}
    BY <1>5 DEF LoopExit, DropThread, EnterSlowPath, SlowRetry, SlowGiveUp, Joined,
                WriteChunk, FillEnding, EncryptEnding, WriteEnding, RaceInv, Team
  <2>2. todo' = todo /\ running' = running
    BY <1>5 DEF LoopExit, DropThread, EnterSlowPath, SlowRetry, SlowGiveUp,
                WriteChunk, FillEnding, EncryptEnding, WriteEnding, tasks
  <2> QED
    BY <1>3, <2>1, <2>2 DEF RaceInv, Team
<1> QED
  BY <1>4, <1>5

(* The pointers stay apart and the team inside its loop.                   *)
LEMMA RaceInvariant == Spec => []RaceInv
<1>1. Init => RaceInv
  BY DEF Init, RaceInv, PointersApart, Team
<1>2. RaceInv /\ [Next]_vars => RaceInv'
  <2> SUFFICES ASSUME RaceInv, [Next]_vars
               PROVE  RaceInv'
    OBVIOUS
  <2>1. CASE Task
    BY <2>1, TaskRace
  <2>2. CASE ChunkReady \/ SlowDone
    BY <2>2, HandOverRace DEF ChunkReady, SlowDone
  <2>3. CASE \/ LoopEnter \/ LoopExit
             \/ DropThread \/ EnterSlowPath \/ SlowRetry \/ SlowGiveUp
             \/ WriteChunk \/ FillEnding \/ EncryptEnding \/ WriteEnding
    BY <2>3, SequentialRace
  <2>4. CASE UNCHANGED vars
    <3>1. cfg' = cfg
      BY <2>4 DEF vars, config_vars
    <3> QED
      BY <2>4, <3>1, PlanFixed
         DEF vars, config_vars, buffers, tasks, RaceInv, PointersApart, Team
  <2> QED
    BY <2>1, <2>2, <2>3, <2>4 DEF Next, Stopped
<1> QED
  BY <1>1, <1>2, PTL DEF Spec

(* generate_chunk() is free of data races: whatever the request, however   *)
(* many threads were given up and however often the buffers were swapped,  *)
(* no iteration in flight writes a byte that another one reads or writes.  *)
THEOREM NoDataRace == Spec => []RaceFree
<1>1. TypeOK /\ RaceInv => RaceFree
  BY ApartIsRaceFree
<1> QED
  BY <1>1, RaceInvariant, TypeCorrect, PTL

-----------------------------------------------------------------------------
(* A call sets no byte outside the ones it was asked for, neither before   *)
(* nor after them, whichever of its draws fail.                            *)
LEMMA Uint8FillsWithin ==
  ASSUME NEW first \in Nat, NEW count \in Nat, NEW F \in Uint8ArrayFills(first, count)
  PROVE  F \subseteq Span(first, count)
<1>1. CASE F = {}
  BY <1>1
<1>2. ASSUME NEW k \in 0..(count \div WORD), F = Span(first, (count % WORD) + WORD * k)
      PROVE  F \subseteq Span(first, count)
  <2>1. /\ count \div WORD \in Nat /\ count % WORD \in Nat
        /\ count = WORD * (count \div WORD) + (count % WORD)
    BY DivMod, WordAssumption
  <2>2. k \in Nat /\ WORD * k <= WORD * (count \div WORD)
        /\ WORD * k \in Nat /\ WORD * (count \div WORD) \in Nat
    BY <2>1, WordAssumption, RoundArithmetic
  <2>3. (count % WORD) + WORD * k <= count
    BY <2>1, <2>2
  <2> QED
    BY <1>2, <2>1, <2>2, <2>3 DEF Span
<1> QED
  BY <1>1, <1>2 DEF Uint8ArrayFills

LEMMA Uint64FillsWithin ==
  ASSUME NEW first \in Nat, NEW words \in Nat, NEW F \in Uint64ArrayFills(first, words)
  PROVE  F \subseteq Span(first, WORD * words)
<1>1. PICK k \in 0..words : F = Span(first, WORD * k)
  BY DEF Uint64ArrayFills
<1>2. WORD * k <= WORD * words /\ WORD * k \in Nat /\ WORD * words \in Nat
  BY <1>1, WordAssumption, RoundArithmetic
<1> QED
  BY <1>1, <1>2 DEF Span

LEMMA GetBytesWithin ==
  ASSUME NEW first \in Nat, NEW size \in Nat, NEW F \in GetBytesFills(first, size)
  PROVE  F \subseteq Span(first, size)
<1> DEFINE offset == Offset(first, size)
           words  == AlignedBytes(first, size) \div WORD
           rest   == AlignedBytes(first, size) % WORD
<1>1. offset \in Nat /\ size - offset \in Nat
  <2>1. first % WORD \in Nat /\ first % WORD < WORD
    BY DivMod, WordAssumption
  <2> QED
    BY <2>1, WordAssumption DEF Offset
<1>2. /\ words \in Nat /\ rest \in Nat
      /\ offset + WORD * words + rest <= size
      /\ WORD * words \in Nat
  <2>1. AlignedBytes(first, size) = (size - offset) % UINT_RANGE
    BY DEF AlignedBytes, offset
  <2> HIDE DEF offset
  <2>2. AlignedBytes(first, size) \in Nat /\ AlignedBytes(first, size) <= size - offset
    <3>1. ASSUME NEW a \in Nat PROVE a % UINT_RANGE \in Nat /\ a % UINT_RANGE <= a
      <4>1. /\ a \div UINT_RANGE \in Nat /\ a % UINT_RANGE \in Nat
            /\ a = UINT_RANGE * (a \div UINT_RANGE) + (a % UINT_RANGE)
        BY DivMod, UintAssumption
      <4>2. UINT_RANGE * (a \div UINT_RANGE) \in Nat
        BY <4>1, UintAssumption, ProductBounds
      <4> QED
        BY <4>1, <4>2
    <3> QED
      BY <1>1, <2>1, <3>1
  <2>3. /\ words \in Nat /\ rest \in Nat
        /\ AlignedBytes(first, size) = WORD * words + rest
    BY <2>2, DivMod, WordAssumption
  <2>4. WORD * words \in Nat
    BY <2>3, WordAssumption, ProductBounds
  <2> QED
    BY <1>1, <2>2, <2>3, <2>4
<1> HIDE DEF offset, words, rest
<1>3. PICK head \in Uint8ArrayFills(first, offset),
           middle \in Uint64ArrayFills(first + offset, words),
           tail \in Uint8ArrayFills(first + offset + WORD * words, rest) :
             F = head \union middle \union tail
  BY DEF GetBytesFills, offset, words, rest
<1>4. /\ head \subseteq Span(first, offset)
      /\ middle \subseteq Span(first + offset, WORD * words)
      /\ tail \subseteq Span(first + offset + WORD * words, rest)
  BY <1>1, <1>2, Uint8FillsWithin, Uint64FillsWithin
<1> QED
  BY <1>1, <1>2, <1>3, <1>4 DEF Span

LEMMA FillsWithin ==
  ASSUME NEW method, NEW first \in Nat, NEW size \in Nat,
         NEW F \in Fills(method, first, size)
  PROVE  F \subseteq Span(first, size)
<1>1. /\ size \div WORD \in Nat /\ WORD * (size \div WORD) <= size
      /\ WORD * (size \div WORD) \in Nat
  <2>1. /\ size \div WORD \in Nat /\ size % WORD \in Nat
        /\ size = WORD * (size \div WORD) + (size % WORD)
    BY DivMod, WordAssumption
  <2>2. WORD * (size \div WORD) \in Nat
    BY <2>1, WordAssumption, ProductBounds
  <2> QED
    BY <2>1, <2>2
<1>2. Span(first, WORD * (size \div WORD)) \subseteq Span(first, size)
  BY <1>1 DEF Span
<1>3. CASE F \in GetBytesFills(first, size)
  BY <1>3, GetBytesWithin
<1>4. CASE F = Span(first, size)
  BY <1>4
<1>5. CASE F \in Uint64ArrayFills(first, size \div WORD)
  BY <1>1, <1>2, <1>5, Uint64FillsWithin
<1>6. CASE F = Span(first, WORD * (size \div WORD))
  BY <1>2, <1>6
<1> QED
  BY <1>3, <1>4, <1>5, <1>6 DEF Fills

LEMMA SpanCount ==
  ASSUME NEW first \in Nat, NEW count \in Nat
  PROVE  IsFiniteSet(Span(first, count)) /\ Cardinality(Span(first, count)) = count
<1>1. first + count - 1 \in Int
  OBVIOUS
<1>2. /\ IsFiniteSet(first..(first + count - 1))
      /\ Cardinality(first..(first + count - 1))
           = IF first > first + count - 1 THEN 0 ELSE (first + count - 1) - first + 1
  BY <1>1, FS_Interval
<1>3. (IF first > first + count - 1 THEN 0 ELSE (first + count - 1) - first + 1) = count
  OBVIOUS
<1> QED
  BY <1>2, <1>3 DEF Span

(* What a call returns is at most what it was asked for, and it is that    *)
(* only if every byte was set.                                             *)
LEMMA FillsCount ==
  ASSUME NEW method, NEW first \in Nat, NEW size \in Nat,
         NEW F \in Fills(method, first, size)
  PROVE  /\ Cardinality(F) \in 0..size
         /\ Cardinality(F) = size => F = Span(first, size)
<1>1. IsFiniteSet(Span(first, size)) /\ Cardinality(Span(first, size)) = size
  BY SpanCount
<1>2. F \subseteq Span(first, size) /\ Cardinality(F) \in Nat
  BY FillsWithin, FillsFinite
<1> QED
  BY <1>1, <1>2, FS_Subset

(* Whole blocks of a chunk of `blocks` blocks. *)
LEMMA WholeBlocks ==
  ASSUME NEW blocks \in Nat, NEW bytes \in Nat, bytes <= WORD * blocks
  PROVE  /\ bytes \div WORD \in 0..blocks
         /\ bytes \div WORD = blocks <=> bytes = WORD * blocks
<1> DEFINE q == bytes \div WORD
<1>1. /\ q \in Nat /\ bytes % WORD \in Nat
      /\ bytes = WORD * q + (bytes % WORD)
  BY DivMod, WordAssumption
<1> HIDE DEF q
<1>2. ASSUME q >= blocks + 1 PROVE FALSE
  <2>1. WORD * (blocks + 1) <= WORD * q /\ WORD * q \in Nat
    BY <1>1, <1>2, WordAssumption, RoundArithmetic
  <2>2. WORD * (blocks + 1) = WORD * blocks + WORD /\ WORD * blocks \in Nat
    BY WordAssumption, RoundArithmetic
  <2> QED
    BY <1>1, <2>1, <2>2, WordAssumption
<1>3. ASSUME q < blocks PROVE bytes # WORD * blocks
  <2>1. WORD * (q + 1) <= WORD * blocks /\ WORD * (q + 1) = WORD * q + WORD
    BY <1>1, <1>3, WordAssumption, RoundArithmetic
  <2>2. bytes % WORD < WORD
    BY DivMod, WordAssumption
  <2>3. WORD * q \in Nat /\ WORD * blocks \in Nat
    BY <1>1, WordAssumption, ProductBounds
  <2> QED
    BY <1>1, <2>1, <2>2, <2>3, WordAssumption
<1>4. q = blocks => bytes = WORD * blocks
  <2>1. ASSUME q = blocks PROVE bytes = WORD * blocks
    <3>1. WORD * blocks \in Nat
      BY WordAssumption, ProductBounds
    <3> QED
      BY <1>1, <2>1, <3>1
  <2> QED
    BY <2>1
<1> QED
  BY <1>1, <1>2, <1>3, <1>4 DEF q

-----------------------------------------------------------------------------
(* Nothing happened that lets old bytes reach the output unnoticed.        *)
Undisturbed ==
  /\ "encryption" \notin incidents
  /\ "overrun" \notin incidents
  /\ Infinite => "short" \notin incidents

(* The bytes of a full round in buffer b are of one round. *)
Uniform(b, tag) == \A a \in 0..(WORD * buf_size - 1) : mem[b][a] = tag

(* The iterations that have yet to return what they generated, and the     *)
(* blocks of the round if all of them deliver.                             *)
Left    == {i \in todo \union running : i < threads}
Awaited == written + chunk_size * Cardinality(Left)

(* The reduction over the team: it can still reach buf_size only as long   *)
(* as every finished iteration filled its chunk with bytes of this round.  *)
CountInv ==
  /\ todo \intersect running = {}
  /\ pc = "parallel" /\ Generating =>
       /\ Awaited <= buf_size
       /\ "short" \notin incidents => Awaited = buf_size
       /\ Awaited = buf_size =>
            \A i \in (0..(threads - 1)) \ Left :
               \A a \in TaskRegion(i) : mem[gen_current][a] = round

(* The encrypting iteration, number `threads`: what it has encrypted, or   *)
(* everything once it is over, is in the output buffer.                    *)
CopyInv ==
  (pc = "parallel" /\ Aes /\ ~first_run /\ "encryption" \notin incidents) =>
    /\ enc_pos <= buf_size_bytes \div MAX_BUFFER_SIZE
    /\ \A a \in 0..(buf_size_bytes - 1) :
         (threads \in todo \union running => a < enc_pos * MAX_BUFFER_SIZE)
         => mem["buf"][a] = mem[gen_previous][a]

(* The round whose bytes wait to be encrypted. *)
Waiting == mem[gen_previous][0]

(* The order of ages: written before waiting before in the making.         *)
AgeInv ==
  /\ newest <= round
  /\ pc \in {"parallel", "slow"} => newest < round
  /\ pc = "slow" => ~Infinite /\ threads = 1 /\ written < buf_size
  /\ (/\ pc \in {"loop", "parallel", "slow"}
      /\ Aes /\ ~first_run
      /\ Infinite \/ n <= chunk_count)
     => /\ Uniform(gen_previous, Waiting)
        /\ newest < Waiting /\ Waiting <= round
        /\ pc # "loop" => Waiting < round
  /\ pc = "write" =>
       /\ Uniform("buf", Content)
       /\ newest < Content /\ Content <= round
       /\ Aes /\ Generating =>
            Uniform(gen_previous, Waiting) /\ Content < Waiting /\ Waiting <= round

FreshInv == Undisturbed => AgeInv

-----------------------------------------------------------------------------
(* The team and its chunks.                                                *)

(* Counting the iterations that are left. *)
LEMMA LeftCount ==
  ASSUME TypeOK
  PROVE  /\ IsFiniteSet(Left) /\ Cardinality(Left) \in Nat
         /\ \A i \in Left : /\ Cardinality(Left \ {i}) = Cardinality(Left) - 1
                            /\ Cardinality(Left) >= 1
<1>1. cfg.threads \in Nat
  BY PlanFacts DEF TypeOK
<1>2. IsFiniteSet(0..cfg.threads)
  BY <1>1, FS_Interval
<1>3. Left \subseteq 0..cfg.threads
  BY DEF Left, TypeOK
<1>4. IsFiniteSet(Left)
  BY <1>2, <1>3, FS_Subset
<1>5. Cardinality(Left) \in Nat
  BY <1>4, FS_CardinalityType
<1>6. ASSUME NEW i \in Left
      PROVE  Cardinality(Left \ {i}) = Cardinality(Left) - 1 /\ Cardinality(Left) >= 1
  <2>1. /\ IsFiniteSet(Left \ {i})
        /\ Cardinality(Left \ {i}) = Cardinality(Left) - 1
    BY <1>4, FS_RemoveElement
  <2>2. Cardinality(Left \ {i}) \in Nat
    BY <2>1, FS_CardinalityType
  <2> QED
    BY <1>5, <2>1, <2>2
<1> QED
  BY <1>4, <1>5, <1>6

(* The chunks of the current team lie in the arrays and together they are  *)
(* a full round.                                                           *)
LEMMA ChunksOfRound ==
  ASSUME TypeOK
  PROVE  /\ \A i \in 0..(threads - 1) : TaskRegion(i) \subseteq 0..(buf_size_bytes - 1)
         /\ \A a \in 0..(WORD * buf_size - 1) :
              \E i \in 0..(threads - 1) : a \in TaskRegion(i)
         /\ WORD * buf_size \in Nat /\ WORD * buf_size <= buf_size_bytes
<1> DEFINE size == WORD * chunk_size
<1>1. /\ WORD \in Nat /\ chunk_size \in Nat /\ size \in Nat
      /\ threads \in Nat /\ cfg.threads \in Nat /\ threads <= cfg.threads
  BY PlanFacts, WordAssumption, ProductBounds DEF TypeOK
<1>2. buf_size_bytes = size * cfg.threads
  <2>1. buf_size_bytes = WORD * (chunk_size * cfg.threads)
    BY PlanFacts DEF TypeOK, buf_size_bytes
  <2>2. WORD * (chunk_size * cfg.threads) = (WORD * chunk_size) * cfg.threads
    BY <1>1, SMT
  <2> QED
    BY <2>1, <2>2
<1>3. WORD * buf_size = size * threads
  <2>1. WORD * buf_size = WORD * (chunk_size * threads)
    BY DEF TypeOK
  <2>2. WORD * (chunk_size * threads) = (WORD * chunk_size) * threads
    BY <1>1, SMT
  <2> QED
    BY <2>1, <2>2
<1>4. ASSUME NEW i \in Nat
      PROVE  /\ TaskRegion(i) = (size * i)..(size * i + size - 1)
             /\ size * i \in Nat
             /\ size * (i + 1) = size * i + size
             /\ \A j \in Nat : i <= j => size * i <= size * j
  <2>1. (i * WORD) * chunk_size = (WORD * chunk_size) * i
    BY <1>1, SMT
  <2>2. TaskRegion(i) = (size * i)..(size * i + size - 1)
    BY <2>1 DEF TaskRegion, TaskStart, Span
  <2> HIDE DEF size
  <2> QED
    BY <1>1, <2>2, RoundArithmetic
<1> HIDE DEF size
<1>5. ASSUME NEW i \in 0..(threads - 1)
      PROVE  TaskRegion(i) \subseteq 0..(buf_size_bytes - 1)
  <2>1. i \in Nat /\ i + 1 \in Nat /\ i + 1 <= cfg.threads
    BY <1>1
  <2>2. /\ TaskRegion(i) = (size * i)..(size * i + size - 1)
        /\ size * i \in Nat /\ size * (i + 1) = size * i + size
        /\ size * (i + 1) <= size * cfg.threads /\ size * cfg.threads \in Nat
    BY <1>1, <1>4, <2>1
  <2> QED
    BY <1>1, <1>2, <2>2
<1>6. ASSUME NEW a \in 0..(WORD * buf_size - 1)
      PROVE  \E i \in 0..(threads - 1) : a \in TaskRegion(i)
  <2>1. size * threads \in Nat /\ a \in Nat /\ a < size * threads
    BY <1>1, <1>3, <1>4
  <2>2. size >= 1
    BY <1>1, <2>1, SMT
  <2> DEFINE i == a \div size
  <2>3. /\ i \in Nat /\ a % size \in Nat /\ a % size < size
        /\ a = size * i + (a % size)
    BY <1>1, <2>1, <2>2, DivMod
  <2> HIDE DEF i
  <2>4. /\ TaskRegion(i) = (size * i)..(size * i + size - 1) /\ size * i \in Nat
        /\ threads <= i => size * threads <= size * i
    BY <1>1, <1>4, <2>3
  <2>5. i < threads
    BY <1>1, <2>1, <2>3, <2>4
  <2>6. a \in TaskRegion(i)
    BY <1>1, <2>1, <2>3, <2>4
  <2> QED
    BY <1>1, <2>3, <2>5, <2>6
<1>7. WORD * buf_size \in Nat /\ WORD * buf_size <= buf_size_bytes
  BY <1>1, <1>2, <1>3, <1>4
<1> QED
  BY <1>5, <1>6, <1>7

(* What every step of an iteration leaves alone. *)
LEMMA TaskFrame ==
  ASSUME TypeOK, RaceInv, Task
  PROVE  /\ UNCHANGED <<cfg, threads, buf_size, pc, n, round, first_run, newest,
                        gen_current, gen_previous, written_total, ending_out, result, retry>>
         /\ incidents \subseteq incidents'
         /\ pc = "parallel"
         /\ mem' = mem \/ \E b \in Buffers : \E f : mem' = [mem EXCEPT ![b] = f]
<1>1. PICK i \in 0..cfg.threads :
        \/ StartTask(i) \/ FillTask(i) \/ IdleTask(i)
        \/ EncryptChunk(i) \/ EncryptTail(i)
  BY DEF Task
<1>2. i \in todo \union running
  BY <1>1 DEF StartTask, FillTask, IdleTask, EncryptChunk, EncryptTail, Encrypting
<1>3. pc = "parallel"
  BY <1>2 DEF RaceInv, Team
<1>4. incidents \subseteq incidents'
  BY <1>1 DEF StartTask, FillTask, IdleTask, EncryptChunk, EncryptTail, FinishTask, Incident
<1>5. mem' = mem \/ \E b \in Buffers : \E f : mem' = [mem EXCEPT ![b] = f]
  BY <1>1 DEF StartTask, FillTask, IdleTask, EncryptChunk, EncryptTail, FinishTask,
              buffers, TypeOK, Buffers
<1>6. UNCHANGED <<cfg, threads, buf_size, pc, n, round, first_run, newest,
                  gen_current, gen_previous, written_total, ending_out, result, retry>>
  BY <1>1 DEF StartTask, FillTask, IdleTask, EncryptChunk, EncryptTail, FinishTask,
              config_vars, buffers, output
<1> QED
  BY <1>3, <1>4, <1>5, <1>6

(* The count of the team while the calls return. *)
LEMMA TaskCount ==
  ASSUME TypeOK, RaceInv, CountInv, Task
  PROVE  CountInv'
<1>1. PICK i \in 0..cfg.threads :
        \/ StartTask(i) \/ FillTask(i) \/ IdleTask(i)
        \/ EncryptChunk(i) \/ EncryptTail(i)
  BY DEF Task
<1>2. /\ UNCHANGED <<cfg, threads, buf_size, pc, n, round, gen_current>>
      /\ incidents \subseteq incidents' /\ pc = "parallel"
  BY TaskFrame
<1>3. /\ chunk_size' = chunk_size /\ Generating' = Generating
      /\ \A j : TaskRegion(j)' = TaskRegion(j)
  BY <1>2, PlanFixed DEF Generating, TaskRegion, TaskStart
<1>4. todo' \intersect running' = {}
  BY <1>1 DEF StartTask, FillTask, IdleTask, EncryptChunk, EncryptTail, FinishTask, CountInv
<1>5. CASE ~Generating
  BY <1>3, <1>4, <1>5 DEF CountInv
<1>6. CASE Left' = Left /\ written' = written /\ mem'[gen_current] = mem[gen_current]
  <2>1. Awaited' = Awaited
    BY <1>3, <1>6 DEF Awaited
  <2> QED
    BY <1>2, <1>3, <1>4, <1>6, <2>1 DEF CountInv
<1>7. CASE StartTask(i)
  <2>1. Left' = Left
    BY <1>2, <1>7 DEF Left, StartTask
  <2> QED
    BY <1>6, <1>7, <2>1 DEF StartTask, buffers
<1>8. CASE IdleTask(i) /\ Generating
  <2>1. Left' = Left
    BY <1>2, <1>8 DEF Left, IdleTask, FinishTask
  <2> QED
    BY <1>6, <1>8, <2>1 DEF IdleTask
<1>9. CASE EncryptChunk(i) \/ EncryptTail(i)
  <2>1. i >= threads /\ i \in running
    BY <1>9 DEF EncryptChunk, EncryptTail, Encrypting
  <2>2. gen_current # "buf"
    <3>1. i <= threads + aes_thread - 1 /\ threads \in Nat
      BY <2>1, PlanFacts DEF RaceInv, Team, TypeOK
    <3>2. Aes
      BY <2>1, <3>1 DEF aes_thread
    <3> QED
      BY <3>2 DEF RaceInv, PointersApart
  <2>3. mem'[gen_current] = mem[gen_current]
    BY <1>9, <2>2 DEF EncryptChunk, EncryptTail, TypeOK
  <2>4. todo' = todo /\ (running' = running \/ running' = running \ {i})
    BY <1>9 DEF EncryptChunk, EncryptTail, FinishTask
  <2>5. Left' = Left
    <3>1. threads \in Int
      BY PlanFacts DEF TypeOK
    <3> QED
      BY <1>2, <2>1, <2>4, <3>1 DEF Left
  <2>6. written' = written
    BY <1>9 DEF EncryptChunk, EncryptTail
  <2> QED
    BY <1>6, <2>3, <2>5, <2>6
<1>10. CASE FillTask(i) /\ Generating
  <2> DEFINE size == WORD * chunk_size
  <2>1. PICK filled \in Fills(cfg.method, TaskStart(i), size) :
          /\ mem' = [mem EXCEPT ![gen_current] = Overlay(@, filled, round)]
          /\ written' = written + (Cardinality(filled) \div WORD)
          /\ Incident(Cardinality(filled) # size, "short")
    BY <1>10 DEF FillTask
  <2>2. /\ TaskStart(i) \in Nat /\ size \in Nat /\ chunk_size \in Nat
        /\ i \in 0..(threads - 1) /\ i \in running /\ threads \in Nat
    <3>1. i \in Nat /\ chunk_size \in Nat /\ threads \in Nat /\ i < threads /\ i \in running
      BY <1>10, PlanFacts DEF TypeOK, FillTask
    <3>2. i * WORD \in Nat /\ WORD * chunk_size \in Nat
      BY <3>1, WordAssumption, ProductBounds
    <3> QED
      BY <3>1, <3>2, ProductBounds DEF TaskStart
  <2>3. /\ Cardinality(filled) \in 0..size
        /\ Cardinality(filled) = size => filled = TaskRegion(i)
    BY <2>1, <2>2, FillsCount DEF TaskRegion
  <2> DEFINE c == Cardinality(filled) \div WORD
  <2>4. c \in 0..chunk_size /\ (c = chunk_size <=> Cardinality(filled) = size)
    BY <2>2, <2>3, WholeBlocks
  <2>5. Left' = Left \ {i} /\ i \in Left
    BY <1>2, <1>10, <2>2 DEF Left, FillTask, FinishTask, CountInv
  <2>6. /\ Cardinality(Left') = Cardinality(Left) - 1
        /\ Cardinality(Left) \in Nat /\ Cardinality(Left) >= 1
    BY <2>5, LeftCount
  <2>7. written' = written + c /\ written \in Nat /\ buf_size \in Int
    BY <2>1, PlanFacts, RoundFits DEF TypeOK
  <2>8. Awaited' = Awaited + c - chunk_size /\ Awaited \in Int
    <3> HIDE DEF c
    <3>1. ASSUME NEW L \in Nat
          PROVE  chunk_size * (L - 1) = chunk_size * L - chunk_size /\ chunk_size * L \in Nat
      BY <2>2, SMT
    <3>2. Awaited' = written' + chunk_size * Cardinality(Left')
      BY <1>3 DEF Awaited
    <3> QED
      BY <2>2, <2>4, <2>6, <2>7, <3>1, <3>2 DEF Awaited
  <2>9. /\ Awaited <= buf_size
        /\ "short" \notin incidents => Awaited = buf_size
        /\ Awaited = buf_size =>
             \A j \in (0..(threads - 1)) \ Left :
                \A a \in TaskRegion(j) : mem[gen_current][a] = round
    BY <1>2, <1>10 DEF CountInv
  <2>10. "short" \notin incidents' => c = chunk_size /\ "short" \notin incidents
    <3>1. Cardinality(filled) # size => "short" \in incidents'
      BY <2>1 DEF Incident
    <3> QED
      BY <1>2, <2>4, <3>1
  <2>11. Awaited' <= buf_size
    <3> HIDE DEF c
    <3> QED
      BY <2>2, <2>4, <2>7, <2>8, <2>9
  <2>12. "short" \notin incidents' => Awaited' = buf_size
    <3> HIDE DEF c
    <3> QED
      BY <2>2, <2>4, <2>7, <2>8, <2>9, <2>10
  <2>13. ASSUME Awaited' = buf_size,
                NEW j \in (0..(threads - 1)) \ Left', NEW a \in TaskRegion(j)
         PROVE  mem'[gen_current][a] = round
    <3>1. c = chunk_size /\ Awaited = buf_size
      <4> HIDE DEF c
      <4> QED
        BY <2>2, <2>4, <2>7, <2>8, <2>9, <2>13
    <3>2. filled = TaskRegion(i)
      BY <2>3, <2>4, <3>1
    <3>3. a \in DOMAIN mem[gen_current]
      BY <2>13, ChunksOfRound DEF TypeOK
    <3>4. mem'[gen_current][a] = IF a \in filled THEN round ELSE mem[gen_current][a]
      BY <2>1, <3>3 DEF Overlay, TypeOK
    <3>5. j = i \/ j \in (0..(threads - 1)) \ Left
      BY <2>5, <2>13
    <3> QED
      BY <2>9, <2>13, <3>1, <3>2, <3>4, <3>5
  <2> QED
    BY <1>2, <1>3, <1>4, <2>11, <2>12, <2>13 DEF CountInv
<1> QED
  BY <1>1, <1>5, <1>7, <1>8, <1>9, <1>10

(* The team starts with nothing written and everyone left.                 *)
LEMMA SequentialCount ==
  ASSUME TypeOK, RaceInv, CountInv,
         \/ LoopEnter \/ LoopExit \/ HandOver
         \/ DropThread \/ EnterSlowPath \/ SlowRetry \/ SlowGiveUp
         \/ WriteChunk \/ FillEnding \/ EncryptEnding \/ WriteEnding
  PROVE  CountInv'
<1>1. CASE LoopEnter
  <2>1. /\ running = {} /\ running' = running /\ todo' = 0..(threads + aes_thread - 1)
        /\ written' = 0
        /\ UNCHANGED <<cfg, threads, buf_size>>
    BY <1>1 DEF LoopEnter, RaceInv, Team, config_vars
  <2>2. threads \in Nat /\ aes_thread \in {0, 1} /\ chunk_size \in Nat
        /\ buf_size = chunk_size * threads /\ buf_size \in Nat
    BY PlanFacts, RoundFits DEF TypeOK
  <2>3. Left' = 0..(threads - 1)
    BY <2>1, <2>2 DEF Left
  <2>4. Cardinality(Left') = threads
    <3>1. 0..(threads - 1) = Span(0, threads)
      BY <2>2 DEF Span
    <3> QED
      BY <2>2, <2>3, <3>1, SpanCount
  <2>5. Awaited' = buf_size
    <3>1. chunk_size' = chunk_size
      BY <2>1, PlanFixed
    <3>2. Awaited' = 0 + chunk_size * threads
      BY <2>1, <2>4, <3>1 DEF Awaited
    <3> QED
      BY <2>2, <3>2
  <2>6. (0..(threads - 1)) \ Left' = {}
    BY <2>3
  <2> QED
    BY <2>1, <2>2, <2>5, <2>6 DEF CountInv
<1>2. CASE ~LoopEnter
  <2>1. todo' = todo /\ running' = running
    BY <1>2 DEF LoopExit, HandOver, DropThread, EnterSlowPath, SlowRetry, SlowGiveUp,
                WriteChunk, FillEnding, EncryptEnding, WriteEnding, tasks
  <2>2. pc' # "parallel"
    BY <1>2 DEF LoopExit, HandOver, DropThread, EnterSlowPath, SlowRetry, SlowGiveUp,
                WriteChunk, FillEnding, EncryptEnding, WriteEnding
  <2> QED
    BY <2>1, <2>2 DEF CountInv
<1> QED
  BY <1>1, <1>2

(* What the encrypting iteration does to the output buffer. *)
LEMMA TaskCopy ==
  ASSUME TypeOK, RaceInv, CopyInv, Task
  PROVE  CopyInv'
<1>1. PICK i \in 0..cfg.threads :
        \/ StartTask(i) \/ FillTask(i) \/ IdleTask(i)
        \/ EncryptChunk(i) \/ EncryptTail(i)
  BY DEF Task
<1>2. /\ UNCHANGED <<cfg, threads, pc, first_run, gen_current, gen_previous>>
      /\ incidents \subseteq incidents' /\ pc = "parallel"
  BY TaskFrame
<1>3. /\ buf_size_bytes' = buf_size_bytes /\ Aes' = Aes
  BY <1>2, PlanFixed
<1> SUFFICES ASSUME Aes, ~first_run, "encryption" \notin incidents'
             PROVE  CopyInv'
  BY <1>2, <1>3 DEF CopyInv
<1>4. /\ enc_pos <= buf_size_bytes \div MAX_BUFFER_SIZE
      /\ \A a \in 0..(buf_size_bytes - 1) :
           (threads \in todo \union running => a < enc_pos * MAX_BUFFER_SIZE)
           => mem["buf"][a] = mem[gen_previous][a]
  BY <1>2 DEF CopyInv
<1>5. /\ gen_current # "buf" /\ gen_previous # "buf" /\ gen_current # gen_previous
      /\ gen_previous \in Buffers
  BY DEF RaceInv, PointersApart, Buffers
<1>6. CASE /\ mem'["buf"] = mem["buf"] /\ mem'[gen_previous] = mem[gen_previous]
           /\ threads \in todo \union running => threads \in todo' \union running'
           /\ enc_pos' = enc_pos
  BY <1>2, <1>3, <1>4, <1>6 DEF CopyInv
<1>7. threads \in Int
  BY PlanFacts DEF TypeOK
<1>8. CASE StartTask(i)
  BY <1>6, <1>8 DEF StartTask, buffers
<1>9. CASE IdleTask(i)
  <2>1. i # threads
    BY <1>9, <1>7 DEF IdleTask
  <2> QED
    BY <1>6, <1>9, <2>1 DEF IdleTask, FinishTask
<1>10. CASE FillTask(i)
  <2>1. i # threads
    BY <1>10, <1>7 DEF FillTask
  <2>2. mem'["buf"] = mem["buf"] /\ mem'[gen_previous] = mem[gen_previous]
    BY <1>5, <1>10 DEF FillTask, TypeOK, Buffers
  <2> QED
    BY <1>6, <1>10, <2>1, <2>2 DEF FillTask, FinishTask
<1>11. CASE EncryptChunk(i)
  <2> DEFINE where == Span(enc_pos * MAX_BUFFER_SIZE, MAX_BUFFER_SIZE)
  <2>1. \E c \in Counter(cfg.keys, next_counter, MAX_BUFFER_SIZE),
            evp \in CryptoResults :
          IF c.ok /\ evp
          THEN /\ mem' = [mem EXCEPT !["buf"] = Copied(@, mem[gen_previous], where)]
               /\ enc_pos' = enc_pos + 1
               /\ UNCHANGED <<todo, running>>
          ELSE Incident(TRUE, "encryption")
    BY <1>11 DEF EncryptChunk
  <2>2. /\ mem' = [mem EXCEPT !["buf"] = Copied(@, mem[gen_previous], where)]
        /\ enc_pos' = enc_pos + 1
        /\ UNCHANGED <<todo, running>>
    BY <2>1 DEF Incident
  <2>3. /\ enc_pos \in Nat /\ MAX_BUFFER_SIZE \in Nat /\ buf_size_bytes \in Nat
        /\ enc_pos < buf_size_bytes \div MAX_BUFFER_SIZE
    BY <1>11, PlanFacts, CounterAssumption DEF EncryptChunk, TypeOK
  <2>4. enc_pos + 1 <= buf_size_bytes \div MAX_BUFFER_SIZE
    BY <2>3, DivMod, CounterAssumption
  <2>5. /\ (enc_pos + 1) * MAX_BUFFER_SIZE = enc_pos * MAX_BUFFER_SIZE + MAX_BUFFER_SIZE
        /\ enc_pos * MAX_BUFFER_SIZE \in Nat
    BY <2>3, SMT
  <2>6. mem'[gen_previous] = mem[gen_previous]
    BY <1>5, <2>2 DEF TypeOK
  <2>7. ASSUME NEW a \in 0..(buf_size_bytes - 1),
               threads \in todo \union running => a < (enc_pos + 1) * MAX_BUFFER_SIZE
        PROVE  mem'["buf"][a] = mem[gen_previous][a]
    <3>1. mem'["buf"][a] = IF a \in where THEN mem[gen_previous][a] ELSE mem["buf"][a]
      BY <2>2 DEF Copied, TypeOK, Buffers
    <3>2. CASE a \in where
      BY <3>1, <3>2
    <3>3. CASE a \notin where
      <4>1. threads \in todo \union running => a < enc_pos * MAX_BUFFER_SIZE
        BY <2>3, <2>5, <2>7, <3>3 DEF Span
      <4> QED
        BY <1>4, <3>1, <3>3, <4>1
    <3> QED
      BY <3>2, <3>3
  <2> QED
    BY <1>2, <1>3, <2>2, <2>4, <2>6, <2>7 DEF CopyInv
<1>12. CASE EncryptTail(i)
  <2> DEFINE tail  == buf_size_bytes % MAX_BUFFER_SIZE
             where == Span(enc_pos * MAX_BUFFER_SIZE, tail)
  <2>1. mem' = [mem EXCEPT !["buf"] = Copied(@, mem[gen_previous], where)]
    BY <1>12 DEF EncryptTail, Incident
  <2>2. /\ enc_pos = buf_size_bytes \div MAX_BUFFER_SIZE /\ enc_pos' = enc_pos
        /\ enc_pos \in Nat /\ MAX_BUFFER_SIZE \in Nat /\ buf_size_bytes \in Nat
    BY <1>12, PlanFacts, CounterAssumption DEF EncryptTail, TypeOK
  <2>3. /\ buf_size_bytes = enc_pos * MAX_BUFFER_SIZE + tail
        /\ tail \in Nat
    <3>1. /\ buf_size_bytes = MAX_BUFFER_SIZE * enc_pos + tail /\ tail \in Nat
      BY <2>2, DivMod, CounterAssumption
    <3>2. MAX_BUFFER_SIZE * enc_pos = enc_pos * MAX_BUFFER_SIZE
      BY <2>2, SMT
    <3> QED
      BY <3>1, <3>2
  <2>4. mem'[gen_previous] = mem[gen_previous]
    BY <1>5, <2>1 DEF TypeOK
  <2>5. enc_pos * MAX_BUFFER_SIZE \in Nat
    BY <2>2, SMT
  <2>6. ASSUME NEW a \in 0..(buf_size_bytes - 1)
        PROVE  mem'["buf"][a] = mem[gen_previous][a]
    <3>1. mem'["buf"][a] = IF a \in where THEN mem[gen_previous][a] ELSE mem["buf"][a]
      BY <2>1 DEF Copied, TypeOK, Buffers
    <3>2. a \in where \/ a < enc_pos * MAX_BUFFER_SIZE
      <4> HIDE DEF tail
      <4> QED
        BY <2>3, <2>5, <2>6 DEF Span
    <3> QED
      BY <1>4, <3>1, <3>2
  <2> QED
    BY <1>2, <1>3, <1>4, <2>2, <2>4, <2>6 DEF CopyInv
<1> QED
  BY <1>1, <1>8, <1>9, <1>10, <1>11, <1>12

LEMMA SequentialCopy ==
  ASSUME TypeOK, RaceInv, CopyInv,
         \/ LoopEnter \/ LoopExit \/ HandOver
         \/ DropThread \/ EnterSlowPath \/ SlowRetry \/ SlowGiveUp
         \/ WriteChunk \/ FillEnding \/ EncryptEnding \/ WriteEnding
  PROVE  CopyInv'
<1>1. CASE LoopEnter
  <2>1. /\ todo' = 0..(threads + aes_thread - 1) /\ enc_pos' = 0
        /\ UNCHANGED <<cfg, threads, buf_size>>
    BY <1>1 DEF LoopEnter, config_vars
  <2>2. /\ Aes' => threads' \in todo' \union running'
        /\ buf_size_bytes' \in Nat
    <3>1. Aes' = Aes /\ buf_size_bytes' = buf_size_bytes /\ buf_size_bytes \in Nat
      BY <2>1, PlanFixed, PlanFacts DEF TypeOK
    <3>2. threads \in Nat
      BY PlanFacts DEF TypeOK
    <3> QED
      BY <2>1, <3>1, <3>2 DEF aes_thread
  <2>3. ASSUME NEW b \in Nat PROVE 0 <= b \div MAX_BUFFER_SIZE
    BY DivMod, CounterAssumption
  <2>4. 0 * MAX_BUFFER_SIZE = 0
    BY CounterAssumption, SMT
  <2>5. ASSUME Aes', NEW a \in 0..(buf_size_bytes' - 1),
               threads' \in todo' \union running' => a < enc_pos' * MAX_BUFFER_SIZE
        PROVE  FALSE
    BY <2>1, <2>2, <2>4, <2>5
  <2>6. enc_pos' <= buf_size_bytes' \div MAX_BUFFER_SIZE
    BY <2>1, <2>2, <2>3
  <2> QED
    BY <2>5, <2>6 DEF CopyInv
<1>2. CASE ~LoopEnter
  <2>1. pc' # "parallel"
    BY <1>2 DEF LoopExit, HandOver, DropThread, EnterSlowPath, SlowRetry, SlowGiveUp,
                WriteChunk, FillEnding, EncryptEnding, WriteEnding
  <2> QED
    BY <2>1 DEF CopyInv
<1> QED
  BY <1>1, <1>2

-----------------------------------------------------------------------------
(* Ages.                                                                   *)

(* The sizes of the slow path fit an unsigned int, so that asking past the *)
(* buffer is asking for far more than the buffer.                          *)
SizesFit ==
  /\ WORD >= 2
  /\ \A r \in Requests :
       r.bytes # 0 =>
         WORD * ChunkSize(r.bytes, r.threads) + WORD * RoundSize(r.bytes, r.threads)
           <= UINT_RANGE

(* A request with rounds has chunks, and address 0 lies in every buffer.   *)
LEMMA SomeBlocks ==
  ASSUME TypeOK, Infinite \/ chunk_count >= 1
  PROVE  /\ chunk_size >= 1 /\ buf_size \in Nat /\ buf_size >= 1
         /\ 0 \in 0..(WORD * buf_size - 1)
<1>1. chunk_size >= 1
  <2>1. CASE Infinite
    BY <2>1, ChunkAssumption DEF Infinite, chunk_size, ChunkSize
  <2>2. CASE chunk_count >= 1
    <3>1. chunk_size # 0
      BY <2>2 DEF chunk_count, ChunkCount, chunk_size
    <3> QED
      BY <3>1, PlanFacts DEF TypeOK
  <2> QED
    BY <2>1, <2>2
<1>2. buf_size \in Nat /\ buf_size = chunk_size * threads /\ threads \in Nat /\ threads >= 1
      /\ chunk_size \in Nat
  BY PlanFacts, RoundFits DEF TypeOK
<1>3. chunk_size * threads >= chunk_size
  BY <1>2, SMT
<1>4. buf_size >= 1
  BY <1>1, <1>2, <1>3
<1>5. WORD * buf_size >= buf_size /\ WORD * buf_size \in Nat
  BY <1>2, WordAssumption, SMT
<1> QED
  BY <1>1, <1>2, <1>4, <1>5

(* A round that is handed on was generated completely in this round.       *)
LEMMA RoundFilled ==
  ASSUME TypeOK, CountInv, Joined, ~NeedsRepair, Generating,
         Infinite => "short" \notin incidents
  PROVE  Uniform(gen_current, round)
<1>1. Left = {}
  BY DEF Joined, Left
<1>2. Awaited = written
  <2>1. Cardinality(Left) = 0
    BY <1>1, FS_EmptySet
  <2>2. chunk_size \in Nat /\ written \in Nat
    BY PlanFacts DEF TypeOK
  <2> QED
    BY <2>1, <2>2 DEF Awaited
<1>3. Awaited = buf_size
  <2>1. CASE n < chunk_count
    BY <1>2, <2>1 DEF NeedsRepair
  <2>2. CASE Infinite
    BY <2>2 DEF CountInv, Joined
  <2> QED
    BY <2>1, <2>2 DEF Generating
<1>4. \A i \in 0..(threads - 1) : \A a \in TaskRegion(i) : mem[gen_current][a] = round
  BY <1>1, <1>3 DEF CountInv, Joined
<1> QED
  BY <1>4, ChunksOfRound DEF Uniform

(* Before the repair a round can only have too few blocks.                 *)
LEMMA RoundShort ==
  ASSUME TypeOK, CountInv, Joined, NeedsRepair
  PROVE  written < buf_size
<1>1. Left = {} /\ Generating
  BY DEF Joined, Left, NeedsRepair, Generating
<1>2. Awaited = written
  <2>1. Cardinality(Left) = 0
    BY <1>1, FS_EmptySet
  <2>2. chunk_size \in Nat /\ written \in Nat
    BY PlanFacts DEF TypeOK
  <2> QED
    BY <2>1, <2>2 DEF Awaited
<1> QED
  BY <1>1, <1>2, RoundFits DEF CountInv, Joined, NeedsRepair, TypeOK

(* The accounts an age depends on: which rounds are counted.               *)
LEMMA CountedRounds ==
  ASSUME TypeOK, OutputAccounted, pc \in InLoop \ {"loop"}
  PROVE  /\ Infinite \/ n < chunk_count + aes_thread
         /\ ~Aes => Generating
         /\ Aes => Infinite \/ n <= chunk_count
         /\ ~Infinite /\ Aes /\ first_run => n = 0
<1>1. n \in Nat /\ chunk_count \in Nat
  BY PlanFacts, UintAssumption DEF TypeOK
<1>2. ~Infinite => /\ n < chunk_count + aes_thread
                   /\ pc = "write" => ~(Aes /\ first_run)
                   /\ Aes /\ first_run => n = 0
  BY DEF OutputAccounted
<1>3. CASE Aes
  <2>1. aes_thread = 1
    BY <1>3 DEF aes_thread
  <2>2. Infinite \/ n <= chunk_count
    BY <1>1, <1>2, <2>1
  <2>3. Infinite \/ n < chunk_count + aes_thread
    BY <1>2
  <2> QED
    BY <1>2, <1>3, <2>2, <2>3
<1>4. CASE ~Aes
  <2>1. aes_thread = 0
    BY <1>4 DEF aes_thread
  <2>2. Generating
    BY <1>1, <1>2, <2>1 DEF Generating
  <2>3. Infinite \/ n < chunk_count + aes_thread
    BY <1>2
  <2> QED
    BY <1>4, <2>2, <2>3
<1> QED
  BY <1>3, <1>4

LEMMA HandOverAge ==
  ASSUME TypeOK, RaceInv, CountInv, CopyInv, OutputAccounted, NoRoundWrap,
         Undisturbed, AgeInv, Joined, ~NeedsRepair, HandOver
  PROVE  AgeInv'
<1>1. /\ UNCHANGED <<cfg, threads, buf_size, mem, newest, round, written>>
      /\ pc = "parallel" /\ n \in Nat /\ chunk_count \in Nat
  BY PlanFacts, UintAssumption DEF HandOver, config_vars, output, Joined, TypeOK
<1>2. /\ Aes' = Aes /\ Infinite' = Infinite /\ chunk_count' = chunk_count
      /\ \A b, tag : Uniform(b, tag)' = Uniform(b, tag)
  BY <1>1, PlanFixed DEF Uniform
<1>3. newest < round /\ newest \in Nat /\ round \in Nat
  BY <1>1 DEF AgeInv, TypeOK
<1>4. Generating => /\ Uniform(gen_current, round)
                    /\ 0 \in 0..(WORD * buf_size - 1)
  <2> SUFFICES ASSUME Generating PROVE Uniform(gen_current, round) /\ 0 \in 0..(WORD * buf_size - 1)
    OBVIOUS
  <2>1. Infinite \/ chunk_count >= 1
    BY <1>1 DEF Generating
  <2> QED
    BY <2>1, RoundFilled, SomeBlocks DEF Undisturbed
<1>5. Generating => mem[gen_current][0] = round
  BY <1>4 DEF Uniform
<1>6. /\ ~Aes => Generating
      /\ Aes => Infinite \/ n <= chunk_count
      /\ ~Infinite /\ Aes /\ first_run => n = 0
  BY <1>1, CountedRounds DEF InLoop
<1>7. CASE ~Aes
  <2>1. pc' = "write" /\ gen_current = "buf"
    BY <1>7 DEF HandOver, RaceInv, PointersApart
  <2>2. Uniform("buf", Content)' /\ Content' = round
    BY <1>1, <1>2, <1>4, <1>5, <1>6, <1>7, <2>1 DEF Content
  <2> QED
    BY <1>1, <1>2, <1>3, <1>7, <2>1, <2>2 DEF AgeInv
<1>8. CASE Aes /\ first_run
  <2>1. /\ pc' = "loop" /\ n' = Increment(n)
        /\ gen_previous' = gen_current
    BY <1>8 DEF HandOver, Swap
  <2>2. Infinite \/ n' <= chunk_count => Generating
    <3>1. CASE Infinite
      BY <3>1 DEF Generating
    <3>2. CASE ~Infinite
      <4>1. n = 0
        BY <1>6, <1>8, <3>2
      <4>2. n' = 1
        <5>1. n + 1 < UINT_RANGE => Increment(n) = n + 1
          BY CounterInRange DEF TypeOK
        <5> QED
          BY <2>1, <4>1, <5>1, UintAssumption
      <4> QED
        BY <1>1, <3>2, <4>1, <4>2 DEF Generating
    <3> QED
      BY <3>1, <3>2
  <2>3. Generating => Uniform(gen_previous, Waiting)' /\ Waiting' = round
    BY <1>1, <1>2, <1>4, <1>5, <2>1 DEF Waiting
  <2> QED
    BY <1>1, <1>2, <1>3, <2>1, <2>2, <2>3 DEF AgeInv
<1>9. CASE Aes /\ ~first_run
  <2>1. /\ pc' = "write" /\ n' = n
        /\ gen_previous' = gen_current
    BY <1>9 DEF HandOver, Swap
  <2>2. Uniform(gen_previous, Waiting) /\ newest < Waiting /\ Waiting < round
    BY <1>1, <1>6, <1>9 DEF AgeInv
  <2>3. \A a \in 0..(buf_size_bytes - 1) : mem["buf"][a] = mem[gen_previous][a]
    BY <1>1, <1>9 DEF CopyInv, Joined, Undisturbed
  <2>4. chunk_count >= 1 \/ Infinite
    <3>1. ~Infinite => n >= 1
      BY <1>9 DEF OutputAccounted
    <3> QED
      BY <1>1, <1>6, <1>9, <3>1
  <2>5. 0 \in 0..(WORD * buf_size - 1) /\ WORD * buf_size <= buf_size_bytes
        /\ WORD * buf_size \in Nat /\ buf_size_bytes \in Nat
    BY <2>4, SomeBlocks, ChunksOfRound, PlanFacts DEF TypeOK
  <2>6. Uniform("buf", Content)' /\ Content' = Waiting
    <3>1. Content = Waiting
      BY <2>3, <2>5 DEF Content, Waiting
    <3>2. Content' = Content
      BY <1>1 DEF Content
    <3>3. ASSUME NEW a \in 0..(WORD * buf_size - 1) PROVE mem["buf"][a] = Content
      BY <2>2, <2>3, <2>5, <3>1 DEF Uniform
    <3> QED
      BY <1>1, <3>1, <3>2, <3>3 DEF Uniform
  <2>7. Generating' => Uniform(gen_previous, Waiting)' /\ Waiting' = round
    <3>1. Generating' = Generating
      BY <1>2, <2>1 DEF Generating
    <3> QED
      BY <1>1, <1>2, <1>4, <1>5, <2>1, <3>1 DEF Waiting
  <2>8. newest' < Content' /\ Content' <= round'
    BY <1>1, <1>3, <2>2, <2>5, <2>6 DEF Waiting, TypeOK
  <2>9. Generating' => Content' < Waiting' /\ Waiting' <= round'
    BY <1>1, <1>3, <2>2, <2>6, <2>7
  <2>10. newest' <= round'
    BY <1>1, <1>3
  <2> QED
    BY <2>1, <2>6, <2>7, <2>8, <2>9, <2>10 DEF AgeInv
<1> QED
  BY <1>7, <1>8, <1>9

(* The iterations touch neither what waits to be encrypted nor an age.     *)
LEMMA TaskAge ==
  ASSUME TypeOK, RaceInv, Undisturbed => AgeInv, Task, Undisturbed'
  PROVE  AgeInv'
<1>1. PICK i \in 0..cfg.threads :
        \/ StartTask(i) \/ FillTask(i) \/ IdleTask(i)
        \/ EncryptChunk(i) \/ EncryptTail(i)
  BY DEF Task
<1>2. /\ UNCHANGED <<cfg, threads, buf_size, pc, n, round, first_run, newest,
                     gen_current, gen_previous>>
      /\ incidents \subseteq incidents' /\ pc = "parallel"
  BY TaskFrame
<1>3. /\ Aes' = Aes /\ Infinite' = Infinite /\ chunk_count' = chunk_count
  BY <1>2, PlanFixed
<1>4. AgeInv
  BY <1>2, <1>3 DEF Undisturbed
<1>5. Aes => mem'[gen_previous] = mem[gen_previous]
  <2>1. Aes => gen_previous # "buf" /\ gen_previous # gen_current
    BY DEF RaceInv, PointersApart
  <2> QED
    BY <1>1, <2>1 DEF StartTask, FillTask, IdleTask, EncryptChunk, EncryptTail,
                      buffers, TypeOK
<1>6. Aes => Uniform(gen_previous, Waiting)' = Uniform(gen_previous, Waiting)
             /\ Waiting' = Waiting
  BY <1>2, <1>5 DEF Uniform, Waiting
<1> QED
  BY <1>2, <1>3, <1>4, <1>6 DEF AgeInv

(* What is written has an age.                                             *)
LEMMA WrittenAge ==
  ASSUME TypeOK, OutputAccounted, pc = "write"
  PROVE  Content \in Nat /\ Waiting \in Nat
<1>1. Infinite \/ chunk_count >= 1
  <2>1. ASSUME ~Infinite PROVE chunk_count >= 1
    <3>1. ~(Aes /\ first_run)
      BY <2>1 DEF OutputAccounted
    <3>2. chunk_count \in Nat /\ RoundsOut \in Nat /\ RoundsOut + 1 <= chunk_count
      BY <2>1, <3>1, RoundsFacts DEF InLoop
    <3> QED
      BY <3>2
  <2> QED
    BY <2>1
<1>2. 0 \in 0..(buf_size_bytes - 1)
  BY <1>1, SomeBlocks, ChunksOfRound, PlanFacts DEF TypeOK
<1> QED
  BY <1>2 DEF Content, Waiting, TypeOK, Buffers

(* The write makes the waiting round the next one.                         *)
LEMMA WriteChunkAge ==
  ASSUME TypeOK, OutputAccounted, NoRoundWrap, AgeInv, WriteChunk
  PROVE  AgeInv'
<1>1. /\ UNCHANGED <<cfg, threads, buf_size, mem, gen_previous, first_run, round>>
      /\ pc = "write" /\ pc' \in {"loop", "ending"}
      /\ newest' = newest \/ newest' = Content
      /\ pc' = "loop" => n' = Increment(n)
  BY DEF WriteChunk, config_vars, buffers, Content
<1>2. /\ Aes' = Aes /\ Infinite' = Infinite /\ chunk_count' = chunk_count
      /\ Uniform(gen_previous, Waiting)' = Uniform(gen_previous, Waiting)
      /\ Waiting' = Waiting
  BY <1>1, PlanFixed DEF Uniform, Waiting
<1>3. /\ newest < Content /\ Content <= round
      /\ Aes /\ Generating =>
           Uniform(gen_previous, Waiting) /\ Content < Waiting /\ Waiting <= round
  BY <1>1 DEF AgeInv
<1>4. /\ newest \in Nat /\ round \in Nat /\ n \in Nat /\ chunk_count \in Nat
      /\ n \in 0..(UINT_RANGE - 1)
  BY PlanFacts, UintAssumption DEF TypeOK
<1>5. newest' <= Content /\ newest' \in Int /\ Content \in Int /\ newest' <= round'
  BY <1>1, <1>3, <1>4, WrittenAge
<1>6. ASSUME pc' = "loop", Aes, Infinite \/ n' <= chunk_count
      PROVE  Generating
  <2>1. CASE Infinite
    BY <2>1 DEF Generating
  <2>2. CASE ~Infinite
    <3>1. n < chunk_count + 1
      BY <1>1, <1>6, <2>2, CountedRounds DEF InLoop, aes_thread
    <3>2. chunk_count + 1 < UINT_RANGE
      BY DEF NoRoundWrap, chunk_count, TypeOK
    <3>3. n + 1 < UINT_RANGE => Increment(n) = n + 1
      BY <1>4, CounterInRange
    <3>4. n' = n + 1
      BY <1>1, <1>4, <1>6, <3>1, <3>2, <3>3, UintAssumption
    <3> QED
      BY <1>4, <1>6, <2>2, <3>4 DEF Generating
  <2> QED
    BY <2>1, <2>2
<1>7. ASSUME pc' = "loop", Aes, Infinite \/ n' <= chunk_count
      PROVE  Uniform(gen_previous, Waiting)' /\ newest' < Waiting' /\ Waiting' <= round'
  <2>1. Uniform(gen_previous, Waiting) /\ Content < Waiting /\ Waiting <= round
    BY <1>3, <1>6, <1>7
  <2>2. Waiting \in Int
    BY <1>1, WrittenAge
  <2> QED
    BY <1>1, <1>2, <1>4, <1>5, <2>1, <2>2
<1> QED
  BY <1>1, <1>2, <1>5, <1>7 DEF AgeInv

(* A cycle of the slow path asks for blocks minus bytes.  Either that is   *)
(* not negative, and less than half of the missing blocks, or it wraps and *)
(* is more than the buffer.  So the slow path never completes a round.     *)
LEMMA SlowNeverCompletes ==
  ASSUME TypeOK, SizesFit, ~Infinite, threads = 1, written < buf_size,
         NEW filled \in Fills(cfg.method, written, SlowRequest),
         "overrun" \notin SlowIncidents(filled)
  PROVE  written + (Cardinality(filled) \div WORD) < buf_size
<1> DEFINE q == Cardinality(filled) \div WORD
           C == WORD * chunk_size
<1>1. /\ written \in Nat /\ chunk_size \in Nat /\ buf_size = chunk_size
      /\ buf_size_bytes \in Nat /\ WORD \in Nat /\ WORD >= 2
      /\ cfg.threads \in Nat /\ cfg.threads >= 1
      /\ SlowRequest = (chunk_size - written * WORD) % UINT_RANGE
  <2>1. written \in Nat /\ chunk_size \in Nat /\ buf_size = chunk_size * threads
        /\ buf_size_bytes \in Nat /\ cfg.threads \in Nat /\ cfg.threads >= 1
    BY PlanFacts DEF TypeOK
  <2>2. chunk_size * 1 = chunk_size /\ 1 * chunk_size = chunk_size
    BY <2>1
  <2> QED
    BY <2>1, <2>2, WordAssumption DEF SizesFit, SlowRequest
<1>2. written + SlowRequest <= buf_size_bytes
  <2>1. SlowRequest \in Nat
    <3>1. chunk_size - written * WORD \in Int
      BY <1>1
    <3> QED
      BY <1>1, <3>1, UintAssumption
  <2> QED
    BY <1>1, <2>1 DEF SlowIncidents
<1>3. C + buf_size_bytes <= UINT_RANGE
  BY DEF SizesFit, TypeOK, Infinite, chunk_size, buf_size_bytes
<1>4. /\ WORD * written \in Nat /\ WORD * (written + 1) <= C /\ C \in Nat
      /\ WORD * (written + 1) = WORD * written + WORD
      /\ written * WORD = WORD * written /\ written <= WORD * written
  <2>1. written + 1 <= chunk_size
    BY <1>1
  <2>2. written <= WORD * written /\ written * WORD = WORD * written
    BY <1>1, SMT
  <2> QED
    BY <1>1, <2>1, <2>2, RoundArithmetic
<1>5. CASE chunk_size < WORD * written
  <2> DEFINE d == WORD * written - chunk_size
  <2>1. d \in Nat /\ d >= 1 /\ d < C /\ d < UINT_RANGE
    BY <1>1, <1>3, <1>4, <1>5, UintAssumption
  <2>2. SlowRequest = (0 - d) % UINT_RANGE
    BY <1>1, <1>4
  <2> HIDE DEF d, C
  <2>3. (0 - d) % UINT_RANGE = UINT_RANGE - d
    BY <2>1, UintAssumption
  <2>4. written >= 1
    <3>1. written = 0 => WORD * written = 0
      BY <1>1
    <3> QED
      BY <1>1, <1>5, <3>1
  <2>5. written + SlowRequest > buf_size_bytes
    BY <1>1, <1>3, <1>4, <2>1, <2>2, <2>3, <2>4, UintAssumption
  <2>6. SlowRequest \in Int
    BY <2>1, <2>2, <2>3, UintAssumption
  <2> QED
    BY <1>1, <1>2, <2>5, <2>6
<1>6. CASE ~(chunk_size < WORD * written)
  <2> DEFINE r == chunk_size - WORD * written
  <2>1. r \in Nat /\ SlowRequest = r % UINT_RANGE
    BY <1>1, <1>4, <1>6
  <2> HIDE DEF r, C, q
  <2>2. SlowRequest \in Nat /\ SlowRequest <= r
    <3>1. /\ r \div UINT_RANGE \in Nat /\ r % UINT_RANGE \in Nat
          /\ r = UINT_RANGE * (r \div UINT_RANGE) + (r % UINT_RANGE)
      BY <2>1, DivMod, UintAssumption
    <3>2. UINT_RANGE * (r \div UINT_RANGE) \in Nat
      BY <3>1, UintAssumption, ProductBounds
    <3> QED
      BY <2>1, <3>1, <3>2
  <2>3. Cardinality(filled) \in 0..SlowRequest
    BY <1>1, <2>2, FillsCount
  <2>4. q \in Nat /\ WORD * q <= Cardinality(filled) /\ WORD * q \in Nat
    <3>1. /\ q \in Nat /\ Cardinality(filled) % WORD \in Nat
          /\ Cardinality(filled) = WORD * q + (Cardinality(filled) % WORD)
      BY <2>2, <2>3, DivMod, WordAssumption DEF q
    <3>2. WORD * q \in Nat
      BY <3>1, WordAssumption, ProductBounds
    <3> QED
      BY <2>2, <2>3, <3>1, <3>2
  <2>5. WORD * (written + q) <= chunk_size
    <3>1. WORD * (written + q) = WORD * written + WORD * q
      BY <1>1, <2>4, SMT
    <3>2. WORD * q <= r
      BY <2>1, <2>2, <2>3, <2>4
    <3> QED
      BY <1>1, <1>4, <2>4, <3>1, <3>2 DEF r
  <2>6. written + q < chunk_size
    <3> DEFINE t == written + q
    <3>1. t \in Nat
      BY <1>1, <2>4
    <3>2. chunk_size >= 1
      BY <1>1
    <3> HIDE DEF t
    <3>3. WORD * t >= t + t
      BY <1>1, <3>1, SMT
    <3>4. WORD * t \in Nat
      BY <1>1, <3>1, ProductBounds
    <3>5. WORD * t <= chunk_size
      BY <2>5 DEF t
    <3>6. t < chunk_size
      BY <1>1, <3>1, <3>2, <3>3, <3>4, <3>5
    <3> QED
      BY <3>6 DEF t
  <2> QED
    BY <1>1, <2>6 DEF q
<1> QED
  BY <1>5, <1>6

(* Repairing a round makes nothing older.                                  *)
LEMMA RepairAge ==
  ASSUME TypeOK, RaceInv, CountInv, OutputAccounted, SizesFit,
         Undisturbed => AgeInv, Undisturbed',
         DropThread \/ EnterSlowPath \/ SlowRetry \/ SlowGiveUp
  PROVE  AgeInv'
<1>1. /\ UNCHANGED <<cfg, gen_current, gen_previous, round, newest, first_run>>
      /\ n' = n
      /\ incidents \subseteq incidents'
  BY CounterInRange DEF DropThread, EnterSlowPath, SlowRetry, SlowGiveUp, config_vars,
     buffers, output, Incident, TypeOK
<1>2. /\ Aes' = Aes /\ Infinite' = Infinite /\ chunk_count' = chunk_count
      /\ chunk_size' = chunk_size
  BY <1>1, PlanFixed
<1>3. AgeInv
  BY <1>1, <1>2 DEF Undisturbed
<1>4. newest \in Nat /\ round \in Nat
  BY DEF TypeOK
<1>5. CASE DropThread
  <2>1. /\ mem' = mem /\ buf_size' = buf_size - chunk_size /\ pc' = "loop"
        /\ pc = "parallel"
    BY <1>5 DEF DropThread, buffers, Joined
  <2>2. WORD * buf_size' <= WORD * buf_size /\ WORD * buf_size \in Nat
        /\ WORD * buf_size' \in Int
    <3>1. buf_size \in Nat /\ chunk_size \in Nat /\ buf_size' = buf_size - chunk_size
      BY <2>1, RoundFits, PlanFacts DEF TypeOK
    <3>2. WORD * (buf_size - chunk_size) = WORD * buf_size - WORD * chunk_size
      BY <3>1, WordAssumption, SMT
    <3>3. WORD * buf_size \in Nat /\ WORD * chunk_size \in Nat
      BY <3>1, WordAssumption, ProductBounds
    <3> QED
      BY <3>1, <3>2, <3>3
  <2>3. \A tag : Uniform(gen_previous, tag) => Uniform(gen_previous, tag)'
    BY <1>1, <2>1, <2>2 DEF Uniform
  <2>4. Waiting' = Waiting
    BY <1>1, <2>1 DEF Waiting
  <2> QED
    BY <1>1, <1>2, <1>3, <1>4, <2>1, <2>3, <2>4 DEF AgeInv
<1>6. CASE EnterSlowPath
  <2>1. /\ UNCHANGED <<threads, buf_size, mem, written>> /\ pc' = "slow"
        /\ pc = "parallel" /\ threads = 1
    BY <1>6 DEF EnterSlowPath, config_vars, buffers, Joined, LastThread
  <2>2. written < buf_size
    BY <1>6, RoundShort DEF EnterSlowPath
  <2>3. ~Infinite
    <3>1. n < chunk_count /\ n \in Nat
      BY <1>6, UintAssumption DEF EnterSlowPath, NeedsRepair, TypeOK
    <3>2. Infinite => chunk_count = 0
      BY DEF Infinite, chunk_count, ChunkCount
    <3> QED
      BY <3>1, <3>2
  <2>4. \A tag : Uniform(gen_previous, tag)' = Uniform(gen_previous, tag)
    BY <1>1, <2>1 DEF Uniform
  <2>5. Waiting' = Waiting
    BY <1>1, <2>1 DEF Waiting
  <2> QED
    BY <1>1, <1>2, <1>3, <1>4, <2>1, <2>2, <2>3, <2>4, <2>5 DEF AgeInv
<1>7. CASE SlowRetry
  <2>1. PICK filled \in Fills(cfg.method, written, SlowRequest) :
          /\ \/ /\ mem' = [mem EXCEPT ![gen_current] = Overlay(@, filled, round)]
                /\ written' = written + (Cardinality(filled) \div WORD)
                /\ pc' = pc
             \/ /\ pc' = "undefined"
                /\ mem' = mem /\ written' = written
          /\ incidents' = incidents \union SlowIncidents(filled)
    BY <1>7 DEF SlowRetry
  <2>2. /\ UNCHANGED <<threads, buf_size>> /\ pc = "slow"
    BY <1>7 DEF SlowRetry, config_vars
  <2>3. ~Infinite /\ threads = 1 /\ written < buf_size
    BY <1>3, <2>2 DEF AgeInv
  <2>4. pc' = "slow" => written' < buf_size
    <3>1. "overrun" \notin SlowIncidents(filled)
      BY <2>1 DEF Undisturbed
    <3>2. written + (Cardinality(filled) \div WORD) < buf_size
      BY <2>3, <3>1, SlowNeverCompletes
    <3> QED
      BY <2>1, <3>2
  <2>5. Aes => mem'[gen_previous] = mem[gen_previous]
    <3>1. Aes => gen_previous # gen_current
      BY DEF RaceInv, PointersApart
    <3> QED
      BY <2>1, <3>1 DEF TypeOK
  <2>6. Aes => /\ \A tag : Uniform(gen_previous, tag)' = Uniform(gen_previous, tag)
               /\ Waiting' = Waiting
    BY <1>1, <2>2, <2>5 DEF Uniform, Waiting
  <2>7. pc' \in {"slow", "undefined"}
    BY <2>1, <2>2
  <2> QED
    BY <1>1, <1>2, <1>3, <1>4, <2>2, <2>3, <2>4, <2>6, <2>7 DEF AgeInv
<1>8. CASE SlowGiveUp
  <2>1. pc' = "ending"
    BY <1>8 DEF SlowGiveUp
  <2> QED
    BY <1>1, <1>3, <2>1 DEF AgeInv
<1> QED
  BY <1>5, <1>6, <1>7, <1>8

(* Entering the loop begins a new round; after the last one nothing ages.  *)
LEMMA OtherAge ==
  ASSUME TypeOK, OutputAccounted, AgeInv,
         LoopEnter \/ LoopExit \/ FillEnding \/ EncryptEnding \/ WriteEnding
  PROVE  AgeInv'
<1>1. UNCHANGED <<cfg, gen_previous, mem, buf_size, newest, first_run, n>>
  BY DEF LoopEnter, LoopExit, FillEnding, EncryptEnding, WriteEnding, config_vars,
         buffers, output
<1>2. /\ Aes' = Aes /\ Infinite' = Infinite /\ chunk_count' = chunk_count
      /\ Uniform(gen_previous, Waiting)' = Uniform(gen_previous, Waiting)
      /\ Waiting' = Waiting
  BY <1>1, PlanFixed DEF Uniform, Waiting
<1>3. newest \in Nat /\ round \in Nat /\ newest <= round
  BY DEF TypeOK, AgeInv
<1>4. CASE LoopEnter
  <2>1. pc = "loop" /\ pc' = "parallel" /\ round' = round + 1
    BY <1>4 DEF LoopEnter
  <2>2. ASSUME Aes, ~first_run, Infinite \/ n <= chunk_count
        PROVE  /\ Uniform(gen_previous, Waiting) /\ newest < Waiting
               /\ Waiting < round' /\ Waiting <= round'
    <3>1. Uniform(gen_previous, Waiting) /\ newest < Waiting /\ Waiting <= round
      BY <2>1, <2>2 DEF AgeInv
    <3>2. Waiting \in Nat
      <4>1. Infinite \/ chunk_count >= 1
        <5>1. ~Infinite => n >= 1
          BY <2>2 DEF OutputAccounted
        <5> QED
          BY <2>2, <5>1, PlanFacts, UintAssumption DEF TypeOK
      <4>2. 0 \in 0..(buf_size_bytes - 1)
        BY <4>1, SomeBlocks, ChunksOfRound, PlanFacts DEF TypeOK
      <4> QED
        BY <4>2 DEF Waiting, TypeOK
    <3> QED
      BY <1>3, <2>1, <3>1, <3>2
  <2> QED
    BY <1>1, <1>2, <1>3, <2>1, <2>2 DEF AgeInv
<1>5. CASE ~LoopEnter
  <2>1. pc' \notin InLoop /\ round' = round
    BY <1>5 DEF LoopExit, FillEnding, EncryptEnding, WriteEnding, InLoop
  <2> QED
    BY <1>1, <1>3, <2>1 DEF AgeInv, InLoop
<1> QED
  BY <1>4, <1>5

LEMMA TeamInvariant == Spec => [](CountInv /\ CopyInv)
<1>1. Init => CountInv /\ CopyInv
  BY DEF Init, CountInv, CopyInv
<1>2. TypeOK /\ RaceInv /\ CountInv /\ CopyInv /\ [Next]_vars => CountInv' /\ CopyInv'
  <2> SUFFICES ASSUME TypeOK, RaceInv, CountInv, CopyInv, [Next]_vars
               PROVE  CountInv' /\ CopyInv'
    OBVIOUS
  <2>1. CASE Task
    BY <2>1, TaskCount, TaskCopy
  <2>2. CASE \/ LoopEnter \/ LoopExit \/ ChunkReady \/ SlowDone
             \/ DropThread \/ EnterSlowPath \/ SlowRetry \/ SlowGiveUp
             \/ WriteChunk \/ FillEnding \/ EncryptEnding \/ WriteEnding
    BY <2>2, SequentialCount, SequentialCopy DEF ChunkReady, SlowDone
  <2>3. CASE UNCHANGED vars
    <3>1. /\ cfg' = cfg /\ threads' = threads /\ buf_size' = buf_size /\ pc' = pc
          /\ n' = n /\ written' = written /\ first_run' = first_run
          /\ gen_current' = gen_current /\ gen_previous' = gen_previous /\ mem' = mem
          /\ todo' = todo /\ running' = running /\ enc_pos' = enc_pos
          /\ round' = round /\ incidents' = incidents
      BY <2>3 DEF vars, config_vars, buffers, tasks
    <3>2. /\ chunk_size' = chunk_size /\ chunk_count' = chunk_count
          /\ buf_size_bytes' = buf_size_bytes /\ Aes' = Aes /\ Infinite' = Infinite
      BY <3>1, PlanFixed
    <3>3. CountInv' = CountInv
      BY <3>1, <3>2 DEF CountInv, Generating, Left, Awaited, TaskRegion, TaskStart
    <3>4. CopyInv' = CopyInv
      BY <3>1, <3>2 DEF CopyInv
    <3> QED
      BY <3>3, <3>4
  <2> QED
    BY <2>1, <2>2, <2>3 DEF Next, Stopped
<1> QED
  BY <1>1, <1>2, TypeCorrect, RaceInvariant, PTL DEF Spec

(* What went wrong stays known. *)
LEMMA StaysUndisturbed ==
  ASSUME [Next]_vars
  PROVE  /\ cfg' = cfg
         /\ incidents \subseteq incidents'
         /\ Undisturbed' => Undisturbed
<1>1. cfg' = cfg
  BY DEF Next, LoopEnter, LoopExit, Task, StartTask, FillTask, IdleTask,
         EncryptChunk, EncryptTail, FinishTask, ChunkReady, HandOver, DropThread,
         EnterSlowPath, SlowRetry, SlowDone, SlowGiveUp, WriteChunk, FillEnding,
         EncryptEnding, WriteEnding, Stopped, vars, config_vars
<1>2. incidents \subseteq incidents'
  BY DEF Next, LoopEnter, LoopExit, Task, StartTask, FillTask, IdleTask,
         EncryptChunk, EncryptTail, FinishTask, ChunkReady, HandOver, DropThread,
         EnterSlowPath, SlowRetry, SlowDone, SlowGiveUp, WriteChunk, FillEnding,
         EncryptEnding, WriteEnding, Stopped, vars, Incident
<1> QED
  BY <1>1, <1>2, PlanFixed DEF Undisturbed

LEMMA FreshInvariant ==
  ASSUME NoRoundWrap, SizesFit
  PROVE  Spec => []FreshInv
<1>1. Init => FreshInv
  BY DEF Init, FreshInv, AgeInv
<1>2. /\ TypeOK /\ RaceInv /\ OutputAccounted /\ CountInv /\ CopyInv /\ FreshInv
      /\ [Next]_vars
      => FreshInv'
  <2> SUFFICES ASSUME TypeOK, RaceInv, OutputAccounted, CountInv, CopyInv, FreshInv,
                      [Next]_vars, Undisturbed'
               PROVE  AgeInv'
    BY DEF FreshInv
  <2>1. AgeInv /\ Undisturbed
    BY StaysUndisturbed DEF FreshInv
  <2>2. CASE Task
    BY <2>1, <2>2, TaskAge
  <2>3. CASE ChunkReady
    BY <2>1, <2>3, HandOverAge DEF ChunkReady
  <2>4. CASE SlowDone
    <3>1. pc = "slow" /\ written = buf_size /\ buf_size \in Nat
      BY <2>4, RoundFits DEF SlowDone, TypeOK
    <3> QED
      BY <2>1, <3>1 DEF AgeInv
  <2>5. CASE DropThread \/ EnterSlowPath \/ SlowRetry \/ SlowGiveUp
    BY <2>1, <2>5, RepairAge
  <2>6. CASE WriteChunk
    BY <2>1, <2>6, WriteChunkAge
  <2>7. CASE LoopEnter \/ LoopExit \/ FillEnding \/ EncryptEnding \/ WriteEnding
    BY <2>1, <2>7, OtherAge
  <2>8. CASE UNCHANGED vars
    <3>1. /\ cfg' = cfg /\ threads' = threads /\ buf_size' = buf_size /\ pc' = pc
          /\ n' = n /\ written' = written /\ first_run' = first_run
          /\ gen_previous' = gen_previous /\ mem' = mem
          /\ round' = round /\ newest' = newest
      BY <2>8 DEF vars, config_vars, buffers, output
    <3>2. Aes' = Aes /\ Infinite' = Infinite /\ chunk_count' = chunk_count
      BY <3>1, PlanFixed
    <3> QED
      BY <2>1, <3>1, <3>2 DEF AgeInv, Uniform, Waiting, Content, Generating
  <2> QED
    BY <2>2, <2>3, <2>4, <2>5, <2>6, <2>7, <2>8 DEF Next, Stopped
<1> QED
  BY <1>1, <1>2, TypeCorrect, RaceInvariant, TeamInvariant, Accounted, PTL DEF Spec

(* Whatever is written was generated, all of it in one round and later     *)
(* than anything written before, for every request and schedule, while     *)
(* encryption succeeds, the slow path stays in the buffer and a request    *)
(* without an end does not underflow.                                      *)
THEOREM OutputIsFresh ==
  ASSUME NoRoundWrap, SizesFit
  PROVE  Spec => []FreshOutput
<1>1. FreshInv => FreshOutput
  BY DEF FreshInv, FreshOutput, NothingStale, Undisturbed, AgeInv, Uniform
<1> QED
  BY <1>1, FreshInvariant, PTL
=============================================================================
