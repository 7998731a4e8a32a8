------------------------------ MODULE Generate ------------------------------
(***************************************************************************)
(* The generator loop of rdrand-gen: generate(), generate_chunk() and      *)
(* generate_ending() of src/rdrand-gen.c.                                  *)
(*                                                                         *)
(* Each round runs an OpenMP parallel loop: iterations 0..threads-1 each   *)
(* fill one chunk of the current buffer, and with AES one more iteration   *)
(* encrypts what the previous round generated into the output buffer.      *)
(* When the loop joins, too few generated blocks make the program give up  *)
(* a thread and repeat the round, or retry slowly when one thread is left; *)
(* otherwise the buffers are swapped and the output buffer is written.     *)
(* After the last round one thread generates the ending bytes.             *)
(*                                                                         *)
(* A byte of memory holds the number of the round that generated it, 0 if  *)
(* it was never set.  An encrypted byte keeps the number of its plaintext. *)
(***************************************************************************)
EXTENDS ChunkPlan, RdRandFill, AesCounter

CONSTANTS
  Requests,                 \* the configurations parse_args() may hand over
  SLOW_RETRY_LIMIT_CYCLES,  \* 100 in the code
  SinkMayFail,              \* may fwrite() write less than it was given?
  MaxRounds                 \* bound: rounds a behaviour may start

Methods == {"get_bytes", "reseed_delay", "reseed_skip"}
Keys    == {"none", "given", "generated"}   \* none: -a was not given

ASSUME RequestsAssumption ==
  \A r \in Requests : /\ DOMAIN r = {"bytes", "threads", "method", "keys"}
                      /\ r.bytes \in Nat
                      /\ r.threads \in Nat /\ r.threads >= 1
                      /\ r.method \in Methods
                      /\ r.keys \in Keys
ASSUME LimitAssumption == SLOW_RETRY_LIMIT_CYCLES \in Nat /\ MaxRounds \in Nat
ASSUME SinkAssumption  == SinkMayFail \in BOOLEAN

VARIABLES
  cfg,            \* the request
  pc,             \* where the main thread is, see Stages
  threads,        \* config->threads, which underflows lower
  n,              \* the round counter, an unsigned int
  written,        \* blocks generated in this round
  buf_size,       \* blocks in a round with the current threads
  written_total,  \* blocks written to the output
  first_run,
  retry,          \* cycles of the slow path
  gen_current, gen_previous,   \* names of the buffers they point to
  mem,            \* the three buffers of generate_chunk()
  todo, running,  \* iterations of the parallel loop not begun, and begun
  enc_pos,        \* buffers of MAX_BUFFER_SIZE encrypted by this call
  next_counter,   \* AES_CFG.keys.next_counter
  ending_out,     \* bytes of the ending written to the output
  result,         \* what generate() returns
  round,          \* history: rounds begun
  newest,         \* history: the newest round in the output
  incidents       \* history: what went wrong so far

config_vars == <<cfg, threads, buf_size>>
buffers     == <<gen_current, gen_previous, mem>>
tasks       == <<todo, running, enc_pos, next_counter>>
output      == <<written_total, ending_out, result, newest>>
vars == <<config_vars, buffers, tasks, output,
          pc, n, written, first_run, retry, round, incidents>>

Stages == {"loop", "parallel", "slow", "write",
           "ending", "encrypt ending", "write ending", "done", "undefined"}
InLoop    == {"loop", "parallel", "slow", "write"}
Buffers   == {"buf", "gen_buf1", "gen_buf2"}
Incidents == {"short", "short again", "overrun", "gave up", "encryption", "sink", "ending"}

-----------------------------------------------------------------------------
(* The request and its plan, which compute_chunk_size() fixed.             *)

Infinite   == cfg.bytes = 0
Aes        == cfg.keys # "none"
aes_thread == IF Aes THEN 1 ELSE 0

chunk_size   == ChunkSize(cfg.bytes, cfg.threads)
chunk_count  == ChunkCount(cfg.bytes, cfg.threads)
ending_bytes == EndingBytes(cfg.bytes, cfg.threads)

(* sizeof(buf) and of the other two: fixed when the arrays are declared.   *)
buf_size_bytes == WORD * RoundSize(cfg.bytes, cfg.threads)

Init ==
  /\ cfg \in Requests
  /\ pc = "loop"
  /\ threads = cfg.threads
  /\ n = 0
  /\ written = 0
  /\ buf_size = RoundSize(cfg.bytes, cfg.threads)
  /\ written_total = 0
  /\ first_run = TRUE
  /\ retry = 0
  /\ gen_current = IF Aes THEN "gen_buf1" ELSE "buf"
  /\ gen_previous = "gen_buf2"
  /\ mem = [b \in Buffers |-> [a \in 0..(buf_size_bytes - 1) |-> 0]]
  /\ todo = {} /\ running = {}
  /\ enc_pos = 0
  /\ next_counter = FirstCounter(cfg.keys)
  /\ ending_out = 0
  /\ result = 0
  /\ round = 0
  /\ newest = 0
  /\ incidents = {}

Incident(cond, what) ==
  incidents' = IF cond THEN incidents \union {what} ELSE incidents

-----------------------------------------------------------------------------
(* The parallel loop.                                                      *)

Generating == n < chunk_count \/ Infinite
MoreRoundsToGenerate == n < chunk_count \/ Infinite

(* The condition of the for loop: with AES one more round, which encrypts  *)
(* the last chunk.                                                         *)
MoreRounds == n < chunk_count + aes_thread \/ Infinite

TaskStartByBlock(i) == i * WORD

(* Where iteration i generates its chunk: &gen_current[i*chunk_size].      *)
TaskStart(i)  == i * WORD * chunk_size
TaskRegion(i) == Span(TaskStart(i), WORD * chunk_size)

(* A buffer after the addresses `filled` were set to tag, or copied.       *)
Overlay(buffer, filled, tag) ==
  [a \in DOMAIN buffer |-> IF a \in filled THEN tag ELSE buffer[a]]
Copied(dest, src, where) ==
  [a \in DOMAIN dest |-> IF a \in where THEN src[a] ELSE dest[a]]

LoopEnter ==
  /\ pc = "loop"
  /\ MoreRounds
  /\ round < MaxRounds
  /\ pc' = "parallel"
  /\ round' = round + 1
  /\ written' = 0
  /\ todo' = 0..(threads + aes_thread - 1)
  /\ enc_pos' = 0
  /\ UNCHANGED <<config_vars, buffers, output, running, next_counter,
                 n, first_run, retry, incidents>>

LoopExit ==
  /\ pc = "loop"
  /\ ~MoreRounds
  /\ pc' = "ending"
  /\ UNCHANGED <<config_vars, buffers, tasks, output,
                 n, written, first_run, retry, round, incidents>>

(* A thread of the team picks up iteration i. *)
StartTask(i) ==
  /\ i \in todo
  /\ todo' = todo \ {i}
  /\ running' = running \union {i}
  /\ UNCHANGED <<config_vars, buffers, output, enc_pos, next_counter,
                 pc, n, written, first_run, retry, round, incidents>>

FinishTask(i) ==
  /\ running' = running \ {i}
  /\ UNCHANGED <<config_vars, output, todo,
                 pc, n, first_run, retry, round, gen_current, gen_previous>>

(* The call of generate_with_metod() returns.  The reduction adds up the   *)
(* whole blocks of what the calls return.                                  *)
FillTask(i) ==
  /\ i \in running /\ i < threads /\ Generating
  /\ \E filled \in Fills(cfg.method, TaskStart(i), WORD * chunk_size) :
       /\ mem' = [mem EXCEPT ![gen_current] = Overlay(@, filled, round)]
       /\ written' = written + (Cardinality(filled) \div WORD)
       /\ Incident(Cardinality(filled) # WORD * chunk_size, "short")
  /\ FinishTask(i)
  /\ UNCHANGED <<enc_pos, next_counter>>

(* Nothing to generate in the round that only encrypts the last chunk,     *)
(* nothing to encrypt in the first.                                        *)
IdleTask(i) ==
  /\ i \in running
  /\ IF i < threads THEN ~Generating ELSE first_run
  /\ FinishTask(i)
  /\ UNCHANGED <<mem, written, enc_pos, next_counter, incidents>>

(* rdrand_enc_buffer(buf, gen_previous, buf_size_bytes), one EncryptChunk  *)
(* per full MAX_BUFFER_SIZE and the tail at the end.  The tail is not      *)
(* counted.  What the call returns is not looked at.                       *)
Encrypting(i) == i \in running /\ i >= threads /\ ~first_run

EncryptChunk(i) ==
  /\ Encrypting(i)
  /\ enc_pos < buf_size_bytes \div MAX_BUFFER_SIZE
  /\ \E c \in Counter(cfg.keys, next_counter, MAX_BUFFER_SIZE),
        evp \in CryptoResults :
       /\ next_counter' = c.next
       /\ IF c.ok /\ evp
          THEN /\ mem' = [mem EXCEPT !["buf"] =
                    Copied(@, mem[gen_previous],
                           Span(enc_pos * MAX_BUFFER_SIZE, MAX_BUFFER_SIZE))]
               /\ enc_pos' = enc_pos + 1
               /\ UNCHANGED <<config_vars, output, todo, running, pc, n, first_run,
                              retry, round, gen_current, gen_previous, incidents>>
          ELSE /\ Incident(TRUE, "encryption")
               /\ FinishTask(i)
               /\ UNCHANGED <<mem, enc_pos>>
  /\ UNCHANGED written

EncryptTail(i) ==
  /\ Encrypting(i)
  /\ enc_pos = buf_size_bytes \div MAX_BUFFER_SIZE
  /\ \E evp \in CryptoResults :
       IF evp \/ buf_size_bytes % MAX_BUFFER_SIZE = 0
       THEN /\ mem' = [mem EXCEPT !["buf"] =
                 Copied(@, mem[gen_previous],
                        Span(enc_pos * MAX_BUFFER_SIZE,
                             buf_size_bytes % MAX_BUFFER_SIZE))]
            /\ UNCHANGED incidents
       ELSE Incident(TRUE, "encryption") /\ UNCHANGED mem
  /\ FinishTask(i)
  /\ UNCHANGED <<written, enc_pos, next_counter>>

-----------------------------------------------------------------------------
(* After the join: repair a round that fell short, or hand it on.          *)

Joined      == pc = "parallel" /\ todo = {} /\ running = {}

NeedsRepairPerChunk == written < chunk_size /\ n < chunk_count

(* An underflow.  In a request without an end chunk_count is 0. *)
NeedsRepair == written # buf_size /\ n < chunk_count

(* n++ of the for loop. *)
Increment(x) == (x + 1) % UINT_RANGE

RedoSkips(x) == Increment(x)

RedoAgain(x) == (x - 1) % UINT_RANGE

(* n-- and then the n++ of `continue`. *)
Redo(x) == Increment((x - 1) % UINT_RANGE)

SwapLosesPrevious(current, previous) ==
  [current |-> current, previous |-> current]

SwapForgotten(current, previous) == [current |-> current, previous |-> previous]

(* gen_current and gen_previous after the swap. *)
Swap(current, previous) == [current |-> previous, previous |-> current]

(* With AES the chunk goes to the encryption buffer, and in the first      *)
(* round there is nothing to write yet.                                    *)
HandOver ==
  /\ IF Aes
     THEN LET swapped == Swap(gen_current, gen_previous)
          IN  /\ gen_current' = swapped.current
              /\ gen_previous' = swapped.previous
     ELSE UNCHANGED <<gen_current, gen_previous>>
  /\ IF Aes /\ first_run
     THEN pc' = "loop" /\ first_run' = FALSE /\ n' = Increment(n)
     ELSE pc' = "write" /\ UNCHANGED <<first_run, n>>
  /\ UNCHANGED <<config_vars, mem, tasks, output, written, retry, round, incidents>>

ChunkReady ==
  /\ Joined
  /\ ~NeedsRepair
  /\ HandOver

LastThreadNoticedLate == threads = 0

(* "if we can't lower threads count anymore" *)
LastThread == threads = 1

(* config->threads--, and the round is run again. *)
DropThread ==
  /\ Joined
  /\ NeedsRepair
  /\ ~LastThread
  /\ threads' = threads - 1
  /\ buf_size' = buf_size - chunk_size
  /\ n' = Redo(n)
  /\ pc' = "loop"
  /\ UNCHANGED <<cfg, buffers, tasks, output,
                 written, first_run, retry, round, incidents>>

EnterSlowPath ==
  /\ Joined
  /\ NeedsRepair
  /\ LastThread
  /\ retry' = 0
  /\ pc' = "slow"
  /\ UNCHANGED <<config_vars, buffers, tasks, output,
                 n, written, first_run, round, incidents>>

(* The number of bytes the slow path asks for: blocks minus bytes, in an   *)
(* unsigned int.                                                           *)
SlowRequest == (threads * chunk_size - written * WORD) % UINT_RANGE

RetryForgotten(r) == r

(* retry++ *)
CountRetry(r) == r + 1

(* What a cycle that set `filled` says about the request and the hardware. *)
SlowIncidents(filled) ==
  (IF written + SlowRequest > buf_size_bytes THEN {"overrun"} ELSE {}) \union
  (IF Cardinality(filled) # SlowRequest THEN {"short again"} ELSE {})

(* One cycle: ask again, at `written` bytes into the buffer.  A call that  *)
(* sets a byte outside the buffer is undefined: nothing is said about what *)
(* the program does from there.                                            *)
SlowRetry ==
  /\ pc = "slow"
  /\ written # buf_size
  /\ retry < SLOW_RETRY_LIMIT_CYCLES
  /\ retry' = CountRetry(retry)
  /\ \E filled \in Fills(cfg.method, written, SlowRequest) :
       /\ IF filled \subseteq DOMAIN mem[gen_current]
          THEN /\ mem' = [mem EXCEPT ![gen_current] = Overlay(@, filled, round)]
               /\ written' = written + (Cardinality(filled) \div WORD)
               /\ UNCHANGED pc
          ELSE /\ pc' = "undefined"
               /\ UNCHANGED <<mem, written>>
       /\ incidents' = incidents \union SlowIncidents(filled)
  /\ UNCHANGED <<config_vars, tasks, output, gen_current, gen_previous,
                 n, first_run, round>>

SlowDone ==
  /\ pc = "slow"
  /\ written = buf_size
  /\ HandOver

SlowGiveUp ==
  /\ pc = "slow"
  /\ written # buf_size
  /\ retry = SLOW_RETRY_LIMIT_CYCLES
  /\ pc' = "ending"
  /\ Incident(TRUE, "gave up")
  /\ UNCHANGED <<config_vars, buffers, tasks, output,
                 n, written, first_run, retry, round>>

(* What fwrite() of `size` elements may return. *)
SinkTakes(size) == IF SinkMayFail THEN 0..size ELSE {size}

WriteChunk ==
  /\ pc = "write"
  /\ \E taken \in SinkTakes(buf_size) :
       /\ written' = taken
       /\ written_total' = written_total + taken
       /\ newest' = IF taken = 0 THEN newest ELSE mem["buf"][0]
       /\ IF taken = buf_size
          THEN pc' = "loop" /\ n' = Increment(n)
          ELSE pc' = "ending" /\ UNCHANGED n
       /\ Incident(taken # buf_size, "sink")
  /\ UNCHANGED <<config_vars, buffers, tasks, ending_out, result,
                 first_run, retry, round>>

-----------------------------------------------------------------------------
(* generate_ending(), which runs however generate_chunk() ended.           *)

(* The ending is written only if every byte of it was generated. *)
FillEnding ==
  /\ pc = "ending"
  /\ \E filled \in Fills(cfg.method, 0, ending_bytes) :
       IF Cardinality(filled) = ending_bytes
       THEN /\ pc' = IF Aes THEN "encrypt ending" ELSE "write ending"
            /\ UNCHANGED <<result, incidents>>
       ELSE /\ pc' = "done"
            /\ result' = written_total * WORD + Cardinality(filled)
            /\ Incident(TRUE, "ending")
  /\ enc_pos' = 0
  /\ UNCHANGED <<config_vars, buffers, todo, running, next_counter,
                 written_total, ending_out, newest,
                 n, written, first_run, retry, round>>

(* rdrand_enc_buffer(buf, enc_buf, ending_bytes): a failure is printed,    *)
(* and the bytes are written all the same.                                 *)
EncryptEnding ==
  /\ pc = "encrypt ending"
  /\ IF enc_pos < ending_bytes \div MAX_BUFFER_SIZE
     THEN \E c \in Counter(cfg.keys, next_counter, MAX_BUFFER_SIZE),
             evp \in CryptoResults :
            /\ next_counter' = c.next
            /\ IF c.ok /\ evp
               THEN enc_pos' = enc_pos + 1 /\ UNCHANGED <<pc, incidents>>
               ELSE pc' = "write ending" /\ Incident(TRUE, "encryption")
                                         /\ UNCHANGED enc_pos
     ELSE \E evp \in CryptoResults :
            /\ pc' = "write ending"
            /\ Incident(~evp /\ ending_bytes % MAX_BUFFER_SIZE # 0, "encryption")
            /\ UNCHANGED <<next_counter, enc_pos>>
  /\ UNCHANGED <<config_vars, buffers, output, todo, running,
                 n, written, first_run, retry, round>>

WriteEnding ==
  /\ pc = "write ending"
  /\ \E taken \in SinkTakes(ending_bytes) :
       /\ ending_out' = taken
       /\ result' = written_total * WORD + taken
       /\ Incident(taken # ending_bytes, "sink")
  /\ pc' = "done"
  /\ UNCHANGED <<config_vars, buffers, tasks, written_total, newest,
                 n, written, first_run, retry, round>>

-----------------------------------------------------------------------------

(* generate() has returned, or the program is past defined behaviour. *)
Stopped == pc \in {"done", "undefined"} /\ UNCHANGED vars

Task ==
  \E i \in 0..cfg.threads :
     \/ StartTask(i)
     \/ FillTask(i)
     \/ IdleTask(i)
     \/ EncryptChunk(i)
     \/ EncryptTail(i)

Next ==
  \/ LoopEnter \/ LoopExit
  \/ Task
  \/ ChunkReady \/ DropThread
  \/ EnterSlowPath \/ SlowRetry \/ SlowDone \/ SlowGiveUp
  \/ WriteChunk
  \/ FillEnding \/ EncryptEnding \/ WriteEnding
  \/ Stopped

Spec == Init /\ [][Next]_vars

(* The operating system keeps running the process: some thread of it makes *)
(* a step.  Nothing is assumed about which one.                            *)
FairSpec == Spec /\ WF_vars(Next)

-----------------------------------------------------------------------------

(* Every variable keeps its type; in particular threads never reaches 0    *)
(* and the pointers always name a buffer.                                  *)
TypeOK ==
  /\ cfg \in Requests
  /\ pc \in Stages
  /\ threads \in 1..cfg.threads
  /\ n \in 0..(UINT_RANGE - 1)
  /\ written \in Nat
  /\ buf_size = chunk_size * threads
  /\ written_total \in Nat
  /\ first_run \in BOOLEAN
  /\ retry \in 0..SLOW_RETRY_LIMIT_CYCLES
  /\ gen_current \in Buffers
  /\ gen_previous \in Buffers
  /\ mem \in [Buffers -> [0..(buf_size_bytes - 1) -> Nat]]
  /\ todo \subseteq 0..cfg.threads
  /\ running \subseteq 0..cfg.threads
  /\ enc_pos \in Nat
  /\ next_counter \in 0..MAX_COUNTER
  /\ ending_out \in Nat
  /\ result \in Nat
  /\ round \in Nat
  /\ newest \in Nat
  /\ incidents \subseteq Incidents

Bytes(buffer, addresses) == {buffer} \X addresses

(* What the calls in flight may read and write. *)
ReadBy(i) ==
  IF Encrypting(i) THEN Bytes(gen_previous, DOMAIN mem[gen_previous]) ELSE {}
WrittenBy(i) ==
  IF i < threads
  THEN IF Generating THEN Bytes(gen_current, TaskRegion(i)) ELSE {}
  ELSE IF Encrypting(i) THEN Bytes("buf", DOMAIN mem["buf"]) ELSE {}

(* The generating threads and the encrypting thread never touch the same   *)
(* byte in the same parallel loop, whatever the number of threads has      *)
(* become and however often the buffers were swapped.                      *)
RaceFree ==
  \A i, j \in running :
    i # j => WrittenBy(i) \intersect (WrittenBy(j) \union ReadBy(j)) = {}

(* The round whose data the output buffer holds. *)
Content == mem["buf"][0]

(* What is about to be written was generated, all of it in one round and   *)
(* in a later one than anything written before: no byte is written twice,  *)
(* none is left over from an abandoned or repeated round, and none was     *)
(* never set.                                                              *)
NothingStale ==
  pc = "write" =>
    /\ Content > newest
    /\ \A a \in 0..(WORD * buf_size - 1) : mem["buf"][a] = Content

(* NothingStale, except after a failed encryption, whose result is not     *)
(* looked at, after the slow path asked past the buffer, and after an      *)
(* underflow of a request without an end, which is not looked at either.   *)
FreshOutput ==
  (/\ "encryption" \notin incidents
   /\ "overrun" \notin incidents
   /\ Infinite => "short" \notin incidents)
  => NothingStale

emitted == written_total * WORD + ending_out

(* The output never exceeds the request. *)
OutputBounded == ~Infinite => emitted <= cfg.bytes

(* The rounds whose data may have reached the output when the loop is at    *)
(* round n: with AES the output is one round behind.                       *)
RoundsOut == IF ~Aes THEN n ELSE IF first_run THEN 0 ELSE n - 1

(* Why OutputBounded holds: at every point of generate() the output has at *)
(* most a full round for each round counted, no more rounds are counted    *)
(* than planned, and the round in the making is one of them.               *)
OutputAccounted ==
  ~Infinite =>
    LET full == RoundSize(cfg.bytes, cfg.threads)
    IN  /\ Aes /\ first_run => n = 0
        /\ Aes /\ ~first_run => n >= 1
        /\ RoundsOut <= chunk_count
        /\ pc \in InLoop => written_total <= full * RoundsOut
        /\ pc \notin InLoop => written_total <= full * chunk_count
        /\ pc \in InLoop \ {"loop"} => n < chunk_count + aes_thread
        /\ pc = "write" => ~(Aes /\ first_run)
        /\ ending_out <= ending_bytes
        /\ pc # "done" => ending_out = 0

(* The incidents that cost output. *)
Losses == {"short", "short again", "overrun", "gave up", "sink", "ending"}

(* While the hardware delivers and the output takes everything, the        *)
(* request is served completely and generate() returns its size.  (The     *)
(* reseed methods deliver whole blocks only.)                              *)
CompleteUnlessIncident ==
  (pc = "done" /\ ~Infinite /\ incidents \intersect Losses = {})
  => emitted = cfg.bytes /\ result = cfg.bytes

(* Giving up threads shrinks the rounds but skips none of them: at least   *)
(* chunk_count rounds of the remaining threads reach the output.           *)
NoRoundSkipped ==
  (pc = "done" /\ ~Infinite /\ incidents \intersect {"gave up", "sink"} = {})
  => written_total >= chunk_size * threads * chunk_count

(* generate() returns, also when the hardware and the output fail for      *)
(* good: repeated rounds run out of threads, slow retries out of cycles.   *)
Terminates == (~Infinite) ~> (pc \in {"done", "undefined"})

-----------------------------------------------------------------------------
(* What comments and messages of the source say, and the code does not do. *)

(* The help text (src/rdrand-gen.c:131), "Generate given amount of bytes", *)
(* while nothing at all goes wrong.                                        *)
AmountDeliveredByHealthyHardware ==
  (pc = "done" /\ ~Infinite) => emitted = cfg.bytes

(* The comment of the repair code (src/rdrand-gen.c:530), "if not enough   *)
(* data was generated, try to slow down and print an error": data that was *)
(* not generated is not written.                                           *)
UnderflowIsHandled == NothingStale

(* The comment of the slow path (src/rdrand-gen.c:551), "try to generate   *)
(* the rest": what is asked for lies in the buffer.                        *)
SlowPathAsksForTheRest == "overrun" \notin incidents

(* The help text (src/rdrand-gen.c:136), "Encrypt the output with          *)
(* AES-CTR": with -a every written buffer is a fresh encryption.           *)
OutputIsEncrypted == Aes => NothingStale
=============================================================================
