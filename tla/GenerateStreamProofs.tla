------------------------ MODULE GenerateStreamProofs ------------------------
(***************************************************************************)
(* What leaves generate(), for every request that has an end: no round is  *)
(* skipped, nothing is missing while nothing fails, and the generator loop *)
(* implements ByteStream.                                                  *)
(***************************************************************************)
EXTENDS GenerateStream, BufferProofs

-----------------------------------------------------------------------------
(* Rounds written.                                                         *)

(* Every round counted reached the output with at least the blocks of the  *)
(* current team, since the team only shrinks.                              *)
SkipInv ==
  (~Infinite /\ incidents \intersect {"gave up", "sink"} = {} /\ pc # "undefined") =>
    /\ pc \in InLoop => written_total >= buf_size * RoundsOut
    /\ pc \notin InLoop => written_total >= buf_size * chunk_count

(* Types of the numbers of rounds. *)
LEMMA RoundNumbers ==
  ASSUME TypeOK, OutputAccounted, ~Infinite
  PROVE  /\ buf_size \in Nat /\ chunk_count \in Nat /\ RoundsOut \in Nat
         /\ written_total \in Nat /\ n \in Nat
         /\ n \in 0..(UINT_RANGE - 1) /\ aes_thread \in {0, 1}
  BY RoundsFacts, RoundFits, PlanFacts, UintAssumption DEF TypeOK

(* The loop ends only when all planned rounds are out.                     *)
LEMMA ExitAfterAllRounds ==
  ASSUME TypeOK, OutputAccounted, ~Infinite, ~MoreRounds
  PROVE  RoundsOut = chunk_count
<1>1. /\ n \in Nat /\ chunk_count \in Nat
      /\ RoundsOut <= chunk_count
      /\ Aes /\ first_run => n = 0
  BY RoundNumbers DEF OutputAccounted
<1>2. CASE Aes
  <2>1. n >= chunk_count + 1
    BY <1>1, <1>2 DEF MoreRounds, aes_thread
  <2>2. ~first_run
    BY <1>1, <1>2, <2>1
  <2>3. RoundsOut = n - 1
    BY <1>2, <2>2 DEF RoundsOut
  <2> QED
    BY <1>1, <2>1, <2>3
<1>3. CASE ~Aes
  <2>1. n >= chunk_count /\ RoundsOut = n
    BY <1>1, <1>3 DEF MoreRounds, aes_thread, RoundsOut
  <2> QED
    BY <1>1, <2>1
<1> QED
  BY <1>2, <1>3

(* Counting a round in RoundsOut: the one that was just written, and not   *)
(* the first with AES.                                                     *)
LEMMA RoundCounted ==
  ASSUME TypeOK, OutputAccounted, NoRoundWrap, ~Infinite,
         pc \in InLoop \ {"loop"}, UNCHANGED cfg, n' = Increment(n)
  PROVE  /\ n' = n + 1
         /\ ~(Aes /\ first_run) /\ first_run' = first_run => RoundsOut' = RoundsOut + 1
         /\ Aes /\ first_run /\ ~first_run' => RoundsOut' = RoundsOut
<1>1. /\ n \in 0..(UINT_RANGE - 1) /\ n \in Nat /\ chunk_count \in Nat
      /\ aes_thread \in {0, 1}
  BY RoundNumbers
<1>2. n < chunk_count + aes_thread /\ (Aes /\ first_run => n = 0)
  BY DEF OutputAccounted
<1>3. n + 1 < UINT_RANGE
  <2>1. chunk_count + 1 < UINT_RANGE
    BY DEF NoRoundWrap, chunk_count, TypeOK
  <2> QED
    BY <1>1, <1>2, <2>1, UintAssumption
<1>4. n' = n + 1
  BY <1>1, <1>3, CounterInRange
<1>5. Aes' = Aes
  BY PlanFixed
<1>6. ASSUME ~(Aes /\ first_run), first_run' = first_run
      PROVE  RoundsOut' = RoundsOut + 1
  BY <1>1, <1>4, <1>5, <1>6 DEF RoundsOut
<1>7. ASSUME Aes, first_run, ~first_run'
      PROVE  RoundsOut' = RoundsOut
  BY <1>1, <1>2, <1>4, <1>5, <1>7 DEF RoundsOut
<1> QED
  BY <1>4, <1>6, <1>7

(* A step that writes nothing, counts no round and stays in the loop, or   *)
(* stays out of it.                                                        *)
LEMMA SameSkips ==
  ASSUME TypeOK, OutputAccounted, SkipInv, ~Infinite,
         UNCHANGED <<cfg, written_total, buf_size>>,
         incidents \subseteq incidents',
         \/ pc' = "undefined"
         \/ pc \in InLoop /\ pc' \in InLoop /\ RoundsOut' = RoundsOut
         \/ pc \notin InLoop /\ pc' \notin InLoop /\ pc # "undefined"
         \/ pc' = pc /\ RoundsOut' = RoundsOut
         \/ pc \in InLoop /\ "gave up" \in incidents'
         \/ pc \in InLoop /\ pc' \notin InLoop /\ RoundsOut = chunk_count
  PROVE  SkipInv'
<1>1. chunk_count' = chunk_count /\ Infinite' = Infinite
  BY PlanFixed
<1> QED
  BY <1>1 DEF SkipInv, InLoop

LEMMA HandOverSkips ==
  ASSUME TypeOK, OutputAccounted, SkipInv, NoRoundWrap, ~Infinite,
         pc \in {"parallel", "slow"}, HandOver
  PROVE  SkipInv'
<1>1. /\ UNCHANGED <<cfg, written_total, buf_size>> /\ incidents' = incidents
      /\ pc' \in {"loop", "write"}
  BY DEF HandOver, config_vars, output
<1>2. RoundsOut' = RoundsOut
  <2>1. CASE Aes /\ first_run
    <3>1. n' = Increment(n) /\ ~first_run'
      BY <2>1 DEF HandOver
    <3> QED
      BY <1>1, <2>1, <3>1, RoundCounted DEF InLoop
  <2>2. CASE ~(Aes /\ first_run)
    <3>1. n' = n /\ first_run' = first_run
      BY <2>2 DEF HandOver
    <3> QED
      BY <1>1, <3>1, PlanFixed DEF RoundsOut
  <2> QED
    BY <2>1, <2>2
<1> QED
  BY <1>1, <1>2, SameSkips DEF InLoop

LEMMA DropThreadSkips ==
  ASSUME TypeOK, OutputAccounted, SkipInv, ~Infinite, DropThread
  PROVE  SkipInv'
<1>1. /\ UNCHANGED <<cfg, written_total, incidents, first_run>> /\ n' = n
      /\ pc = "parallel" /\ pc' = "loop" /\ buf_size' = buf_size - chunk_size
  BY CounterInRange DEF DropThread, output, Joined, TypeOK
<1>2. RoundsOut' = RoundsOut /\ Infinite' = Infinite
  BY <1>1, PlanFixed DEF RoundsOut
<1>3. /\ buf_size \in Nat /\ chunk_size \in Nat /\ RoundsOut \in Nat
      /\ written_total \in Nat
  BY RoundNumbers, PlanFacts DEF TypeOK
<1>4. /\ (buf_size - chunk_size) * RoundsOut = buf_size * RoundsOut - chunk_size * RoundsOut
      /\ buf_size * RoundsOut \in Nat /\ chunk_size * RoundsOut \in Nat
  BY <1>3, SMT
<1>5. ASSUME incidents \intersect {"gave up", "sink"} = {}
      PROVE  written_total' >= buf_size' * RoundsOut'
  <2>1. written_total >= buf_size * RoundsOut
    BY <1>1, <1>5 DEF SkipInv, InLoop
  <2>2. buf_size' * RoundsOut' = (buf_size - chunk_size) * RoundsOut
    BY <1>1, <1>2
  <2> QED
    BY <1>1, <1>3, <1>4, <2>1, <2>2
<1> QED
  BY <1>1, <1>2, <1>5 DEF SkipInv, InLoop

LEMMA WriteChunkSkips ==
  ASSUME TypeOK, OutputAccounted, SkipInv, NoRoundWrap, ~Infinite, WriteChunk
  PROVE  SkipInv'
<1>1. PICK taken \in SinkTakes(buf_size) :
        /\ written_total' = written_total + taken
        /\ IF taken = buf_size
           THEN pc' = "loop" /\ n' = Increment(n)
           ELSE pc' = "ending"
        /\ Incident(taken # buf_size, "sink")
  BY DEF WriteChunk
<1>2. /\ pc = "write" /\ UNCHANGED <<cfg, buf_size, first_run>>
      /\ Infinite' = Infinite
      /\ ~(Aes /\ first_run)
  BY PlanFixed DEF WriteChunk, config_vars, OutputAccounted
<1>3. CASE taken # buf_size
  <2>1. "sink" \in incidents'
    BY <1>1, <1>3 DEF Incident
  <2> QED
    BY <2>1 DEF SkipInv
<1>4. CASE taken = buf_size
  <2>1. RoundsOut' = RoundsOut + 1
    BY <1>1, <1>2, <1>4, RoundCounted DEF InLoop
  <2>2. /\ incidents' = incidents /\ pc' = "loop"
        /\ written_total' = written_total + buf_size
    BY <1>1, <1>4 DEF Incident
  <2>3. /\ buf_size * (RoundsOut + 1) = buf_size * RoundsOut + buf_size
        /\ buf_size * RoundsOut \in Nat /\ buf_size \in Nat /\ written_total \in Nat
    BY RoundNumbers, RoundArithmetic
  <2>4. ASSUME incidents \intersect {"gave up", "sink"} = {}
        PROVE  written_total' >= buf_size' * RoundsOut'
    <3>1. written_total >= buf_size * RoundsOut
      BY <1>2, <2>4 DEF SkipInv, InLoop
    <3>2. buf_size' * RoundsOut' = buf_size * (RoundsOut + 1)
      BY <1>2, <2>1
    <3> QED
      BY <2>2, <2>3, <3>1, <3>2
  <2> QED
    BY <1>2, <2>2, <2>4 DEF SkipInv, InLoop
<1> QED
  BY <1>3, <1>4

LEMMA SkipInvariant ==
  ASSUME NoRoundWrap
  PROVE  Spec => []SkipInv
<1>1. Init => SkipInv
  <2> SUFFICES ASSUME Init PROVE SkipInv
    OBVIOUS
  <2>1. RoundsOut = 0 /\ written_total = 0 /\ pc \in InLoop
    BY DEF Init, RoundsOut, InLoop
  <2>2. buf_size * 0 = 0
    BY PlanFacts DEF Init
  <2>3. written_total >= buf_size * RoundsOut
    BY <2>1, <2>2
  <2> QED
    BY <2>1, <2>3 DEF SkipInv
<1>2. TypeOK /\ OutputAccounted /\ SkipInv /\ [Next]_vars => SkipInv'
  <2> SUFFICES ASSUME TypeOK, OutputAccounted, SkipInv, [Next]_vars
               PROVE  SkipInv'
    OBVIOUS
  <2>1. cfg' = cfg /\ incidents \subseteq incidents' /\ Infinite' = Infinite
    BY StaysUndisturbed, PlanFixed
  <2>2. CASE Infinite
    BY <2>1, <2>2 DEF SkipInv
  <2>3. ASSUME ~Infinite, UNCHANGED <<n, first_run>>
        PROVE  RoundsOut' = RoundsOut
    BY <2>1, <2>3, PlanFixed DEF RoundsOut
  <2>4. CASE ~Infinite /\ LoopEnter
    <3>1. /\ UNCHANGED <<written_total, buf_size, n, first_run>>
          /\ pc = "loop" /\ pc' = "parallel"
      BY <2>4 DEF LoopEnter, output, config_vars
    <3> QED
      BY <2>1, <2>3, <2>4, <3>1, SameSkips DEF InLoop
  <2>5. CASE ~Infinite /\ LoopExit
    <3>1. /\ UNCHANGED <<written_total, buf_size, n, first_run>>
          /\ pc = "loop" /\ pc' = "ending" /\ ~MoreRounds
      BY <2>5 DEF LoopExit, output, config_vars
    <3>2. RoundsOut = chunk_count
      BY <2>5, <3>1, ExitAfterAllRounds
    <3> QED
      BY <2>1, <2>5, <3>1, <3>2, SameSkips DEF InLoop
  <2>6. CASE ~Infinite /\ Task
    <3>1. UNCHANGED <<written_total, buf_size, n, first_run, pc>>
      BY <2>6 DEF Task, StartTask, FillTask, IdleTask, EncryptChunk, EncryptTail,
                  FinishTask, config_vars, output
    <3> QED
      BY <2>1, <2>3, <2>6, <3>1, SameSkips
  <2>7. CASE ~Infinite /\ (ChunkReady \/ SlowDone)
    BY <2>7, HandOverSkips DEF ChunkReady, SlowDone, Joined
  <2>8. CASE ~Infinite /\ DropThread
    BY <2>8, DropThreadSkips
  <2>9. CASE ~Infinite /\ (EnterSlowPath \/ SlowRetry)
    <3>1. UNCHANGED <<written_total, buf_size, n, first_run>>
      BY <2>9 DEF EnterSlowPath, SlowRetry, output, config_vars
    <3>2. pc' = "undefined" \/ (pc \in InLoop /\ pc' \in InLoop)
      BY <2>9 DEF EnterSlowPath, SlowRetry, Joined, InLoop
    <3> QED
      BY <2>1, <2>3, <2>9, <3>1, <3>2, SameSkips
  <2>10. CASE ~Infinite /\ SlowGiveUp
    <3>1. /\ UNCHANGED <<written_total, buf_size>>
          /\ pc = "slow" /\ "gave up" \in incidents'
      BY <2>10 DEF SlowGiveUp, output, config_vars, Incident
    <3> QED
      BY <2>1, <2>10, <3>1, SameSkips DEF InLoop
  <2>11. CASE ~Infinite /\ WriteChunk
    BY <2>11, WriteChunkSkips
  <2>12. CASE ~Infinite /\ (FillEnding \/ EncryptEnding \/ WriteEnding)
    <3>1. /\ UNCHANGED <<written_total, buf_size>>
          /\ pc \notin InLoop /\ pc' \notin InLoop /\ pc # "undefined"
      BY <2>12 DEF FillEnding, EncryptEnding, WriteEnding, output, config_vars, InLoop
    <3> QED
      BY <2>1, <2>12, <3>1, SameSkips
  <2>13. CASE ~Infinite /\ UNCHANGED vars
    <3>1. UNCHANGED <<written_total, buf_size, n, first_run, pc>>
      BY <2>13 DEF vars, config_vars, output
    <3> QED
      BY <2>1, <2>3, <2>13, <3>1, SameSkips
  <2> QED
    BY <2>2, <2>4, <2>5, <2>6, <2>7, <2>8, <2>9, <2>10, <2>11, <2>12, <2>13
       DEF Next, Stopped
<1> QED
  BY <1>1, <1>2, TypeCorrect, Accounted, PTL DEF Spec

(* However many threads are given up on the way, every planned round       *)
(* reaches the output, with at least the blocks of the threads that are    *)
(* left, unless the slow path gave up or the output took less.             *)
THEOREM NothingSkipped ==
  ASSUME NoRoundWrap
  PROVE  Spec => []NoRoundSkipped
<1>1. TypeOK /\ SkipInv => NoRoundSkipped
  BY DEF TypeOK, SkipInv, NoRoundSkipped, InLoop
<1> QED
  BY <1>1, SkipInvariant, TypeCorrect, PTL

-----------------------------------------------------------------------------
(* Completeness.                                                           *)

(* While nothing is lost the team is the one that was asked for, and every *)
(* round counted is in the output in full.                                 *)
CompleteInv ==
  (~Infinite /\ incidents \intersect Losses = {}) =>
    LET full == RoundSize(cfg.bytes, cfg.threads)
    IN  /\ threads = cfg.threads
        /\ pc \notin {"slow", "undefined"}
        /\ pc \in InLoop => written_total = full * RoundsOut
        /\ pc \notin InLoop => written_total = full * chunk_count
        /\ pc = "done" => /\ ending_out = ending_bytes
                          /\ result = written_total * WORD + ending_out

(* Steps that neither write nor count a round.                             *)
LEMMA SameComplete ==
  ASSUME CompleteInv,
         UNCHANGED <<cfg, threads, written_total, n, first_run, ending_out, result>>,
         incidents \subseteq incidents',
         \/ pc' = pc
         \/ pc \in InLoop /\ pc' \in InLoop \ {"slow"}
         \/ pc \in InLoop /\ pc' = "ending" /\ RoundsOut = chunk_count
         \/ pc \notin InLoop /\ pc' \notin InLoop \union {"undefined", "done"}
         \/ incidents' \intersect Losses # {}
  PROVE  CompleteInv'
<1>1. /\ chunk_count' = chunk_count /\ ending_bytes' = ending_bytes
      /\ Infinite' = Infinite /\ RoundsOut' = RoundsOut
      /\ RoundSize(cfg.bytes, cfg.threads)' = RoundSize(cfg.bytes, cfg.threads)
  BY PlanFixed DEF RoundsOut
<1>2. incidents' \intersect Losses = {} => incidents \intersect Losses = {}
  OBVIOUS
<1> QED
  BY <1>1, <1>2 DEF CompleteInv, InLoop

LEMMA HandOverComplete ==
  ASSUME TypeOK, OutputAccounted, CompleteInv, NoRoundWrap, ~Infinite,
         pc \in {"parallel", "slow"}, HandOver
  PROVE  CompleteInv'
<1>1. /\ UNCHANGED <<cfg, threads, written_total>> /\ incidents' = incidents
      /\ pc' \in {"loop", "write"}
  BY DEF HandOver, config_vars, output
<1>2. RoundsOut' = RoundsOut
  <2>1. CASE Aes /\ first_run
    <3>1. n' = Increment(n) /\ ~first_run'
      BY <2>1 DEF HandOver
    <3> QED
      BY <1>1, <2>1, <3>1, RoundCounted DEF InLoop
  <2>2. CASE ~(Aes /\ first_run)
    <3>1. n' = n /\ first_run' = first_run
      BY <2>2 DEF HandOver
    <3> QED
      BY <1>1, <3>1, PlanFixed DEF RoundsOut
  <2> QED
    BY <2>1, <2>2
<1>3. Infinite' = Infinite
  BY <1>1, PlanFixed
<1> QED
  BY <1>1, <1>2, <1>3 DEF CompleteInv, InLoop

LEMMA WriteChunkComplete ==
  ASSUME TypeOK, OutputAccounted, CompleteInv, NoRoundWrap, ~Infinite, WriteChunk
  PROVE  CompleteInv'
<1> DEFINE full == RoundSize(cfg.bytes, cfg.threads)
<1>1. PICK taken \in SinkTakes(buf_size) :
        /\ written_total' = written_total + taken
        /\ IF taken = buf_size
           THEN pc' = "loop" /\ n' = Increment(n)
           ELSE pc' = "ending"
        /\ Incident(taken # buf_size, "sink")
  BY DEF WriteChunk
<1>2. /\ pc = "write" /\ UNCHANGED <<cfg, threads, first_run>>
      /\ Infinite' = Infinite /\ full' = full
      /\ ~(Aes /\ first_run)
  BY PlanFixed DEF WriteChunk, config_vars, OutputAccounted
<1>3. CASE taken # buf_size
  <2>1. "sink" \in incidents'
    BY <1>1, <1>3 DEF Incident
  <2> QED
    BY <2>1 DEF CompleteInv, Losses
<1>4. CASE taken = buf_size
  <2>1. RoundsOut' = RoundsOut + 1
    BY <1>1, <1>2, <1>4, RoundCounted DEF InLoop
  <2>2. /\ incidents' = incidents /\ pc' = "loop"
        /\ written_total' = written_total + buf_size
    BY <1>1, <1>4 DEF Incident
  <2>3. full \in Nat /\ RoundsOut \in Nat
    BY PlanFacts, RoundNumbers DEF TypeOK
  <2>4. ASSUME incidents \intersect Losses = {}
        PROVE  threads' = cfg.threads /\ written_total' = full * RoundsOut'
    <3>1. threads = cfg.threads /\ written_total = full * RoundsOut
      BY <1>2, <2>4 DEF CompleteInv, InLoop
    <3>2. buf_size = full
      BY <3>1, PlanFacts DEF TypeOK
    <3> HIDE DEF full
    <3>3. full * (RoundsOut + 1) = full * RoundsOut + full
      BY <2>3, RoundArithmetic
    <3> QED
      BY <1>2, <2>1, <2>2, <3>1, <3>2, <3>3
  <2> HIDE DEF full
  <2> QED
    BY <1>2, <2>2, <2>4 DEF CompleteInv, InLoop, full
<1> QED
  BY <1>3, <1>4

(* A round of which nothing fell short needs no repair.                    *)
LEMMA NoRepairWithoutLoss ==
  ASSUME TypeOK, CountInv, Joined, NeedsRepair
  PROVE  "short" \in incidents
<1>1. Left = {} /\ Generating
  BY DEF Joined, Left, NeedsRepair, Generating
<1>2. Awaited = written
  <2>1. Cardinality(Left) = 0
    BY <1>1, FS_EmptySet
  <2>2. chunk_size \in Nat /\ written \in Nat
    BY PlanFacts DEF TypeOK
  <2> QED
    BY <2>1, <2>2 DEF Awaited
<1> QED
  BY <1>1, <1>2 DEF CountInv, Joined, NeedsRepair

LEMMA EndingComplete ==
  ASSUME TypeOK, CompleteInv, OutputAccounted, ~Infinite, FillEnding \/ WriteEnding
  PROVE  CompleteInv'
<1>1. /\ UNCHANGED <<cfg, threads, written_total>>
      /\ pc \notin InLoop /\ pc' \notin InLoop \union {"undefined"}
      /\ incidents \subseteq incidents'
  BY DEF FillEnding, WriteEnding, config_vars, InLoop, Incident
<1>2. /\ chunk_count' = chunk_count /\ ending_bytes' = ending_bytes
      /\ Infinite' = Infinite
      /\ RoundSize(cfg.bytes, cfg.threads)' = RoundSize(cfg.bytes, cfg.threads)
  BY <1>1, PlanFixed
<1>3. pc' = "done" /\ incidents' \intersect Losses = {}
        => ending_out' = ending_bytes /\ result' = written_total * WORD + ending_bytes
  <2>1. CASE FillEnding
    <3>1. pc' = "done" => "ending" \in incidents'
      BY <2>1 DEF FillEnding, Incident
    <3> QED
      BY <3>1 DEF Losses
  <2>2. CASE WriteEnding
    <3>1. PICK taken \in SinkTakes(ending_bytes) :
            /\ ending_out' = taken
            /\ result' = written_total * WORD + taken
            /\ Incident(taken # ending_bytes, "sink")
      BY <2>2 DEF WriteEnding
    <3>2. taken # ending_bytes => "sink" \in incidents'
      BY <3>1 DEF Incident
    <3> QED
      BY <3>1, <3>2 DEF Losses
  <2> QED
    BY <2>1, <2>2
<1>4. incidents' \intersect Losses = {} => incidents \intersect Losses = {}
  BY <1>1
<1> QED
  BY <1>1, <1>2, <1>3, <1>4 DEF CompleteInv, InLoop

LEMMA CompleteInvariant ==
  ASSUME NoRoundWrap
  PROVE  Spec => []CompleteInv
<1>1. Init => CompleteInv
  <2> SUFFICES ASSUME Init PROVE CompleteInv
    OBVIOUS
  <2>1. RoundsOut = 0 /\ written_total = 0 /\ pc = "loop" /\ threads = cfg.threads
    BY DEF Init, RoundsOut
  <2>2. RoundSize(cfg.bytes, cfg.threads) * 0 = 0
    BY PlanFacts DEF Init
  <2> QED
    BY <2>1, <2>2 DEF CompleteInv, InLoop
<1>2. TypeOK /\ CountInv /\ OutputAccounted /\ CompleteInv /\ [Next]_vars => CompleteInv'
  <2> SUFFICES ASSUME TypeOK, CountInv, OutputAccounted, CompleteInv, [Next]_vars
               PROVE  CompleteInv'
    OBVIOUS
  <2>1. cfg' = cfg /\ incidents \subseteq incidents' /\ Infinite' = Infinite
    BY StaysUndisturbed, PlanFixed
  <2>2. CASE Infinite
    BY <2>1, <2>2 DEF CompleteInv
  <2>3. CASE LoopEnter
    <3>1. /\ UNCHANGED <<threads, written_total, n, first_run, ending_out, result>>
          /\ pc = "loop" /\ pc' = "parallel"
      BY <2>3 DEF LoopEnter, output, config_vars
    <3> QED
      BY <2>1, <3>1, SameComplete DEF InLoop
  <2>4. CASE ~Infinite /\ LoopExit
    <3>1. /\ UNCHANGED <<threads, written_total, n, first_run, ending_out, result>>
          /\ pc = "loop" /\ pc' = "ending" /\ ~MoreRounds
      BY <2>4 DEF LoopExit, output, config_vars
    <3>2. RoundsOut = chunk_count
      BY <2>4, <3>1, ExitAfterAllRounds
    <3> QED
      BY <2>1, <3>1, <3>2, SameComplete DEF InLoop
  <2>5. CASE Task
    <3>1. UNCHANGED <<threads, written_total, n, first_run, ending_out, result, pc>>
      BY <2>5 DEF Task, StartTask, FillTask, IdleTask, EncryptChunk, EncryptTail,
                  FinishTask, config_vars, output
    <3> QED
      BY <2>1, <3>1, SameComplete
  <2>6. CASE ~Infinite /\ (ChunkReady \/ SlowDone)
    BY <2>6, HandOverComplete DEF ChunkReady, SlowDone, Joined
  <2>7. CASE DropThread \/ EnterSlowPath
    <3>1. "short" \in incidents
      BY <2>7, NoRepairWithoutLoss DEF DropThread, EnterSlowPath
    <3>2. "short" \in incidents'
      BY <2>1, <3>1
    <3> QED
      BY <3>2 DEF CompleteInv, Losses
  <2>8. CASE ~Infinite /\ (SlowRetry \/ SlowGiveUp)
    <3>1. pc = "slow"
      BY <2>8 DEF SlowRetry, SlowGiveUp
    <3>2. incidents \intersect Losses # {}
      BY <2>8, <3>1 DEF CompleteInv
    <3> QED
      BY <2>1, <3>2 DEF CompleteInv
  <2>9. CASE ~Infinite /\ WriteChunk
    BY <2>9, WriteChunkComplete
  <2>10. CASE ~Infinite /\ (FillEnding \/ WriteEnding)
    BY <2>10, EndingComplete
  <2>11. CASE EncryptEnding
    <3>1. /\ UNCHANGED <<threads, written_total, n, first_run, ending_out, result>>
          /\ pc \notin InLoop /\ pc' \notin InLoop \union {"undefined", "done"}
      BY <2>11 DEF EncryptEnding, output, config_vars, InLoop
    <3> QED
      BY <2>1, <3>1, SameComplete
  <2>12. CASE UNCHANGED vars
    <3>1. UNCHANGED <<threads, written_total, n, first_run, ending_out, result, pc>>
      BY <2>12 DEF vars, config_vars, output
    <3> QED
      BY <2>1, <3>1, SameComplete
  <2> QED
    BY <2>2, <2>3, <2>4, <2>5, <2>6, <2>7, <2>8, <2>9, <2>10, <2>11, <2>12
       DEF Next, Stopped
<1> QED
  BY <1>1, <1>2, TypeCorrect, TeamInvariant, Accounted, PTL DEF Spec

LEMMA CompleteMeansAll ==
  ASSUME TypeOK, CompleteInv
  PROVE  CompleteUnlessIncident
<1> SUFFICES ASSUME pc = "done", ~Infinite, incidents \intersect Losses = {}
             PROVE  emitted = cfg.bytes /\ result = cfg.bytes
  BY DEF CompleteUnlessIncident
<1> DEFINE full == RoundSize(cfg.bytes, cfg.threads)
<1>1. /\ written_total = full * chunk_count /\ ending_out = ending_bytes
      /\ result = written_total * WORD + ending_out
  BY DEF CompleteInv, InLoop
<1>2. /\ full \in Nat /\ chunk_count \in Nat /\ ending_bytes \in Nat
  BY PlanFacts DEF TypeOK
<1>3. cfg.bytes = WORD * (full * chunk_count) + ending_bytes
  BY PlanExact, PlanFacts DEF TypeOK, Infinite, chunk_count, ending_bytes
<1> HIDE DEF full
<1>4. full * chunk_count \in Nat
  BY <1>2, ProductBounds
<1>5. WORD * (full * chunk_count) = written_total * WORD
  BY <1>1, <1>4, WordAssumption
<1> QED
  BY <1>1, <1>3, <1>5 DEF emitted

(* While the hardware delivers and the output takes everything, the output *)
(* is exactly the request and generate() returns its size, for every       *)
(* amount, number of threads, method and schedule.                         *)
THEOREM NothingMissing ==
  ASSUME NoRoundWrap
  PROVE  Spec => []CompleteUnlessIncident
<1>1. TypeOK /\ CompleteInv => CompleteUnlessIncident
  BY CompleteMeansAll
<1> QED
  BY <1>1, CompleteInvariant, TypeCorrect, PTL

-----------------------------------------------------------------------------
(* The generator loop implements ByteStream.                               *)

(* A step that shows nothing outside but what went wrong.                  *)
LEMMA QuietStep ==
  ASSUME pc \in Stages \ {"done", "undefined"}, pc' \in Stages \ {"done", "undefined"},
         UNCHANGED <<cfg, written_total, ending_out, newest, result>>,
         incidents \subseteq incidents'
  PROVE  Stream!Degrade
<1>1. StreamStatus = "open" /\ StreamStatus' = "open"
  BY DEF StreamStatus
<1>2. emitted' = emitted
  BY DEF emitted
<1>3. Stream!Trouble
  BY DEF Stream!Trouble
<1> QED
  BY <1>1, <1>2, <1>3 DEF Stream!Degrade

LEMMA WriteChunkEmits ==
  ASSUME TypeOK, OutputAccounted, FreshInv, OutputBounded', ~Infinite, Totals = Nat,
         WriteChunk
  PROVE  Stream!Emit \/ Stream!Degrade
<1>1. PICK taken \in SinkTakes(buf_size) :
        /\ written_total' = written_total + taken
        /\ newest' = IF taken = 0 THEN newest ELSE Content
        /\ pc' \in {"loop", "ending"}
        /\ Incident(taken # buf_size, "sink")
  BY DEF WriteChunk, Content
<1>2. /\ pc = "write" /\ UNCHANGED <<cfg, ending_out, result>>
      /\ incidents \subseteq incidents'
  BY <1>1 DEF WriteChunk, config_vars, Incident
<1>3. taken \in Nat /\ written_total \in Nat /\ ending_out \in Nat
  BY RoundFits DEF SinkTakes, TypeOK
<1>4. CASE taken = 0
  <2>1. written_total' = written_total /\ newest' = newest
    BY <1>1, <1>3, <1>4
  <2> QED
    BY <1>1, <1>2, <2>1, QuietStep DEF Stages
<1>5. CASE taken # 0
  <2>1. StreamStatus = "open" /\ StreamStatus' = "open"
    BY <1>1, <1>2 DEF StreamStatus, Stages
  <2>2. /\ Stream!Trouble
    BY <1>2 DEF Stream!Trouble
  <2>3. emitted \in Nat /\ emitted' \in Nat /\ emitted < emitted' /\ emitted' <= cfg.bytes'
    <3>1. taken * WORD \in Nat /\ taken * WORD >= 1 /\ written_total * WORD \in Nat
          /\ (written_total + taken) * WORD = written_total * WORD + taken * WORD
      BY <1>3, <1>5, WordAssumption, SMT
    <3>2. emitted' = (written_total + taken) * WORD + ending_out
      BY <1>1, <1>2 DEF emitted
    <3>3. ~Infinite'
      BY <1>2, PlanFixed
    <3> QED
      BY <1>3, <3>1, <3>2, <3>3 DEF emitted, OutputBounded
  <2>4. newest' = Content /\ Content \in Nat
    BY <1>1, <1>2, <1>5, WrittenAge
  <2>5. incidents' \intersect Mixups = {} => newest < newest'
    <3>1. incidents' \intersect Mixups = {} => Undisturbed
      BY <1>2 DEF Undisturbed, Mixups
    <3> QED
      BY <1>2, <2>4, <3>1 DEF FreshInv, AgeInv
  <2> QED
    BY <1>2, <2>1, <2>2, <2>3, <2>4, <2>5 DEF Stream!Emit
<1> QED
  BY <1>4, <1>5

(* A cycle of the slow path either stays inside, or leaves the buffer.     *)
LEMMA SlowRetryBreaks ==
  ASSUME TypeOK, SlowRetry
  PROVE  Stream!Degrade \/ Stream!Break
<1>1. PICK filled \in Fills(cfg.method, written, SlowRequest) :
        /\ IF filled \subseteq DOMAIN mem[gen_current]
           THEN pc' = pc
           ELSE pc' = "undefined"
        /\ incidents' = incidents \union SlowIncidents(filled)
  BY DEF SlowRetry
<1>2. /\ pc = "slow" /\ UNCHANGED <<cfg, written_total, ending_out, newest, result>>
      /\ incidents \subseteq incidents'
  BY <1>1 DEF SlowRetry, config_vars, output
<1>3. CASE pc' = pc
  BY <1>2, <1>3, QuietStep DEF Stages
<1>4. CASE ~(filled \subseteq DOMAIN mem[gen_current]) /\ pc' = "undefined"
  <2>1. SlowRequest \in Nat /\ written \in Nat /\ buf_size_bytes \in Nat
    <3>1. threads * chunk_size - written * WORD \in Int
      BY PlanFacts, WordAssumption DEF TypeOK
    <3> QED
      BY <3>1, PlanFacts, UintAssumption DEF SlowRequest, TypeOK
  <2>2. filled \subseteq Span(written, SlowRequest)
    BY <2>1, FillsWithin
  <2>3. DOMAIN mem[gen_current] = 0..(buf_size_bytes - 1)
    BY DEF TypeOK
  <2>4. written + SlowRequest > buf_size_bytes
    BY <1>4, <2>1, <2>2, <2>3 DEF Span
  <2>5. "overrun" \in incidents'
    BY <1>1, <2>4 DEF SlowIncidents
  <2>6. incidents' \intersect Losses # {}
    BY <2>5 DEF Losses
  <2>7. StreamStatus = "open" /\ StreamStatus' = "undefined"
    BY <1>2, <1>4 DEF StreamStatus, Stages
  <2>8. Stream!Trouble
    BY <1>2 DEF Stream!Trouble
  <2>9. emitted' = emitted
    BY <1>2 DEF emitted
  <2> QED
    BY <1>2, <2>6, <2>7, <2>8, <2>9 DEF Stream!Break
<1> QED
  BY <1>1, <1>3, <1>4

(* The last piece, or a failure to generate it.                            *)
LEMMA EndingCloses ==
  ASSUME TypeOK, OutputAccounted, TypeOK', OutputBounded', CompleteUnlessIncident',
         ~Infinite, Totals = Nat, FillEnding \/ WriteEnding
  PROVE  Stream!Degrade \/ Stream!Close
<1>1. /\ UNCHANGED <<cfg, written_total, newest>> /\ incidents \subseteq incidents'
      /\ pc \in Stages \ {"done", "undefined"} /\ ~Infinite'
  <2>1. /\ UNCHANGED <<cfg, written_total, newest>> /\ incidents \subseteq incidents'
        /\ pc \in Stages \ {"done", "undefined"}
    BY DEF FillEnding, WriteEnding, config_vars, Incident, Stages
  <2>2. Infinite' = Infinite
    BY <2>1, PlanFixed
  <2> QED
    BY <2>1, <2>2
<1>2. Stream!Trouble
  BY <1>1 DEF Stream!Trouble
<1>3. ASSUME pc' = "done"
      PROVE  StreamStatus = "open" /\ StreamStatus' = "closed"
  BY <1>1, <1>3 DEF StreamStatus, Stages
<1>4. written_total \in Nat /\ ending_out = 0 /\ cfg.bytes \in Nat
      /\ written_total * WORD \in Nat
  BY <1>1, PlanFacts, WordAssumption, ProductBounds DEF OutputAccounted, TypeOK
<1>5. emitted = written_total * WORD
  BY <1>4 DEF emitted
<1>6. CASE FillEnding
  <2>1. PICK filled \in Fills(cfg.method, 0, ending_bytes) :
          IF Cardinality(filled) = ending_bytes
          THEN /\ pc' = IF Aes THEN "encrypt ending" ELSE "write ending"
               /\ UNCHANGED <<result, incidents>>
          ELSE /\ pc' = "done"
               /\ result' = written_total * WORD + Cardinality(filled)
               /\ Incident(TRUE, "ending")
    BY <1>6 DEF FillEnding
  <2>2. ending_out' = ending_out
    BY <1>6 DEF FillEnding
  <2>3. CASE pc' # "done"
    <3>1. result' = result /\ pc' \in {"encrypt ending", "write ending"}
      BY <2>1, <2>3
    <3> QED
      BY <1>1, <2>2, <3>1, QuietStep DEF Stages
  <2>4. CASE pc' = "done"
    <3>1. /\ result' = written_total * WORD + Cardinality(filled)
          /\ "ending" \in incidents'
      BY <2>1, <2>4 DEF Incident
    <3>2. Cardinality(filled) \in 0..ending_bytes /\ ending_bytes \in Nat
      BY FillsCount, PlanFacts DEF TypeOK
    <3>3. written_total * WORD + ending_bytes <= cfg.bytes
      <4> DEFINE full == RoundSize(cfg.bytes, cfg.threads)
      <4>1. full \in Nat /\ chunk_count \in Nat /\ written_total <= full * chunk_count
        BY RoundsFacts
      <4>2. cfg.bytes = WORD * (full * chunk_count) + ending_bytes
        BY PlanExact, PlanFacts DEF TypeOK, Infinite, chunk_count, ending_bytes
      <4> HIDE DEF full
      <4>3. full * chunk_count \in Nat
        BY <4>1, ProductBounds
      <4>4. written_total * WORD <= WORD * (full * chunk_count)
            /\ WORD * (full * chunk_count) \in Nat
        BY <1>4, <4>1, <4>3, WordAssumption, ProductBounds
      <4> QED
        BY <1>4, <3>2, <4>2, <4>4
    <3>4. emitted' = emitted
      BY <1>1, <2>2 DEF emitted
    <3>5. result' \in Nat /\ emitted <= result' /\ result' <= cfg.bytes
      BY <1>4, <1>5, <3>1, <3>2, <3>3
    <3>6. incidents' \intersect Losses # {}
      BY <3>1 DEF Losses
    <3>7. emitted' \in Nat
      BY <1>4, <1>5, <3>4
    <3> QED
      BY <1>1, <1>2, <1>3, <1>4, <1>5, <2>4, <3>4, <3>5, <3>6, <3>7 DEF Stream!Close
  <2> QED
    BY <2>3, <2>4
<1>7. CASE WriteEnding
  <2>1. PICK taken \in SinkTakes(ending_bytes) :
          /\ ending_out' = taken
          /\ result' = written_total * WORD + taken
          /\ pc' = "done"
    BY <1>7 DEF WriteEnding
  <2>2. taken \in Nat
    BY PlanFacts DEF SinkTakes, TypeOK
  <2>3. emitted' = written_total * WORD + taken
    BY <1>1, <2>1 DEF emitted
  <2>4. emitted' \in Nat /\ emitted <= emitted' /\ result' = emitted'
    BY <1>4, <1>5, <2>1, <2>2, <2>3
  <2>5. result' <= cfg.bytes
    BY <1>1, <2>4 DEF OutputBounded
  <2>6. incidents' \intersect Losses = {} => emitted' = cfg.bytes /\ result' = cfg.bytes
    BY <1>1, <2>1 DEF CompleteUnlessIncident
  <2> QED
    BY <1>1, <1>2, <1>3, <1>4, <2>1, <2>4, <2>5, <2>6 DEF Stream!Close
<1> QED
  BY <1>6, <1>7

(* Every request has an end. *)
RequestsEnd == \A r \in Requests : r.bytes # 0

(* Whatever the threads, the repairs and the failures do inside, what      *)
(* leaves generate() is a stream: pieces in the order of generation, never *)
(* more than the amount, and all of it unless something was lost.          *)
THEOREM StreamImplemented ==
  ASSUME NoRoundWrap, SizesFit, RequestsEnd, Totals = Nat
  PROVE  Spec => ImplementsStream
<1>1. Init => Stream!Init
  <2> SUFFICES ASSUME Init PROVE Stream!Init
    OBVIOUS
  <2>1. cfg.bytes \in Nat
    BY PlanFacts DEF Init
  <2>2. emitted = 0
    BY WordAssumption DEF Init, emitted
  <2>3. StreamStatus = "open"
    BY DEF Init, StreamStatus, Stages
  <2> QED
    BY <2>1, <2>2, <2>3 DEF Init, Stream!Init
<1>2. /\ TypeOK /\ RaceInv /\ OutputAccounted /\ FreshInv
      /\ TypeOK' /\ OutputBounded' /\ CompleteUnlessIncident'
      /\ [Next]_vars
      => [Stream!Next]_(Stream!vars)
  <2> SUFFICES ASSUME TypeOK, RaceInv, OutputAccounted, FreshInv,
                      TypeOK', OutputBounded', CompleteUnlessIncident',
                      [Next]_vars
               PROVE  Stream!Next \/ UNCHANGED Stream!vars
    BY DEF Stream!Next
  <2>1. cfg' = cfg /\ incidents \subseteq incidents' /\ ~Infinite
    BY StaysUndisturbed DEF RequestsEnd, TypeOK, Infinite
  <2>2. CASE \/ LoopEnter \/ LoopExit \/ ChunkReady \/ SlowDone \/ DropThread
             \/ EnterSlowPath \/ SlowGiveUp \/ EncryptEnding
    <3>1. /\ UNCHANGED <<written_total, ending_out, newest, result>>
          /\ pc \in Stages \ {"done", "undefined"}
          /\ pc' \in Stages \ {"done", "undefined"}
      BY <2>2 DEF LoopEnter, LoopExit, ChunkReady, SlowDone, HandOver, Joined, DropThread,
                  EnterSlowPath, SlowGiveUp, EncryptEnding, output, Stages
    <3> QED
      BY <2>1, <3>1, QuietStep DEF Stream!Next
  <2>3. CASE WriteChunk
    BY <2>1, <2>3, WriteChunkEmits DEF Stream!Next
  <2>4. CASE SlowRetry
    BY <2>4, SlowRetryBreaks DEF Stream!Next
  <2>5. CASE FillEnding \/ WriteEnding
    BY <2>1, <2>5, EndingCloses DEF Stream!Next
  <2>6. ASSUME UNCHANGED <<written_total, ending_out, newest, result, pc, incidents>>
        PROVE  UNCHANGED Stream!vars
    BY <2>1, <2>6 DEF Stream!vars, emitted, StreamStatus
  <2>7. CASE Task
    BY <2>1, <2>7, TaskFrame, QuietStep DEF Stages, Stream!Next
  <2>8. CASE UNCHANGED vars
    BY <2>6, <2>8 DEF vars, output
  <2> QED
    BY <2>2, <2>3, <2>4, <2>5, <2>7, <2>8 DEF Next, Stopped
<1> QED
  BY <1>1, <1>2, TypeCorrect, RaceInvariant, Accounted, FreshInvariant, NeverTooMuch, NothingMissing,
     PTL DEF Spec, ImplementsStream, Stream!Spec
=============================================================================
