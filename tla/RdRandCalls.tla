----------------------------- MODULE RdRandCalls -----------------------------
(***************************************************************************)
(* The generation functions of src/librdrand.c, one action per execution   *)
(* of the RDRAND instruction: the retry loops, the arrays, get_bytes, the  *)
(* reseed variants and rdrand_fwrite().                                    *)
(*                                                                         *)
(* A call draws its values part by part.  A part is a number of draws of   *)
(* the same size to consecutive addresses; parts of the same array         *)
(* function form a group, which a failed draw ends.  A byte of memory (for *)
(* rdrand_fwrite(), of the file) holds the number of the draw it comes     *)
(* from, and is absent while it was not set.                               *)
(*                                                                         *)
(* What a step returns without a value depends on the build: the           *)
(* functions written in assembler return RDRAND_FAILURE, the compiler's    *)
(* intrinsics 0.  (In the 32-bit build a 64-bit step executes the          *)
(* instruction twice, and has no value if one of them has none.)           *)
(***************************************************************************)
EXTENDS RdRandFill, Sequences

CONSTANTS
  RETRY_LIMIT,    \* the default number of steps for a draw, 10 in the code
  RESEED_STEPS,   \* steps that reseed_skip throws away per value, 1024
  Builds,         \* subset of {"asm", "intrinsics"}
  Calls           \* the calls: function, address, count and retry_limit

Singles == {"uint16", "uint32", "uint64"}
Arrays  == {"uint8_array", "uint16_array", "uint32_array", "uint64_array"}
Reseeds == {"reseed_delay", "reseed_skip"}
FunctionNames == Singles \union Arrays \union Reseeds \union {"get_bytes", "fwrite"}

ASSUME WordOfUnits == WORD % 4 = 0
ASSUME LimitsAssumption == RETRY_LIMIT \in Nat \ {0} /\ RESEED_STEPS \in Nat
ASSUME BuildsAssumption == Builds \subseteq {"asm", "intrinsics"}
ASSUME CallsAssumption ==
  \A c \in Calls : /\ DOMAIN c = {"fn", "first", "count", "limit"}
                   /\ c.fn \in FunctionNames
                   /\ c.first \in Nat /\ c.count \in Nat
                   /\ c.limit \in Int
                   /\ c.fn \in Singles => c.count = 1
                   /\ c.fn = "fwrite" => c.first = 0
                   /\ c.fn \notin {"get_bytes", "fwrite"} => c.count < UINT_RANGE

RDRAND_SUCCESS == 1
RDRAND_FAILURE == -1
Running == -2       \* not yet returned

VARIABLES
  call, build,
  parts,      \* the parts to do, the first one in progress
  done,       \* draws of the first part that are done
  tries,      \* steps made for the current draw
  thrown,     \* steps thrown away for the current draw
  tmprand,    \* the local variable of rdrand_fwrite(), 0 if never set
  mem,        \* what was set: address -> number of the draw
  drawn,      \* draws that delivered a value
  generated,  \* bytes counted for the return value
  result,     \* the return value
  underflow   \* history: steps of the draw that failed last, 0 if none did

vars == <<call, build, parts, done, tries, thrown, tmprand, mem,
          drawn, generated, result, underflow>>

-----------------------------------------------------------------------------
(* What each function draws.                                               *)

Asked(c) == c.count * Unit(c.fn)

(* No part at all when there is nothing to draw. *)
Part(first, draws, size, group) ==
  IF draws * size = 0 THEN << >>
  ELSE << [first |-> first, draws |-> draws, size |-> size, group |-> group] >>

OddBytesOfOneUnit(fn, count) ==
  IF count % (WORD \div Unit(fn)) > 0 THEN Unit(fn) ELSE 0

(* What an array function draws before the 64-bit values, in one draw:     *)
(* uint8_array all that is left over, the others one element.              *)
OddBytes(fn, count) ==
  IF fn = "uint8_array" THEN count % WORD ELSE OddBytesOfOneUnit(fn, count)

ArrayParts(fn, first, count, group) ==
  LET odd == OddBytes(fn, count)
  IN  Part(first, 1, odd, group) \o
      Part(first + odd, (count * Unit(fn)) \div WORD, WORD, group)

AlignedStartUnmasked(first, size) == IF size < WORD THEN first ELSE first + WORD

(* The first aligned address, (start & ~7) + 8. *)
AlignedStart(first, size) ==
  IF size < WORD THEN first ELSE (first - (first % WORD)) + WORD

GetBytesParts(first, size) ==
  LET offset == Offset(first, size)
      middle == AlignedStart(first, size)
      words  == AlignedBytes(first, size) \div WORD
      rest   == AlignedBytes(first, size) % WORD
  IN  ArrayParts("uint8_array", first, offset, 1) \o
      Part(middle, words, WORD, 2) \o
      ArrayParts("uint8_array", middle + WORD * words, rest, 3)

(* The parts of each function.  A file starts at address 0.                *)
Parts(c) ==
  CASE c.fn \in Singles   -> Part(c.first, 1, Unit(c.fn), 1)
    [] c.fn \in Arrays    -> ArrayParts(c.fn, c.first, c.count, 1)
    [] c.fn \in Reseeds   -> Part(c.first, c.count, WORD, 1)
    [] c.fn = "get_bytes" -> GetBytesParts(c.first, c.count)
    [] c.fn = "fwrite"    -> Part(0, c.count \div WORD, WORD, 1) \o
                             Part(WORD * (c.count \div WORD), 1, c.count % WORD, 1)

Init ==
  /\ call \in Calls
  /\ build \in Builds
  /\ parts = Parts(call)
  /\ done = 0 /\ tries = 0 /\ thrown = 0
  /\ tmprand = 0
  /\ mem = << >>
  /\ drawn = 0 /\ generated = 0
  /\ result = Running
  /\ underflow = 0

-----------------------------------------------------------------------------
(* The retry loops.                                                        *)

FailedStep == IF build = "asm" THEN RDRAND_FAILURE ELSE 0

(* A negative retry_limit stands for the default. *)
Limit == IF call.limit < 0 THEN RETRY_LIMIT ELSE call.limit

RetriesOnZero(fn, rc) == rc = 0

(* rdrand_get_uint16_retry() compares with 0, all the others with          *)
(* RDRAND_FAILURE.                                                         *)
Retries(fn, rc) == IF fn = "uint16" THEN rc = 0 ELSE rc = RDRAND_FAILURE

LoopsForever(rc) == Retries(call.fn, rc)

(* The condition of the do-while loops, after a step that returned rc. *)
Loops(rc) == Retries(call.fn, rc) /\ tries + 1 < Limit

DetectsTruthValue(fn) == FALSE

(* rdrand_fwrite() tests `!rc`, but rdrand_get_uint64_retry() returns      *)
(* RDRAND_FAILURE, which is not 0.                                         *)
Detects(fn) == fn # "fwrite"

Discards == IF call.fn = "reseed_skip" THEN RESEED_STEPS ELSE 0

Drawing == parts # << >> /\ result = Running

(* A step of reseed_skip whose value is thrown away, whatever it returns.  *)
ThrowAway ==
  /\ Drawing
  /\ thrown < Discards
  /\ thrown' = thrown + 1
  /\ UNCHANGED <<call, build, parts, done, tries, tmprand, mem,
                 drawn, generated, result, underflow>>

(* No value, and the loop goes on. *)
FailAndRetry ==
  /\ Drawing
  /\ thrown = Discards
  /\ HwMayFail
  /\ Loops(FailedStep)
  /\ tries' = tries + 1
  /\ UNCHANGED <<call, build, parts, done, thrown, tmprand, mem,
                 drawn, generated, result, underflow>>

(* The value goes to its address, and the call to the next draw. *)
Put(value) ==
  LET part == Head(parts)
      where == Span(part.first + part.size * done, part.size)
  IN  /\ mem' = [a \in where \union DOMAIN mem |->
                   IF a \in where THEN value ELSE mem[a]]
      /\ generated' = generated + part.size
      /\ IF done + 1 = part.draws
         THEN parts' = Tail(parts) /\ done' = 0
         ELSE done' = done + 1 /\ UNCHANGED parts
      /\ tries' = 0
      /\ thrown' = 0

Deliver ==
  /\ Drawing
  /\ thrown = Discards
  /\ drawn' = drawn + 1
  /\ tmprand' = IF call.fn = "fwrite" THEN drawn + 1 ELSE tmprand
  /\ Put(drawn + 1)
  /\ UNCHANGED <<call, build, result, underflow>>

NextPart == Tail(parts)

(* A failed draw ends its function, which has two parts at most: get_bytes *)
(* goes on with the next one.                                              *)
NextGroup ==
  IF Len(parts) > 1 /\ parts[2].group = parts[1].group THEN Tail(Tail(parts)) ELSE Tail(parts)

(* No value, and the loop ends.  An undetected failure is followed by      *)
(* writing what tmprand holds.                                             *)
FailAndGiveUp ==
  /\ Drawing
  /\ thrown = Discards
  /\ HwMayFail
  /\ ~Loops(FailedStep)
  /\ underflow' = tries + 1
  /\ IF Detects(call.fn)
     THEN /\ parts' = NextGroup
          /\ done' = 0 /\ tries' = 0 /\ thrown' = 0
          /\ UNCHANGED <<mem, generated>>
     ELSE Put(tmprand)
  /\ UNCHANGED <<call, build, tmprand, drawn, result>>

(* Single values report success, get_bytes and fwrite the bytes, and the   *)
(* arrays and reseeding functions their elements, though their comments    *)
(* (src/librdrand.c:380, 436, 492, 719, 759) and the manual page           *)
(* (man/librdrand.3:83) speak of bytes.                                    *)
Return ==
  /\ parts = << >>
  /\ result = Running
  /\ result' = IF call.fn \notin Singles THEN generated \div Unit(call.fn)
               ELSE IF generated > 0 THEN RDRAND_SUCCESS ELSE RDRAND_FAILURE
  /\ UNCHANGED <<call, build, parts, done, tries, thrown, tmprand, mem,
                 drawn, generated, underflow>>

Returned == result # Running /\ UNCHANGED vars

Next == \/ ThrowAway \/ FailAndRetry \/ Deliver \/ FailAndGiveUp
        \/ Return \/ Returned

(* The process keeps running. *)
Spec == Init /\ [][Next]_vars /\ WF_vars(Next)

-----------------------------------------------------------------------------

TypeOK ==
  /\ call \in Calls /\ build \in Builds
  /\ parts \in Seq([first : Nat, draws : Nat \ {0}, size : 1..WORD, group : 1..3])
  /\ parts # << >> => done \in 0..(Head(parts).draws - 1)
  /\ tries \in 0..(IF Limit = 0 THEN 0 ELSE Limit - 1)
  /\ thrown \in 0..RESEED_STEPS
  /\ tmprand \in 0..drawn
  /\ \A a \in DOMAIN mem : a \in Nat /\ mem[a] \in 0..drawn
  /\ drawn \in Nat
  /\ generated \in Nat
  /\ result \in Nat \union {RDRAND_FAILURE, Running}
  /\ underflow \in Nat

(* However the buffer is aligned and whichever draws fail, no byte outside *)
(* the request is set: the pointers into it are computed in words, bytes   *)
(* and elements.                                                           *)
WithinRequest == DOMAIN mem \subseteq Span(call.first, Asked(call))

(* Every value that is handed out was drawn, and none is handed out twice: *)
(* bytes with the same number are of one draw.  rdrand_fwrite() keeps this *)
(* only as long as no draw fails.                                          *)
NoValueTwice ==
  (call.fn = "fwrite" => underflow = 0) =>
    /\ \A a \in DOMAIN mem : mem[a] # 0
    /\ \A v \in 1..drawn : Cardinality({a \in DOMAIN mem : mem[a] = v}) <= WORD

(* In the assembler build a draw is given up only after retry_limit steps, *)
(* except for rdrand_get_uint16_retry().                                   *)
GivesUpAfterLimit ==
  (build = "asm" /\ call.fn # "uint16" /\ underflow # 0)
  => underflow = (IF Limit = 0 THEN 1 ELSE Limit)

(* The elements of an array that no draw is made for: of two or three      *)
(* elements of 16 bits over a whole number of words the code draws one.    *)
Forgotten(fn, count) ==
  IF fn = "uint16_array" /\ count % 4 > 1 THEN (count % 4) - 1 ELSE 0

Reached(c) == Asked(c) - Forgotten(c.fn, c.count) * Unit(c.fn)

(* A call none of whose draws failed has set, when it returns, the bytes   *)
(* of the request from the first one on without a gap: all of them, but    *)
(* for the last elements that rdrand_get_uint16_array_retry() forgets.     *)
(* (get_bytes keeps its bytes after the offset in an unsigned int, so that *)
(* it sets fewer of more than UINT_MAX.)                                   *)
FillsWhenHealthy ==
  (result # Running /\ underflow = 0 /\ call.count < UINT_RANGE)
  => DOMAIN mem = Span(call.first, Reached(call))

-----------------------------------------------------------------------------
(* The calls as the rest of the models sees them: one step that sets one   *)
(* of the possible sets of bytes, and always comes.                        *)
Abstract ==
  INSTANCE RdRandCall
    WITH filled <- IF result = Running THEN {} ELSE DOMAIN mem

ImplementsCall == Abstract!Spec

-----------------------------------------------------------------------------
(* What comments say, and the code does not do.                            *)

(* The comment of rdrand_fwrite() (src/librdrand.c:677), "Returns the      *)
(* number of bytes successfully acquired": no more than the draws          *)
(* delivered.                                                              *)
ReturnsBytesAcquired ==
  (call.fn = "fwrite" /\ result # Running) => result <= WORD * drawn

(* The comment of the retry functions (src/librdrand.c:276), "Will retry   *)
(* up to retry_limit times": a value is given up after that many steps.    *)
RetriesUpToLimit ==
  underflow # 0 => underflow = (IF Limit = 0 THEN 1 ELSE Limit)
=============================================================================
