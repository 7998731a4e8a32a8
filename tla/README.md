# RdRand: models, checks and proofs

RdRand consists of a C library around Intel's RDRAND instruction
(`src/src/librdrand.c`), an AES-CTR layer over it (`src/src/librdrand-aes.c`)
and the program `rdrand-gen` (`src/src/rdrand-gen.c`), which writes random
bytes to a file with several OpenMP threads.  This directory holds TLA+ models
of that code, the TLC configurations that check them and the TLAPS proofs about
them.

    tlc -config MCGenerate.cfg MCGenerate.tla         # a run
    tlapm GenerateProofs.tla                          # a proof

`PROJECT.json` maps every definition to the lines it models, and lists the runs,
the hazards and the properties that cover them.

## The system

| component | state | operations | what is hard | what makes it correct |
|---|---|---|---|---|
| generator loop, `rdrand-gen.c` 462-686 | the buffers, round counter, thread count, blocks written | the parallel loop (generating and encrypting iterations), repair of a short round, write, ending | threads run in any order; rounds are repeated with fewer threads; with AES the output is one round behind; the output may take less than it is given | no two iterations touch the same byte; what is written was generated, once, in order; never more than asked; all of it when nothing fails; it returns |
| chunk plan, `compute_chunk_size` 215-254 | `chunk_size`, `chunk_count`, `ending_bytes` | computed once per run | rounding, small requests | rounds and ending add up to the request |
| command line, `parse_args` 261-425 | `cnf_t` | one step per option | floating point and narrowing conversions, repeated options | the plan is exact for the values that the last options leave |
| generation functions, `librdrand.c` 119-799 | none | steps, single values, arrays, bytes, reseed variants, `rdrand_fwrite` | any step may have no value; retry loops; alignment; a value kept in a local variable | only bytes of the request are set, without a gap if no draw failed; no value is handed out twice; a draw is given up after the limit; the count returned is what was set |
| key store, `librdrand-aes.c` | `AES_CFG`: context, keys, nonces, index, `next_counter` | set, generate, rotate, bind, count, discard, generate, encrypt | each key change takes several steps that can fail; two kinds of keys share the code | no key stream is used twice; a key serves a bounded number of bytes; the context holds the current pair |
| key file, `load_keys` 694-822 | arrays of keys, length of the first | read line, convert, install | end of file, malformed lines, lengths | the keys used are those of the file's lines, or none |
| `main` 828-944 | configuration, output, exit code | parse, open output, load keys, test the CPU, generate, clean up | each step may fail | it generates with the keys that were asked for, or fails |
| CPU detection 214-268, messages, help | none | | | |

`main` calls `parse_args`, which calls `compute_chunk_size`; it sets the keys;
`generate` calls the library's generation functions from the OpenMP team, and
`rdrand_enc_buffer` from one more iteration.  The threads share the three
buffers of `generate_chunk`, and `AES_CFG`, which only the encrypting iteration
uses.  Nothing is persisted; there are no messages.

## The modules

| module | models | extends |
|---|---|---|
| `CTypes` | the widths of the C types | |
| `ChunkPlan` | `compute_chunk_size` | `CTypes` |
| `ParseArgs` | `parse_args`: one action per option | `ChunkPlan` |
| `RdRandFill` | what the generation functions may leave in a buffer | `CTypes` |
| `RdRandCall` | a generation function as its callers see it: one step | `RdRandFill` |
| `RdRandCalls` | the generation functions, one action per RDRAND; implements `RdRandCall` | `RdRandFill` |
| `AesCounter` | `counter()` and `keys_randomize()` | |
| `AesKeyLength` | the keys that the AES layer takes | |
| `Generate` | `generate`, `generate_chunk`, `generate_ending` | `ChunkPlan`, `RdRandFill`, `AesCounter` |
| `ByteStream` | what `generate` promises `main` | |
| `GenerateStream` | the refinement mapping from `Generate` to `ByteStream` | `Generate`, instance of `ByteStream` |
| `AesKeys` | the key store and its users | `AesCounter`, `AesKeyLength` |
| `KeyFile` | `load_keys`, `load_key_line`, `hexToByte` | `AesKeyLength` |
| `RdRandGen` | `main`: the composition | `ParseArgs`, instance of `KeyFile` |
| `BufferProofs` | theorems about the buffers of `Generate` | `GenerateProofs` |
| other `*Proofs` | theorems about the module they are named after | that module, TLAPS |
| `MC*` | the instances that TLC checks | |

**Generate.**  `cfg` is the request of the command line; `pc` names where the
main thread is: at the head of the `for` loop, inside the parallel region, in
the slow path, about to write, and in the three parts of `generate_ending`.
`todo` and `running` are the iterations of the OpenMP loop that were not begun
and that are in flight; any thread may pick up any of them, so a schedule is any
order in which iterations begin and end, and the implicit barrier is `Joined`.
A generating iteration sets its bytes when its call returns
(`FillTask`); while it is in flight it is in `running`, and `RaceFree` says that
its region meets no region of another one in flight.  That is what makes it
sound to set the bytes in one step.  The encrypting iteration makes one step per
AES buffer.  A byte of memory holds the number of the round that generated it,
which is all that the properties tell apart; encryption copies the number.  The
history variables `round`, `newest` and `incidents` only record.  `n` wraps at
`UINT_RANGE`, since it is an `unsigned int`; when the slow path asks for bytes
outside the buffer the behaviour ends in `"undefined"`.

**ParseArgs.**  One action per option of `getopt_long`, in any order, up to
`MaxArgs` options.  An amount is its value in halves, so that `1.5K` and the
rounding of `floor` are there, and `nan` is an action of its own; the conversions
are those of an x86-64 build.

**RdRandFill, RdRandCall, RdRandCalls.**  `RdRandFill` gives the set of sets of
bytes that a call may have set when it returns: `rdrand_get_bytes_retry` goes on
with its next part when one fell short, the array functions stop.  `Generate`
uses these sets, so a call of the library is one step there.  `RdRandCalls` is
the code behind them: a call is a list of parts (`first`, `draws`, `size`), each
step executes RDRAND once and has a value (`Deliver`) or none (`FailAndRetry`,
`FailAndGiveUp`, by the loop's condition); `build` chooses what a step returns
without a value, -1 from the assembler, 0 from the compiler's intrinsics.  Parts
carry a `group`: a failed draw drops the rest of its group, which is what
`break` and the early returns do.  A byte holds the number of its draw.
`ImplementsCall` is `RdRandCall!Spec` with the bytes shown only when the call
has returned: every outcome of the loops is among the sets that `RdRandFill` lists, with
the count that it says, and every call returns.

**ByteStream, GenerateStream.**  `ByteStream` is the program without its inside:
pieces of output, each younger than what left before, never more than the
amount, and when it closes all of it unless something was `lost`.  The mapping
takes the bytes written, the size returned, and the incidents that cost output
(`Losses`) or its order (`Mixups`, once they happened no age is promised).
Thread counts, rounds, buffers, swaps and repairs are hidden; a repaired round
is a stutter.

**KeyFile, RdRandGen.**  A line of the key file is a number of hexadecimal
digits and what ended it.  The end of the file takes precedence over the digits
before it, so a last line without newline is dropped, and is a line of its own
here.  `installed` is what `rdrand_set_aes_keys` took; its result for the lengths
is `AesKeyLength`, shared with `AesKeys`.  `RdRandGen` runs `ParseArgs` to its end, then
`main`'s steps with their failures; `generate()` is one step that delivers the
amount or less, which is what `ByteStream` allows.  Where C gives no meaning (a
key more than `MAX_KEYS`, a digit past the line buffer) `status` may become
`"undefined"`, and the behaviour ends.

**AesKeys.**  Key material is a number; the same number is the same material,
`fresh` numbers the next.  `Count` and `Encrypt` alternate over the pieces of a
call of `rdrand_get_bytes_aes_ctr` or `rdrand_enc_buffer`.  `bindings` lists the
pairs that were given to OpenSSL since keys were set; `served` counts what the
pair in the context encrypted, and `uncounted` the part of it that `counter()`
was not told of.

## What the runs show

| run | instance | result |
|---|---|---|
| `generate` | 1 to 3 threads, 34 requests without AES and with it, both kinds of keys | the properties below hold, and the refinement of `ByteStream` |
| `infinite` | no `-n`, 1 and 2 threads, `UINT_RANGE` 4 | `RaceFree` and `FreshOutput` hold across the wrap of `n` |
| `rdrand_calls` | all functions, alignments 0 to 7, retry limits -1 to 3, both builds, any step without a value | `WithinRequest`, `NoValueTwice`, `GivesUpAfterLimit`, `FillsWhenHealthy`, and the refinement of `RdRandCall` with its liveness |
| `program` | every command line of up to 3 options, every key file of up to 4 lines | `AcceptedPlanIsExact`, `KeysAreTheFile`, `GeneratesAsAsked` |
| `aes_keys` | any order of calls, everything may fail | `KeystreamNeverRepeats`, `CurrentIsBound` |

The properties of `Generate`: `RaceFree`; `FreshOutput`, every written buffer is
complete, of one round, and newer than what was written before; `OutputBounded`,
never more than asked; `OutputAccounted`, the
book-keeping that this follows from; `CompleteUnlessIncident`, all of it if nothing fell
short; `NoRoundSkipped`, repeated rounds are neither lost nor counted twice;
`Terminates`.

The other runs each show that the code does not do what a comment, a message or
the help text says (PROJECT.json quotes them):

| run | what the counterexample shows |
|---|---|
| `infinite_underflow` | without `-n` a short round is written as it is |
| `slow_overrun` | the slow path subtracts bytes from blocks and asks for bytes past the buffer |
| `aes_counter` | `counter()` returns 0 when it only counts down, so `rdrand_enc_buffer` stops there and the output buffer is written with its old content |
| `reseed_ending` | the reseed methods never deliver an ending that is not a multiple of 8 |
| `fwrite` | `rdrand_fwrite` takes a failed draw for a value and writes the one before again |
| `uint16_retry` | `rdrand_get_uint16_retry` gives up after one step whatever the limit |
| `key_budget` | tails of `rdrand_enc_buffer`, and the buffer before which a key is changed, are not counted, so a key encrypts more than `MAX_COUNTER` bytes |

Some more disagreements have no run of their own; the models have the behaviour,
and the passing properties allow for it:

* When a thread is given up (571) the rounds shrink, `chunk_count` stays, and the
  output ends up shorter than the request although everything was repaired.
  `NoRoundSkipped` states what is delivered then, and `"short"` is one of the
  `Losses`.
* The round counter is an `unsigned int` (497): with more than `UINT_MAX` rounds
  the loop does not end and the output exceeds the request.  `OutputBounded` is
  about requests with fewer rounds, and the theorem says so.
* `-n` "Generate given amount of bytes" (131), but what an accepted `-n` leaves
  need not be that amount: the range is checked before the suffix is applied
  (318-354), so an amount past `size_t` becomes 0 or the largest one; `-n 0.5`
  is 0; and `-n nan` passes the check, as its comparisons are false, and becomes
  2^63 or 2^64 - 1.  0 means without limit.  `AcceptedPlanIsExact` is about
  the amount that is left.
* The array functions and the reseeding functions return elements, where
  `man/librdrand.3:83` and the comments in `librdrand.c` (380, 436, 492, 719,
  759) say bytes; for 16-, 32- and 64-bit values the two differ.  `Return` and
  `RdRandCall!Counts` count as the code does.
* `rdrand_get_uint16_array_retry` draws one 16-bit value for the one to three
  elements over a multiple of four (400), so it sets up to two elements fewer
  than asked, and returns that.  `FillsWhenHealthy` names them (`Forgotten`); the
  tests ask for multiples of four only.  It leaves out calls of `UINT_MAX` bytes
  and more, which `rdrand_get_bytes_retry` cuts (639).
* `rdrand_fwrite` does not look at what `fwrite` returns, and
  `reseed_skip` throws away 1024 steps whether they had values or not.
* Built with the compiler's intrinsics (`HAVE_RDRAND_IN_GCC`, which the build
  system never defines) a step returns 0 without a value, so only
  `rdrand_get_uint16_retry` retries; `GivesUpAfterLimit` is about the other build.
* "The file can contain 128 keys at maximum" (143): one more is written past the
  arrays (734), and a 65th digit past the line buffer (793-795).
* "On each line is a hexadecimal string containing a key and a nonce"
  (`man/rdrand-gen.7:51`), but a last line without newline is dropped without a
  message (809), even if it is the only key that differs.  `KeysAreTheFile` is
  about the lines that a newline ends (`TerminatedKeyLines`).
* "AES keys in file for -k argument has to be 24 bytes long in hexadecimal form
  (128bit key + 64bit nonce)" (141), but `load_keys` takes keys of 4 to 32 bytes
  (725) and `rdrand_set_aes_keys` those of 8 and 16 among them.  Each is copied
  into an array of its own length, and `EVP_aes_128_ctr` reads 16 bytes.
* `main` does not look at the result of `rdrand_set_aes_random_key` (885), and
  ends with `EXIT_SUCCESS` however little `generate` delivered (943).  The output
  file is emptied before the key file is looked at (852).
* The slow path asks for too few bytes as well, for 0 once an eighth of the
  buffer is there (half of it with the words of two bytes of the runs), and then prints that "Probably there is a hardware problem with your
  CPU" (560) although the hardware delivered all it was asked for.  `Terminates`
  and `NoRoundSkipped` allow for it with the incident `"gave up"`.
* `-t` is stored in an `unsigned int` before it is compared with the limits
  (360), so a count past `UINT_MAX` is cut off and may be accepted.
* Keys that are set while others are held are lost without being overwritten or
  freed (`librdrand-aes.c:273`).

`FreshOutput` excludes the incidents `infinite_underflow`, `slow_overrun` and
`aes_counter` are about: it says that these are the only ways to write stale data.
`GeneratesAsAsked` relates `-a` and `-k`, in any order with other options, to the keys in use when
`generate` starts; `KeysAreTheFile` relates those to every line that was read.  `key_budget` is the
only run about the use of one key; what does hold of it is the theorem
`CountedUseHolds` below.

### Bounds

A block is `WORD` = 2 bytes instead of 8 (with 1 there would be no odd endings),
a chunk up to 2 to 4 blocks instead of 2048, an AES buffer 4 bytes of a key's 8
as 2048 of 4096.  The requests are chosen to have no chunk at all, one round and
several, endings of whole blocks and of odd bytes, and buffers smaller than,
equal to and larger than an AES buffer; the numbers are in `MCGenerate.tla`.
`UINT_RANGE` = 32 keeps every count of these runs below the wrap except `n--` in
round 0, and 4 makes `n` wrap.  `MaxRounds` bounds the rounds begun; no finite
request of the passing runs reaches it, since a round is repeated at most once
per thread, and `Terminates` would find a behaviour that stopped there.  The
slow path has 3 cycles instead of 100.  `MCTotals` holds every number of bytes of
the largest request.  In `rdrand_calls` a word has its 8 bytes, `RETRY_LIMIT` is 2
instead of 10 and `reseed_skip` throws away 2 steps instead of 1024, enough for
a retry that succeeds, one that fails, and limits below and above the default;
counts reach past three words and past `UINT_RANGE`.  In `program` the ranges of
the C types are scaled together, so that a suffix can push an amount past
`size_t`; the key lengths are those of the code, with digits on both sides of
each check; two keys fit and three do not.
`MaxMaterial` and `MaxServed` bound the key material and the bytes of a pair
when a call begins; two keys, each of them rotated,
and three possible draws of the randomized count reach every order of rotation and count.
`key_budget` lets nothing fail and has tails of 3 bytes only, so that its trace
is short.
Deadlock is checked except where `rdrand-gen` may run for ever and the run is cut
at `MaxRounds`, and in `program`, which stops at exit.  `aes_keys`
holds with `MaxMaterial` = 4, too (4.6 million states).

### Fairness

`FairSpec` asks for `WF_vars(Next)` only: the process keeps running.  No thread,
branch or lucky draw of the hardware is favoured, so `Terminates` holds with
hardware and output that fail for good.  `RdRandCalls` asks for the same, and
with it implements the liveness of `RdRandCall`: every call returns, since the
retries are counted.  The other modules have no liveness.

## What is proved

Every theorem is about all values of the constants that satisfy the modules'
`ASSUME`s: any number of threads, keys and options, any size, any alignment.
Each proof goes through an invariant that is inductive; TLC checked each of these
on the instance of the module's run before it was proved.

**Chunk plan and command line.**  `ChunkPlanProofs`: `PlanExact`, the plan adds
up to the request.  The arithmetic is about division with remainder; the SMT
solver needs the quotients named and the products bounded one by one.
`ParseArgsProofs`: `ConfigurationTyped` and `AcceptedIsExact`, for
command lines of any length.  `PlanIsOfFinalValues` says that the plan is
computed when the amount and thread count are final, and that the thread count
of a command line that is not rejected is at least 1, so that `PlanExact`
applies.

**Generator loop** (`GenerateProofs`, `BufferProofs`, `GenerateStreamProofs`).

* `TypeCorrect`, `Accounted`, `NeverTooMuch`.  The invariant is `TypeOK`, with
  what the parallel loop may be doing, and `OutputAccounted`: at round `n` at most
  `n` full rounds (`n - 1` with AES once the pipeline is filled) are written, and
  a round is made only while `n` is below the plan.  `OutputBounded` alone is not
  inductive, since nothing in it says how many rounds are still to come.
* `NoDataRace`.  `RaceInv` says that the pointers name different buffers and,
  with AES, neither of them the one that is written out (`PointersApart`), and
  that iterations exist only between the fork and the join, numbered below
  `threads + aes_thread` (`Team`), so that a thread is given up and the buffers are
  swapped only when none is left.  Chunks of two iterations are disjoint
  (`RegionsApart`).
* `OutputIsFresh`.  Three invariants say what the buffers hold while the team
  runs.  `CountInv`: the blocks counted and the chunks still to come
  (`Awaited`) never exceed the buffer, and as long as they make up all of it every finished
  iteration's chunk holds this round; the join therefore finds the buffer
  complete or `written < buf_size`.  `CopyInv`: the part that the encrypting
  iteration is past is in the output buffer.  `AgeInv` orders the ages along the
  pipeline: written before waiting, waiting before in the making, and each of
  these buffers of one round (`Uniform`).  `NoDataRace` is what makes the finished
  chunks stay as they are while other iterations run.  All three stop at an
  incident after which the code gives no such promise (`Undisturbed`).
* `NothingSkipped` and `NothingMissing`.  `SkipInv`: every round counted is in
  the output with at least the blocks of the team that is left, which only shrinks; the loop ends
  only when all planned rounds are out (`ExitAfterAllRounds`).  `CompleteInv`: without a
  loss the team is whole and the output exactly the rounds counted.
* `StreamImplemented`.  The initial state maps to `ByteStream`'s, a step that
  emits or ends to `Emit`, `Close` or `Break`, and every other step to a stutter
  (`QuietStep`); what each step needs is what the theorems above say of the state
  after it.  `ByteStream` has no liveness, so this is all of `ImplementsStream`.

**Library** (`RdRandCallsProofs`).  The parts of a call lie inside the request
(`Within`) and follow each other without a gap from its first byte to its last,
but for the forgotten elements of 16 bits (`Chain`).  `PartsShape` shows both
for every function, address and count: this is the pointer arithmetic of
`rdrand_get_bytes_retry` and of the array functions, in words, elements and
bytes.  `BaseInv` keeps `Within` for the parts left, with the types (`CallTyped`), and
bounds what is set (`StaysWithinRequest`).  `ValuesAreFresh`: a draw has a number of
its own and `PutStores` gives it at most a word.  `LimitReached` is inductive with
`BaseInv`.  `HealthyCallsFill`: `Tiled` says that what is set is one stretch of
as many bytes as were counted, and that the next draw goes right behind it.

`CallImplemented` is the refinement: every step of a call is a stutter or the one
step of `RdRandCall`.  `FillInv` says what is set when draws do fail
(`FilledBy`): of every part a number of whole draws from its start, and nothing
of a part whose group was given up before it; the parts after the one in
progress (`At`) are untouched.  That a given up array leaves `get_bytes` in a
state where this still holds needs the order of the parts and their groups
(`Layout`).  `OutcomeOfArray`, `OutcomeOfGetBytes` and `OutcomeOfCall` then
compute, function by function, that what the parts leave behind is one of
`RdRandCall!Outcomes`.  `FillsAreServed` closes the gap to `Generate`, whose steps
take a call for one of the sets `Fills`: the library does what they assume of it,
and returns as many bytes as it set.

**Key store** (`AesKeysProofs`).  `KeyStoreTyped`.  `CountedUseHolds` is what is
true of the use of one key, though `KeyServesMaxCounter` is not: what `counter()`
was told of is at most `MAX_COUNTER` and one buffer.  That is not inductive,
since the buffer about to be encrypted was counted already; `BudgetInv` adds what
is pending and what may still be counted to what was served.  `NoPairTwice`: `MaterialInv` says that `fresh` is past all material that
was given to OpenSSL, so the material of the next change of keys is new.
`ContextIsCurrent` needs that generated keys are always in slot 0 (`CurrentInv`).

**Program** (`RdRandGenProofs`).  `ProgramParses` shows that the program's
behaviours are behaviours of `ParseArgs`, so all that is proved of the parser
holds of the program.  `KeysOfTheFile`: `ReadInv` says that the arrays hold the
key lines read so far that a newline ended, in order; `InstalledInv` that what is installed passed
`rdrand_set_aes_keys`.  The nonce of a line is half of its key, which is a whole number of bytes
only because the length is a power of two (`PowerIsEven`).  `RunsAsAsked`
follows from `StageInv`: what `main` knows at each stage, with the failures of
the key file all ending the program.
`ProgramTyped` adds that the arrays are overrun only in the two ways listed
above.

### Assumptions

Some theorems have hypotheses besides the modules' `ASSUME`s:

* `NoRoundWrap` (`NeverTooMuch` and after): `chunk_count + 1 < UINT_RANGE`.
  Without it the counter wraps and the properties are false: see above.
* `SizesFit` (`OutputIsFresh`, `StreamImplemented`): a word has at least two
  bytes, and a chunk and a buffer together, in bytes, fit in `unsigned int`.  In
  the code a chunk has at most 2048 * 8 = 2^14 bytes and a buffer at most
  16384 = `MAX_THREADS` of them, which is 2^28.  It is needed where
  the slow path asks for more than is left: there a request that wraps would look like a small
  one.  The instances TLC checks satisfy it as well.
* `RequestsEnd` (`StreamImplemented`): requests have a number of bytes.
  `ByteStream` promises an amount.
* `Totals = Nat` (`StreamImplemented`): `Totals` is a bound for TLC; the theorem is about
  the stream without it.

The `ASSUME`s that say more than types: `fwrite` calls start at address 0 (a file
has no other), single values have a count of 1, and the element counts of arrays
are `unsigned int` (`CallsAssumption`); `RDRAND_MIN_KEY_LENGTH >= 1`, which is 4
in the code (`KeyFileAssumption`); `WORD` is a multiple of 4 where elements of 16
bits occur.  `IsPowerOfTwo` is stated by its divisors, so that it can be
reasoned about; `MCAesKeys` lets TLC compare it with the powers themselves up to
256.

### Only model-checked

Liveness is out of the prover's reach: `Terminates`, and the part of
`ImplementsCall` that says that a call returns (`WF_vars(Return)`; the rest of it
is `CallImplemented`).  The violations the runs of the second table show are
TLC's.

## What is not modelled

Allocation failures, the locking of key memory and the choice of what is printed.
What is left of keys in memory: `keys_free` overwrites the arrays
(`librdrand-aes.c:147-162`), but the copies on the stack of
`keys_change_rotation` (533) and `key_generate` (581) stay there; `AesKeys` has
no memory, so it says nothing about either.
The contents of the ending's buffers when its encryption fails (645), and calls
of the AES layer after the clean-up.  Signals: without `-n` the program is
usually ended by one.  Tests, the build system and the manual pages, which keep
no state of the system; they are read for what they expect.  The values of
random bytes, keys and cipher texts: only whether they are the same.

## Plan

1. A full fill sets every byte of a chunk: what `Generate` relies on, as a lemma
   of its own over `Fills`, to derive `NothingMissing` for a healthy generator
   without the incidents.
2. What the violations leave true: `RetriesUpToLimit` for all functions but the
   16-bit one in the assembler build is `LimitReached`; the same for
   `rdrand_fwrite` as long as no draw fails.
