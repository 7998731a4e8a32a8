------------------------------ MODULE ParseArgs ------------------------------
(***************************************************************************)
(* parse_args() of src/rdrand-gen.c: the command line is read option by    *)
(* option into the configuration, a later option overriding an earlier     *)
(* one; the first bad option rejects the command line.  When the options   *)
(* are exhausted the combination of -a and -k is checked and the chunk     *)
(* plan is computed from the final values.                                 *)
(*                                                                         *)
(* Numbers: -n takes a decimal fraction, given here as twice its value, so *)
(* that 3 stands for "1.5"; -t takes an integer that strtoul() accepts     *)
(* with a sign and that is then stored in an unsigned int.                 *)
(***************************************************************************)
EXTENDS ChunkPlan, FiniteSets

CONSTANTS
  SIZE_RANGE,       \* number of values of size_t, 2^64 in the code
  KILO,             \* the factor of suffix K, 2^10 in the code
  MAX_THREADS,      \* largest accepted -t, 16384 in the code
  DEFAULT_THREADS,  \* 2 in the code
  AmountArgs,       \* twice the numbers given to -n
  ThreadArgs,       \* the numbers given to -t
  MaxArgs           \* bound: options on the command line

ASSUME ThreadsAssumption ==
  /\ DEFAULT_THREADS \in Nat /\ DEFAULT_THREADS >= 1
  /\ MAX_THREADS \in Nat
  /\ ThreadArgs \subseteq Int
ASSUME AmountAssumption ==
  /\ SIZE_RANGE \in Nat /\ SIZE_RANGE >= 1
  /\ KILO \in Nat /\ KILO >= 1
  /\ AmountArgs \subseteq Int
ASSUME MaxArgsAssumption == MaxArgs \in Nat

Methods  == {"get_bytes", "reseed_delay", "reseed_skip"}
Flags    == {"help", "version", "verbose", "aes-ctr", "aes-keys", "output"}
Suffixes == {"", "K", "M", "G", "T"}

VARIABLES
  pc,        \* "options", "accepted" or "rejected"
  args,      \* options read so far
  flags,     \* the options without a number that were given
  method, threads, bytes,
  chunk_size, chunk_count, ending_bytes

plan == <<chunk_size, chunk_count, ending_bytes>>
vars == <<pc, args, flags, method, threads, bytes, plan>>

-----------------------------------------------------------------------------

Scale(suffix) ==
  CASE suffix = ""  -> 1
    [] suffix = "K" -> KILO
    [] suffix = "M" -> KILO * KILO
    [] suffix = "G" -> KILO * KILO * KILO
    [] suffix = "T" -> KILO * KILO * KILO * KILO

(* floor(size_as_double), the suffix applied first. *)
ScaledAmount(number, suffix) == (number * Scale(suffix)) \div 2

(* (size_t) of a double: out of range it is undefined, and the conversion *)
(* instructions of x86-64 compilers return 0 or the largest value.        *)
ToSize(value) == IF value < SIZE_RANGE THEN {value} ELSE {0, SIZE_RANGE - 1}

(* (size_t) of a NaN, undefined as well: the instructions for a signed and *)
(* for an unsigned number return one of these.                             *)
NotANumberToSize == {SIZE_RANGE \div 2, SIZE_RANGE - 1}

Init ==
  /\ pc = "options"
  /\ args = 0
  /\ flags = {}
  /\ method = "get_bytes"
  /\ threads = DEFAULT_THREADS
  /\ bytes = 0
  /\ chunk_size = 0 /\ chunk_count = 0 /\ ending_bytes = 0

NextOption ==
  /\ pc = "options"
  /\ args < MaxArgs
  /\ args' = args + 1
  /\ UNCHANGED plan

(* -h -v -V -a -k -o *)
FlagOption(f) ==
  /\ NextOption
  /\ flags' = flags \union {f}
  /\ UNCHANGED <<pc, method, threads, bytes>>

(* -n: the range is checked before the suffix multiplies the number. *)
AmountOption(number, suffix) ==
  /\ NextOption
  /\ number >= 0
  /\ number < 2 * SIZE_RANGE
  /\ bytes' \in ToSize(ScaledAmount(number, suffix))
  /\ UNCHANGED <<pc, flags, method, threads>>

(* -n nan, with or without a suffix: every comparison of the range check   *)
(* is false, and the product is not a number either.                       *)
AmountNotANumber ==
  /\ NextOption
  /\ bytes' \in NotANumberToSize
  /\ UNCHANGED <<pc, flags, method, threads>>

(* -t: stored in the configuration before it is checked. *)
ThreadsOption(number) ==
  /\ NextOption
  /\ threads' = number % UINT_RANGE
  /\ pc' = IF threads' \in 1..MAX_THREADS THEN pc ELSE "rejected"
  /\ UNCHANGED <<flags, method, bytes>>

(* -m *)
MethodOption(m) ==
  /\ NextOption
  /\ method' = m
  /\ UNCHANGED <<pc, flags, threads, bytes>>

(* An unknown option, method or suffix, or a number out of range. *)
BadOption ==
  /\ NextOption
  /\ pc' = "rejected"
  /\ UNCHANGED <<flags, method, threads, bytes>>

(* No option is left: -k needs -a, then compute_chunk_size(). *)
KeyFileWithoutAes ==
  /\ pc = "options"
  /\ "aes-keys" \in flags
  /\ "aes-ctr" \notin flags
  /\ pc' = "rejected"
  /\ UNCHANGED <<args, flags, method, threads, bytes, plan>>

Accept ==
  /\ pc = "options"
  /\ "aes-keys" \in flags => "aes-ctr" \in flags
  /\ pc' = "accepted"
  /\ chunk_size' = ChunkSize(bytes, threads)
  /\ chunk_count' = ChunkCount(bytes, threads)
  /\ ending_bytes' = EndingBytes(bytes, threads)
  /\ UNCHANGED <<args, flags, method, threads, bytes>>

Next ==
  \/ \E f \in Flags : FlagOption(f)
  \/ \E number \in AmountArgs, suffix \in Suffixes : AmountOption(number, suffix)
  \/ AmountNotANumber
  \/ \E number \in ThreadArgs : ThreadsOption(number)
  \/ \E m \in Methods : MethodOption(m)
  \/ BadOption
  \/ KeyFileWithoutAes
  \/ Accept

Spec == Init /\ [][Next]_vars

-----------------------------------------------------------------------------

(* The fields of the configuration keep their C types. *)
TypeOK ==
  /\ pc \in {"options", "accepted", "rejected"}
  /\ args \in 0..MaxArgs
  /\ flags \subseteq Flags
  /\ method \in Methods
  /\ threads \in 0..(UINT_RANGE - 1) \union {DEFAULT_THREADS}
  /\ bytes \in 0..(SIZE_RANGE - 1)
  /\ chunk_size \in 0..MAX_CHUNK_SIZE
  /\ chunk_count \in Nat
  /\ ending_bytes \in Nat

(* A configuration that parse_args() accepts is one generate() can serve:  *)
(* it has a thread; the plan follows the final -n and -t whatever their    *)
(* order on the command line; the full rounds and the ending are exactly   *)
(* the request; and the ending, generated by one thread, is smaller than a *)
(* round.                                                                  *)
AcceptedPlanIsExact ==
  (pc = "accepted" /\ bytes # 0) =>
    /\ threads >= 1
    /\ bytes = WORD * (chunk_size * threads * chunk_count) + ending_bytes
    /\ chunk_size # 0 => ending_bytes < WORD * (chunk_size * threads)
    /\ chunk_size = 0 => bytes < WORD * threads
=============================================================================
