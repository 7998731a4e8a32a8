--------------------------- MODULE ParseArgsProofs ---------------------------
(***************************************************************************)
(* What parse_args() hands to generate(), for every command line.          *)
(***************************************************************************)
EXTENDS ParseArgs, ChunkPlanProofs

(* Nothing but an accepted command line has a plan that is used, and that  *)
(* plan is the one of the final values; a thread count that is out of      *)
(* range is stored, but then the command line is rejected.                 *)
PlanIsOfFinalValues ==
  /\ bytes \in Nat
  /\ threads \in Nat
  /\ pc # "rejected" => threads >= 1
  /\ pc = "accepted" =>
       /\ chunk_size = ChunkSize(bytes, threads)
       /\ chunk_count = ChunkCount(bytes, threads)
       /\ ending_bytes = EndingBytes(bytes, threads)

(* The number of -n times its suffix, rounded down, is a natural number.   *)
LEMMA ScaledAmountType ==
  ASSUME NEW number \in AmountArgs, NEW suffix \in Suffixes, number >= 0
  PROVE  ScaledAmount(number, suffix) \in Nat
<1>1. KILO \in Nat /\ KILO * KILO \in Nat
  BY AmountAssumption, ProductBounds
<1>2. KILO * KILO * KILO \in Nat
  BY <1>1, ProductBounds
<1>3. KILO * KILO * KILO * KILO \in Nat
  BY <1>1, <1>2, ProductBounds
<1>4. Scale(suffix) \in Nat
  BY <1>1, <1>2, <1>3 DEF Scale, Suffixes
<1>5. number \in Nat
  BY AmountAssumption
<1>6. number * Scale(suffix) \in Nat
  BY <1>4, <1>5, ProductBounds
<1> QED
  BY <1>6, DivMod DEF ScaledAmount

(* What -n stores is a size_t, whatever the number.                        *)
LEMMA StoredAmount ==
  ASSUME NEW number \in AmountArgs, NEW suffix \in Suffixes, number >= 0,
         NEW v \in ToSize(ScaledAmount(number, suffix))
  PROVE  v \in 0..(SIZE_RANGE - 1)
<1>1. ScaledAmount(number, suffix) \in Nat
  BY ScaledAmountType
<1> QED
  BY <1>1, AmountAssumption DEF ToSize

LEMMA StoredNotANumber == NotANumberToSize \subseteq 0..(SIZE_RANGE - 1)
BY AmountAssumption DEF NotANumberToSize

(* The invariant of parse_args(): see PlanIsOfFinalValues. *)
THEOREM FinalValues == Spec => []PlanIsOfFinalValues
<1>1. Init => PlanIsOfFinalValues
  BY ThreadsAssumption DEF Init, PlanIsOfFinalValues
<1>2. PlanIsOfFinalValues /\ [Next]_vars => PlanIsOfFinalValues'
  <2> SUFFICES ASSUME PlanIsOfFinalValues, [Next]_vars
               PROVE  PlanIsOfFinalValues'
    OBVIOUS
  <2>1. ASSUME NEW f \in Flags, FlagOption(f)
        PROVE  PlanIsOfFinalValues'
    BY <2>1 DEF FlagOption, NextOption, plan, PlanIsOfFinalValues
  <2>2. ASSUME NEW number \in AmountArgs, NEW suffix \in Suffixes,
               AmountOption(number, suffix)
        PROVE  PlanIsOfFinalValues'
    <3>1. bytes' \in Nat
      BY <2>2, StoredAmount, AmountAssumption DEF AmountOption
    <3> QED
      BY <2>2, <3>1 DEF AmountOption, NextOption, PlanIsOfFinalValues
  <2>3. ASSUME NEW number \in ThreadArgs, ThreadsOption(number)
        PROVE  PlanIsOfFinalValues'
    <3>1. threads' \in Nat
      BY <2>3, ThreadsAssumption, UintAssumption DEF ThreadsOption
    <3>2. /\ pc = "options" /\ bytes' = bytes
          /\ \/ threads' \in 1..MAX_THREADS /\ pc' = pc
             \/ pc' = "rejected"
      BY <2>3 DEF ThreadsOption, NextOption
    <3> QED
      BY <3>1, <3>2, ThreadsAssumption DEF PlanIsOfFinalValues
  <2>4. ASSUME NEW m \in Methods, MethodOption(m)
        PROVE  PlanIsOfFinalValues'
    BY <2>4 DEF MethodOption, NextOption, PlanIsOfFinalValues
  <2>5. CASE BadOption \/ KeyFileWithoutAes
    BY <2>5 DEF BadOption, KeyFileWithoutAes, NextOption, PlanIsOfFinalValues
  <2>6. CASE Accept
    BY <2>6 DEF Accept, PlanIsOfFinalValues
  <2>7. CASE UNCHANGED vars
    BY <2>7 DEF vars, plan, PlanIsOfFinalValues
  <2>8. CASE AmountNotANumber
    <3>1. bytes' \in Nat
      BY <2>8, StoredNotANumber, AmountAssumption DEF AmountNotANumber
    <3> QED
      BY <2>8, <3>1 DEF AmountNotANumber, NextOption, PlanIsOfFinalValues
  <2> QED
    BY <2>1, <2>2, <2>3, <2>4, <2>5, <2>6, <2>7, <2>8 DEF Next
<1> QED
  BY <1>1, <1>2, PTL DEF Spec

(* Every command line that parse_args() accepts yields a plan whose rounds *)
(* and ending are exactly the bytes asked for, whatever the order and the  *)
(* repetitions of its options.                                             *)
THEOREM AcceptedIsExact == Spec => []AcceptedPlanIsExact
<1>1. PlanIsOfFinalValues => AcceptedPlanIsExact
  <2> SUFFICES ASSUME PlanIsOfFinalValues, pc = "accepted", bytes # 0
               PROVE  /\ threads >= 1
                      /\ bytes = WORD * (chunk_size * threads * chunk_count) + ending_bytes
                      /\ chunk_size # 0 => ending_bytes < WORD * (chunk_size * threads)
                      /\ chunk_size = 0 => bytes < WORD * threads
    BY DEF AcceptedPlanIsExact
  <2>1. /\ bytes \in Nat /\ threads \in Nat /\ threads >= 1
        /\ chunk_size = ChunkSize(bytes, threads)
        /\ chunk_count = ChunkCount(bytes, threads)
        /\ ending_bytes = EndingBytes(bytes, threads)
    BY DEF PlanIsOfFinalValues
  <2>2. RoundSize(bytes, threads) = chunk_size * threads
    BY <2>1 DEF RoundSize
  <2>3. /\ bytes = WORD * (chunk_size * threads * chunk_count) + ending_bytes
        /\ chunk_size # 0 => ending_bytes < WORD * (chunk_size * threads)
    BY <2>1, <2>2, PlanExact
  <2>4. chunk_size = 0 => bytes < WORD * threads
    <3> SUFFICES ASSUME chunk_size = 0 PROVE bytes < WORD * threads
      OBVIOUS
    <3>1. /\ Blocks(bytes) \in Nat
          /\ bytes % WORD \in Nat /\ bytes % WORD < WORD
          /\ bytes = WORD * Blocks(bytes) + (bytes % WORD)
      BY <2>1, BlocksType
    <3>2. Blocks(bytes) \div threads = 0
      <4>1. Blocks(bytes) \div threads \in Nat
        BY <2>1, <3>1, DivMod
      <4> QED
        BY <2>1, <4>1, ChunkAssumption DEF ChunkSize, AtMost
    <3>3. Blocks(bytes) + 1 <= threads
      BY <2>1, <3>1, <3>2, DivMod
    <3>4. WORD * (Blocks(bytes) + 1) <= WORD * threads
      BY <2>1, <3>1, <3>3, WordAssumption
    <3>5. WORD * (Blocks(bytes) + 1) = WORD * Blocks(bytes) + WORD
      BY <3>1, WordAssumption
    <3>6. /\ WORD * Blocks(bytes) \in Nat /\ WORD * threads \in Nat
      BY <2>1, <3>1, WordAssumption, ProductBounds
    <3> QED
      BY <2>1, <3>1, <3>4, <3>5, <3>6, WordAssumption
  <2> QED
    BY <2>1, <2>3, <2>4
<1> QED
  BY <1>1, FinalValues, PTL

-----------------------------------------------------------------------------
(* The C types, and which options the configuration is made of.            *)

(* What -t stores is an unsigned int.                                      *)
LEMMA StoredThreads ==
  ASSUME NEW number \in Int
  PROVE  number % UINT_RANGE \in 0..(UINT_RANGE - 1)
  BY UintAssumption

(* The fields of the configuration keep their C types.                     *)
THEOREM ConfigurationTyped == Spec => []TypeOK
<1>1. Init => TypeOK
  BY ThreadsAssumption, AmountAssumption, MaxArgsAssumption, ChunkAssumption
     DEF Init, TypeOK, Methods
<1>2. TypeOK /\ PlanIsOfFinalValues /\ [Next]_vars => TypeOK'
  <2> SUFFICES ASSUME TypeOK, PlanIsOfFinalValues, [Next]_vars
               PROVE  TypeOK'
    OBVIOUS
  <2>1. ASSUME NextOption
        PROVE  /\ args' \in 0..MaxArgs
               /\ chunk_size' \in 0..MAX_CHUNK_SIZE
               /\ chunk_count' \in Nat /\ ending_bytes' \in Nat
    BY <2>1, MaxArgsAssumption DEF NextOption, plan, TypeOK
  <2>2. ASSUME NEW f \in Flags, FlagOption(f)
        PROVE  TypeOK'
    BY <2>1, <2>2 DEF FlagOption, TypeOK
  <2>3. ASSUME NEW number \in AmountArgs, NEW suffix \in Suffixes,
               AmountOption(number, suffix)
        PROVE  TypeOK'
    <3>1. /\ bytes' \in ToSize(ScaledAmount(number, suffix)) /\ number >= 0
          /\ UNCHANGED <<pc, flags, method, threads>> /\ NextOption
      BY <2>3 DEF AmountOption
    <3>2. bytes' \in 0..(SIZE_RANGE - 1)
      BY <3>1, StoredAmount
    <3> QED
      BY <2>1, <3>1, <3>2 DEF TypeOK
  <2>4. ASSUME NEW number \in ThreadArgs, ThreadsOption(number)
        PROVE  TypeOK'
    <3>1. number \in Int
      BY ThreadsAssumption
    <3>2. threads' \in 0..(UINT_RANGE - 1)
      BY <2>4, <3>1, StoredThreads DEF ThreadsOption
    <3>3. pc' \in {"options", "accepted", "rejected"}
      BY <2>4 DEF ThreadsOption, TypeOK
    <3>4. UNCHANGED <<flags, method, bytes>> /\ NextOption
      BY <2>4 DEF ThreadsOption
    <3> QED
      BY <2>1, <3>2, <3>3, <3>4 DEF TypeOK
  <2>5. ASSUME NEW m \in Methods, MethodOption(m)
        PROVE  TypeOK'
    BY <2>1, <2>5 DEF MethodOption, TypeOK
  <2>6. CASE BadOption
    BY <2>1, <2>6 DEF BadOption, TypeOK
  <2>7. CASE KeyFileWithoutAes
    BY <2>7 DEF KeyFileWithoutAes, plan, TypeOK
  <2>8. CASE Accept
    <3>1. bytes \in Nat /\ threads \in Nat /\ threads >= 1
      BY <2>8 DEF Accept, PlanIsOfFinalValues
    <3>2. /\ chunk_size' \in 0..MAX_CHUNK_SIZE
          /\ chunk_count' \in Nat /\ ending_bytes' \in Nat
      BY <2>8, <3>1, PlanTypes DEF Accept
    <3> QED
      BY <2>8, <3>2 DEF Accept, TypeOK
  <2>9. CASE UNCHANGED vars
    BY <2>9 DEF vars, plan, TypeOK
  <2>10. CASE AmountNotANumber
    <3>1. /\ bytes' \in 0..(SIZE_RANGE - 1) /\ NextOption
          /\ UNCHANGED <<pc, flags, method, threads>>
      BY <2>10, StoredNotANumber DEF AmountNotANumber
    <3> QED
      BY <2>1, <3>1 DEF TypeOK
  <2> QED
    BY <2>2, <2>3, <2>4, <2>5, <2>6, <2>7, <2>8, <2>9, <2>10 DEF Next
<1> QED
  BY <1>1, <1>2, FinalValues, PTL DEF Spec
=============================================================================
