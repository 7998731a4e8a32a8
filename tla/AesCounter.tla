----------------------------- MODULE AesCounter -----------------------------
(***************************************************************************)
(* counter() of src/librdrand-aes.c, which rdrand_enc_buffer() and         *)
(* rdrand_get_bytes_aes_ctr() call before every buffer they encrypt: it    *)
(* either counts the bytes of the buffer against the current key or, when  *)
(* they no longer fit, changes the key and starts a new count.             *)
(***************************************************************************)
EXTENDS Integers

CONSTANTS
  MAX_COUNTER,      \* bytes a key may serve, 4096 in the code
  MAX_BUFFER_SIZE,  \* bytes encrypted per call of counter(), 2048 in the code
  Draws,            \* the counts keys_randomize() may draw
  CryptoMayFail     \* may OpenSSL's calls fail?

ASSUME CounterAssumption ==
  /\ MAX_COUNTER \in Nat /\ MAX_BUFFER_SIZE \in Nat
  /\ 1 <= MAX_BUFFER_SIZE /\ MAX_BUFFER_SIZE <= MAX_COUNTER
ASSUME DrawsAssumption == Draws \subseteq 0..MAX_COUNTER /\ Draws # {}
ASSUME CryptoAssumption == CryptoMayFail \in BOOLEAN

(* May a call into OpenSSL return this? *)
CryptoResults == IF CryptoMayFail THEN BOOLEAN ELSE {TRUE}

MustChangeKeyAtZero(next, num) == next = 0

(* The test that precedes a key change. *)
MustChangeKey(next, num) == next = 0 \/ next < num

(* keys_randomize(): a new count, or the old one if RAND_bytes() fails.    *)
RandomizedCounts(next) ==
  Draws \union (IF CryptoMayFail THEN {next} ELSE {})

CounterReportsDecrement(keys, next, num) ==
  IF ~MustChangeKey(next, num)
  THEN {[ok |-> TRUE, next |-> next - num]}
  ELSE IF keys = "given"
       THEN {[ok |-> TRUE, next |-> MAX_COUNTER]}
       ELSE [ok : CryptoResults, next : RandomizedCounts(next)]

(* What counter(num) returns and leaves in next_counter.  Only a key       *)
(* change sets `result`: counting down returns 0.  keys_change() of given  *)
(* keys cannot fail once keys are set; key_generate() can, and             *)
(* keys_randomize() runs after it all the same.                            *)
Counter(keys, next, num) ==
  IF ~MustChangeKey(next, num)
  THEN {[ok |-> FALSE, next |-> next - num]}
  ELSE IF keys = "given"
       THEN {[ok |-> TRUE, next |-> MAX_COUNTER]}
       ELSE [ok : CryptoResults, next : RandomizedCounts(next)]

(* next_counter after rdrand_set_aes_keys() / rdrand_set_aes_random_key(). *)
FirstCounter(keys) == IF keys = "given" THEN MAX_COUNTER ELSE 0
=============================================================================
