----------------------------- MODULE AesKeyLength ----------------------------
(***************************************************************************)
(* Which keys src/librdrand-aes.c takes, in bytes: checks that             *)
(* rdrand_set_aes_keys() and keys_allocate() make, and what OpenSSL is     *)
(* told to read.                                                           *)
(***************************************************************************)
EXTENDS Integers

CONSTANTS
  RDRAND_MIN_KEY_LENGTH, RDRAND_MAX_KEY_LENGTH,  \* 4 and 32 in the code
  DEFAULT_KEY_LEN   \* 16 in the code, what EVP_aes_128_ctr() reads

ASSUME KeyLengthAssumption ==
  /\ RDRAND_MIN_KEY_LENGTH \in Nat /\ RDRAND_MIN_KEY_LENGTH >= 1
  /\ RDRAND_MAX_KEY_LENGTH \in Nat
  /\ DEFAULT_KEY_LEN \in Nat

(* What x && (x & (x - 1)) == 0 computes: only even numbers and 1 divide x. *)
IsPowerOfTwo(x) == x # 0 /\ \A d \in 2..x : x % d = 0 => d % 2 = 0

(* The check of keys_allocate(). *)
Allocates(count, length) == IsPowerOfTwo(length) /\ count # 0

(* The check of rdrand_set_aes_keys(). *)
LengthAllowed(length) ==
  RDRAND_MIN_KEY_LENGTH < length /\ length < RDRAND_MAX_KEY_LENGTH
=============================================================================
