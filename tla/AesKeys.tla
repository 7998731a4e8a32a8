------------------------------- MODULE AesKeys -------------------------------
(***************************************************************************)
(* The key store of src/librdrand-aes.c, AES_CFG: set by                   *)
(* rdrand_set_aes_keys() or rdrand_set_aes_random_key(), used by           *)
(* rdrand_get_bytes_aes_ctr() and rdrand_enc_buffer(), which change the    *)
(* key when counter() says so, and discarded by rdrand_clean_aes().        *)
(*                                                                         *)
(* Key material is a number per key and per nonce; a number that occurs    *)
(* twice is the same material.  Encrypting material gives new material.    *)
(* Allocations succeed.  What is left of keys in memory, on the heap and   *)
(* on the stack, after they were replaced or discarded is not modelled.    *)
(***************************************************************************)
EXTENDS AesCounter, AesKeyLength, Sequences, Functions

CONSTANTS
  KeyAmounts, KeyLengths,  \* what rdrand_set_aes_keys() is called with
  Lengths,        \* bytes the application asks to generate or to encrypt
  HwMayFail,      \* may rdrand_get_bytes_retry() fall short?
  MaxMaterial,    \* bound: key material in use when a call begins
  MaxServed       \* bound: bytes encrypted with one pair when a call begins

ASSUME LengthsAssumption ==
  /\ KeyAmounts \subseteq Nat /\ KeyLengths \subseteq Nat /\ Lengths \subseteq Nat
  /\ MaxMaterial \in Nat /\ MaxServed \in Nat
ASSUME ModesAssumption == HwMayFail \in BOOLEAN

VARIABLES
  en,            \* the OpenSSL context: "null", "raw", "bound" to a key, or "freed"
  keys_type, amount, key_length, index, next_counter,
  keys,          \* slot -> [key, nonce]; no slots stands for NULL
  key_current,   \* the slot key_current and nonce_current point to, or NULL
  call,          \* the call in progress: which, bytes left, next step
  ready,         \* the application holds keys: the last set returned 1
  fresh,         \* numbers of key material in use since the last set
  bindings,      \* history: the pairs given to OpenSSL since the last set
  served,        \* history: bytes encrypted with the current pair
  uncounted,     \* history: those of them that counter() was not told of
  trouble        \* history: which calls into OpenSSL failed

store   == <<amount, key_length, keys>>
current == <<index, keys, key_current, fresh, bindings, served, uncounted, trouble>>
vars == <<en, keys_type, store, index, next_counter, key_current, call, ready,
          fresh, bindings, served, uncounted, trouble>>

NULL == -1
Idle == [fn |-> "none", left |-> 0, step |-> "count"]

Init ==
  /\ en = "null"
  /\ keys_type = "generated"
  /\ amount = 0 /\ key_length = 0 /\ keys = << >>
  /\ index = 0
  /\ next_counter = 0
  /\ key_current = NULL
  /\ call = Idle
  /\ ready = FALSE
  /\ fresh = 0
  /\ bindings = << >>
  /\ served = 0 /\ uncounted = 0
  /\ trouble = {}

Trouble(ok, what) == IF ok THEN {} ELSE {what}

-----------------------------------------------------------------------------
(* Setting and discarding keys.                                            *)

Holding == DOMAIN keys # {}

(* keys_allocate(), and key_to_openssl() of slot 0 unless something failed. *)
(* Arrays and context that are there already are lost, not freed.           *)
Install(count, length, failed) ==
  /\ amount' = count
  /\ key_length' = length
  /\ keys' = [i \in 0..(count - 1) |-> [key |-> i, nonce |-> i]]
  /\ key_current' = 0
  /\ fresh' = count
  /\ en' = IF failed = {} THEN "bound" ELSE "raw"
  /\ bindings' = IF failed = {} THEN << [key |-> 0, nonce |-> 0] >> ELSE << >>
  /\ served' = 0 /\ uncounted' = 0
  /\ trouble' = failed

(* A set that fails in keys_allocate(): the context is replaced, the       *)
(* arrays are not.                                                         *)
InstallFails ==
  /\ en' = "raw"
  /\ key_current' = NULL
  /\ bindings' = << >>
  /\ served' = 0 /\ uncounted' = 0
  /\ trouble' = {}
  /\ UNCHANGED <<store, fresh>>

(* rdrand_set_aes_keys().  That OpenSSL takes the key is not checked. *)
SetAesKeys(count, length) ==
  /\ call = Idle
  /\ IF LengthAllowed(length)
     THEN /\ keys_type' = "given"
          /\ index' = 0
          /\ next_counter' = FirstCounter("given")
          /\ ready' = Allocates(count, length)
          /\ IF Allocates(count, length)
             THEN \E bind_ok \in CryptoResults :
                    Install(count, length, Trouble(bind_ok, "bind"))
             ELSE InstallFails
     ELSE UNCHANGED <<keys_type, index, next_counter, ready, store, en, key_current,
                      fresh, bindings, served, uncounted, trouble>>
  /\ UNCHANGED call

(* rdrand_set_aes_random_key().  When RAND_bytes() fails nothing is bound; *)
(* when key_to_openssl() does, the call succeeds all the same.             *)
SetRandomKey ==
  /\ call = Idle
  /\ keys_type' = "generated"
  /\ index' = 0
  /\ next_counter' = FirstCounter("generated")
  /\ \E rand_ok, bind_ok \in CryptoResults :
       /\ ready' = rand_ok
       /\ Install(1, DEFAULT_KEY_LEN,
                  IF rand_ok THEN Trouble(bind_ok, "bind") ELSE {"random"})
  /\ UNCHANGED call

KeysFree == keys' = << >> /\ key_current' = NULL /\ index' = 0

(* rdrand_clean_aes() *)
Clean ==
  /\ call = Idle
  /\ Holding
  /\ KeysFree
  /\ keys_type' = "generated"
  /\ amount' = 0 /\ key_length' = 0 /\ next_counter' = 0
  /\ en' = "freed"
  /\ ready' = FALSE
  /\ bindings' = << >> /\ served' = 0 /\ uncounted' = 0
  /\ UNCHANGED <<call, fresh, trouble>>

-----------------------------------------------------------------------------
(* Changing the key.                                                       *)

KeepPair(pair, new) == pair

(* keys_change_rotation(): key and nonce are encrypted in place. *)
RotatedPair(pair, new) == [key |-> new, nonce |-> new]

(* The next key in turn. *)
NextSlot(i) == (i + 1) % amount

BoundBeforeRotation(old, rotated) == old

(* What key_to_openssl() gives to OpenSSL after the rotation. *)
BoundPair(old, rotated) == rotated

(* key_to_openssl() of the current slot; if it fails the context goes on   *)
(* with the pair it has.                                                   *)
Bind(pair, bind_ok) ==
  IF bind_ok
  THEN /\ bindings' = Append(bindings, pair)
       /\ en' = "bound"
       /\ served' = 0 /\ uncounted' = 0
  ELSE UNCHANGED <<bindings, en, served, uncounted>>

(* keys_change().  A failed encryption leaves what was on the stack in     *)
(* place of the key: anything, a pair used before included.                *)
KeysChange(rotate_ok, bind_ok) ==
  LET slot == NextSlot(index)
  IN  \E pair \in {RotatedPair(keys[slot], fresh)} \union
                  (IF rotate_ok THEN {} ELSE Range(bindings)) :
        /\ index' = slot
        /\ key_current' = slot
        /\ keys' = [keys EXCEPT ![slot] = pair]
        /\ fresh' = fresh + 1
        /\ Bind(BoundPair(keys[slot], pair), bind_ok)
        /\ trouble' = trouble \union Trouble(rotate_ok, "rotation")
                              \union Trouble(bind_ok, "bind")

(* key_generate() with RAND_bytes() working. *)
KeyGenerate(bind_ok) ==
  LET pair == [key |-> fresh, nonce |-> fresh]
  IN  /\ keys' = [keys EXCEPT ![0] = pair]
      /\ fresh' = fresh + 1
      /\ Bind(pair, bind_ok)
      /\ trouble' = trouble \union Trouble(bind_ok, "bind")
      /\ UNCHANGED <<index, key_current>>

(* key_generate() when RAND_bytes() fails: at once, or for the nonce, when *)
(* the key was replaced already.  Nothing is bound.                        *)
KeyGenerateFails ==
  /\ \E key \in {keys[0].key, fresh} : keys' = [keys EXCEPT ![0].key = key]
  /\ fresh' = fresh + 1
  /\ trouble' = trouble \union {"random"}
  /\ UNCHANGED <<index, key_current, en, bindings, served, uncounted>>

(* The effect on the keys of a counter(num) that returned `ok`. *)
ChangeKey(num, ok) ==
  IF ~MustChangeKey(next_counter, num)
  THEN UNCHANGED <<current, en>>
  ELSE IF keys_type = "given"
       THEN \E rotate_ok \in (IF en = "bound" THEN CryptoResults ELSE {FALSE}),
               bind_ok \in CryptoResults : KeysChange(rotate_ok, bind_ok)
       ELSE IF ok THEN \E bind_ok \in CryptoResults : KeyGenerate(bind_ok)
                  ELSE KeyGenerateFails

-----------------------------------------------------------------------------
(* Generating and encrypting, in pieces of at most MAX_BUFFER_SIZE.        *)

Begin(fn, length) ==
  /\ call = Idle
  /\ Holding
  /\ length > 0
  /\ served <= MaxServed /\ fresh <= MaxMaterial
  /\ call' = [fn |-> fn, left |-> length, step |-> "count"]
  /\ UNCHANGED <<current, en, keys_type, amount, key_length, next_counter, ready>>

Piece == IF call.left >= MAX_BUFFER_SIZE THEN MAX_BUFFER_SIZE ELSE call.left

(* rdrand_enc_buffer() does not count its tail. *)
Counted == call.fn = "get_bytes_aes_ctr" \/ Piece = MAX_BUFFER_SIZE

(* rdrand_enc_buffer() stops when counter() returns 0,                     *)
(* rdrand_get_bytes_aes_ctr() does not look.                               *)
Count ==
  /\ call # Idle
  /\ call.step = "count"
  /\ IF Counted
     THEN \E c \in Counter(keys_type, next_counter, Piece) :
            /\ next_counter' = c.next
            /\ ChangeKey(Piece, c.ok)
            /\ call' = IF call.fn = "rdrand_enc_buffer" /\ ~c.ok
                       THEN Idle ELSE [call EXCEPT !.step = "encrypt"]
     ELSE /\ call' = [call EXCEPT !.step = "encrypt"]
          /\ UNCHANGED <<current, en, next_counter>>
  /\ UNCHANGED <<keys_type, amount, key_length, ready>>

(* The piece is drawn, if this call generates, and encrypted; the call     *)
(* returns after the last piece and at the first failure.                  *)
Encrypt ==
  /\ call # Idle
  /\ call.step = "encrypt"
  /\ \/ /\ en = "bound"
        /\ served' = served + Piece
        /\ uncounted' = IF Counted THEN uncounted ELSE uncounted + Piece
        /\ call' = IF call.left = Piece THEN Idle
                   ELSE [call EXCEPT !.left = @ - Piece, !.step = "count"]
     \/ /\ \/ HwMayFail /\ call.fn = "get_bytes_aes_ctr"
           \/ FALSE \in CryptoResults
           \/ en # "bound"
        /\ call' = Idle
        /\ UNCHANGED <<served, uncounted>>
  /\ UNCHANGED <<en, keys_type, store, index, next_counter, key_current, ready,
                 fresh, bindings, trouble>>

Next ==
  \/ \E count \in KeyAmounts, length \in KeyLengths : SetAesKeys(count, length)
  \/ SetRandomKey
  \/ Clean
  \/ \E fn \in {"get_bytes_aes_ctr", "rdrand_enc_buffer"}, length \in Lengths :
       Begin(fn, length)
  \/ Count
  \/ Encrypt

Spec == Init /\ [][Next]_vars

-----------------------------------------------------------------------------

Pairs == [key : Nat, nonce : Nat]

(* AES_CFG keeps its types; the current slot is a slot that exists, and    *)
(* amount is the number of slots that are allocated.                       *)
TypeOK ==
  /\ en \in {"null", "raw", "bound", "freed"}
  /\ keys_type \in {"given", "generated"}
  /\ amount \in Nat /\ key_length \in Nat
  /\ DOMAIN keys = 0..(amount - 1)
  /\ keys \in [DOMAIN keys -> Pairs]
  /\ DOMAIN keys # {} => index \in DOMAIN keys
  /\ key_current \in {NULL} \union DOMAIN keys
  /\ index \in Nat
  /\ next_counter \in 0..MAX_COUNTER
  /\ call \in [fn : {"none", "get_bytes_aes_ctr", "rdrand_enc_buffer"},
               left : Nat, step : {"count", "encrypt"}]
  /\ call = Idle \/ (call.fn # "none" /\ call.left > 0 /\ DOMAIN keys # {})
  /\ ready \in BOOLEAN
  /\ fresh \in Nat
  /\ bindings \in Seq(Pairs)
  /\ served \in Nat /\ uncounted \in Nat
  /\ trouble \subseteq {"bind", "random", "rotation"}

(* keys_change_rotation() is there "to prevent reusing the same counter":  *)
(* as long as it can encrypt the keys, no pair is given to OpenSSL twice,  *)
(* however often the keys come round, whatever else fails, and whichever   *)
(* mix of calls makes the key change.                                      *)
KeystreamNeverRepeats ==
  "rotation" \notin trouble => IsInjective(bindings)

(* What encrypts is what AES_CFG says: the context holds the pair that     *)
(* key_current and nonce_current point to, which is the pair at index.     *)
CurrentIsBound ==
  (ready /\ trouble = {}) =>
    /\ en = "bound"
    /\ key_current = index
    /\ bindings[Len(bindings)] = keys[key_current]

-----------------------------------------------------------------------------
(* What the documentation says, and the code does not do.                  *)

(* The comment on MAX_COUNTER (src/librdrand-aes.h:48), "Maximum generated *)
(* bytes without key change": max(MAX_COUNTER, min(MAX_BUFFER_SIZE, bytes  *)
(* generated)), which is MAX_COUNTER, a buffer being no larger.            *)
KeyServesMaxCounter == served <= MAX_COUNTER
=============================================================================
