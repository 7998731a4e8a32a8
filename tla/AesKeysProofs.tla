--------------------------- MODULE AesKeysProofs ---------------------------
(***************************************************************************)
(* What holds of the key store for every number of keys, every key and     *)
(* buffer size, and every order of calls.                                  *)
(***************************************************************************)
EXTENDS AesKeys, TLAPS

(* The bytes of the piece in progress that counter() already was told of. *)
Pending ==
  IF call # Idle /\ call.step = "encrypt" /\ Counted THEN Piece ELSE 0

Calls == [fn : {"none", "get_bytes_aes_ctr", "rdrand_enc_buffer"},
          left : Nat, step : {"count", "encrypt"}]

Within == served + next_counter + Pending <= MAX_COUNTER + MAX_BUFFER_SIZE + uncounted

(* What counter() makes of the limit: MAX_COUNTER bytes, and the buffer    *)
(* before which the key was changed, which it does not count.  This is     *)
(* more than librdrand-aes.h says, and of the tails that                   *)
(* rdrand_enc_buffer() does not tell it of it says nothing:                *)
(* KeyServesMaxCounter is false.                                           *)
CountedUseBounded ==
  trouble \intersect {"bind", "random"} = {}
  => served - uncounted <= MAX_COUNTER + MAX_BUFFER_SIZE

(* Why CountedUseBounded holds: what the pair has encrypted, what is being *)
(* encrypted and what it may still encrypt add up to at most MAX_COUNTER   *)
(* and one buffer.                                                         *)
BudgetInv ==
  /\ next_counter \in 0..MAX_COUNTER
  /\ served \in Nat
  /\ uncounted \in Nat
  /\ call \in Calls
  /\ trouble \intersect {"bind", "random"} = {} => Within

(* counter() returns a count between 0 and MAX_COUNTER, and it either      *)
(* counts down by num or changes the key.                                  *)
LEMMA CounterRange ==
  ASSUME NEW next \in 0..MAX_COUNTER, NEW num \in Nat, NEW type,
         NEW c \in Counter(type, next, num)
  PROVE  /\ c.next \in 0..MAX_COUNTER
         /\ ~MustChangeKey(next, num) => c.next = next - num
<1>1. CASE ~MustChangeKey(next, num)
  <2>1. c = [ok |-> FALSE, next |-> next - num]
    BY <1>1 DEF Counter
  <2>2. num <= next
    BY <1>1 DEF MustChangeKey
  <2> QED
    BY <2>1, <2>2, CounterAssumption
<1>2. CASE MustChangeKey(next, num) /\ type = "given"
  BY <1>2, CounterAssumption DEF Counter
<1>3. CASE MustChangeKey(next, num) /\ type # "given"
  <2>1. c.next \in RandomizedCounts(next)
    BY <1>3 DEF Counter
  <2> QED
    BY <2>1, <1>3, DrawsAssumption DEF RandomizedCounts
<1> QED
  BY <1>1, <1>2, <1>3

(* A piece is a natural number, of a buffer's size at most. *)
LEMMA PieceRange ==
  ASSUME call.left \in Nat
  PROVE  Piece \in Nat /\ Piece <= MAX_BUFFER_SIZE
BY CounterAssumption DEF Piece

(* The arithmetic of Within, for a new count and for counting down. *)
LEMMA NewCount ==
  ASSUME NEW n \in 0..MAX_COUNTER, NEW p \in Nat, p <= MAX_BUFFER_SIZE
  PROVE  0 + n + p <= MAX_COUNTER + MAX_BUFFER_SIZE + 0
BY CounterAssumption

LEMMA CountDown ==
  ASSUME NEW n \in Nat, NEW s \in Nat, NEW u \in Nat, NEW num \in Nat, NEW p \in Nat,
         p <= num, s + n + 0 <= MAX_COUNTER + MAX_BUFFER_SIZE + u
  PROVE  s + (n - num) + p <= MAX_COUNTER + MAX_BUFFER_SIZE + u
BY CounterAssumption

(* A key change without trouble starts the count of the pair anew. *)
LEMMA ChangeStartsAnew ==
  ASSUME NEW num, NEW ok, ChangeKey(num, ok), MustChangeKey(next_counter, num)
  PROVE  \/ served' = 0 /\ uncounted' = 0
         \/ /\ UNCHANGED <<served, uncounted>>
            /\ trouble' \intersect {"bind", "random"} # {}
<1>1. CASE keys_type = "given"
  <2>1. PICK rotate_ok, bind_ok : KeysChange(rotate_ok, bind_ok)
    BY <1>1 DEF ChangeKey
  <2>2. trouble' = trouble \union Trouble(rotate_ok, "rotation")
                           \union Trouble(bind_ok, "bind")
    BY <2>1 DEF KeysChange
  <2>3. \E pair : Bind(pair, bind_ok)
    BY <2>1 DEF KeysChange
  <2> QED
    BY <2>2, <2>3 DEF Bind, Trouble
<1>2. CASE keys_type # "given" /\ ok
  <2>1. PICK bind_ok \in CryptoResults : KeyGenerate(bind_ok)
    BY <1>2 DEF ChangeKey
  <2>2. trouble' = trouble \union Trouble(bind_ok, "bind")
    BY <2>1 DEF KeyGenerate
  <2>3. \E pair : Bind(pair, bind_ok)
    BY <2>1 DEF KeyGenerate
  <2> QED
    BY <2>2, <2>3 DEF Bind, Trouble
<1>3. CASE keys_type # "given" /\ ~ok
  BY <1>3 DEF ChangeKey, KeyGenerateFails
<1> QED
  BY <1>1, <1>2, <1>3

(* Setting and discarding keys starts anew, too. *)
LEMMA SetKeepsBudget ==
  ASSUME BudgetInv,
         (\E count \in KeyAmounts, length \in KeyLengths : SetAesKeys(count, length))
         \/ SetRandomKey \/ Clean
  PROVE  BudgetInv'
<1>1. call = Idle /\ call' = Idle
  BY DEF SetAesKeys, SetRandomKey, Clean, KeysFree
<1>2. Pending' = 0
  BY <1>1 DEF Pending
<1>3. CASE UNCHANGED <<next_counter, served, uncounted, trouble>>
  BY <1>1, <1>2, <1>3 DEF BudgetInv, Within, Pending
<1>4. CASE served' = 0 /\ uncounted' = 0 /\ next_counter' \in {0, MAX_COUNTER}
  <2>1. next_counter' \in 0..MAX_COUNTER
    BY <1>4, CounterAssumption
  <2>2. Within'
    <3>1. 0 \in Nat /\ 0 <= MAX_BUFFER_SIZE
      BY CounterAssumption
    <3>2. 0 + next_counter' + 0 <= MAX_COUNTER + MAX_BUFFER_SIZE + 0
      BY <2>1, <3>1, NewCount
    <3> QED
      BY <1>2, <1>4, <3>2 DEF Within
  <2> QED
    BY <1>1, <1>4, <2>1, <2>2 DEF BudgetInv
<1>5. (SetRandomKey \/ Clean)
      => served' = 0 /\ uncounted' = 0 /\ next_counter' \in {0, MAX_COUNTER}
  BY DEF SetRandomKey, Clean, KeysFree, Install, FirstCounter
<1>6. ASSUME NEW count \in KeyAmounts, NEW length \in KeyLengths,
             SetAesKeys(count, length)
      PROVE  \/ UNCHANGED <<next_counter, served, uncounted, trouble>>
             \/ served' = 0 /\ uncounted' = 0 /\ next_counter' \in {0, MAX_COUNTER}
  <2>1. CASE LengthAllowed(length) /\ Allocates(count, length)
    BY <2>1, <1>6 DEF SetAesKeys, Install, FirstCounter
  <2>2. CASE LengthAllowed(length) /\ ~Allocates(count, length)
    BY <2>2, <1>6 DEF SetAesKeys, InstallFails, FirstCounter
  <2>3. CASE ~LengthAllowed(length)
    BY <2>3, <1>6 DEF SetAesKeys
  <2> QED
    BY <2>1, <2>2, <2>3
<1> QED
  BY <1>3, <1>4, <1>5, <1>6

LEMMA CountKeepsBudget ==
  ASSUME BudgetInv, Count
  PROVE  BudgetInv'
<1>1. /\ call # Idle /\ call.step = "count"
      /\ call' = Idle \/ call' = [call EXCEPT !.step = "encrypt"]
  BY DEF Count
<1>2. /\ call' = Idle => Pending' = 0
      /\ call' # Idle => Pending' = IF Counted THEN Piece ELSE 0
  <2>1. CASE call' = Idle
    BY <2>1 DEF Pending
  <2>2. CASE call' # Idle
    <3>1. call'.left = call.left /\ call'.fn = call.fn /\ call'.step = "encrypt"
      BY <1>1, <2>2 DEF BudgetInv, Calls
    <3>2. Piece' = Piece
      BY <3>1 DEF Piece
    <3>3. Counted' = Counted
      BY <3>1, <3>2 DEF Counted
    <3> QED
      BY <2>2, <3>1, <3>2, <3>3 DEF Pending
  <2> QED
    BY <2>1, <2>2
<1>3. Pending = 0
  BY <1>1 DEF Pending
<1>4. call' \in Calls
  BY <1>1 DEF BudgetInv, Calls, Idle
<1>5. Piece \in Nat /\ Piece <= MAX_BUFFER_SIZE
  BY PieceRange DEF BudgetInv, Calls
<1>6. CASE ~Counted
  <2>1. UNCHANGED <<next_counter, served, uncounted, trouble>>
    BY <1>6 DEF Count, current
  <2> QED
    BY <1>2, <1>3, <1>4, <1>6, <2>1 DEF BudgetInv, Within
<1>7. CASE Counted
  <2>1. PICK c \in Counter(keys_type, next_counter, Piece) :
          next_counter' = c.next /\ ChangeKey(Piece, c.ok)
    BY <1>7 DEF Count
  <2>2. /\ next_counter' \in 0..MAX_COUNTER
        /\ ~MustChangeKey(next_counter, Piece) => next_counter' = next_counter - Piece
    BY <2>1, <1>5, CounterRange DEF BudgetInv
  <2>3. Pending' \in Nat /\ Pending' <= Piece
    BY <1>2, <1>5
  <2>4. CASE ~MustChangeKey(next_counter, Piece)
    <3>1. UNCHANGED <<served, uncounted, trouble>>
      BY <2>1, <2>4 DEF ChangeKey, current
    <3>2. ASSUME Within PROVE Within'
      <4>1. next_counter \in Nat /\ served \in Nat /\ uncounted \in Nat
        BY DEF BudgetInv
      <4>2. served + next_counter + 0 <= MAX_COUNTER + MAX_BUFFER_SIZE + uncounted
        BY <1>3, <3>2 DEF Within
      <4>3. served + (next_counter - Piece) + Pending'
            <= MAX_COUNTER + MAX_BUFFER_SIZE + uncounted
        BY <1>5, <2>3, <4>1, <4>2, CountDown
      <4> QED
        BY <2>2, <2>4, <3>1, <4>3 DEF Within
    <3>3. served' \in Nat /\ uncounted' \in Nat
      BY <3>1 DEF BudgetInv
    <3>4. trouble' \intersect {"bind", "random"} = {} => Within'
      BY <3>1, <3>2 DEF BudgetInv
    <3> QED
      BY <1>4, <2>2, <3>3, <3>4 DEF BudgetInv
  <2>5. CASE MustChangeKey(next_counter, Piece)
    <3>1. \/ served' = 0 /\ uncounted' = 0
          \/ /\ UNCHANGED <<served, uncounted>>
             /\ trouble' \intersect {"bind", "random"} # {}
      BY <2>1, <2>5, ChangeStartsAnew
    <3>2. ASSUME served' = 0 /\ uncounted' = 0 PROVE Within'
      <4>1. Pending' <= MAX_BUFFER_SIZE
        BY <1>5, <2>3, CounterAssumption
      <4>2. 0 + next_counter' + Pending' <= MAX_COUNTER + MAX_BUFFER_SIZE + 0
        BY <2>2, <2>3, <4>1, NewCount
      <4> QED
        BY <3>2, <4>2 DEF Within
    <3>3. served' \in Nat /\ uncounted' \in Nat
      BY <3>1 DEF BudgetInv
    <3>4. trouble' \intersect {"bind", "random"} = {} => Within'
      BY <3>1, <3>2
    <3> QED
      BY <1>4, <2>2, <3>3, <3>4 DEF BudgetInv
  <2> QED
    BY <2>4, <2>5
<1> QED
  BY <1>6, <1>7

LEMMA EncryptKeepsBudget ==
  ASSUME BudgetInv, Encrypt
  PROVE  BudgetInv'
<1>1. call # Idle /\ call.step = "encrypt"
  BY DEF Encrypt
<1>2. UNCHANGED <<next_counter, trouble>>
  BY DEF Encrypt
<1>3. Piece \in Nat
  BY PieceRange DEF BudgetInv, Calls
<1>4. Pending = IF Counted THEN Piece ELSE 0
  BY <1>1 DEF Pending
<1>5. CASE call' = Idle /\ UNCHANGED <<served, uncounted>>
  <2>1. Pending' = 0
    BY <1>5 DEF Pending
  <2> QED
    BY <1>2, <1>3, <1>4, <1>5, <2>1, CounterAssumption
       DEF BudgetInv, Within, Calls, Idle
<1>6. CASE /\ served' = served + Piece
           /\ uncounted' = IF Counted THEN uncounted ELSE uncounted + Piece
           /\ call' = IF call.left = Piece THEN Idle
                      ELSE [call EXCEPT !.left = @ - Piece, !.step = "count"]
  <2>1. call' = Idle \/ call'.step = "count"
    BY <1>6 DEF BudgetInv, Calls
  <2>2. Pending' = 0
    BY <2>1 DEF Pending
  <2>3. call.left - Piece \in Nat
    BY CounterAssumption DEF Piece, BudgetInv, Calls
  <2>4. call' \in Calls
    BY <1>6, <2>3 DEF BudgetInv, Calls, Idle
  <2>5. Within => Within'
    BY <1>2, <1>3, <1>4, <1>6, <2>2, CounterAssumption DEF BudgetInv, Within
  <2> QED
    BY <1>2, <1>3, <1>6, <2>4, <2>5 DEF BudgetInv
<1> QED
  BY <1>5, <1>6 DEF Encrypt

(* Of the bytes that counter() is told of, a pair of key and nonce         *)
(* encrypts at most MAX_COUNTER and one buffer, in any mix of calls,       *)
(* unless OpenSSL fails to draw or to take a key.                          *)
THEOREM CountedUseHolds == Spec => []CountedUseBounded
<1>1. Init => BudgetInv
  BY CounterAssumption DEF Init, BudgetInv, Within, Calls, Pending, Idle
<1>2. BudgetInv /\ [Next]_vars => BudgetInv'
  <2> SUFFICES ASSUME BudgetInv, [Next]_vars
               PROVE  BudgetInv'
    OBVIOUS
  <2>1. ASSUME NEW fn \in {"get_bytes_aes_ctr", "rdrand_enc_buffer"},
               NEW length \in Lengths, Begin(fn, length)
        PROVE  BudgetInv'
    <3>1. UNCHANGED <<next_counter, served, uncounted, trouble>> /\ call = Idle
      BY <2>1 DEF Begin, current
    <3>2. call' = [fn |-> fn, left |-> length, step |-> "count"]
      BY <2>1 DEF Begin
    <3>3. Pending' = 0 /\ Pending = 0
      BY <3>1, <3>2 DEF Pending
    <3> QED
      BY <3>1, <3>2, <3>3, LengthsAssumption DEF BudgetInv, Within, Calls
  <2>2. CASE UNCHANGED vars
    BY <2>2 DEF vars, BudgetInv, Within, Pending, Counted, Piece
  <2> QED
    BY <2>1, <2>2, SetKeepsBudget, CountKeepsBudget, EncryptKeepsBudget DEF Next
<1>3. BudgetInv => CountedUseBounded
  <2>1. ASSUME BudgetInv PROVE Pending \in Nat
    BY <2>1, PieceRange DEF BudgetInv, Calls, Pending
  <2> QED
    BY <2>1, CounterAssumption DEF BudgetInv, Within, CountedUseBounded
<1> QED
  BY <1>1, <1>2, <1>3, PTL DEF Spec

-----------------------------------------------------------------------------
(* Types: the current slot exists, and amount counts the slots.            *)

(* TypeOK in parts. *)
SlotTypes ==
  /\ amount \in Nat /\ key_length \in Nat
  /\ DOMAIN keys = 0..(amount - 1)
  /\ keys \in [DOMAIN keys -> Pairs]
  /\ DOMAIN keys # {} => index \in DOMAIN keys
  /\ key_current \in {NULL} \union DOMAIN keys
  /\ index \in Nat
CallTypes ==
  /\ call \in [fn : {"none", "get_bytes_aes_ctr", "rdrand_enc_buffer"},
               left : Nat, step : {"count", "encrypt"}]
  /\ call = Idle \/ (call.fn # "none" /\ call.left > 0 /\ DOMAIN keys # {})
FlagTypes ==
  /\ keys_type \in {"given", "generated"}
  /\ next_counter \in 0..MAX_COUNTER
  /\ ready \in BOOLEAN
HistoryTypes ==
  /\ en \in {"null", "raw", "bound", "freed"}
  /\ fresh \in Nat
  /\ bindings \in Seq(Pairs)
  /\ served \in Nat /\ uncounted \in Nat
  /\ trouble \subseteq {"bind", "random", "rotation"}

LEMMA TypeParts ==
  TypeOK <=> SlotTypes /\ CallTypes /\ FlagTypes /\ HistoryTypes
BY DEF TypeOK, SlotTypes, CallTypes, FlagTypes, HistoryTypes

LEMMA TypePartsNext ==
  ASSUME SlotTypes', CallTypes', FlagTypes', HistoryTypes'
  PROVE  TypeOK'
BY DEF TypeOK, SlotTypes, CallTypes, FlagTypes, HistoryTypes

(* The next slot in turn is a slot. *)
LEMMA DivModRange ==
  ASSUME NEW a \in Nat, NEW b \in Nat, b >= 1
  PROVE  a % b \in 0..(b - 1)
  BY SMT

(* Replacing the pair in one of the slots. *)
LEMMA ReplacePair ==
  ASSUME TypeOK, NEW slot, NEW pair \in Pairs, keys' = [keys EXCEPT ![slot] = pair],
         amount' = amount
  PROVE  /\ DOMAIN keys' = DOMAIN keys
         /\ DOMAIN keys' = 0..(amount' - 1)
         /\ keys' \in [DOMAIN keys' -> Pairs]
  BY DEF TypeOK

(* Giving OpenSSL a pair. *)
LEMMA BindTypes ==
  ASSUME TypeOK, NEW pair \in Pairs, NEW bind_ok \in BOOLEAN, Bind(pair, bind_ok)
  PROVE  /\ en' \in {"null", "raw", "bound", "freed"}
         /\ bindings' \in Seq(Pairs)
         /\ served' \in Nat /\ uncounted' \in Nat
<1>1. CASE bind_ok
  <2>1. Append(bindings, pair) \in Seq(Pairs)
    BY DEF TypeOK
  <2> QED
    BY <1>1, <2>1 DEF Bind
<1>2. CASE ~bind_ok
  BY <1>2 DEF TypeOK, Bind
<1> QED
  BY <1>1, <1>2

(* A key change with the keys of a call in progress. *)
LEMMA ChangeTypes ==
  ASSUME TypeOK, NEW num \in Nat, NEW ok \in BOOLEAN, ChangeKey(num, ok),
         DOMAIN keys # {}, UNCHANGED <<amount, key_length>>
  PROVE  /\ en' \in {"null", "raw", "bound", "freed"}
         /\ DOMAIN keys' = DOMAIN keys
         /\ DOMAIN keys' = 0..(amount' - 1)
         /\ keys' \in [DOMAIN keys' -> Pairs]
         /\ index' \in DOMAIN keys' /\ index' \in Nat
         /\ key_current' \in {NULL} \union DOMAIN keys'
         /\ fresh' \in Nat
         /\ bindings' \in Seq(Pairs)
         /\ served' \in Nat /\ uncounted' \in Nat
         /\ trouble' \subseteq {"bind", "random", "rotation"}
<1>1. /\ DOMAIN keys = 0..(amount - 1) /\ amount \in Nat /\ amount >= 1
      /\ index \in DOMAIN keys /\ 0 \in DOMAIN keys /\ fresh \in Nat
  BY DEF TypeOK
<1>2. CASE ~MustChangeKey(next_counter, num)
  BY <1>1, <1>2 DEF ChangeKey, current, TypeOK
<1>3. CASE MustChangeKey(next_counter, num) /\ keys_type = "given"
  <2>1. PICK rotate_ok \in BOOLEAN, bind_ok \in BOOLEAN : KeysChange(rotate_ok, bind_ok)
    BY <1>3 DEF ChangeKey, CryptoResults
  <2> DEFINE slot == NextSlot(index)
  <2>2. slot \in DOMAIN keys
    <3>1. index + 1 \in Nat
      BY <1>1
    <3> QED
      BY <1>1, <3>1, DivModRange DEF NextSlot
  <2>3. PICK pair \in {RotatedPair(keys[slot], fresh)} \union Range(bindings) :
          /\ index' = slot
          /\ key_current' = slot
          /\ keys' = [keys EXCEPT ![slot] = pair]
          /\ fresh' = fresh + 1
          /\ Bind(BoundPair(keys[slot], pair), bind_ok)
          /\ trouble' = trouble \union Trouble(rotate_ok, "rotation")
                                \union Trouble(bind_ok, "bind")
    BY <2>1 DEF KeysChange
  <2>4. pair \in Pairs
    <3>1. RotatedPair(keys[slot], fresh) \in Pairs
      BY <1>1 DEF RotatedPair, Pairs
    <3>2. Range(bindings) \subseteq Pairs
      BY DEF Range, TypeOK
    <3> QED
      BY <2>3, <3>1, <3>2
  <2>5. /\ en' \in {"null", "raw", "bound", "freed"}
        /\ bindings' \in Seq(Pairs)
        /\ served' \in Nat /\ uncounted' \in Nat
    BY <2>3, <2>4, BindTypes DEF BoundPair
  <2>6. /\ DOMAIN keys' = DOMAIN keys /\ DOMAIN keys' = 0..(amount' - 1)
        /\ keys' \in [DOMAIN keys' -> Pairs]
    BY <2>3, <2>4, ReplacePair
  <2>7. trouble' \subseteq {"bind", "random", "rotation"}
    BY <2>3 DEF Trouble, TypeOK
  <2> HIDE DEF slot
  <2> QED
    BY <1>1, <2>2, <2>3, <2>5, <2>6, <2>7
<1>4. CASE MustChangeKey(next_counter, num) /\ keys_type # "given" /\ ok
  <2>1. PICK bind_ok \in BOOLEAN : KeyGenerate(bind_ok)
    BY <1>4 DEF ChangeKey, CryptoResults
  <2> DEFINE pair == [key |-> fresh, nonce |-> fresh]
  <2>2. /\ keys' = [keys EXCEPT ![0] = pair]
        /\ fresh' = fresh + 1
        /\ Bind(pair, bind_ok)
        /\ trouble' = trouble \union Trouble(bind_ok, "bind")
        /\ UNCHANGED <<index, key_current>>
    BY <2>1 DEF KeyGenerate
  <2>3. pair \in Pairs
    BY <1>1 DEF Pairs
  <2> HIDE DEF pair
  <2>4. /\ en' \in {"null", "raw", "bound", "freed"}
        /\ bindings' \in Seq(Pairs)
        /\ served' \in Nat /\ uncounted' \in Nat
    BY <2>2, <2>3, BindTypes
  <2>5. /\ DOMAIN keys' = DOMAIN keys /\ DOMAIN keys' = 0..(amount' - 1)
        /\ keys' \in [DOMAIN keys' -> Pairs]
    BY <2>2, <2>3, ReplacePair
  <2>6. trouble' \subseteq {"bind", "random", "rotation"}
    BY <2>2 DEF Trouble, TypeOK
  <2>7. index' \in DOMAIN keys' /\ index' \in Nat
        /\ key_current' \in {NULL} \union DOMAIN keys'
    BY <1>1, <2>2, <2>5 DEF TypeOK
  <2> QED
    BY <1>1, <2>2, <2>4, <2>5, <2>6, <2>7
<1>5. CASE MustChangeKey(next_counter, num) /\ keys_type # "given" /\ ~ok
  <2>1. KeyGenerateFails
    BY <1>5 DEF ChangeKey
  <2>2. PICK key \in Nat : keys' = [keys EXCEPT ![0].key = key]
    BY <1>1, <2>1 DEF KeyGenerateFails, TypeOK, Pairs
  <2>3. [keys[0] EXCEPT !.key = key] \in Pairs
    BY <1>1, <2>2 DEF Pairs, TypeOK
  <2>4. keys' = [keys EXCEPT ![0] = [keys[0] EXCEPT !.key = key]]
    BY <1>1, <2>2
  <2>5. /\ DOMAIN keys' = DOMAIN keys /\ DOMAIN keys' = 0..(amount' - 1)
        /\ keys' \in [DOMAIN keys' -> Pairs]
    BY <2>3, <2>4, ReplacePair
  <2> QED
    BY <1>1, <2>1, <2>5 DEF KeyGenerateFails, TypeOK
<1> QED
  BY <1>2, <1>3, <1>4, <1>5

(* Setting keys fills every slot, and leaves the first one current.        *)
LEMMA InstallTypes ==
  ASSUME NEW count \in Nat, count # 0, NEW length \in Nat,
         NEW failed \in SUBSET {"bind", "random"}, Install(count, length, failed),
         index' = 0
  PROVE  SlotTypes' /\ HistoryTypes'
<1>1. 0 \in 0..(count - 1)
  OBVIOUS
<1>2. bindings' \in Seq(Pairs)
  <2>1. [key |-> 0, nonce |-> 0] \in Pairs
    BY DEF Pairs
  <2> QED
    BY <2>1 DEF Install
<1>3. keys' = [i \in 0..(count - 1) |-> [key |-> i, nonce |-> i]]
  BY DEF Install
<1>4. \A i \in 0..(count - 1) : [key |-> i, nonce |-> i] \in Pairs
  BY DEF Pairs
<1>5. amount' = count /\ key_length' = length /\ key_current' = 0
  BY DEF Install
<1>6. SlotTypes'
  BY <1>1, <1>3, <1>4, <1>5 DEF SlotTypes
<1>7. HistoryTypes'
  BY <1>2 DEF Install, HistoryTypes
<1> QED
  BY <1>6, <1>7

LEMMA SetTypes ==
  ASSUME TypeOK,
         (\E count \in KeyAmounts, length \in KeyLengths : SetAesKeys(count, length))
         \/ SetRandomKey \/ Clean
  PROVE  TypeOK'
<1>1. SlotTypes /\ CallTypes /\ FlagTypes /\ HistoryTypes
  BY TypeParts
<1>2. CallTypes'
  <2>1. call' = Idle
    BY DEF SetAesKeys, SetRandomKey, Clean, KeysFree
  <2> QED
    BY <2>1 DEF CallTypes, Idle
<1>3. CASE SetRandomKey
  <2>1. PICK rand_ok \in BOOLEAN, bind_ok \in BOOLEAN :
          /\ ready' = rand_ok
          /\ Install(1, DEFAULT_KEY_LEN,
                     IF rand_ok THEN Trouble(bind_ok, "bind") ELSE {"random"})
    BY <1>3 DEF SetRandomKey, CryptoResults
  <2> DEFINE failed == IF rand_ok THEN Trouble(bind_ok, "bind") ELSE {"random"}
  <2>2. failed \in SUBSET {"bind", "random"}
    BY DEF Trouble
  <2>3. keys_type' = "generated" /\ index' = 0 /\ next_counter' = 0
    BY <1>3 DEF SetRandomKey, FirstCounter
  <2>4. FlagTypes'
    BY <2>1, <2>3, CounterAssumption DEF FlagTypes
  <2> HIDE DEF failed
  <2>5. SlotTypes' /\ HistoryTypes'
    BY <2>1, <2>2, <2>3, InstallTypes, KeyLengthAssumption DEF failed
  <2> QED
    BY <1>2, <2>4, <2>5, TypePartsNext
<1>4. CASE Clean
  <2>1. keys' = << >> /\ amount' = 0 /\ key_current' = NULL /\ index' = 0 /\ key_length' = 0
    BY <1>4 DEF Clean, KeysFree
  <2>2. DOMAIN keys' = {} /\ 0..(amount' - 1) = {} /\ keys' \in [{} -> Pairs]
    BY <2>1
  <2>3. SlotTypes'
    BY <2>1, <2>2 DEF SlotTypes
  <2>4. FlagTypes'
    <3>1. 0 \in 0..MAX_COUNTER
      BY CounterAssumption
    <3>2. keys_type' = "generated" /\ next_counter' = 0 /\ ready' = FALSE
      BY <1>4 DEF Clean, KeysFree
    <3> QED
      BY <3>1, <3>2 DEF FlagTypes
  <2>5. << >> \in Seq(Pairs)
    OBVIOUS
  <2>6. HistoryTypes'
    BY <1>1, <1>4, <2>5 DEF Clean, KeysFree, HistoryTypes
  <2> QED
    BY <1>2, <2>3, <2>4, <2>6, TypePartsNext
<1>5. ASSUME NEW count \in KeyAmounts, NEW length \in KeyLengths,
             SetAesKeys(count, length)
      PROVE  TypeOK'
  <2>1. count \in Nat /\ length \in Nat
    BY LengthsAssumption
  <2>2. CASE ~LengthAllowed(length)
    <3>1. UNCHANGED <<keys_type, index, next_counter, ready, store, en, key_current,
                      fresh, bindings, served, uncounted, trouble>>
      BY <1>5, <2>2 DEF SetAesKeys
    <3>2. FlagTypes' /\ SlotTypes' /\ HistoryTypes'
      BY <1>1, <3>1 DEF FlagTypes, SlotTypes, HistoryTypes, store
    <3> QED
      BY <1>2, <3>2, TypePartsNext
  <2>3. CASE LengthAllowed(length) /\ Allocates(count, length)
    <3>1. PICK bind_ok \in BOOLEAN : Install(count, length, Trouble(bind_ok, "bind"))
      BY <1>5, <2>3 DEF SetAesKeys, CryptoResults
    <3>2. Trouble(bind_ok, "bind") \in SUBSET {"bind", "random"} /\ count # 0
      BY <2>3 DEF Trouble, Allocates
    <3>3. keys_type' = "given" /\ index' = 0 /\ next_counter' = MAX_COUNTER
          /\ ready' = Allocates(count, length)
      BY <1>5, <2>3 DEF SetAesKeys, FirstCounter
    <3>4. FlagTypes'
      BY <2>3, <3>3, CounterAssumption DEF FlagTypes
    <3>5. SlotTypes' /\ HistoryTypes'
      BY <2>1, <3>1, <3>2, <3>3, InstallTypes
    <3> QED
      BY <1>2, <3>4, <3>5, TypePartsNext
  <2>4. CASE LengthAllowed(length) /\ ~Allocates(count, length)
    <3>1. /\ keys_type' = "given" /\ index' = 0 /\ next_counter' = MAX_COUNTER
          /\ ready' = Allocates(count, length) /\ InstallFails
      BY <1>5, <2>4 DEF SetAesKeys, FirstCounter
    <3>2. UNCHANGED <<amount, key_length, keys>> /\ key_current' = NULL
      BY <3>1 DEF InstallFails, store
    <3>3. SlotTypes'
      BY <1>1, <3>1, <3>2 DEF SlotTypes
    <3>4. << >> \in Seq(Pairs)
      OBVIOUS
    <3>5. HistoryTypes'
      BY <1>1, <3>1, <3>4 DEF HistoryTypes, InstallFails
    <3>6. FlagTypes'
      <4>1. MAX_COUNTER \in 0..MAX_COUNTER
        BY CounterAssumption
      <4>2. ready' \in BOOLEAN
        BY <3>1 DEF Allocates
      <4> QED
        BY <3>1, <4>1, <4>2 DEF FlagTypes
    <3> QED
      BY <1>2, <3>3, <3>5, <3>6, TypePartsNext
  <2> QED
    BY <2>2, <2>3, <2>4
<1> QED
  BY <1>3, <1>4, <1>5

LEMMA CountTypes ==
  ASSUME TypeOK, Count
  PROVE  TypeOK'
<1>1. SlotTypes /\ CallTypes /\ FlagTypes /\ HistoryTypes
  BY TypeParts
<1>2. /\ call # Idle /\ call.left \in Nat /\ call.left > 0 /\ call.fn # "none"
      /\ DOMAIN keys # {}
      /\ UNCHANGED <<keys_type, amount, key_length, ready>>
  BY <1>1 DEF Count, CallTypes
<1>3. call' = Idle \/ call' = [call EXCEPT !.step = "encrypt"]
  BY DEF Count
<1>4. DOMAIN keys' = DOMAIN keys => CallTypes'
  BY <1>1, <1>2, <1>3 DEF CallTypes, Idle
<1>5. CASE ~Counted
  <2>1. UNCHANGED <<current, en, next_counter>>
    BY <1>5 DEF Count
  <2>2. SlotTypes' /\ FlagTypes' /\ HistoryTypes'
    BY <1>1, <1>2, <2>1 DEF SlotTypes, FlagTypes, HistoryTypes, current
  <2>3. CallTypes'
    BY <1>4, <2>1 DEF current
  <2> QED
    BY <2>2, <2>3, TypePartsNext
<1>6. CASE Counted
  <2>1. PICK c \in Counter(keys_type, next_counter, Piece) :
          next_counter' = c.next /\ ChangeKey(Piece, c.ok)
    BY <1>6 DEF Count
  <2>2. Piece \in Nat
    BY <1>2, PieceRange
  <2>3. next_counter' \in 0..MAX_COUNTER
    BY <1>1, <2>1, <2>2, CounterRange DEF FlagTypes
  <2>4. c.ok \in BOOLEAN
    <3>1. \/ c = [ok |-> FALSE, next |-> next_counter - Piece]
          \/ c = [ok |-> TRUE, next |-> MAX_COUNTER]
          \/ c \in [ok : CryptoResults, next : RandomizedCounts(next_counter)]
      BY <2>1 DEF Counter
    <3>2. CryptoResults \subseteq BOOLEAN
      BY DEF CryptoResults
    <3>3. CASE c \in [ok : CryptoResults, next : RandomizedCounts(next_counter)]
      <4>1. c.ok \in CryptoResults
        BY <3>3
      <4> QED
        BY <3>2, <4>1
    <3>4. CASE c = [ok |-> FALSE, next |-> next_counter - Piece]
      <4>1. c.ok = FALSE
        BY <3>4
      <4> QED
        BY <4>1
    <3>5. CASE c = [ok |-> TRUE, next |-> MAX_COUNTER]
      <4>1. c.ok = TRUE
        BY <3>5
      <4> QED
        BY <4>1
    <3> QED
      BY <3>1, <3>3, <3>4, <3>5
  <2>5. SlotTypes' /\ HistoryTypes' /\ DOMAIN keys' = DOMAIN keys
    <3>1. /\ DOMAIN keys' = DOMAIN keys
          /\ DOMAIN keys' = 0..(amount' - 1)
          /\ keys' \in [DOMAIN keys' -> Pairs]
          /\ index' \in DOMAIN keys' /\ index' \in Nat
          /\ key_current' \in {NULL} \union DOMAIN keys'
      BY <1>2, <2>1, <2>2, <2>4, ChangeTypes
    <3>2. HistoryTypes'
      BY <1>2, <2>1, <2>2, <2>4, ChangeTypes DEF HistoryTypes
    <3> QED
      BY <1>1, <1>2, <3>1, <3>2 DEF SlotTypes
  <2>6. FlagTypes'
    BY <1>1, <1>2, <2>3 DEF FlagTypes
  <2> QED
    BY <1>4, <2>5, <2>6, TypePartsNext
<1> QED
  BY <1>5, <1>6

LEMMA EncryptTypes ==
  ASSUME TypeOK, Encrypt
  PROVE  TypeOK'
<1>1. SlotTypes /\ CallTypes /\ FlagTypes /\ HistoryTypes
  BY TypeParts
<1>2. /\ UNCHANGED <<en, keys_type, store, index, next_counter, key_current, ready,
                     fresh, bindings, trouble>>
      /\ call # Idle /\ call.left \in Nat /\ call.left > 0 /\ call.fn # "none"
      /\ DOMAIN keys # {}
  BY <1>1 DEF Encrypt, CallTypes
<1>3. Piece \in Nat /\ Piece <= call.left
  BY <1>2, CounterAssumption DEF Piece
<1>4. served' \in Nat /\ uncounted' \in Nat
  <2>1. served' \in {served, served + Piece}
    BY DEF Encrypt
  <2>2. uncounted' \in {uncounted, uncounted + Piece}
    BY DEF Encrypt
  <2> QED
    BY <1>1, <1>3, <2>1, <2>2 DEF HistoryTypes
<1>5. \/ call' = Idle
      \/ /\ call' = [call EXCEPT !.left = @ - Piece, !.step = "count"]
         /\ call.left - Piece \in Nat /\ call.left - Piece > 0
  <2>1. \/ call' = Idle
        \/ /\ call.left # Piece
           /\ call' = [call EXCEPT !.left = @ - Piece, !.step = "count"]
    BY DEF Encrypt
  <2> QED
    BY <1>2, <1>3, <2>1
<1>6. CallTypes'
  <2>1. DOMAIN keys' # {}
    BY <1>2 DEF store
  <2>2. call \in Calls
    BY <1>1 DEF CallTypes, Calls
  <2>3. CASE call' = Idle
    BY <2>3 DEF CallTypes, Idle
  <2>4. CASE call' # Idle
    <3>1. /\ call'.fn = call.fn /\ call'.left = call.left - Piece
          /\ call' \in Calls
      BY <1>5, <2>2, <2>4 DEF Calls
    <3> QED
      BY <1>2, <1>5, <2>1, <2>4, <3>1 DEF CallTypes, Calls
  <2> QED
    BY <2>3, <2>4
<1>7. SlotTypes' /\ FlagTypes' /\ HistoryTypes'
  BY <1>1, <1>2, <1>4 DEF SlotTypes, FlagTypes, HistoryTypes, store
<1> QED
  BY <1>6, <1>7, TypePartsNext

(* AES_CFG keeps its types: in particular the current slot exists as long  *)
(* as there are keys, and amount is the number of slots.                   *)
THEOREM KeyStoreTyped == Spec => []TypeOK
<1>1. Init => TypeOK
  <2> SUFFICES ASSUME Init PROVE TypeOK
    OBVIOUS
  <2>1. keys = << >> /\ amount = 0 /\ bindings = << >>
    BY DEF Init
  <2>2. /\ DOMAIN keys = {} /\ 0..(amount - 1) = {} /\ keys \in [{} -> Pairs]
        /\ bindings \in Seq(Pairs)
    BY <2>1
  <2>3. SlotTypes /\ CallTypes
    BY <2>2 DEF Init, SlotTypes, CallTypes, Idle
  <2>4. FlagTypes
    <3>1. 0 \in 0..MAX_COUNTER
      BY CounterAssumption
    <3> QED
      BY <3>1 DEF Init, FlagTypes
  <2>5. HistoryTypes
    BY <2>2 DEF Init, HistoryTypes
  <2> QED
    BY <2>3, <2>4, <2>5, TypeParts
<1>2. TypeOK /\ [Next]_vars => TypeOK'
  <2> SUFFICES ASSUME TypeOK, [Next]_vars
               PROVE  TypeOK'
    OBVIOUS
  <2>1. ASSUME NEW fn \in {"get_bytes_aes_ctr", "rdrand_enc_buffer"},
               NEW length \in Lengths, Begin(fn, length)
        PROVE  TypeOK'
    <3>1. SlotTypes /\ CallTypes /\ FlagTypes /\ HistoryTypes
      BY TypeParts
    <3>2. /\ UNCHANGED <<current, en, keys_type, amount, key_length, next_counter,
                         ready>>
          /\ call' = [fn |-> fn, left |-> length, step |-> "count"]
          /\ length > 0 /\ length \in Nat /\ DOMAIN keys # {}
      BY <2>1, LengthsAssumption DEF Begin, Holding
    <3>3. SlotTypes' /\ FlagTypes' /\ HistoryTypes'
      BY <3>1, <3>2 DEF SlotTypes, FlagTypes, HistoryTypes, current
    <3>4. CallTypes'
      BY <3>1, <3>2 DEF CallTypes, current
    <3> QED
      BY <3>3, <3>4, TypePartsNext
  <2>2. CASE UNCHANGED vars
    BY <2>2 DEF vars, store, TypeOK
  <2> QED
    BY <2>1, <2>2, SetTypes, CountTypes, EncryptTypes DEF Next
<1> QED
  BY <1>1, <1>2, PTL DEF Spec

-----------------------------------------------------------------------------
(* No pair is given to OpenSSL twice.                                      *)

(* The material that OpenSSL was given is in use: fresh counts past it.    *)
(* That makes the material of the next key change new.                     *)
MaterialInv ==
  /\ \A i \in DOMAIN bindings : bindings[i].key < fresh
  /\ KeystreamNeverRepeats

(* A pair that OpenSSL was given is a pair.                                *)
LEMMA GivenPairs ==
  ASSUME NEW b \in Seq(Pairs), NEW i \in DOMAIN b
  PROVE  b[i] \in Pairs /\ b[i].key \in Nat
<1>1. b[i] \in Pairs
  OBVIOUS
<1> QED
  BY <1>1 DEF Pairs

(* One more pair, of material never given before.                          *)
LEMMA NewPairKeepsMaterial ==
  ASSUME TypeOK, MaterialInv, NEW pair \in Pairs, NEW bind_ok, Bind(pair, bind_ok),
         fresh' = fresh + 1, pair.key < fresh',
         "rotation" \notin trouble' => pair.key = fresh /\ "rotation" \notin trouble
  PROVE  MaterialInv'
<1>1. fresh \in Nat /\ bindings \in Seq(Pairs)
  BY DEF TypeOK
<1>2. \A i \in DOMAIN bindings : bindings[i] \in Pairs /\ bindings[i].key \in Nat
  BY <1>1, GivenPairs
<1>3. CASE bind_ok
  <2>1. bindings' = Append(bindings, pair)
    BY <1>3 DEF Bind
  <2>2. /\ DOMAIN bindings' = DOMAIN bindings \union {Len(bindings) + 1}
        /\ Len(bindings) + 1 \notin DOMAIN bindings
        /\ \A i \in DOMAIN bindings : bindings'[i] = bindings[i]
        /\ bindings'[Len(bindings) + 1] = pair
    BY <1>1, <2>1
  <2>3. \A i \in DOMAIN bindings' : bindings'[i].key < fresh'
    BY <1>1, <1>2, <2>2 DEF MaterialInv
  <2>4. ASSUME "rotation" \notin trouble' PROVE IsInjective(bindings')
    <3>1. IsInjective(bindings) /\ pair.key = fresh
      BY <2>4 DEF MaterialInv, KeystreamNeverRepeats
    <3>2. \A i \in DOMAIN bindings : bindings[i] # pair
      BY <1>1, <1>2, <3>1 DEF MaterialInv
    <3> QED
      BY <2>2, <3>1, <3>2 DEF IsInjective
  <2> QED
    BY <2>3, <2>4 DEF MaterialInv, KeystreamNeverRepeats
<1>4. CASE ~bind_ok
  <2>1. bindings' = bindings
    BY <1>4 DEF Bind
  <2>2. \A i \in DOMAIN bindings : bindings[i].key < fresh'
    BY <1>1, <1>2 DEF MaterialInv
  <2>3. "rotation" \notin trouble' => IsInjective(bindings)
    BY DEF MaterialInv, KeystreamNeverRepeats
  <2> QED
    BY <2>1, <2>2, <2>3 DEF MaterialInv, KeystreamNeverRepeats
<1> QED
  BY <1>3, <1>4

LEMMA ChangeKeepsMaterial ==
  ASSUME TypeOK, MaterialInv, NEW num, NEW ok, ChangeKey(num, ok), DOMAIN keys # {}
  PROVE  MaterialInv'
<1>1. /\ fresh \in Nat /\ bindings \in Seq(Pairs)
      /\ trouble \subseteq {"bind", "random", "rotation"}
  BY DEF TypeOK
<1>2. CASE ~MustChangeKey(next_counter, num)
  BY <1>2 DEF ChangeKey, current, MaterialInv, KeystreamNeverRepeats
<1>3. CASE MustChangeKey(next_counter, num) /\ keys_type = "given"
  <2>1. PICK rotate_ok \in BOOLEAN, bind_ok \in BOOLEAN : KeysChange(rotate_ok, bind_ok)
    BY <1>3 DEF ChangeKey, CryptoResults
  <2> DEFINE slot == NextSlot(index)
  <2>2. PICK pair \in {RotatedPair(keys[slot], fresh)} \union
                      (IF rotate_ok THEN {} ELSE Range(bindings)) :
          /\ fresh' = fresh + 1
          /\ Bind(BoundPair(keys[slot], pair), bind_ok)
          /\ trouble' = trouble \union Trouble(rotate_ok, "rotation")
                                \union Trouble(bind_ok, "bind")
    BY <2>1 DEF KeysChange
  <2> HIDE DEF slot
  <2>3. Bind(pair, bind_ok)
    BY <2>2 DEF BoundPair
  <2>4. CASE pair = [key |-> fresh, nonce |-> fresh]
    <3>1. pair \in Pairs /\ pair.key = fresh /\ pair.key < fresh'
      BY <1>1, <2>2, <2>4 DEF Pairs
    <3>2. "rotation" \notin trouble' => "rotation" \notin trouble
      BY <2>2
    <3> QED
      BY <2>2, <2>3, <3>1, <3>2, NewPairKeepsMaterial
  <2>5. CASE ~rotate_ok /\ pair \in Range(bindings)
    <3>1. PICK i \in DOMAIN bindings : pair = bindings[i]
      BY <2>5 DEF Range
    <3>2. pair \in Pairs /\ pair.key < fresh
      BY <1>1, <3>1 DEF MaterialInv
    <3>3. pair.key < fresh'
      BY <1>1, <2>2, <3>2 DEF Pairs
    <3>4. "rotation" \in trouble'
      BY <2>2, <2>5 DEF Trouble
    <3> QED
      BY <2>2, <2>3, <3>2, <3>3, <3>4, NewPairKeepsMaterial
  <2> QED
    BY <2>2, <2>4, <2>5 DEF RotatedPair
<1>4. CASE MustChangeKey(next_counter, num) /\ keys_type # "given" /\ ok
  <2>1. PICK bind_ok \in BOOLEAN : KeyGenerate(bind_ok)
    BY <1>4 DEF ChangeKey, CryptoResults
  <2> DEFINE pair == [key |-> fresh, nonce |-> fresh]
  <2>2. /\ fresh' = fresh + 1
        /\ Bind(pair, bind_ok)
        /\ trouble' = trouble \union Trouble(bind_ok, "bind")
    BY <2>1 DEF KeyGenerate
  <2>3. pair \in Pairs /\ pair.key = fresh /\ pair.key < fresh'
    BY <1>1, <2>2 DEF Pairs
  <2>4. "rotation" \notin trouble' => "rotation" \notin trouble
    BY <2>2
  <2> HIDE DEF pair
  <2> QED
    BY <2>2, <2>3, <2>4, NewPairKeepsMaterial
<1>5. CASE MustChangeKey(next_counter, num) /\ keys_type # "given" /\ ~ok
  <2>1. /\ fresh' = fresh + 1 /\ bindings' = bindings
        /\ trouble' = trouble \union {"random"}
    BY <1>5 DEF ChangeKey, KeyGenerateFails
  <2>2. \A i \in DOMAIN bindings : bindings[i].key \in Nat
    BY <1>1, GivenPairs
  <2>3. \A i \in DOMAIN bindings : bindings[i].key < fresh'
    BY <1>1, <2>1, <2>2 DEF MaterialInv
  <2>4. "rotation" \notin trouble' => "rotation" \notin trouble
    BY <2>1
  <2> QED
    BY <2>1, <2>3, <2>4 DEF MaterialInv, KeystreamNeverRepeats
<1> QED
  BY <1>2, <1>3, <1>4, <1>5

(* A set or a discard leaves at most one pair bound.                       *)
LEMMA SetKeepsMaterial ==
  ASSUME TypeOK, MaterialInv,
         (\E count \in KeyAmounts, length \in KeyLengths : SetAesKeys(count, length))
         \/ SetRandomKey \/ Clean
  PROVE  MaterialInv'
<1>1. CASE bindings' = << >>
  BY <1>1 DEF MaterialInv, KeystreamNeverRepeats, IsInjective
<1>2. ASSUME NEW count \in Nat, NEW length, NEW failed, Install(count, length, failed),
             count # 0
      PROVE  MaterialInv'
  <2>1. CASE failed = {}
    <3>1. bindings' = << [key |-> 0, nonce |-> 0] >> /\ fresh' = count /\ 0 < count
      BY <1>2, <2>1 DEF Install
    <3>2. DOMAIN bindings' = {1} /\ bindings'[1].key = 0
      BY <3>1
    <3> QED
      BY <3>1, <3>2 DEF MaterialInv, KeystreamNeverRepeats, IsInjective
  <2>2. CASE failed # {}
    BY <1>1, <1>2, <2>2 DEF Install
  <2> QED
    BY <2>1, <2>2
<1>3. CASE Clean
  BY <1>1, <1>3 DEF Clean, KeysFree
<1>4. CASE SetRandomKey
  BY <1>2, <1>4 DEF SetRandomKey
<1>5. ASSUME NEW count \in KeyAmounts, NEW length \in KeyLengths,
             SetAesKeys(count, length)
      PROVE  MaterialInv'
  <2>1. CASE LengthAllowed(length) /\ Allocates(count, length)
    <3>1. count \in Nat /\ count # 0
      BY <2>1, LengthsAssumption DEF Allocates
    <3> QED
      BY <1>2, <1>5, <2>1, <3>1 DEF SetAesKeys
  <2>2. CASE LengthAllowed(length) /\ ~Allocates(count, length)
    BY <1>1, <1>5, <2>2 DEF SetAesKeys, InstallFails
  <2>3. CASE ~LengthAllowed(length)
    BY <1>5, <2>3 DEF SetAesKeys, MaterialInv, KeystreamNeverRepeats
  <2> QED
    BY <2>1, <2>2, <2>3
<1> QED
  BY <1>3, <1>4, <1>5

(* keys_change() and key_generate(): as long as the keys can be encrypted, *)
(* no pair of key and nonce is given to OpenSSL twice, whatever else fails *)
(* and in whichever order the application calls.                           *)
THEOREM NoPairTwice == Spec => []KeystreamNeverRepeats
<1>1. Init => MaterialInv
  BY DEF Init, MaterialInv, KeystreamNeverRepeats, IsInjective
<1>2. TypeOK /\ MaterialInv /\ [Next]_vars => MaterialInv'
  <2> SUFFICES ASSUME TypeOK, MaterialInv, [Next]_vars
               PROVE  MaterialInv'
    OBVIOUS
  <2>1. CASE UNCHANGED <<bindings, fresh, trouble>>
    BY <2>1 DEF MaterialInv, KeystreamNeverRepeats
  <2>2. ASSUME NEW fn \in {"get_bytes_aes_ctr", "rdrand_enc_buffer"},
               NEW length \in Lengths, Begin(fn, length)
        PROVE  MaterialInv'
    BY <2>1, <2>2 DEF Begin, current
  <2>3. CASE Count
    <3>1. DOMAIN keys # {}
      BY <2>3 DEF Count, TypeOK
    <3>2. CASE Counted
      BY <2>3, <3>1, <3>2, ChangeKeepsMaterial DEF Count
    <3>3. CASE ~Counted
      BY <2>1, <2>3, <3>3 DEF Count, current
    <3> QED
      BY <3>2, <3>3
  <2>4. CASE Encrypt
    BY <2>1, <2>4 DEF Encrypt
  <2>5. CASE UNCHANGED vars
    BY <2>1, <2>5 DEF vars
  <2> QED
    BY <2>2, <2>3, <2>4, <2>5, SetKeepsMaterial DEF Next
<1>3. MaterialInv => KeystreamNeverRepeats
  BY DEF MaterialInv
<1> QED
  BY <1>1, <1>2, <1>3, KeyStoreTyped, PTL DEF Spec

-----------------------------------------------------------------------------
(* The context holds the pair that AES_CFG points to.                      *)

(* A generated key has slot 0 only: the slot that key_generate() fills is  *)
(* the current one.                                                        *)
CurrentInv ==
  /\ keys_type = "generated" => index = 0
  /\ CurrentIsBound

(* A pair that OpenSSL took is the last one of bindings.                   *)
LEMMA BoundLast ==
  ASSUME TypeOK, NEW pair, Bind(pair, TRUE), pair \in Pairs
  PROVE  en' = "bound" /\ bindings'[Len(bindings')] = pair
<1>1. bindings \in Seq(Pairs) /\ bindings' = Append(bindings, pair) /\ en' = "bound"
  BY DEF TypeOK, Bind
<1> QED
  BY <1>1

LEMMA ChangeKeepsCurrent ==
  ASSUME TypeOK, TypeOK', CurrentInv, NEW num, NEW ok, ChangeKey(num, ok),
         DOMAIN keys # {}, UNCHANGED <<keys_type, ready>>
  PROVE  CurrentInv'
<1>1. CASE ~MustChangeKey(next_counter, num)
  BY <1>1 DEF ChangeKey, current, CurrentInv, CurrentIsBound
<1>2. CASE MustChangeKey(next_counter, num) /\ keys_type = "given"
  <2>1. PICK rotate_ok \in BOOLEAN, bind_ok \in BOOLEAN : KeysChange(rotate_ok, bind_ok)
    BY <1>2 DEF ChangeKey, CryptoResults
  <2> DEFINE slot == NextSlot(index)
  <2>2. PICK pair :
          /\ index' = slot
          /\ key_current' = slot
          /\ keys' = [keys EXCEPT ![slot] = pair]
          /\ Bind(BoundPair(keys[slot], pair), bind_ok)
          /\ trouble' = trouble \union Trouble(rotate_ok, "rotation")
                                \union Trouble(bind_ok, "bind")
    BY <2>1 DEF KeysChange
  <2> HIDE DEF slot
  <2>3. DOMAIN keys' = DOMAIN keys
    BY <2>2
  <2>4. slot \in DOMAIN keys
    BY <2>2, <2>3 DEF TypeOK
  <2>5. keys'[slot] = pair /\ pair \in Pairs
    BY <2>2, <2>3, <2>4 DEF TypeOK
  <2>6. ASSUME trouble' = {}
        PROVE  en' = "bound" /\ bindings'[Len(bindings')] = pair
    <3>1. bind_ok = TRUE
      BY <2>2, <2>6 DEF Trouble
    <3>2. Bind(pair, TRUE)
      BY <2>2, <3>1 DEF BoundPair
    <3> QED
      BY <2>5, <3>2, BoundLast
  <2> QED
    BY <1>2, <2>2, <2>5, <2>6 DEF CurrentInv, CurrentIsBound
<1>3. CASE MustChangeKey(next_counter, num) /\ keys_type # "given" /\ ok
  <2>1. PICK bind_ok \in BOOLEAN : KeyGenerate(bind_ok)
    BY <1>3 DEF ChangeKey, CryptoResults
  <2> DEFINE pair == [key |-> fresh, nonce |-> fresh]
  <2>2. /\ keys' = [keys EXCEPT ![0] = pair]
        /\ Bind(pair, bind_ok)
        /\ trouble' = trouble \union Trouble(bind_ok, "bind")
        /\ UNCHANGED <<index, key_current>>
    BY <2>1 DEF KeyGenerate
  <2>3. pair \in Pairs
    BY DEF TypeOK, Pairs
  <2> HIDE DEF pair
  <2>4. index = 0 /\ index \in DOMAIN keys
    BY <1>3 DEF TypeOK, CurrentInv
  <2>5. keys'[index] = pair
    BY <2>2, <2>4
  <2>6. ASSUME trouble' = {}
        PROVE  trouble = {} /\ en' = "bound" /\ bindings'[Len(bindings')] = pair
    <3>1. bind_ok = TRUE
      BY <2>2, <2>6 DEF Trouble
    <3> QED
      BY <2>2, <2>3, <2>6, <3>1, BoundLast
  <2> QED
    BY <2>2, <2>4, <2>5, <2>6 DEF CurrentInv, CurrentIsBound
<1>4. CASE MustChangeKey(next_counter, num) /\ keys_type # "given" /\ ~ok
  BY <1>4 DEF ChangeKey, KeyGenerateFails, CurrentInv, CurrentIsBound
<1> QED
  BY <1>1, <1>2, <1>3, <1>4

LEMMA SetKeepsCurrent ==
  ASSUME TypeOK, CurrentInv,
         (\E count \in KeyAmounts, length \in KeyLengths : SetAesKeys(count, length))
         \/ SetRandomKey \/ Clean
  PROVE  CurrentInv'
<1>1. ASSUME NEW count \in Nat, NEW length, NEW failed, Install(count, length, failed),
             count # 0, index' = 0
      PROVE  CurrentInv'
  <2>1. CASE failed = {}
    <3>1. /\ bindings' = << [key |-> 0, nonce |-> 0] >> /\ en' = "bound"
          /\ key_current' = 0
          /\ keys' = [i \in 0..(count - 1) |-> [key |-> i, nonce |-> i]]
      BY <1>1, <2>1 DEF Install
    <3>2. 0 \in 0..(count - 1)
      BY <1>1
    <3>3. keys'[0] = [key |-> 0, nonce |-> 0]
      BY <3>1, <3>2
    <3>4. bindings'[Len(bindings')] = [key |-> 0, nonce |-> 0]
      BY <3>1
    <3> QED
      BY <1>1, <3>1, <3>3, <3>4 DEF CurrentInv, CurrentIsBound
  <2>2. CASE failed # {}
    BY <1>1, <2>2 DEF Install, CurrentInv, CurrentIsBound
  <2> QED
    BY <2>1, <2>2
<1>2. CASE Clean
  BY <1>2 DEF Clean, KeysFree, CurrentInv, CurrentIsBound
<1>3. CASE SetRandomKey
  BY <1>1, <1>3 DEF SetRandomKey
<1>4. ASSUME NEW count \in KeyAmounts, NEW length \in KeyLengths,
             SetAesKeys(count, length)
      PROVE  CurrentInv'
  <2>1. CASE LengthAllowed(length) /\ Allocates(count, length)
    <3>1. count \in Nat /\ count # 0
      BY <2>1, LengthsAssumption DEF Allocates
    <3> QED
      BY <1>1, <1>4, <2>1, <3>1 DEF SetAesKeys
  <2>2. CASE LengthAllowed(length) /\ ~Allocates(count, length)
    <3>1. ready' = FALSE /\ index' = 0
      BY <1>4, <2>2 DEF SetAesKeys
    <3> QED
      BY <3>1 DEF CurrentInv, CurrentIsBound
  <2>3. CASE ~LengthAllowed(length)
    BY <1>4, <2>3 DEF SetAesKeys, store, CurrentInv, CurrentIsBound
  <2> QED
    BY <2>1, <2>2, <2>3
<1> QED
  BY <1>2, <1>3, <1>4

(* What encrypts is what AES_CFG says: the context holds the pair at       *)
(* index, to which key_current and nonce_current point, whatever the key   *)
(* changes that led there, unless a call into OpenSSL failed.              *)
THEOREM ContextIsCurrent == Spec => []CurrentIsBound
<1>1. Init => CurrentInv
  BY DEF Init, CurrentInv, CurrentIsBound
<1>2. TypeOK /\ TypeOK' /\ CurrentInv /\ [Next]_vars => CurrentInv'
  <2> SUFFICES ASSUME TypeOK, TypeOK', CurrentInv, [Next]_vars
               PROVE  CurrentInv'
    OBVIOUS
  <2>1. CASE UNCHANGED <<keys_type, current, en, ready>>
    BY <2>1 DEF current, CurrentInv, CurrentIsBound
  <2>2. ASSUME NEW fn \in {"get_bytes_aes_ctr", "rdrand_enc_buffer"},
               NEW length \in Lengths, Begin(fn, length)
        PROVE  CurrentInv'
    BY <2>1, <2>2 DEF Begin
  <2>3. CASE Count
    <3>1. DOMAIN keys # {}
      BY <2>3 DEF Count, TypeOK
    <3>2. CASE Counted
      BY <2>3, <3>1, <3>2, ChangeKeepsCurrent DEF Count
    <3>3. CASE ~Counted
      BY <2>1, <2>3, <3>3 DEF Count
    <3> QED
      BY <3>2, <3>3
  <2>4. CASE Encrypt
    BY <2>4 DEF Encrypt, store, CurrentInv, CurrentIsBound
  <2>5. CASE UNCHANGED vars
    BY <2>5 DEF vars, store, CurrentInv, CurrentIsBound
  <2> QED
    BY <2>2, <2>3, <2>4, <2>5, SetKeepsCurrent DEF Next
<1>3. CurrentInv => CurrentIsBound
  BY DEF CurrentInv
<1> QED
  BY <1>1, <1>2, <1>3, KeyStoreTyped, PTL DEF Spec
=============================================================================
