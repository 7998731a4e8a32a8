----------------------------- MODULE RdRandFill -----------------------------
(***************************************************************************)
(* What one call of the library's filling functions (src/librdrand.c) may  *)
(* leave in memory.  The instruction may give no value at any draw, and    *)
(* the retries only make that less likely, so a call fills a subset of the *)
(* bytes it was asked for and returns how many it filled:                  *)
(*                                                                         *)
(*   rdrand_get_uint64_array_retry  stops at the first draw that fails:    *)
(*                                  the filled words are a prefix;         *)
(*   rdrand_get_uint8_array_retry   draws the odd bytes first, one draw,   *)
(*                                  and goes on to the words only if that  *)
(*                                  succeeded;                             *)
(*   rdrand_get_bytes_retry         fills the bytes up to an aligned       *)
(*                                  address, the aligned words and the     *)
(*                                  rest by three independent calls, and   *)
(*                                  does not stop when one falls short;    *)
(*   reseed_delay, reseed_skip      like uint64_array, after dividing the  *)
(*                                  size by the size of a word.            *)
(*                                                                         *)
(* Memory is numbered by byte and word-aligned addresses are the multiples *)
(* of WORD.                                                                *)
(***************************************************************************)
EXTENDS CTypes, FiniteSets

CONSTANTS
  HwMayFail    \* may the RdRand instruction fail all the retries of a draw?

ASSUME HwAssumption == HwMayFail \in BOOLEAN

Span(first, count) == first..(first + count - 1)

(* rdrand_get_uint64_array_retry *)
Uint64ArrayFills(first, words) == {Span(first, WORD * k) : k \in 0..words}

(* rdrand_get_uint8_array_retry *)
Uint8ArrayFills(first, count) ==
  {{}} \union {Span(first, (count % WORD) + WORD * k) : k \in 0..(count \div WORD)}

(* The distance to the aligned words: a full word when first is aligned,  *)
(* since 8 - start % 8 is never 0.                                         *)
Offset(first, size) == IF size < WORD THEN 0 ELSE WORD - (first % WORD)

(* The bytes from there on, in an unsigned int. *)
AlignedBytes(first, size) == (size - Offset(first, size)) % UINT_RANGE

(* rdrand_get_bytes_retry *)
GetBytesFills(first, size) ==
  LET offset == Offset(first, size)
      words  == AlignedBytes(first, size) \div WORD
      rest   == AlignedBytes(first, size) % WORD
      start  == first + offset
  IN  { head \union middle \union tail :
          head   \in Uint8ArrayFills(first, offset),
          middle \in Uint64ArrayFills(start, words),
          tail   \in Uint8ArrayFills(start + WORD * words, rest) }

(* The bytes of an element of what a function counts. *)
Unit(fn) ==
  CASE fn \in {"uint16", "uint16_array"} -> WORD \div 4
    [] fn \in {"uint32", "uint32_array"} -> WORD \div 2
    [] fn \in {"uint64", "uint64_array", "reseed_delay", "reseed_skip"} -> WORD
    [] fn \in {"uint8_array", "get_bytes", "fwrite"} -> 1

(* generate_with_metod(): which function serves which method.  A healthy   *)
(* generator fills everything the function asks it for.                    *)
Fills(method, first, size) ==
  IF method = "get_bytes"
  THEN IF HwMayFail THEN GetBytesFills(first, size)
                    ELSE {Span(first, size)}
  ELSE IF HwMayFail THEN Uint64ArrayFills(first, size \div WORD)
                    ELSE {Span(first, WORD * (size \div WORD))}
=============================================================================
