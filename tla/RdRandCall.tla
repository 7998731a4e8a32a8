----------------------------- MODULE RdRandCall ------------------------------
(***************************************************************************)
(* A call of a generation function of src/librdrand.c as its callers see   *)
(* it: it returns, and when it does it has set one of the sets of bytes    *)
(* that RdRandFill describes and returns how many they are.                *)
(***************************************************************************)
EXTENDS RdRandFill

CONSTANTS Calls

VARIABLES call, filled, result

vars == <<call, filled, result>>

Running == -2

SingleFills(first, size) == {{}, Span(first, size)}

(* The arrays of 16 and of 32 bits: one element if count is not a whole    *)
(* number of words, then the words.                                        *)
ElementFirstFills(first, count, unit) ==
  LET words == (count * unit) \div WORD
  IN  IF count * unit = WORD * words THEN Uint64ArrayFills(first, words)
      ELSE {{}} \union {Span(first, unit + WORD * k) : k \in 0..words}

(* rdrand_fwrite() does not notice a failed draw. *)
Outcomes(c) ==
  CASE c.fn \in {"uint16", "uint32", "uint64"} -> SingleFills(c.first, Unit(c.fn))
    [] c.fn = "uint8_array" -> Uint8ArrayFills(c.first, c.count)
    [] c.fn \in {"uint16_array", "uint32_array"} ->
         ElementFirstFills(c.first, c.count, Unit(c.fn))
    [] c.fn \in {"uint64_array", "reseed_delay", "reseed_skip"} ->
         Uint64ArrayFills(c.first, c.count)
    [] c.fn = "get_bytes"   -> GetBytesFills(c.first, c.count)
    [] c.fn = "fwrite"      -> {Span(0, c.count)}

(* The value returned for the bytes that were set. *)
Counts(c, bytes) ==
  IF c.fn \in {"uint16", "uint32", "uint64"}
  THEN IF bytes = 0 THEN -1 ELSE 1
  ELSE bytes \div Unit(c.fn)

Init ==
  /\ call \in Calls
  /\ filled = {}
  /\ result = Running

Return ==
  /\ result = Running
  /\ filled' \in Outcomes(call)
  /\ result' = Counts(call, Cardinality(filled'))
  /\ UNCHANGED call

Spec == Init /\ [][Return]_vars /\ WF_vars(Return)
=============================================================================
