------------------------------- MODULE KeyFile -------------------------------
(***************************************************************************)
(* load_keys() and load_key_line() of src/rdrand-gen.c: the key file is    *)
(* read line by line.  A line is a key and its nonce in hexadecimal, the   *)
(* nonce half as long as the key; all keys have the length of the first    *)
(* one.  At the end of the file they are handed to rdrand_set_aes_keys().  *)
(*                                                                         *)
(* A line is the number of its hexadecimal digits, and what comes after    *)
(* them: the end of the line, the end of the file, or another character.   *)
(* Allocations succeed.                                                    *)
(***************************************************************************)
EXTENDS AesKeyLength, Sequences

CONSTANTS
  MAX_KEYS,     \* size of the arrays of load_keys(), 128 in the code
  DigitCounts,  \* the numbers of digits on a line
  MaxLines      \* bound: lines before the end of the file

VARIABLES
  status,     \* "closed", "reading", or what load_keys() returned
  first_len,  \* bytes of the first key, 0 before it
  keys,       \* the keys read: line number, bytes, and whether all were set
  installed,  \* the keys that rdrand_set_aes_keys() took
  lines       \* history: the lines read

vars == <<status, first_len, keys, installed, lines>>

Errors == {"E_ERROR", "E_KEY_NONCE_BAD_LENGTH", "E_KEY_INVALID_CHARACTER"}
Lines  == [digits : DigitCounts, ends : {"newline", "eof", "character"}]

Init ==
  /\ status = "closed"
  /\ first_len = 0
  /\ keys = << >> /\ installed = << >>
  /\ lines = << >>

-----------------------------------------------------------------------------
(* load_key_line()                                                         *)

(* The nonce is a third of the digits and the key two. *)
KeyDigits(line)   == 2 * (line.digits \div 3)
NonceDigits(line) == line.digits \div 3

(* The check precedes the store of a digit, and lets one digit more than   *)
(* the buffer holds pass.                                                  *)
TooLong(line)    == line.digits > 2 * RDRAND_MAX_KEY_LENGTH + 1
PastBuffer(line) == line.digits > 2 * RDRAND_MAX_KEY_LENGTH

Splits(line) == KeyDigits(line) + NonceDigits(line) = line.digits

(* hexToByte() converts nothing unless the bytes take all the digits.      *)
HexToByte(digits, bytes) == digits = 2 * bytes

(* What the call returns, in the order of its checks.  The end of the file *)
(* takes precedence over the digits before it.                             *)
LineResult(line) ==
  CASE TooLong(line)                -> "E_KEY_NONCE_BAD_LENGTH"
    [] ~TooLong(line) /\ line.ends = "character" -> "E_KEY_INVALID_CHARACTER"
    [] ~TooLong(line) /\ line.ends # "character" ->
         IF ~Splits(line) THEN "E_KEY_NONCE_BAD_LENGTH"
         ELSE IF line.ends = "eof" THEN "E_EOF" ELSE "E_OK"

KeyLen(line) == KeyDigits(line) \div 2

Key(line) ==
  [line  |-> Len(lines) + 1,
   bytes |-> KeyLen(line),
   whole |-> /\ HexToByte(KeyDigits(line), KeyDigits(line) \div 2)
             /\ HexToByte(NonceDigits(line), NonceDigits(line) \div 2)]

-----------------------------------------------------------------------------
(* load_keys()                                                             *)

Open ==
  /\ status = "closed"
  /\ status' = "reading"
  /\ UNCHANGED <<first_len, keys, installed, lines>>

Read(line) ==
  /\ status = "reading"
  /\ lines' = Append(lines, line)

SkipEmptyLine(line) ==
  /\ Read(line)
  /\ LineResult(line) = "E_OK"
  /\ KeyLen(line) = 0
  /\ UNCHANGED <<status, first_len, keys, installed>>

AnyLength(line) == TRUE

SameLength(line) == first_len \in {0, KeyLen(line)}

Usable(line) ==
  /\ RDRAND_MIN_KEY_LENGTH <= KeyLen(line)
  /\ KeyLen(line) <= RDRAND_MAX_KEY_LENGTH
  /\ SameLength(line)

(* The arrays are not looked at: one key more than they have room for is   *)
(* written past them, and nothing is said about what follows.              *)
AddKey(line) ==
  /\ Read(line)
  /\ LineResult(line) = "E_OK"
  /\ KeyLen(line) # 0
  /\ Usable(line)
  /\ first_len' = KeyLen(line)
  /\ keys' = Append(keys, Key(line))
  /\ status' = IF Len(keys) < MAX_KEYS THEN status ELSE "undefined"
  /\ UNCHANGED installed

RejectKey(line) ==
  /\ Read(line)
  /\ LineResult(line) = "E_OK"
  /\ KeyLen(line) # 0
  /\ ~Usable(line)
  /\ status' = "E_KEY_NONCE_BAD_LENGTH"
  /\ UNCHANGED <<first_len, keys, installed>>

(* A digit stored past the buffer may do anything. *)
RejectLine(line) ==
  /\ Read(line)
  /\ LineResult(line) \in Errors
  /\ \/ status' = LineResult(line)
     \/ PastBuffer(line) /\ status' = "undefined"
  /\ UNCHANGED <<first_len, keys, installed>>

(* The end of the file, and rdrand_set_aes_keys() if there are keys. *)
Finish(line) ==
  /\ Read(line)
  /\ LineResult(line) = "E_EOF"
  /\ IF keys # << >> /\ LengthAllowed(first_len) /\ Allocates(Len(keys), first_len)
     THEN status' = "E_OK" /\ installed' = keys
     ELSE status' = "E_KEY_NONCE_BAD_LENGTH" /\ UNCHANGED installed
  /\ UNCHANGED <<first_len, keys>>

(* After MaxLines lines the file ends. *)
NextLines ==
  { line \in Lines : Len(lines) < MaxLines \/ (line.ends = "eof" /\ line.digits = 0) }

Next ==
  \/ Open
  \/ \E line \in NextLines :
       \/ SkipEmptyLine(line) \/ AddKey(line) \/ RejectKey(line)
       \/ RejectLine(line) \/ Finish(line)

-----------------------------------------------------------------------------

TypeOK ==
  /\ status \in {"closed", "reading", "undefined", "E_OK"} \union Errors
  /\ first_len \in 0..RDRAND_MAX_KEY_LENGTH
  /\ \A i \in DOMAIN keys : keys[i].line \in DOMAIN lines
  /\ keys \in Seq([line : Nat, bytes : 0..RDRAND_MAX_KEY_LENGTH, whole : BOOLEAN])
  /\ installed \in {<< >>, keys}
  /\ lines \in Seq(Lines)

(* The lines that hold a key, and those that load_keys() gets to see: the  *)
(* end of the file ends its loop whatever stands before it, so that a last *)
(* line without a newline is dropped and nothing is said.                  *)
KeyLines == { i \in DOMAIN lines : lines[i].digits # 0 }

TerminatedKeyLines == { i \in KeyLines : lines[i].ends # "eof" }

(* When load_keys() succeeds, the keys in use are the keys of the file but *)
(* for a last line that no newline ends: every other non-empty line, once  *)
(* and in order, all digits of its key and its nonce converted, and all of *)
(* the same length.  The manual page (man/rdrand-gen.7:51), "On each line  *)
(* is a hexadecimal string containing a key and a nonce", promises the     *)
(* last line too.                                                          *)
KeysAreTheLines ==
  status = "E_OK" =>
    /\ {installed[i].line : i \in DOMAIN installed} = TerminatedKeyLines
    /\ \A i, j \in DOMAIN installed : i < j => installed[i].line < installed[j].line
    /\ \A i \in DOMAIN installed :
         /\ installed[i].whole
         /\ installed[i].bytes = installed[1].bytes
         /\ 6 * (installed[i].bytes \div 2) = lines[installed[i].line].digits

=============================================================================
