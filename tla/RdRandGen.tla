------------------------------ MODULE RdRandGen ------------------------------
(***************************************************************************)
(* main() of src/rdrand-gen.c: the command line is parsed (ParseArgs), the *)
(* output is opened, the AES keys are read from the key file (KeyFile) or  *)
(* drawn, the CPU is tested, generate() runs, and the keys are discarded.  *)
(*                                                                         *)
(* generate() is what ByteStream says of it: it delivers the amount, or    *)
(* less after a loss; without an amount it returns only after a loss.      *)
(***************************************************************************)
EXTENDS ParseArgs, Sequences

CONSTANTS
  RDRAND_MIN_KEY_LENGTH, RDRAND_MAX_KEY_LENGTH, DEFAULT_KEY_LEN,
  MAX_KEYS, DigitCounts, MaxLines    \* see KeyFile

ASSUME KeyFileAssumption ==
  /\ RDRAND_MIN_KEY_LENGTH \in Nat /\ RDRAND_MIN_KEY_LENGTH >= 1
  /\ RDRAND_MAX_KEY_LENGTH \in Nat
  /\ DEFAULT_KEY_LEN \in Nat
  /\ MAX_KEYS \in Nat
  /\ DigitCounts \subseteq Nat
  /\ MaxLines \in Nat

VARIABLES
  stage,      \* where main() is
  output,     \* "stdout", "closed", or "truncated" by opening the file for writing
  status, first_len, keys, installed, lines,   \* see KeyFile
  aes,        \* the keys of the AES layer: "none", "given", "random", "unset"
  cleaned,    \* rdrand_clean_aes() was called
  out,        \* "nothing", "part" or "all" of the amount was delivered
  exit        \* the exit code, or "running"

File == INSTANCE KeyFile

file_vars    == <<status, first_len, keys, installed, lines>>
main_vars    == <<output, aes, cleaned, out>>
program_vars == <<vars, stage, file_vars, main_vars, exit>>

Stages == {"parse", "output", "keys", "load", "support", "generate", "exit"}

ProgramInit ==
  /\ Init
  /\ File!Init
  /\ stage = "parse"
  /\ output = "stdout"
  /\ aes = "none" /\ cleaned = FALSE
  /\ out = "nothing"
  /\ exit = "running"

Exit(code) ==
  /\ stage' = "exit"
  /\ exit' = code

Continue(next) ==
  /\ stage' = next
  /\ UNCHANGED exit

ParseOptions ==
  /\ stage = "parse"
  /\ Next
  /\ UNCHANGED <<stage, file_vars, main_vars, exit>>

CommandLineRejected ==
  /\ stage = "parse"
  /\ pc = "rejected"
  /\ Exit("EXIT_FAILURE")
  /\ UNCHANGED <<vars, file_vars, main_vars>>

HelpOrVersion ==
  /\ stage = "parse"
  /\ pc = "accepted"
  /\ flags \intersect {"help", "version"} # {}
  /\ Exit("EXIT_SUCCESS")
  /\ UNCHANGED <<vars, file_vars, main_vars>>

CommandLineAccepted ==
  /\ stage = "parse"
  /\ pc = "accepted"
  /\ flags \intersect {"help", "version"} = {}
  /\ Continue("output")
  /\ UNCHANGED <<vars, file_vars, main_vars>>

(* fopen() of the output, which empties a file that exists. *)
OpenOutput ==
  /\ stage = "output"
  /\ IF "output" \notin flags
     THEN Continue("keys") /\ UNCHANGED output
     ELSE \/ Continue("keys") /\ output' = "truncated"
          \/ Exit("EXIT_FAILURE") /\ output' = "closed"
  /\ UNCHANGED <<vars, file_vars, aes, cleaned, out>>

NoAes ==
  /\ stage = "keys"
  /\ "aes-ctr" \notin flags
  /\ Continue("support")
  /\ UNCHANGED <<vars, file_vars, main_vars>>

(* The result of rdrand_set_aes_random_key() is not looked at. *)
SetRandomKey ==
  /\ stage = "keys"
  /\ "aes-ctr" \in flags
  /\ "aes-keys" \notin flags
  /\ aes' \in {"random", "unset"}
  /\ Continue("support")
  /\ UNCHANGED <<vars, file_vars, output, cleaned, out>>

(* load_keys(), which exits itself if the file cannot be opened. *)
OpenKeyFile ==
  /\ stage = "keys"
  /\ {"aes-ctr", "aes-keys"} \subseteq flags
  /\ \/ File!Open /\ Continue("load")
     \/ Exit("EXIT_FAILURE") /\ UNCHANGED file_vars
  /\ UNCHANGED <<vars, main_vars>>

LoadKeys ==
  /\ stage = "load"
  /\ File!Next
  /\ UNCHANGED <<vars, stage, main_vars, exit>>

FatalErrorsButCharacters == File!Errors \ {"E_KEY_INVALID_CHARACTER"}

(* The cases of the switch over the result of load_keys(). *)
FatalErrors == File!Errors

KeyFileRejected ==
  /\ stage = "load"
  /\ status \in FatalErrors
  /\ Exit("EXIT_FAILURE")
  /\ UNCHANGED <<vars, file_vars, main_vars>>

KeysLoaded ==
  /\ stage = "load"
  /\ status \notin FatalErrors \union {"reading", "undefined"}
  /\ aes' = IF status = "E_OK" THEN "given" ELSE aes
  /\ Continue("support")
  /\ UNCHANGED <<vars, file_vars, output, cleaned, out>>

(* rdrand_testSupport() *)
TestSupport ==
  /\ stage = "support"
  /\ \/ Continue("generate")
     \/ Exit("EXIT_FAILURE")
  /\ UNCHANGED <<vars, file_vars, main_vars>>

CleansKeys == "aes-ctr" \in flags

(* generate() returns; main() does not compare what it returns with the    *)
(* amount, nor does it look at fclose().                                   *)
GenerateAndCleanUp ==
  /\ stage = "generate"
  /\ \/ bytes # 0 /\ out' = "all"
     \/ out' \in {"nothing", "part"}
  /\ output' = "closed"
  /\ cleaned' = CleansKeys
  /\ Exit("EXIT_SUCCESS")
  /\ UNCHANGED <<vars, file_vars, aes>>

ProgramNext ==
  \/ ParseOptions \/ CommandLineRejected \/ HelpOrVersion \/ CommandLineAccepted
  \/ OpenOutput
  \/ NoAes \/ SetRandomKey \/ OpenKeyFile
  \/ LoadKeys \/ KeyFileRejected \/ KeysLoaded
  \/ TestSupport
  \/ GenerateAndCleanUp

ProgramSpec == ProgramInit /\ [][ProgramNext]_program_vars

-----------------------------------------------------------------------------

(* The types of main()'s variables, of the configuration and of the key    *)
(* file; no step without a meaning in C is reached, except by a file of    *)
(* more than MAX_KEYS keys or with a line longer than the buffer.          *)
ProgramTypeOK ==
  /\ TypeOK
  /\ File!TypeOK
  /\ stage \in Stages
  /\ output \in {"stdout", "closed", "truncated"}
  /\ aes \in {"none", "given", "random", "unset"}
  /\ cleaned \in BOOLEAN
  /\ out \in {"nothing", "part", "all"}
  /\ exit \in {"running", "EXIT_SUCCESS", "EXIT_FAILURE"}
  /\ status = "undefined" =>
       Len(keys) > MAX_KEYS \/ File!PastBuffer(lines[Len(lines)])

(* When generate() starts on keys of a file, they are the keys of the      *)
(* file, but for a last line that no newline ends: every other non-empty   *)
(* line, once and in order, all digits of its key and nonce converted, all *)
(* of the same length, and not more than fit.                              *)
KeysAreTheFile ==
  aes = "given" =>
    /\ status = "E_OK"
    /\ installed # << >> /\ Len(installed) <= MAX_KEYS
    /\ File!KeysAreTheLines

(* generate() runs with the protection that was asked for: with -k on the  *)
(* keys of the file, with -a alone on drawn keys (or on none, when the     *)
(* draw failed, which main() does not look at), without -a on no keys.     *)
(* Options come in any order and the file may fail at any line.            *)
GeneratesAsAsked ==
  (stage = "generate" \/ out # "nothing") =>
    aes \in IF "aes-keys" \in flags THEN {"given"}
           ELSE IF "aes-ctr" \in flags THEN {"random", "unset"}
           ELSE {"none"}
=============================================================================
