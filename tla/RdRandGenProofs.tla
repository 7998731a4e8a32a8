--------------------------- MODULE RdRandGenProofs ---------------------------
(***************************************************************************)
(* What holds of a run of rdrand-gen, for every command line and every key *)
(* file: of the configuration, of the keys that generate() starts on, and  *)
(* of what is left when main() returns.                                    *)
(***************************************************************************)
EXTENDS RdRandGen, ParseArgsProofs

(* main() does to the configuration what parse_args() does and nothing     *)
(* else, so that what is proved of parse_args() holds of the program.      *)
THEOREM ProgramParses == ProgramSpec => Spec
<1>1. ProgramInit => Init
  BY DEF ProgramInit
<1>2. [ProgramNext]_program_vars => [Next]_vars
  BY DEF ProgramNext, program_vars, ParseOptions, CommandLineRejected, HelpOrVersion,
         CommandLineAccepted, OpenOutput, NoAes, SetRandomKey, OpenKeyFile, LoadKeys,
         KeyFileRejected, KeysLoaded, TestSupport, GenerateAndCleanUp
<1> QED
  BY <1>1, <1>2, PTL DEF ProgramSpec, Spec

-----------------------------------------------------------------------------
(* The key file.                                                           *)

(* A key as load_key_line() left it: it has the length of the first one,   *)
(* its line three digits for each of its bytes, and hexToByte() set all of *)
(* key and nonce if the nonce is a whole number of bytes.                  *)
KeyShape(k) ==
  /\ k.line \in DOMAIN lines
  /\ k.bytes = first_len
  /\ lines[k.line].digits = 3 * first_len
  /\ first_len = 2 * (first_len \div 2) => k.whole

(* What load_keys() has read, line by line, are the keys of the file so    *)
(* far.                                                                    *)
ReadInv ==
  /\ Len(keys) <= MAX_KEYS
  /\ {keys[i].line : i \in DOMAIN keys} = File!TerminatedKeyLines
  /\ \A i, j \in DOMAIN keys : i < j => keys[i].line < keys[j].line
  /\ \A i \in DOMAIN keys : KeyShape(keys[i])
  /\ first_len = 0 => keys = << >>

(* Nothing is installed before the end of the file; what is installed then *)
(* has passed the checks of rdrand_set_aes_keys(), of which the power of   *)
(* two is what makes the nonces whole.                                     *)
InstalledInv ==
  /\ status \in {"closed", "reading"} => installed = << >>
  /\ status = "E_OK" => installed = keys /\ keys # << >>
                        /\ first_len = 2 * (first_len \div 2)
  /\ status = "undefined" =>
       Len(keys) > MAX_KEYS \/ File!PastBuffer(lines[Len(lines)])

FileInv ==
  /\ File!TypeOK
  /\ status \in {"closed", "reading", "E_OK"} => ReadInv
  /\ InstalledInv

(* A power of two that is more than one is even. *)
LEMMA PowerIsEven ==
  ASSUME NEW x \in Nat, x > 1, File!IsPowerOfTwo(x)
  PROVE  x = 2 * (x \div 2)
<1>1. x \in 2..x /\ x % x = 0
  OBVIOUS
<1>2. x % 2 = 0
  BY <1>1 DEF File!IsPowerOfTwo
<1> QED
  BY <1>2

(* What a line that load_key_line() accepts looks like: a third of its     *)
(* digits is the nonce, and the key has as many bytes as the nonce digits. *)
LEMMA LineShape ==
  ASSUME NEW line \in File!Lines
  PROVE  /\ File!LineResult(line) = "E_OK" =>
              line.ends = "newline" /\ line.digits = 3 * File!KeyLen(line)
         /\ File!LineResult(line) = "E_EOF" => line.ends = "eof"
         /\ File!KeyLen(line) \in Nat
         /\ File!KeyLen(line) = line.digits \div 3
         /\ line.digits \in Nat
<1>1. line.digits \in Nat /\ line.ends \in {"newline", "eof", "character"}
  BY KeyFileAssumption DEF File!Lines
<1>2. File!KeyLen(line) = line.digits \div 3 /\ line.digits \div 3 \in Nat
  BY <1>1 DEF File!KeyLen, File!KeyDigits
<1>3. File!Splits(line) => line.digits = 3 * (line.digits \div 3)
  BY <1>1 DEF File!Splits, File!KeyDigits, File!NonceDigits
<1>4. File!LineResult(line) = "E_OK" => line.ends = "newline" /\ File!Splits(line)
  BY <1>1 DEF File!LineResult
<1>5. File!LineResult(line) = "E_EOF" => line.ends = "eof"
  BY <1>1 DEF File!LineResult
<1> QED
  BY <1>1, <1>2, <1>3, <1>4, <1>5

(* Reading one more line. *)
LEMMA ReadLine ==
  ASSUME File!TypeOK, NEW line \in File!Lines, File!Read(line)
  PROVE  /\ lines' \in Seq(File!Lines)
         /\ DOMAIN lines' = DOMAIN lines \union {Len(lines) + 1}
         /\ Len(lines) + 1 \notin DOMAIN lines
         /\ Len(lines) \in Nat /\ DOMAIN lines = 1..Len(lines)
         /\ Len(lines') = Len(lines) + 1
         /\ \A i \in DOMAIN lines : lines'[i] = lines[i]
         /\ lines'[Len(lines) + 1] = line
         /\ status = "reading"
<1>1. lines \in Seq(File!Lines) /\ lines' = Append(lines, line)
  BY DEF File!TypeOK, File!Read
<1> QED
  BY <1>1 DEF File!Read

(* A line that holds no key, or is not terminated, adds none. *)
LEMMA NoKeyLine ==
  ASSUME File!TypeOK, NEW line \in File!Lines, File!Read(line),
         line.digits = 0 \/ line.ends = "eof"
  PROVE  File!TerminatedKeyLines' = File!TerminatedKeyLines
BY ReadLine DEF File!KeyLines, File!TerminatedKeyLines

LEMMA SkipKeeps ==
  ASSUME FileInv, NEW line \in File!Lines, File!SkipEmptyLine(line)
  PROVE  FileInv'
<1>1. /\ File!Read(line) /\ File!TypeOK
      /\ UNCHANGED <<status, first_len, keys, installed>>
      /\ line.digits = 0
  BY LineShape DEF File!SkipEmptyLine, FileInv
<1>2. File!TerminatedKeyLines' = File!TerminatedKeyLines
  BY <1>1, NoKeyLine
<1>3. File!TypeOK'
  BY <1>1, ReadLine DEF File!TypeOK
<1>4. ReadInv'
  <2>1. ReadInv
    BY <1>1, ReadLine DEF FileInv
  <2>2. \A i \in DOMAIN keys : KeyShape(keys[i])'
    BY <1>1, <2>1, ReadLine DEF ReadInv, KeyShape
  <2> QED
    BY <1>1, <1>2, <2>1, <2>2 DEF ReadInv
<1>5. InstalledInv'
  BY <1>1, ReadLine DEF InstalledInv, FileInv
<1> QED
  BY <1>3, <1>4, <1>5 DEF FileInv

LEMMA AddKeyKeeps ==
  ASSUME FileInv, NEW line \in File!Lines, File!AddKey(line)
  PROVE  FileInv'
<1>1. /\ File!Read(line) /\ File!TypeOK /\ ReadInv /\ status = "reading"
      /\ File!Usable(line)
      /\ first_len' = File!KeyLen(line)
      /\ keys' = Append(keys, File!Key(line))
      /\ status' = IF Len(keys) < MAX_KEYS THEN status ELSE "undefined"
      /\ installed' = installed /\ installed = << >>
  BY DEF File!AddKey, File!Read, FileInv, InstalledInv
<1>2. /\ line.ends = "newline" /\ line.digits = 3 * File!KeyLen(line)
      /\ File!KeyLen(line) \in Nat /\ File!KeyLen(line) # 0
      /\ File!KeyLen(line) = line.digits \div 3 /\ line.digits \in Nat
  BY LineShape DEF File!AddKey
<1> DEFINE key == File!Key(line)
           n   == Len(keys) + 1
           m   == Len(lines) + 1
<1>3. /\ key.line = m /\ key.bytes = File!KeyLen(line)
      /\ File!KeyLen(line) = 2 * (File!KeyLen(line) \div 2) => key.whole
      /\ key \in [line : Nat, bytes : 0..RDRAND_MAX_KEY_LENGTH, whole : BOOLEAN]
  <2>1. key.line = m /\ key.bytes = File!KeyLen(line)
    BY DEF File!Key
  <2>2. key.whole = (/\ File!HexToByte(File!KeyDigits(line), File!KeyDigits(line) \div 2)
                     /\ File!HexToByte(File!NonceDigits(line), File!NonceDigits(line) \div 2))
    BY DEF File!Key
  <2>3. File!KeyDigits(line) = 2 * File!KeyLen(line)
        /\ File!NonceDigits(line) = File!KeyLen(line)
    BY <1>2 DEF File!KeyDigits, File!NonceDigits
  <2>4. File!KeyLen(line) = 2 * (File!KeyLen(line) \div 2) => key.whole
    BY <1>2, <2>2, <2>3 DEF File!HexToByte
  <2>5. key.bytes \in 0..RDRAND_MAX_KEY_LENGTH
    BY <1>1, <1>2, <2>1, KeyFileAssumption DEF File!Usable
  <2>6. m \in Nat
    BY <1>1, ReadLine
  <2>7. key.whole \in BOOLEAN
    BY <2>2
  <2>8. key = [line |-> key.line, bytes |-> key.bytes, whole |-> key.whole]
    BY DEF File!Key
  <2> QED
    BY <2>1, <2>4, <2>5, <2>6, <2>7, <2>8
<1> HIDE DEF key
<1>4. keys \in Seq([line : Nat, bytes : 0..RDRAND_MAX_KEY_LENGTH, whole : BOOLEAN])
  BY <1>1 DEF File!TypeOK
<1>5. /\ DOMAIN keys' = DOMAIN keys \union {n}
      /\ DOMAIN keys = 1..Len(keys) /\ Len(keys) \in Nat
      /\ Len(keys') = n
      /\ \A i \in DOMAIN keys : keys'[i] = keys[i]
      /\ keys'[n] = key
      /\ keys' \in Seq([line : Nat, bytes : 0..RDRAND_MAX_KEY_LENGTH, whole : BOOLEAN])
  BY <1>1, <1>3, <1>4 DEF key
<1>6. first_len' \in 0..RDRAND_MAX_KEY_LENGTH
  BY <1>1, <1>2, KeyFileAssumption DEF File!Usable
<1>7. \A i \in DOMAIN keys : keys[i].line \in DOMAIN lines
  BY <1>1 DEF File!TypeOK
<1>8. File!TypeOK'
  <2>1. \A i \in DOMAIN keys' : keys'[i].line \in DOMAIN lines'
    BY <1>1, <1>3, <1>5, <1>7, ReadLine
  <2>2. lines' \in Seq(File!Lines)
    BY <1>1, ReadLine
  <2> QED
    BY <1>1, <1>5, <1>6, <2>1, <2>2 DEF File!TypeOK
<1>9. first_len # 0 => first_len' = first_len
  BY <1>1 DEF File!Usable, File!SameLength
<1>10. ASSUME Len(keys) < MAX_KEYS PROVE ReadInv'
  <2>1. Len(keys') <= MAX_KEYS
    BY <1>5, <1>10, KeyFileAssumption
  <2>2. File!TerminatedKeyLines' = File!TerminatedKeyLines \union {m}
    <3>1. line.digits # 0 /\ line.ends = "newline"
      BY <1>2
    <3>2. /\ DOMAIN lines' = DOMAIN lines \union {m}
          /\ \A i \in DOMAIN lines : lines'[i] = lines[i]
          /\ lines'[m] = line
      BY <1>1, ReadLine
    <3> HIDE DEF m
    <3> QED
      BY <3>1, <3>2 DEF File!KeyLines, File!TerminatedKeyLines
  <2>3. {keys'[i].line : i \in DOMAIN keys'} = {keys[i].line : i \in DOMAIN keys} \union {m}
    BY <1>3, <1>5
  <2>4. \A i, j \in DOMAIN keys' : i < j => keys'[i].line < keys'[j].line
    <3>1. \A i \in DOMAIN keys : keys[i].line < m
      BY <1>1, <1>7, ReadLine
    <3>2. \A i, j \in DOMAIN keys : i < j => keys[i].line < keys[j].line
      BY <1>1 DEF ReadInv
    <3> QED
      BY <1>3, <1>5, <3>1, <3>2
  <2>5. \A i \in DOMAIN keys' : KeyShape(keys[i])'
    <3>1. ASSUME NEW i \in DOMAIN keys PROVE KeyShape(keys[i])'
      <4>1. KeyShape(keys[i]) /\ keys'[i] = keys[i]
        BY <1>1, <1>5 DEF ReadInv
      <4>2. first_len' = first_len
        BY <1>1, <1>9 DEF ReadInv
      <4> QED
        BY <1>1, <4>1, <4>2, ReadLine DEF KeyShape
    <3>2. ASSUME NEW i \in DOMAIN keys', i = n PROVE KeyShape(keys[i])'
      <4>1. m \in DOMAIN lines' /\ lines'[m] = line
        BY <1>1, ReadLine
      <4> QED
        BY <1>1, <1>2, <1>3, <1>5, <3>2, <4>1 DEF KeyShape
    <3> QED
      BY <1>5, <3>1, <3>2
  <2> QED
    BY <1>1, <1>2, <2>1, <2>2, <2>3, <2>4, <2>5 DEF ReadInv
<1>11. InstalledInv'
  BY <1>1, <1>5, KeyFileAssumption DEF InstalledInv
<1> QED
  BY <1>1, <1>8, <1>10, <1>11 DEF FileInv

LEMMA RejectKeeps ==
  ASSUME FileInv, NEW line \in File!Lines, File!RejectKey(line) \/ File!RejectLine(line)
  PROVE  FileInv'
<1>1. /\ File!Read(line) /\ File!TypeOK
      /\ UNCHANGED <<first_len, keys, installed>>
      /\ status' \in File!Errors \/ (status' = "undefined" /\ File!PastBuffer(line))
  BY DEF File!RejectKey, File!RejectLine, File!Errors, FileInv
<1>2. File!TypeOK'
  BY <1>1, ReadLine DEF File!TypeOK
<1>3. status' = "undefined" => File!PastBuffer(lines[Len(lines)])'
  BY <1>1, ReadLine DEF File!Errors, File!PastBuffer
<1> QED
  BY <1>1, <1>2, <1>3 DEF FileInv, InstalledInv, File!Errors

LEMMA FinishKeeps ==
  ASSUME FileInv, NEW line \in File!Lines, File!Finish(line)
  PROVE  FileInv'
<1>1. /\ File!Read(line) /\ File!TypeOK /\ ReadInv
      /\ UNCHANGED <<first_len, keys>>
      /\ line.ends = "eof"
  BY LineShape DEF File!Finish, File!Read, FileInv
<1>2. \/ /\ status' = "E_OK" /\ installed' = keys /\ keys # << >>
         /\ File!LengthAllowed(first_len) /\ File!Allocates(Len(keys), first_len)
      \/ status' = "E_KEY_NONCE_BAD_LENGTH" /\ installed' = installed
  BY DEF File!Finish
<1>3. File!TypeOK'
  BY <1>1, <1>2, ReadLine DEF File!TypeOK, File!Errors
<1>4. File!TerminatedKeyLines' = File!TerminatedKeyLines
  BY <1>1, NoKeyLine
<1>5. ReadInv'
  <2>1. \A i \in DOMAIN keys : KeyShape(keys[i])'
    BY <1>1, ReadLine DEF ReadInv, KeyShape
  <2> QED
    BY <1>1, <1>4, <2>1 DEF ReadInv
<1>6. status' = "E_OK" => first_len = 2 * (first_len \div 2)
  <2> SUFFICES ASSUME status' = "E_OK" PROVE first_len = 2 * (first_len \div 2)
    OBVIOUS
  <2>1. first_len \in Nat
    BY <1>1, KeyFileAssumption DEF File!TypeOK
  <2>2. first_len > 1 /\ File!IsPowerOfTwo(first_len)
    BY <1>2, <2>1, KeyFileAssumption DEF File!LengthAllowed, File!Allocates
  <2> QED
    BY <2>1, <2>2, PowerIsEven
<1>7. InstalledInv'
  BY <1>1, <1>2, <1>6 DEF InstalledInv
<1> QED
  BY <1>3, <1>5, <1>7 DEF FileInv

(* load_keys(), from opening the file to what it returns. *)
LEMMA FileKeeps ==
  ASSUME FileInv, File!Next
  PROVE  FileInv'
<1>1. CASE File!Open
  <2>1. /\ status = "closed" /\ status' = "reading"
        /\ UNCHANGED <<first_len, keys, installed, lines>>
    BY <1>1 DEF File!Open
  <2> QED
    BY <2>1 DEF FileInv, File!TypeOK, ReadInv, KeyShape, InstalledInv,
           File!KeyLines, File!TerminatedKeyLines
<1>2. ASSUME NEW line \in File!NextLines,
             \/ File!SkipEmptyLine(line) \/ File!AddKey(line) \/ File!RejectKey(line)
             \/ File!RejectLine(line) \/ File!Finish(line)
      PROVE  FileInv'
  <2>1. line \in File!Lines
    BY DEF File!NextLines
  <2> QED
    BY <1>2, <2>1, SkipKeeps, AddKeyKeeps, RejectKeeps, FinishKeeps
<1> QED
  BY <1>1, <1>2 DEF File!Next

LEMMA FileStart ==
  ASSUME File!Init
  PROVE  FileInv
<1>1. /\ status = "closed" /\ first_len = 0 /\ keys = << >> /\ installed = << >>
      /\ lines = << >>
  BY DEF File!Init
<1>2. DOMAIN keys = {} /\ DOMAIN lines = {} /\ Len(keys) = 0
  BY <1>1
<1>3. File!TypeOK
  BY <1>1, <1>2, KeyFileAssumption DEF File!TypeOK
<1>4. File!TerminatedKeyLines = {}
  BY <1>2 DEF File!KeyLines, File!TerminatedKeyLines
<1>5. ReadInv
  BY <1>1, <1>2, <1>4, KeyFileAssumption DEF ReadInv
<1>6. InstalledInv
  BY <1>1 DEF InstalledInv
<1> QED
  BY <1>3, <1>5, <1>6 DEF FileInv

-----------------------------------------------------------------------------
(* The program.                                                            *)

Asked == IF "aes-keys" \in flags THEN {"given"}
         ELSE IF "aes-ctr" \in flags THEN {"random", "unset"}
         ELSE {"none"}

(* What main() knows at each stage: the options are final and -k comes     *)
(* with -a once they are parsed; nothing is read, set or delivered before  *)
(* its stage; the key file is open only where keys of a file were asked    *)
(* for; and generate() is reached with the keys that were asked for.       *)
OptionsInv ==
  /\ pc = "accepted" => ("aes-keys" \in flags => "aes-ctr" \in flags)
  /\ stage \in {"output", "keys", "load", "support", "generate"} => pc = "accepted"

StageInv ==
  /\ stage \in {"parse", "output", "keys"} => status = "closed"
  /\ stage \in {"parse", "output", "keys", "load"} => aes = "none"
  /\ stage # "exit" => out = "nothing"
  /\ stage = "load" => status # "closed"
  /\ status # "closed" => {"aes-ctr", "aes-keys"} \subseteq flags
  /\ stage \in {"support", "generate"} => aes \in Asked
  /\ out # "nothing" => aes \in Asked
  /\ aes = "given" => status = "E_OK"

MainTypes ==
  /\ stage \in Stages
  /\ output \in {"stdout", "closed", "truncated"}
  /\ aes \in {"none", "given", "random", "unset"}
  /\ cleaned \in BOOLEAN
  /\ out \in {"nothing", "part", "all"}
  /\ exit \in {"running", "EXIT_SUCCESS", "EXIT_FAILURE"}

ProgramInv == MainTypes /\ FileInv /\ OptionsInv /\ StageInv

(* Only load_keys() changes what it read. *)
LEMMA FileUntouched ==
  ASSUME FileInv, UNCHANGED file_vars
  PROVE  FileInv'
BY DEF FileInv, File!TypeOK, ReadInv, KeyShape, InstalledInv,
           File!KeyLines, File!TerminatedKeyLines,
       File!PastBuffer, file_vars

LEMMA ParsingKeeps ==
  ASSUME ProgramInv, ParseOptions
  PROVE  ProgramInv'
<1>1. /\ stage = "parse" /\ Next
      /\ UNCHANGED <<stage, file_vars, main_vars, exit>>
  BY DEF ParseOptions
<1>2. FileInv'
  BY <1>1, FileUntouched DEF ProgramInv
<1>3. MainTypes'
  BY <1>1 DEF ProgramInv, MainTypes, main_vars
<1>4. status = "closed" /\ aes = "none" /\ out = "nothing"
  BY <1>1 DEF ProgramInv, StageInv
<1>5. StageInv'
  BY <1>1, <1>4 DEF StageInv, file_vars, main_vars
<1>6. pc' = "accepted" => ("aes-keys" \in flags' => "aes-ctr" \in flags')
  BY <1>1 DEF Next, NextOption, FlagOption, AmountOption, AmountNotANumber, ThreadsOption,
              MethodOption, BadOption, KeyFileWithoutAes, Accept
<1>7. OptionsInv'
  BY <1>1, <1>6 DEF OptionsInv
<1> QED
  BY <1>2, <1>3, <1>5, <1>7 DEF ProgramInv

(* The steps of main() that leave the key file alone. *)
LEMMA MainKeeps ==
  ASSUME ProgramInv,
         \/ CommandLineRejected \/ HelpOrVersion \/ CommandLineAccepted \/ OpenOutput
         \/ NoAes \/ SetRandomKey \/ KeyFileRejected \/ KeysLoaded \/ TestSupport
         \/ GenerateAndCleanUp
  PROVE  ProgramInv'
<1>1. UNCHANGED <<vars, file_vars>>
  BY DEF CommandLineRejected, HelpOrVersion, CommandLineAccepted, OpenOutput, NoAes,
         SetRandomKey, KeyFileRejected, KeysLoaded, TestSupport, GenerateAndCleanUp
<1>2. FileInv'
  BY <1>1, FileUntouched DEF ProgramInv
<1>3. UNCHANGED <<pc, flags, bytes, status, installed>>
  BY <1>1 DEF vars, file_vars
<1>4. CASE CommandLineRejected \/ HelpOrVersion \/ CommandLineAccepted
  <2>1. /\ stage = "parse" /\ UNCHANGED <<output, aes, cleaned, out>>
        /\ \/ stage' = "exit" /\ exit' \in {"EXIT_FAILURE", "EXIT_SUCCESS"}
           \/ stage' = "output" /\ exit' = exit /\ pc = "accepted"
    BY <1>4 DEF CommandLineRejected, HelpOrVersion, CommandLineAccepted, Exit, Continue,
                main_vars
  <2>2. MainTypes'
    BY <2>1 DEF ProgramInv, MainTypes, Stages
  <2>3. OptionsInv'
    BY <1>3, <2>1 DEF ProgramInv, OptionsInv
  <2>4. StageInv'
    BY <1>3, <2>1 DEF ProgramInv, StageInv
  <2> QED
    BY <1>2, <2>2, <2>3, <2>4 DEF ProgramInv
<1>5. CASE OpenOutput
  <2>1. /\ stage = "output" /\ UNCHANGED <<aes, cleaned, out>>
        /\ output' \in {output, "truncated", "closed"}
        /\ \/ stage' = "exit" /\ exit' = "EXIT_FAILURE"
           \/ stage' = "keys" /\ exit' = exit
    BY <1>5 DEF OpenOutput, Exit, Continue
  <2>2. MainTypes'
    BY <2>1 DEF ProgramInv, MainTypes, Stages
  <2>3. OptionsInv'
    BY <1>3, <2>1 DEF ProgramInv, OptionsInv
  <2>4. StageInv'
    BY <1>3, <2>1 DEF ProgramInv, StageInv
  <2> QED
    BY <1>2, <2>2, <2>3, <2>4 DEF ProgramInv
<1>6. CASE NoAes \/ SetRandomKey \/ KeysLoaded
  <2>1. /\ stage \in {"keys", "load"} /\ stage' = "support" /\ exit' = exit
        /\ UNCHANGED <<output, cleaned, out>>
    BY <1>6 DEF NoAes, SetRandomKey, KeysLoaded, Continue, main_vars
  <2>2. aes' \in Asked /\ (aes' = "given" => status = "E_OK")
    <3>1. OptionsInv /\ StageInv /\ File!TypeOK
      BY DEF ProgramInv, FileInv
    <3>2. pc = "accepted"
      BY <2>1, <3>1 DEF OptionsInv
    <3>3. CASE NoAes
      BY <3>1, <3>2, <3>3 DEF NoAes, Asked, main_vars, OptionsInv, StageInv
    <3>4. CASE SetRandomKey
      BY <3>4 DEF SetRandomKey, Asked
    <3>5. CASE KeysLoaded
      <4>1. stage = "load" /\ status = "E_OK"
        BY <3>1, <3>5 DEF KeysLoaded, StageInv, File!TypeOK, FatalErrors
      <4> QED
        BY <3>1, <3>5, <4>1 DEF KeysLoaded, StageInv, Asked
    <3> QED
      BY <1>6, <3>3, <3>4, <3>5
  <2>3. MainTypes'
    BY <2>1, <2>2 DEF ProgramInv, MainTypes, Stages, Asked
  <2>4. OptionsInv'
    BY <1>3, <2>1 DEF ProgramInv, OptionsInv
  <2>5. aes' \in Asked'
    BY <1>3, <2>2 DEF Asked
  <2>6. StageInv'
    BY <1>3, <2>1, <2>2, <2>5 DEF ProgramInv, StageInv
  <2> QED
    BY <1>2, <2>3, <2>4, <2>6 DEF ProgramInv
<1>7. CASE KeyFileRejected \/ TestSupport
  <2>1. /\ stage \in {"load", "support"} /\ UNCHANGED <<output, aes, cleaned, out>>
        /\ \/ stage' = "exit" /\ exit' = "EXIT_FAILURE"
           \/ stage = "support" /\ stage' = "generate" /\ exit' = exit
    BY <1>7 DEF KeyFileRejected, TestSupport, Exit, Continue, main_vars
  <2>2. MainTypes'
    BY <2>1 DEF ProgramInv, MainTypes, Stages
  <2>3. OptionsInv'
    BY <1>3, <2>1 DEF ProgramInv, OptionsInv
  <2>4. StageInv'
    BY <1>3, <2>1 DEF ProgramInv, StageInv, Asked
  <2> QED
    BY <1>2, <2>2, <2>3, <2>4 DEF ProgramInv
<1>8. CASE GenerateAndCleanUp
  <2>1. /\ stage = "generate" /\ stage' = "exit" /\ exit' = "EXIT_SUCCESS"
        /\ out' \in {"nothing", "part", "all"} /\ output' = "closed" /\ aes' = aes
        /\ cleaned' = ("aes-ctr" \in flags)
    BY <1>8 DEF GenerateAndCleanUp, Exit, CleansKeys
  <2>2. MainTypes'
    BY <2>1 DEF ProgramInv, MainTypes, Stages
  <2>3. OptionsInv'
    BY <1>3, <2>1 DEF ProgramInv, OptionsInv
  <2>4. StageInv'
    BY <1>3, <2>1 DEF ProgramInv, StageInv, Asked
  <2> QED
    BY <1>2, <2>2, <2>3, <2>4 DEF ProgramInv
<1> QED
  BY <1>4, <1>5, <1>6, <1>7, <1>8

(* The steps that read the key file. *)
LEMMA LoadingKeeps ==
  ASSUME ProgramInv, OpenKeyFile \/ LoadKeys
  PROVE  ProgramInv'
<1>1. UNCHANGED <<pc, flags, output, aes, cleaned, out>>
  BY DEF OpenKeyFile, LoadKeys, vars, main_vars
<1>2. FileInv'
  <2>1. CASE File!Next
    BY <2>1, FileKeeps DEF ProgramInv
  <2>2. CASE UNCHANGED file_vars
    BY <2>2, FileUntouched DEF ProgramInv
  <2>3. File!Open => File!Next
    BY DEF File!Next
  <2> QED
    BY <2>1, <2>2, <2>3 DEF OpenKeyFile, LoadKeys
<1>3. /\ stage \in {"keys", "load"}
      /\ \/ stage' = "load" /\ exit' = exit
         \/ stage = "keys" /\ stage' = "exit" /\ exit' = "EXIT_FAILURE" /\ status' = status
  BY DEF OpenKeyFile, LoadKeys, Exit, Continue, file_vars
<1>4. {"aes-ctr", "aes-keys"} \subseteq flags
  BY DEF OpenKeyFile, LoadKeys, ProgramInv, StageInv
<1>5. stage' = "load" => status' # "closed"
  <2>1. CASE OpenKeyFile
    BY <2>1 DEF OpenKeyFile, File!Open, Exit
  <2>2. CASE LoadKeys
    <3>1. status # "closed" /\ File!Next
      BY <2>2 DEF LoadKeys, ProgramInv, StageInv
    <3>2. PICK line \in File!NextLines :
            \/ File!SkipEmptyLine(line) \/ File!AddKey(line) \/ File!RejectKey(line)
            \/ File!RejectLine(line) \/ File!Finish(line)
      BY <3>1 DEF File!Next, File!Open
    <3> QED
      BY <3>1, <3>2 DEF File!SkipEmptyLine, File!AddKey, File!RejectKey, File!RejectLine,
                        File!Finish, File!Read, File!Errors
  <2> QED
    BY <2>1, <2>2
<1>6. MainTypes'
  BY <1>1, <1>3 DEF ProgramInv, MainTypes, Stages
<1>7. OptionsInv'
  BY <1>1, <1>3 DEF ProgramInv, OptionsInv
<1>8. StageInv'
  BY <1>1, <1>3, <1>4, <1>5 DEF ProgramInv, StageInv
<1> QED
  BY <1>2, <1>6, <1>7, <1>8 DEF ProgramInv

LEMMA ProgramInvariant == ProgramSpec => []ProgramInv
<1>1. ProgramInit => ProgramInv
  <2> SUFFICES ASSUME ProgramInit PROVE ProgramInv
    OBVIOUS
  <2>1. FileInv
    BY FileStart DEF ProgramInit
  <2>2. MainTypes
    BY DEF ProgramInit, MainTypes, Stages
  <2>3. OptionsInv
    BY DEF ProgramInit, Init, OptionsInv
  <2>4. StageInv
    BY DEF ProgramInit, File!Init, StageInv
  <2> QED
    BY <2>1, <2>2, <2>3, <2>4 DEF ProgramInv
<1>2. ProgramInv /\ [ProgramNext]_program_vars => ProgramInv'
  <2>1. ASSUME ProgramInv, UNCHANGED program_vars
        PROVE  ProgramInv'
    <3>1. FileInv'
      BY <2>1, FileUntouched DEF ProgramInv, program_vars
    <3>2. MainTypes' /\ OptionsInv' /\ StageInv'
      BY <2>1 DEF ProgramInv, program_vars, vars, file_vars, main_vars,
                  MainTypes, OptionsInv, StageInv, Asked
    <3> QED
      BY <3>1, <3>2 DEF ProgramInv
  <2> QED
    BY <2>1, ParsingKeeps, MainKeeps, LoadingKeeps DEF ProgramNext
<1> QED
  BY <1>1, <1>2, PTL DEF ProgramSpec

(* The variables of main(), the configuration and the key file keep their  *)
(* types, and no step without a meaning in C is reached, except by a file  *)
(* of more than MAX_KEYS keys or with a line longer than the buffer.       *)
THEOREM ProgramTyped == ProgramSpec => []ProgramTypeOK
<1>1. ProgramInv /\ TypeOK => ProgramTypeOK
  BY DEF ProgramInv, MainTypes, FileInv, InstalledInv, ProgramTypeOK
<1> QED
  BY <1>1, ProgramInvariant, ProgramParses, ConfigurationTyped, PTL

(* load_keys(): keys that are in use are the keys of the file, every       *)
(* terminated line once and in order, completely converted.  That a nonce  *)
(* is a whole number of bytes is checked nowhere: it holds because the     *)
(* length of a key that is accepted is a power of two.                     *)
THEOREM KeysOfTheFile == ProgramSpec => []KeysAreTheFile
<1>1. ProgramInv => KeysAreTheFile
  <2> SUFFICES ASSUME ProgramInv, aes = "given" PROVE KeysAreTheFile
    BY DEF KeysAreTheFile
  <2>1. /\ status = "E_OK" /\ installed = keys /\ keys # << >> /\ ReadInv
        /\ first_len = 2 * (first_len \div 2) /\ File!TypeOK
    BY DEF ProgramInv, StageInv, FileInv, InstalledInv
  <2>2. keys \in Seq([line : Nat, bytes : 0..RDRAND_MAX_KEY_LENGTH, whole : BOOLEAN])
        /\ first_len \in Nat
    BY <2>1, KeyFileAssumption DEF File!TypeOK
  <2>3. \A i \in DOMAIN keys : KeyShape(keys[i])
    BY <2>1 DEF ReadInv
  <2>4. 1 \in DOMAIN keys
    BY <2>1, <2>2
  <2>5. 6 * (first_len \div 2) = 3 * first_len
    BY <2>1, <2>2
  <2>6. ASSUME NEW i \in DOMAIN installed
        PROVE  /\ installed[i].whole
               /\ installed[i].bytes = installed[1].bytes
               /\ 6 * (installed[i].bytes \div 2) = lines[installed[i].line].digits
    BY <2>1, <2>3, <2>4, <2>5 DEF KeyShape
  <2>7. File!KeysAreTheLines
    BY <2>1, <2>6 DEF File!KeysAreTheLines, ReadInv
  <2> QED
    BY <2>1, <2>7 DEF KeysAreTheFile, ReadInv
<1> QED
  BY <1>1, ProgramInvariant, PTL

(* generate() runs with the protection the command line asks for, or on no *)
(* keys when they could not be drawn.                                      *)
THEOREM RunsAsAsked == ProgramSpec => []GeneratesAsAsked
<1>1. ProgramInv => GeneratesAsAsked
  BY DEF ProgramInv, StageInv, Asked, GeneratesAsAsked
<1> QED
  BY <1>1, ProgramInvariant, PTL
=============================================================================
