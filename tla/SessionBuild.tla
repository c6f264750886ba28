---------------------------- MODULE SessionBuild ----------------------------
(***************************************************************************)
(* The main program of session_build: the configuration, from defaults, an *)
(* .ini file and the command line, the checks made on it, the connection to*)
(* the HSM, and how process_command finds the command of a script line.    *)
(* What a command then emits is in module ScpSession, and how long its     *)
(* payload is in module ScpPayload.                                        *)
(*                                                                         *)
(* A configuration line is the key it starts with, the keys whose name     *)
(* occurs elsewhere in it, and its value.  A script line is a sequence of  *)
(* words; a word is what it names, its length and the commands whose name  *)
(* occurs in it.                                                           *)
(***************************************************************************)
EXTENDS Integers, Sequences, FiniteSets, SequencesExt, ScpPayload

CONSTANTS
  LIBRARIES,      \* what the program may be built with: "ucl", "mxim_hsm", "safenet"
  IniLines,       \* the lines that session_build.ini may have
  Args,           \* the arguments of the command line
  ScriptLines,    \* the lines that the script may have
  MaxIni,         \* bound: lines of the .ini file
  MaxArgs,        \* bound: arguments
  MaxLines,       \* bound: lines of the script
  GARBAGE         \* bound: values of an integer that is not initialised

ASSUME BuildAssumption ==
  /\ LIBRARIES \subseteq {"ucl", "mxim_hsm", "safenet"}
  /\ MaxIni \in Nat /\ MaxArgs \in Nat /\ MaxLines \in Nat
  /\ GARBAGE \subseteq Int

VARIABLES
  library,        \* what this program is built with
  pc,             \* the next step of main
  config,         \* config_struct and the other settings, by key
  ini,            \* number of lines read from the .ini file
  args,           \* the arguments processed so far
  key_read,       \* the file the signing key was read from, or "none"
  hsm,            \* how far the connection to the HSM got
  loline,         \* command names that earlier lines may have left in loline, with their places
  lines,          \* lines of the script read so far
  ran,            \* for each line that was executed, the line, the command run, the
                  \* bytes of its last parameter, its payload and what was sent of it
  status          \* "running", or the exit status

vars == <<library, pc, config, ini, args, key_read, hsm, loline, lines, ran, status>>

-----------------------------------------------------------------------------
(* Configuration lines: process_arg tries every key on every line.         *)

StringKeys == {"session_mode", "pp", "script_file", "output_file", "rsa_file",
               "ecdsa_file", "verbose"}
IntKeys    == {"chunk_size", "flash_size_mb"}
HexKeys    == {"usn", "aes_key"}
Keys       == StringKeys \cup IntKeys \cup HexKeys

\* MAX_CHUNK_SIZE and MAX_FLASH_MB: the values from which a number is refused.
Limit   == [chunk_size |-> 15354, flash_size_mb |-> 1023]
ByteLen == [usn |-> {13, 16}, aes_key |-> {16}]

\* The modes in the order of the tests: each one that matches replaces the last.
ModeTests == <<"SCP_ON_AES", "SBL", "SCP_OFF_AES", "SCP_FLORA_AES", "SCP_RSA",
               "SCP_FLORA_RSA", "SCP_ANGELA_ECDSA", "MSP_MAXQ1852_ECDSA">>
Modes     == Range(ModeTests)

\* The protection profiles in the order of the tests: the first that matches.
PpTests == <<"E_CMAC", "CMAC", "E_RMAC", "RMAC", "RSA", "ECDSA">>

MutFirstWins(v, old) ==
  IF old # "SCP_RSA" \/ v.mentions = {} THEN old
  ELSE CHOOSE m \in Modes : m \in v.mentions

ModeNamed(v, old) ==
  LET found == {n \in DOMAIN ModeTests : ModeTests[n] \in v.mentions}
  IN  IF found = {} THEN old ELSE ModeTests[Max(found)]

PpNamed(v) ==
  LET found == {n \in DOMAIN PpTests : PpTests[n] \in v.mentions}
  IN  IF found = {} THEN "CLEAR" ELSE PpTests[Min(found)]

\* strstr anywhere for the keys with a string, a prefix for the others.
Named(l) == {k \in Keys : k = l.at \/ (k \in StringKeys /\ k \in l.within)}

MutNoLimit(l) ==
  \/ Named(l) = {}
  \/ l.at \in HexKeys /\ (l.value.digits % 2 # 0 \/ l.value.digits \div 2 \notin ByteLen[l.at])

Refused(l) ==
  \/ Named(l) = {}
  \/ l.at \in IntKeys /\ l.value.number >= Limit[l.at]
  \/ l.at \in HexKeys /\ (l.value.digits % 2 # 0 \/ l.value.digits \div 2 \notin ByteLen[l.at])

\* The value of k after the line; every key takes what follows the last "=".
Setting(k, v, old) ==
  CASE k = "session_mode" -> ModeNamed(v, old)
    [] k = "pp"           -> PpNamed(v)
    [] k \in IntKeys      -> v.number
    [] k \in HexKeys      -> v.digits \div 2
    [] OTHER              -> v.text

Exit(code) == pc' = "exited" /\ status' = code

process_arg(l) ==
  \/ /\ Refused(l)
     /\ Exit("failure")
     /\ UNCHANGED config
  \/ /\ ~Refused(l)
     /\ config' = [k \in Keys |-> IF k \in Named(l) THEN Setting(k, l.value, config[k])
                                                   ELSE config[k]]
     /\ UNCHANGED <<pc, status>>

\* load_default_config sets the bytes of usn but not usn_len.
load_default_config ==
  [session_mode |-> "SCP_RSA", pp |-> "RSA", script_file |-> "script.txt",
   output_file |-> "session.txt", rsa_file |-> "", ecdsa_file |-> "", verbose |-> "yes",
   chunk_size |-> 1024, flash_size_mb |-> 32, usn |-> 0, aes_key |-> 16]

\* A line is skipped when it starts with "#" or has only blanks; a newline is not one.
Skipped(l) == l.at = "#"

load_ini_config ==
  /\ pc = "ini"
  /\ ini < MaxIni
  /\ ini' = ini + 1
  /\ \E l \in IniLines :
       IF Skipped(l) THEN UNCHANGED <<pc, config, status>> ELSE process_arg(l)
  /\ UNCHANGED <<library, args, key_read, hsm, loline, lines, ran>>

load_config ==
  /\ pc = "ini"
  /\ pc' = "args"
  /\ UNCHANGED <<library, config, ini, args, key_read, hsm, loline, lines, ran, status>>

load_arg ==
  /\ pc = "args"
  /\ Len(args) < MaxArgs
  /\ \E l \in Args : process_arg(l) /\ args' = Append(args, l)
  /\ UNCHANGED <<library, ini, key_read, hsm, loline, lines, ran>>

-----------------------------------------------------------------------------
(* The checks that load_args makes on the configuration.                   *)

EcdsaModes == {"MSP_MAXQ1852_ECDSA", "SCP_ANGELA_ECDSA"}
RsaModes   == {"SCP_RSA", "SCP_FLORA_RSA"}

MutKeyOfDefault(mode) == IF library = "mxim_hsm" THEN "none" ELSE "rsa_file"

\* read_file_rsa and read_file_ecdsa: a file that is named may still be missing or short.
ReadsKey(key) == key # "none" => config[key] # ""

\* The setting that names the key file which the mode needs, or "none".
KeySetting(mode) ==
  CASE mode \in EcdsaModes /\ library = "ucl"      -> "ecdsa_file"
    [] mode \in RsaModes /\ library # "mxim_hsm"   -> "rsa_file"
    [] OTHER                                       -> "none"

UsnFits(mode, len) ==
  /\ mode \in {"SCP_FLORA_RSA", "SCP_FLORA_AES"} => len = 13
  /\ mode \in {"SCP_RSA", "SCP_ON_AES", "SCP_OFF_AES"} => len = 16

\* FLORA_, ANGELA_ and MAXQ1852_MAX_CHUNK_SIZE.  The variable that holds them is
\* not initialised for the other modes.
MaxChunkSizes(mode) ==
  CASE mode = "SCP_FLORA_RSA"      -> {4094}
    [] mode = "SCP_ANGELA_ECDSA"   -> {15354}
    [] mode = "MSP_MAXQ1852_ECDSA" -> {1856}
    [] OTHER                       -> GARBAGE

MutNotClamped(size, max) == size

Clamped(size, max) == IF size > max THEN max ELSE size

load_args ==
  LET key == KeySetting(config.session_mode)
  IN  /\ pc = "args"
      /\ \/ /\ key # "none" \/ ~UsnFits(config.session_mode, config.usn)
            /\ Exit("failure")
            /\ UNCHANGED <<config, key_read>>
         \/ /\ ReadsKey(key)
            /\ UsnFits(config.session_mode, config.usn)
            /\ \E max \in MaxChunkSizes(config.session_mode) :
                 config' = [config EXCEPT !.chunk_size = Clamped(@, max)]
            /\ key_read' = IF key = "none" THEN "none" ELSE config[key]
            /\ pc' = "open"
            /\ UNCHANGED status
      /\ UNCHANGED <<library, ini, args, hsm, loline, lines, ran>>

-----------------------------------------------------------------------------
(* The log file and the HSM.  Any PKCS#11 error exits with the session as  *)
(* far as it got.                                                          *)
open_log ==
  /\ pc = "open"
  /\ \/ pc' = (IF library = "ucl" THEN "script" ELSE "hsm") /\ UNCHANGED status
     \/ Exit("failure")
  /\ UNCHANGED <<library, config, ini, args, key_read, hsm, loline, lines, ran>>

mlsHsmOpenConnection ==
  /\ pc = "hsm"
  /\ \/ hsm' = "key" /\ pc' = "script" /\ UNCHANGED status
     \/ hsm' \in {"closed", "initialized", "opened", "logged_in"} /\ Exit("failure")
  /\ UNCHANGED <<library, config, ini, args, key_read, loline, lines, ran>>

\* The end of main, not reached where a failed signature exits.  An error of the
\* SafeNet library ends the program, the other HSM only has a warning printed.
mlsHsmCloseConnection(code) ==
  /\ pc' = "exited"
  /\ \/ hsm' = (IF library = "ucl" THEN hsm ELSE "closed") /\ status' = code
     \/ library = "mxim_hsm" /\ hsm' = "key" /\ status' = code
     \/ library = "safenet" /\ hsm' \in {"key", "initialized"} /\ status' = "failure"

-----------------------------------------------------------------------------
(* Script lines.  A word is [name, len, kind, hex]: the command whose name *)
(* it starts with or "none", its length, the kind of file it names,        *)
(* "target" where it starts with a target of write-timeout, or "text", and *)
(* whether its first character is a hexadecimal digit.                     *)

\* idf_scp_cmd in the order of the table; load-file stands for the MAXQ1852 commands.
CmdTable == <<"write-file", "verify-file", "write-blpk", "write-fak", "read-configuration",
              "read-memory-mapping", "write-crk", "write-bpk", "write-otp", "write-timeout",
              "kill-chip", "write-configuration", "execute-code", "unknown-command",
              "write-only", "erase-data", "help", "load-file", "renew-crk">>

NameLen == <<10, 11, 10, 9, 18, 19, 9, 9, 9, 13, 9, 19, 12, 15, 10, 10, 4, 9, 9>>

Index(c) == CHOOSE i \in DOMAIN CmdTable : CmdTable[i] = c

\* What is read of a public key file: only as much of it as the mode needs.
KeyFileLen == [rsa_key |-> 516, ecdsa_key |-> 128]

Commands == Range(CmdTable)

\* kind is what the word names: an S-record file, the file of a key, a target or "text".
ASSUME LinesAssumption == \A l \in ScriptLines :
  /\ l.cmd \in Commands \cup {"none", "#"}
  /\ l.args \in Seq([name : Commands \cup {"none"}, len : Nat, hex : BOOLEAN,
                     kind : {"text", "s_record", "target"} \cup DOMAIN KeyFileLen])

\* The words of a line; an empty line has none.
Words(l) == IF l.cmd = "none" THEN <<>>
            ELSE <<[name |-> l.cmd, len |-> NameLen[Index(l.cmd)], kind |-> "text",
                    hex |-> l.cmd \in {"erase-data", "execute-code"}]>> \o l.args

\* The place of the first character of the i-th word; words are one space apart.
Start(ws, i) ==
  LET at[j \in DOMAIN ws] == IF j = 1 THEN 0 ELSE at[j - 1] + ws[j - 1].len + 1
  IN  at[i]

LineLen(l) == LET ws == Words(l)
              IN  (IF ws = <<>> THEN 0 ELSE Start(ws, Len(ws)) + Last(ws).len)
                  + (IF l.ended THEN 1 ELSE 0)

NamesIn(l) == LET ws == Words(l)
              IN  {<<ws[i].name, Start(ws, i)>> : i \in {j \in DOMAIN ws : ws[j].name # "none"}}

\* What is left of a word whose start or end is cut: the name of no file.  It is taken
\* for a target, and for a number if its start is lost, which at worst accepts it.
Fragment(len, hex) == [name |-> "none", len |-> len, kind |-> "target", hex |-> hex]

MutSkipFirstWord(l, c) == l.args

(* The parameters start strlen(idf_scp_cmd[i]) characters after the start  *)
(* of the line, wherever the name was found, and stop before the last      *)
(* character, which is taken for a newline.                                *)
Params(l, c) ==
  LET ws == Words(l)
      from == NameLen[Index(c)]
      upto == LineLen(l) - 1
      first(i) == Start(ws, i)
      last(i) == first(i) + ws[i].len
      kept == {i \in DOMAIN ws : last(i) > from /\ first(i) < upto}
      cut(i) == IF first(i) >= from /\ last(i) <= upto THEN ws[i]
                ELSE IF first(i) >= from THEN Fragment(upto - first(i), ws[i].hex)
                ELSE Fragment(last(i) - from, TRUE)
  IN  [n \in 1..Cardinality(kept) |-> cut(Min(kept) + n - 1)]

-----------------------------------------------------------------------------
(* What each command makes of its parameters: their number and the checks. *)

OldScp   == {"SCP_ON_AES", "SCP_OFF_AES", "SCP_RSA"}
FloraScp == {"SCP_FLORA_RSA", "SCP_FLORA_AES", "SCP_ANGELA_ECDSA"}

FileCmds == {"write-file", "verify-file", "write-only"}

Supports(c, mode) ==
  CASE c \in FileCmds \cup {"erase-data"}                       -> mode # "SBL"
    [] c \in {"write-blpk", "write-fak", "read-configuration",
              "read-memory-mapping"}                            -> mode \in OldScp
    [] c \in {"write-crk", "write-bpk", "write-otp", "kill-chip",
              "write-timeout", "execute-code"}                  -> mode \in FloraScp
    [] c = "renew-crk"                                          -> mode = "SCP_ANGELA_ECDSA"
    [] c \in {"help", "write-configuration"}                    -> TRUE
    [] OTHER                                                    -> FALSE

signed_publickey_read(w) ==
  /\ w.kind \in DOMAIN KeyFileLen
  /\ KeyFileLen[w.kind] >= (IF config.session_mode = "SCP_ANGELA_ECDSA"
                             THEN 4 * ECDSA_MODULUS_LEN
                             ELSE 2 * RSA_MODULUS_LEN + RSA_PUBLIC_EXPONENT_LEN)

\* renew-crk overwrites the result of reading its first file with that of the second;
\* write-blpk and write-fak take any text for a key.
Accepts(c, ps) ==
  CASE c \in FileCmds           -> Len(ps) \in {1, 2} /\ ps[1].kind = "s_record"
    [] c = "erase-data"         -> Len(ps) = 2 /\ ps[1].hex /\ ps[2].hex
    [] c \in {"write-blpk",
              "write-fak"}      -> Len(ps) = 1
    [] c = "write-crk"          -> Len(ps) = 1 /\ signed_publickey_read(ps[1])
    [] c = "renew-crk"          -> Len(ps) = 2 /\ signed_publickey_read(ps[2])
    [] c \in {"write-bpk",
              "write-otp"}      -> Len(ps) = 2 /\ ps[1].len = 4 /\ ps[2].len % 2 = 0
    [] c = "write-timeout"      -> Len(ps) = 2 /\ ps[1].kind = "target" /\ ps[2].len = 4
    [] c = "execute-code"       -> Len(ps) = 1 /\ ps[1].len = 8
    [] c \in {"kill-chip",
              "help"}           -> Len(ps) = 0
    [] OTHER                    -> TRUE

\* The table is searched in order, each name anywhere in the line.
Recognised(names) ==
  IF names = {} THEN "unknown-command"
  ELSE CHOOSE c \in names : \A d \in names : Index(c) <= Index(d)

\* Two hexadecimal digits are a byte.
LastLen(ps) == IF ps = <<>> THEN 0 ELSE Last(ps).len \div 2

Executed(l, c, n) ==
  LET body == Request(c, n, config.session_mode)
  IN  [line |-> l, cmd |-> c, data |-> n, body |-> body,
       sent |-> Protected(body, config.session_mode, config.pp)]

(* loline is not initialised: beyond the line it holds what the calls in   *)
(* between left of the lines before.                                       *)
process_command(l) ==
  \E left \in SUBSET loline :
    LET stale == {e \in left : e[2] >= LineLen(l)}
        found == NamesIn(l) \cup stale
        c == Recognised({e[1] : e \in found})
    IN  /\ loline' = found
        /\ IF Supports(c, config.session_mode) /\ Accepts(c, Params(l, c))
             THEN /\ ran' = Append(ran, Executed(l, c, LastLen(Params(l, c))))
                  /\ UNCHANGED <<pc, status, hsm>>
             ELSE /\ mlsHsmCloseConnection("failure")
                  /\ UNCHANGED ran

script_line ==
  /\ pc = "script"
  /\ config.session_mode # "MSP_MAXQ1852_ECDSA"
  /\ lines < MaxLines
  /\ lines' = lines + 1
  /\ \E l \in ScriptLines :
       IF l.cmd = "#" THEN UNCHANGED <<pc, hsm, loline, ran, status>> ELSE process_command(l)
  /\ UNCHANGED <<library, config, ini, args, key_read>>

\* process_script cannot allocate its buffers or open the script.
script_missing ==
  /\ pc = "script"
  /\ lines = 0
  /\ mlsHsmCloseConnection("failure")
  /\ UNCHANGED <<library, config, ini, args, key_read, loline, lines, ran>>

process ==
  /\ pc = "script"
  /\ mlsHsmCloseConnection("success")
  /\ UNCHANGED <<library, config, ini, args, key_read, loline, lines, ran>>

Exited == pc = "exited" /\ UNCHANGED vars

Init ==
  /\ library \in LIBRARIES
  /\ pc = "ini"
  /\ config = load_default_config
  /\ ini = 0
  /\ args = <<>>
  /\ key_read = "none"
  /\ hsm = "closed"
  /\ loline = {}
  /\ lines = 0
  /\ ran = <<>>
  /\ status = "running"

Next ==
  \/ load_ini_config \/ load_config \/ load_arg \/ load_args
  \/ open_log \/ mlsHsmOpenConnection
  \/ script_line \/ script_missing \/ process \/ Exited

Spec == Init /\ [][Next]_vars

-----------------------------------------------------------------------------
(* Properties.                                                             *)

\* The settings stay within what the rest of the program takes for granted of them.
TypeOK ==
  /\ pc \in {"ini", "args", "open", "hsm", "script", "exited"}
  /\ config.session_mode \in Modes
  /\ config.pp \in Range(PpTests) \cup {"CLEAR"}
  /\ config.chunk_size < Limit.chunk_size
  /\ config.flash_size_mb < Limit.flash_size_mb
  /\ config.usn \in ByteLen.usn \cup {0}
  /\ hsm \in {"closed", "initialized", "opened", "logged_in", "key"}
  /\ Len(ran) <= lines
  /\ status \in {"running", "success", "failure"}

Configured == pc \in {"open", "hsm", "script"}

(* The command line overrides session_build.ini, and a later argument an   *)
(* earlier one: the mode of the session is the one that the last argument  *)
(* to name a mode names.                                                   *)
CommandLineWins ==
  \A i \in DOMAIN args :
    /\ Configured
    /\ args[i].at = "session_mode"
    /\ Cardinality(args[i].value.mentions \cap Modes) = 1
    /\ \A j \in (i + 1)..Len(args) : "session_mode" \notin Named(args[j])
    => config.session_mode \in args[i].value.mentions

(* The mode is settled by the last line that is read, and everything that  *)
(* was read under another mode is checked again: a session begins with the *)
(* serial number and the key file that its mode needs.                     *)
ReadyToSign ==
  Configured =>
    /\ config.session_mode \in RsaModes /\ library # "mxim_hsm" => key_read = config.rsa_file
    /\ config.session_mode \in EcdsaModes /\ library = "ucl" => key_read = config.ecdsa_file
    /\ config.session_mode \in OldScp => config.usn = 16
    /\ config.session_mode \in {"SCP_FLORA_RSA", "SCP_FLORA_AES"} => config.usn = 13

(* In the modes whose largest packet is known, the packets are not larger  *)
(* than the buffer of the chip, in whatever order mode and size were given.*)
ChunkFitsMode ==
  Configured =>
    /\ config.session_mode = "SCP_FLORA_RSA" => config.chunk_size <= 4094
    /\ config.session_mode = "MSP_MAXQ1852_ECDSA" => config.chunk_size <= 1856

(* A command is recognised anywhere in its line, and in what is left of the*)
(* lines before: but a line that reads or compares the memory never has it *)
(* erased or written, whatever its words, because the parameters it would  *)
(* need are cut.  A lone help has none; one with words behind it may have. *)
Readers == {"verify-file", "read-configuration", "read-memory-mapping"}
Writers == {"write-file", "write-only", "erase-data"}
Reads(l) == l.cmd \in Readers \/ (l.cmd = "help" /\ l.args = <<>>)

ReadsDoNotWrite == \A i \in DOMAIN ran : Reads(ran[i].line) => ran[i].cmd \notin Writers

(* The chip finds the command and its signature by the lengths that fifty  *)
(* functions write by hand (changelog 2141, 2341 and #bug 2202 are such    *)
(* lengths that were wrong): each one announces what follows it, and       *)
(* nothing lies between the command and its signature.  Two limits are     *)
(* those of the code: the length of write-bpk and write-otp is one byte,   *)
(* and encryption loses the end of the command.                            *)
RequestAnnounced(r) ==
  r.body # NoBody /\ r.data \in 0..249 =>
    /\ Announced(r.body)
    /\ \/ Encrypts(config.session_mode, config.pp)
       \/ r.sent = PayloadHeader + r.body.lengths[1] + SignatureLen(config.session_mode)

\* The hello reply has the length it announces because load_args checked the serial
\* number, except in the two modes that neither check it nor fill it up.
OpeningAnnounced ==
  LET mode == config.session_mode
  IN  Configured =>
        /\ Announced(hello_request_payload(mode))
        /\ Announced(challenge_payload) /\ Announced(challenge_response_payload)
        /\ Announced(generic_response_payload)
        /\ mode \notin {"SBL", "SCP_FLORA_AES"} =>
             Announced(hello_reply_payload(mode, config.usn))

\* The longest packet of data that chunk_size allows.
DataAnnounced ==
  Configured /\ config.chunk_size > 0 =>
    /\ Announced(write_mem_payload(config.chunk_size))
    /\ Announced(verify_data_payload(config.chunk_size))

LengthsAnnounced ==
  /\ OpeningAnnounced
  /\ DataAnnounced
  /\ \A i \in DOMAIN ran : RequestAnnounced(ran[i])
=============================================================================
