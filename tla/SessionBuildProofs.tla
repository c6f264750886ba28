------------------------- MODULE SessionBuildProofs -------------------------
(***************************************************************************)
(* Proofs about SessionBuild, for every .ini file, command line and script.*)
(***************************************************************************)
EXTENDS SessionBuild, FiniteSetTheorems, WellFoundedInduction, TLAPS

\* What a key with a number is given is an integer: what atoi() returns.
LinesAreValues == \A l \in IniLines \cup Args : l.value.number \in Int

\* Every key has a value, and chunk_size an integer.
ConfigOK == DOMAIN config = Keys /\ config.chunk_size \in Int

(* Until the configuration is checked nothing is known of it; what was     *)
(* checked is not changed afterwards.                                      *)
Checked ==
  /\ pc \in {"ini", "args", "open", "hsm", "script", "exited"}
  /\ ConfigOK
  /\ ReadyToSign
  /\ ChunkFitsMode

-----------------------------------------------------------------------------
LEMMA ModeIsKey ==
  {"session_mode", "rsa_file", "ecdsa_file", "usn", "chunk_size"} \subseteq Keys
BY DEF Keys, StringKeys, IntKeys, HexKeys

\* A line of the configuration gives values to keys, and to nothing else.
LEMMA LineStep ==
  ASSUME LinesAreValues, ConfigOK, NEW l \in IniLines \cup Args, process_arg(l)
  PROVE  ConfigOK'
<1>1. CASE UNCHANGED config
  BY <1>1 DEF ConfigOK
<1>2. CASE config' = [k \in Keys |-> IF k \in Named(l) THEN Setting(k, l.value, config[k])
                                                       ELSE config[k]]
  <2>1. DOMAIN config' = Keys
    BY <1>2
  <2>2. config'["chunk_size"] = IF "chunk_size" \in Named(l)
                                  THEN Setting("chunk_size", l.value, config["chunk_size"])
                                  ELSE config["chunk_size"]
    BY <1>2, ModeIsKey
  <2>3. Setting("chunk_size", l.value, config["chunk_size"]) = l.value.number
    BY DEF Setting, IntKeys, HexKeys
  <2>4. l.value.number \in Int
    BY DEF LinesAreValues
  <2> QED
    BY <2>1, <2>2, <2>3, <2>4 DEF ConfigOK
<1> QED
  BY <1>1, <1>2 DEF process_arg

LEMMA ReadingStep ==
  ASSUME LinesAreValues, Checked, load_ini_config \/ load_config \/ load_arg
  PROVE  Checked'
<1>1. pc' \in {"ini", "args", "exited"}
  BY DEF load_ini_config, load_config, load_arg, process_arg, Exit
<1>2. ConfigOK'
  <2>1. CASE load_ini_config
    <3>1. PICK l \in IniLines : IF Skipped(l) THEN UNCHANGED <<pc, config, status>>
                                              ELSE process_arg(l)
      BY <2>1 DEF load_ini_config
    <3> QED
      BY <3>1, LineStep DEF Checked, ConfigOK
  <2>2. CASE load_config
    BY <2>2 DEF load_config, Checked, ConfigOK
  <2>3. CASE load_arg
    BY <2>3, LineStep DEF load_arg, Checked
  <2> QED
    BY <2>1, <2>2, <2>3
<1> QED
  BY <1>1, <1>2 DEF Checked, ReadyToSign, ChunkFitsMode, Configured

\* The checks of load_args are made for the mode that the session is built in, and the
\* only setting that changes after them is the one that they clamp.
LEMMA CheckingStep ==
  ASSUME Checked, load_args
  PROVE  Checked'
<1> DEFINE mode == config.session_mode
           key  == KeySetting(mode)
<1>1. CASE Exit("failure") /\ UNCHANGED <<config, key_read>>
  BY <1>1 DEF Exit, Checked, ConfigOK, ReadyToSign, ChunkFitsMode, Configured
<1>2. CASE pc' = "open"
  <2>1. PICK max \in MaxChunkSizes(mode) :
          /\ config' = [config EXCEPT !["chunk_size"] = Clamped(config["chunk_size"], max)]
          /\ UsnFits(mode, config.usn)
          /\ key_read' = IF key = "none" THEN "none" ELSE config[key]
    BY <1>2 DEF load_args, Exit
  <2>2. /\ DOMAIN config' = Keys
        /\ config'["chunk_size"] = Clamped(config["chunk_size"], max)
        /\ config'["session_mode"] = mode /\ config'["usn"] = config["usn"]
        /\ config'["rsa_file"] = config["rsa_file"]
        /\ config'["ecdsa_file"] = config["ecdsa_file"]
    BY <2>1, ModeIsKey DEF Checked, ConfigOK
  <2>3. max \in Int
    BY <2>1, BuildAssumption DEF MaxChunkSizes
  <2>4. Clamped(config["chunk_size"], max) \in Int
        /\ Clamped(config["chunk_size"], max) <= max
    BY <2>3 DEF Clamped, Checked, ConfigOK
  <2>5. ConfigOK'
    BY <2>2, <2>4 DEF ConfigOK
  <2>6. ReadyToSign'
    <3>1. library' = library
      BY DEF load_args
    <3>2. mode \in RsaModes /\ library # "mxim_hsm" => key = "rsa_file"
      BY DEF KeySetting, RsaModes, EcdsaModes
    <3>3. mode \in EcdsaModes /\ library = "ucl" => key = "ecdsa_file"
      BY DEF KeySetting, EcdsaModes, RsaModes
    <3>4. /\ mode \in OldScp => config.usn = 16
          /\ mode \in {"SCP_FLORA_RSA", "SCP_FLORA_AES"} => config.usn = 13
      BY <2>1 DEF UsnFits, OldScp
    <3> QED
      BY <2>1, <2>2, <3>1, <3>2, <3>3, <3>4 DEF ReadyToSign
  <2>7. ChunkFitsMode'
    BY <2>1, <2>2, <2>4 DEF ChunkFitsMode, MaxChunkSizes
  <2> QED
    BY <1>2, <2>5, <2>6, <2>7 DEF Checked
<1> QED
  BY <1>1, <1>2 DEF load_args

LEMMA LaterStep ==
  ASSUME Checked,
         \/ open_log \/ mlsHsmOpenConnection \/ script_line \/ script_missing \/ process
         \/ Exited \/ UNCHANGED vars
  PROVE  Checked'
<1>1. /\ UNCHANGED <<library, config, key_read>>
      /\ pc' \in {"ini", "args", "open", "hsm", "script", "exited"}
      /\ Configured' => Configured
  BY DEF Checked, open_log, mlsHsmOpenConnection, script_line, script_missing, process,
    Exited, vars, Exit, process_command, mlsHsmCloseConnection, Configured
<1> QED
  BY <1>1 DEF Checked, ConfigOK, ReadyToSign, ChunkFitsMode

LEMMA CheckedAlways == ASSUME LinesAreValues PROVE Spec => []Checked
<1>1. Init => Checked
  <2>1. DOMAIN load_default_config = Keys /\ load_default_config.chunk_size = 1024
    <3>1. Keys = {"session_mode", "pp", "script_file", "output_file", "rsa_file",
                  "ecdsa_file", "verbose", "chunk_size", "flash_size_mb", "usn", "aes_key"}
      BY DEF Keys, StringKeys, IntKeys, HexKeys
    <3> QED
      BY <3>1 DEF load_default_config
  <2> QED
    BY <2>1 DEF Init, Checked, ConfigOK, ReadyToSign, ChunkFitsMode, Configured
<1>2. Checked /\ [Next]_vars => Checked'
  BY ReadingStep, CheckingStep, LaterStep DEF Next
<1> QED
  BY <1>1, <1>2, PTL DEF Spec

\* Whatever the .ini file and the arguments, and whichever mode they name last, a session
\* begins with the key and the serial number of its mode: ReadyToSign for every input.
THEOREM BeginsReadyToSign == ASSUME LinesAreValues PROVE Spec => []ReadyToSign
<1>1. Checked => ReadyToSign
  BY DEF Checked
<1> QED
  BY <1>1, CheckedAlways, PTL

\* In the same way chunk_size never exceeds the largest packet of the mode, whichever of
\* the two was given last, and whatever the other modes find in the variable that is not
\* initialised for them.
THEOREM PacketsFitChip == ASSUME LinesAreValues PROVE Spec => []ChunkFitsMode
<1>1. Checked => ChunkFitsMode
  BY DEF Checked
<1> QED
  BY <1>1, CheckedAlways, PTL

-----------------------------------------------------------------------------
(* The lengths of payloads.                                                *)

\* Before the script nothing was executed; the serial number is one of process_arg's.
Measured ==
  /\ Checked
  /\ config.usn \in {0, 13, 16}
  /\ config.chunk_size < 15354
  /\ pc \in {"ini", "args", "open", "hsm"} => ran = <<>>
  /\ \A i \in DOMAIN ran : RequestAnnounced(ran[i])

\* Its lengths announce what follows them.
Sound(b) == Announced(b) /\ b.lengths[1] = b.size /\ b.size \in Int

\* A payload with one length, and one with two.
LEMMA SingleLength == \A x \in Int : Sound(Body(<<x>>, x))
BY DEF Sound, Announced, Body

LEMMA TwoLengths == \A x, y \in Int : y = x - 4 => Sound(Body(<<x, y>>, x))
BY DEF Sound, Announced, Body

LEMMA FixedPayloads ==
  /\ Sound(read_configuration_payload) /\ Sound(mem_mapping_payload)
  /\ Sound(kill_chip_payload) /\ Sound(del_mem_payload)
  /\ Sound(write_bpk_blpk_payload) /\ Sound(write_bpk_fak_payload)
  /\ Sound(write_timeout_payload)
<1>1. /\ read_configuration_payload = Body(<<2>>, 2)
      /\ mem_mapping_payload = Body(<<2>>, 2)
      /\ kill_chip_payload = Body(<<2>>, 2)
      /\ del_mem_payload = Body(<<10>>, 10)
      /\ write_bpk_blpk_payload = Body(<<18>>, 18)
      /\ write_bpk_fak_payload = Body(<<18>>, 18)
      /\ write_timeout_payload = Body(<<5>>, 5)
  BY DEF read_configuration_payload, mem_mapping_payload, kill_chip_payload,
    del_mem_payload, write_bpk_blpk_payload, write_bpk_fak_payload,
    write_timeout_payload, CommandId, UCL_AES_BLOCKSIZE
<1>2. ASSUME NEW x \in Int PROVE Sound(Body(<<x>>, x))
  BY SingleLength
<1>3. 2 \in Int /\ 10 \in Int /\ 18 \in Int /\ 5 \in Int
  OBVIOUS
<1> QED
  BY <1>1, <1>2, <1>3, Zenon

LEMMA KeyPayloads ==
  /\ Sound(write_crk_payload_rsa) /\ Sound(write_crk_payload_ecdsa)
  /\ Sound(rewrite_crk_payload_ecdsa)
<1>1. /\ write_crk_payload_rsa = Body(<<520, 516>>, 520)
      /\ write_crk_payload_ecdsa = Body(<<132, 128>>, 132)
      /\ rewrite_crk_payload_ecdsa = Body(<<196, 192>>, 196)
  BY DEF write_crk_payload_rsa, write_crk_payload_ecdsa, rewrite_crk_payload_ecdsa,
    CommandId, RSA_MODULUS_LEN, RSA_PUBLIC_EXPONENT_LEN, ECDSA_MODULUS_LEN
<1>2. Sound(Body(<<520, 516>>, 520))
  BY DEF Sound, Announced, Body
<1>3. Sound(Body(<<132, 128>>, 132))
  BY DEF Sound, Announced, Body
<1>4. Sound(Body(<<196, 192>>, 196))
  BY DEF Sound, Announced, Body
<1>5. Sound(write_crk_payload_rsa)
  BY <1>1, <1>2, Zenon
<1>6. Sound(write_crk_payload_ecdsa)
  BY <1>1, <1>3, Zenon
<1>7. Sound(rewrite_crk_payload_ecdsa)
  BY <1>1, <1>4, Zenon
<1> QED
  BY <1>5, <1>6, <1>7

\* The one-byte length of a data command is enough for 249 bytes.
LEMMA DataPayloads ==
  ASSUME NEW n \in 0..249
  PROVE  Sound(write_bpk_payload(n)) /\ Sound(write_otp_payload(n))
         /\ Sound(execute_code_payload(n))
<1>1. (2 + 2 + 2 + n) % 256 = n + 6
  OBVIOUS
<1>2. write_bpk_payload(n) = Body(<<n + 6, n + 2>>, n + 6)
  BY <1>1 DEF write_bpk_payload, CommandId
<1>3. write_otp_payload(n) = Body(<<n + 6, n + 2>>, n + 6)
  BY <1>1 DEF write_otp_payload, CommandId
<1>4. execute_code_payload(n) = Body(<<n + 2>>, n + 2)
  BY DEF execute_code_payload, CommandId
<1>5. n + 6 \in Int /\ n + 2 \in Int /\ n + 2 = (n + 6) - 4
  OBVIOUS
<1> QED
  BY <1>2, <1>3, <1>4, <1>5, SingleLength, TwoLengths

\* Both bytes of the length of a packet are enough for the largest chunk_size.
LEMMA PacketPayloads ==
  ASSUME NEW n \in Int, n > 0, n < 15354
  PROVE  Announced(write_mem_payload(n)) /\ Announced(verify_data_payload(n))
<1>1. (2 + 4 + 4 + n) % 65536 = n + 10
  OBVIOUS
<1>2. /\ write_mem_payload(n) = Body(<<n + 10>>, n + 10)
      /\ verify_data_payload(n) = Body(<<n + 10>>, n + 10)
  BY <1>1 DEF write_mem_payload, verify_data_payload, CommandId
<1>3. n + 10 \in Int
  OBVIOUS
<1> QED
  BY <1>2, <1>3, SingleLength DEF Sound

LEMMA BodiesAnnounced ==
  ASSUME NEW c, NEW n \in 0..249, NEW mode, Request(c, n, mode) # NoBody
  PROVE  Sound(Request(c, n, mode))
BY FixedPayloads, KeyPayloads, DataPayloads DEF Request

\* Unless it is encrypted, a payload is sent as its header, itself and its signature.
LEMMA ExecutedAnnounced ==
  ASSUME NEW l, NEW c, NEW n
  PROVE  RequestAnnounced(Executed(l, c, n))
<1> DEFINE r    == Executed(l, c, n)
           mode == config.session_mode
           b    == Request(c, n, mode)
<1>1. r.body = b /\ r.data = n /\ r.sent = Protected(b, mode, config.pp)
  BY DEF Executed
<1>2. ASSUME b # NoBody, n \in 0..249
      PROVE  /\ Announced(b)
             /\ Encrypts(mode, config.pp)
                  \/ Protected(b, mode, config.pp)
                      = PayloadHeader + b.lengths[1] + SignatureLen(mode)
  <2>1. Announced(b) /\ b.lengths[1] = b.size
    BY <1>2, BodiesAnnounced DEF Sound
  <2> QED
    BY <2>1 DEF Protected
<1> QED
  BY <1>1, <1>2 DEF RequestAnnounced

LEMMA LimitsStep ==
  ASSUME Measured, NEW l \in IniLines \cup Args, process_arg(l), LinesAreValues
  PROVE  config'["usn"] \in {0, 13, 16} /\ config'["chunk_size"] < 15354
<1>1. CASE UNCHANGED config
  BY <1>1 DEF Measured
<1>2. CASE /\ ~Refused(l)
           /\ config' = [k \in Keys |-> IF k \in Named(l) THEN Setting(k, l.value, config[k])
                                                         ELSE config[k]]
  <2>1. config'["usn"] = IF "usn" \in Named(l) THEN Setting("usn", l.value, config["usn"])
                                               ELSE config["usn"]
    BY <1>2, ModeIsKey
  <2>2. ASSUME "usn" \notin Named(l) PROVE config'["usn"] \in {0, 13, 16}
    BY <2>1, <2>2 DEF Measured
  <2>3. ASSUME "usn" \in Named(l) PROVE config'["usn"] \in {0, 13, 16}
    <3>1. l.at = "usn"
      BY <2>3 DEF Named, StringKeys
    <3>2. l.value.digits \div 2 \in {13, 16}
      BY <1>2, <3>1 DEF Refused, HexKeys, ByteLen
    <3>3. Setting("usn", l.value, config["usn"]) = l.value.digits \div 2
      BY DEF Setting, IntKeys, HexKeys
    <3> QED
      BY <2>1, <2>3, <3>2, <3>3
  <2>4. config'["chunk_size"] = IF "chunk_size" \in Named(l)
                                  THEN Setting("chunk_size", l.value, config["chunk_size"])
                                  ELSE config["chunk_size"]
    BY <1>2, ModeIsKey
  <2>5. CASE "chunk_size" \notin Named(l)
    BY <2>2, <2>3, <2>4, <2>5 DEF Measured
  <2>6. CASE "chunk_size" \in Named(l)
    <3>1. l.at = "chunk_size"
      BY <2>6 DEF Named, StringKeys
    <3>2. ~(l.value.number >= 15354)
      BY <1>2, <3>1 DEF Refused, IntKeys, Limit
    <3>3. l.value.number \in Int
      BY DEF LinesAreValues
    <3>4. Setting("chunk_size", l.value, config["chunk_size"]) = l.value.number
      BY DEF Setting, IntKeys, HexKeys
    <3>5. config'["chunk_size"] < 15354
      BY <2>4, <2>6, <3>2, <3>3, <3>4
    <3> QED
      BY <2>2, <2>3, <3>5
  <2> QED
    BY <2>5, <2>6
<1> QED
  BY <1>1, <1>2 DEF process_arg

LEMMA MeasuredAlways == ASSUME LinesAreValues PROVE Spec => []Measured
<1>1. Init /\ Checked => Measured
  <2>1. load_default_config.usn = 0 /\ load_default_config.chunk_size = 1024
    BY DEF load_default_config
  <2> QED
    BY <2>1 DEF Init, Measured
<1>2. Measured /\ Checked' /\ [Next]_vars => Measured'
  <2> SUFFICES ASSUME Measured, Checked', [Next]_vars PROVE Measured'
    OBVIOUS
  <2>1. CASE load_ini_config \/ load_config \/ load_arg
    <3>1. config'["usn"] \in {0, 13, 16} /\ config'["chunk_size"] < 15354
      <4>1. CASE load_ini_config
        <5>1. PICK l \in IniLines : IF Skipped(l) THEN UNCHANGED <<pc, config, status>>
                                                  ELSE process_arg(l)
          BY <4>1 DEF load_ini_config
        <5> QED
          BY <5>1, LimitsStep DEF Measured
      <4>2. CASE load_config
        BY <4>2 DEF load_config, Measured
      <4>3. CASE load_arg
        BY <4>3, LimitsStep DEF load_arg
      <4> QED
        BY <2>1, <4>1, <4>2, <4>3
    <3>2. ran = <<>> /\ ran' = ran
      BY <2>1 DEF load_ini_config, load_config, load_arg, Measured
    <3> QED
      BY <3>1, <3>2 DEF Measured
  <2>2. CASE load_args
    <3>1. config'["usn"] = config["usn"] /\ config'["chunk_size"] < 15354
      <4>1. CASE UNCHANGED config
        BY <4>1 DEF Measured
      <4>2. ASSUME NEW max \in MaxChunkSizes(config.session_mode),
                   config' = [config EXCEPT !["chunk_size"] = Clamped(config["chunk_size"], max)]
            PROVE  config'["usn"] = config["usn"] /\ config'["chunk_size"] < 15354
        <5>1. max \in Int /\ config["chunk_size"] \in Int
          BY BuildAssumption DEF MaxChunkSizes, Measured, Checked, ConfigOK
        <5>2. Clamped(config["chunk_size"], max) < 15354
          BY <5>1 DEF Clamped, Measured
        <5> QED
          BY <4>2, <5>2, ModeIsKey DEF Measured, Checked, ConfigOK
      <4> QED
        BY <2>2, <4>1, <4>2 DEF load_args
    <3>2. ran = <<>> /\ ran' = ran
      BY <2>2 DEF load_args, Measured
    <3> QED
      BY <3>1, <3>2 DEF Measured
  <2>3. CASE script_line
    <3>1. UNCHANGED config /\ pc' \in {"script", "exited"} /\ pc = "script"
      BY <2>3 DEF script_line, process_command, mlsHsmCloseConnection
    <3>2. CASE UNCHANGED ran
      BY <3>1, <3>2 DEF Measured, RequestAnnounced
    <3>3. ASSUME NEW l, NEW c, NEW n, ran' = Append(ran, Executed(l, c, n))
          PROVE  Measured'
      <4>1. RequestAnnounced(Executed(l, c, n))
        BY ExecutedAnnounced
      <4>2. ASSUME NEW i \in DOMAIN ran'
            PROVE  RequestAnnounced(ran'[i])
        BY <3>3, <4>1, <4>2 DEF Measured
      <4> QED
        BY <3>1, <4>2 DEF Measured, RequestAnnounced
    <3>4. UNCHANGED ran \/ \E l, c, n : ran' = Append(ran, Executed(l, c, n))
      BY <2>3 DEF script_line, process_command
    <3> QED
      BY <3>2, <3>3, <3>4
  <2>4. CASE \/ open_log \/ mlsHsmOpenConnection \/ script_missing \/ process
             \/ Exited \/ UNCHANGED vars
    <3>1. /\ UNCHANGED <<config, ran>>
          /\ pc' \in {"ini", "args", "open", "hsm"} => pc \in {"ini", "args", "open", "hsm"}
      BY <2>4 DEF open_log, mlsHsmOpenConnection, script_missing, process, Exited, vars,
        Exit, mlsHsmCloseConnection
    <3> QED
      BY <3>1 DEF Measured, RequestAnnounced
  <2> QED
    BY <2>1, <2>2, <2>3, <2>4 DEF Next
<1> QED
  BY <1>1, <1>2, CheckedAlways, PTL DEF Spec

LEMMA DataStep == ASSUME Measured PROVE DataAnnounced
<1>1. config["chunk_size"] \in Int /\ config["chunk_size"] < 15354
  BY DEF Measured, Checked, ConfigOK
<1> QED
  BY <1>1, PacketPayloads DEF DataAnnounced

\* In every mode and for every parameter of at most 249 bytes, what the bootloader finds by
\* the lengths in a payload is its command and, where it is not encrypted, its signature.
THEOREM PayloadsAnnounceLengths ==
  ASSUME LinesAreValues PROVE Spec => []LengthsAnnounced
<1>1. Measured => LengthsAnnounced
  <2> SUFFICES ASSUME Measured, Configured PROVE OpeningAnnounced /\ DataAnnounced
    BY DEF Measured, LengthsAnnounced, OpeningAnnounced, DataAnnounced
  <2> DEFINE mode == config.session_mode
  <2>1. \A x \in Int : Announced(Body(<<x>>, x))
    BY DEF Announced, Body
  <2>2. \E x \in Int : hello_request_payload(mode) = Body(<<x>>, x)
    BY DEF hello_request_payload
  <2>3. /\ challenge_payload = Body(<<16>>, 16)
        /\ challenge_response_payload = Body(<<0>>, 0)
        /\ generic_response_payload = Body(<<4>>, 4)
    BY DEF challenge_payload, challenge_response_payload, generic_response_payload,
      UCL_AES_BLOCKSIZE
  <2>4. ASSUME mode \notin {"SBL", "SCP_FLORA_AES"}
        PROVE  hello_reply_payload(mode, config.usn) = Body(<<50>>, 50)
    <3>1. CASE mode = "SCP_ON_AES"
      <4>1. config.usn = 16
        BY <3>1 DEF Measured, Checked, ReadyToSign, OldScp
      <4> QED
        BY <3>1, <4>1 DEF hello_reply_payload, HelloVersion, RandomLen
    <3>2. CASE mode # "SCP_ON_AES"
      BY <2>4, <3>2 DEF hello_reply_payload, HelloVersion, RandomLen, USN_LEN, Measured
    <3> QED
      BY <3>1, <3>2
  <2>5. DataAnnounced
    BY DataStep
  <2> QED
    BY <2>1, <2>2, <2>3, <2>4, <2>5 DEF OpeningAnnounced
<1> QED
  BY <1>1, MeasuredAlways, PTL

-----------------------------------------------------------------------------
(* The settings, and the mode that the command line named last.            *)

\* Of the numbers that are in a set, one is the least, and one the greatest.
LEMMA Extremes ==
  ASSUME NEW N \in Nat, NEW T, T \subseteq 1..N, T # {}
  PROVE  /\ Min(T) \in T /\ \A y \in T : Min(T) <= y
         /\ Max(T) \in T /\ \A y \in T : Max(T) >= y
<1>0. \A y \in T : y \in Nat /\ 1 <= y /\ y <= N
  OBVIOUS
<1> DEFINE less == OpToRel(<, Nat)
<1>1. \A x, y \in Nat : <<x, y>> \in less <=> x < y
  BY DEF OpToRel
<1> HIDE DEF less
<1>2. ASSUME NEW S, S \subseteq Nat, S # {} PROVE \E x \in S : \A y \in S : x <= y
  <2>1. IsWellFoundedOn(less, Nat)
    BY NatLessThanWellFounded, Zenon DEF less
  <2>2. PICK x \in S : \A y \in S : ~ (<<y, x>> \in less)
    BY <1>2, <2>1, WFMin, Zenon
  <2>3. \A y \in S : x \in Nat /\ y \in Nat /\ ~ (y < x)
    BY <1>1, <1>2, <2>2, Zenon
  <2> QED
    BY <2>2, <2>3
<1>3. \E x \in T : \A y \in T : x <= y
  <2>1. T \subseteq Nat
    BY <1>0
  <2> QED
    BY <1>2, <2>1, Zenon
<1>4. \E x \in T : \A y \in T : x >= y
  <2> DEFINE S == {N - y : y \in T}
  <2>1. S \subseteq Nat /\ S # {}
    <3>1. \A y \in T : N - y \in Nat
      BY <1>0
    <3> QED
      BY <3>1
  <2>2. PICK x \in S : \A y \in S : x <= y
    BY <1>2, <2>1
  <2>3. PICK z \in T : x = N - z
    BY <2>2
  <2>4. \A y \in T : N - y \in S
    OBVIOUS
  <2>5. ASSUME NEW y \in T PROVE z >= y
    <3>1. N - z <= N - y
      BY <2>2, <2>3, <2>4
    <3>2. y \in Int /\ z \in Int
      BY <1>0, <2>3, <2>5
    <3> QED
      BY <3>1, <3>2
  <2> QED
    BY <2>5
<1> QED
  BY <1>3, <1>4 DEF Min, Max

\* A mode that is named is one of the table, and one of those that the value mentions.
LEMMA NamedMode ==
  ASSUME NEW v, NEW old
  PROVE  /\ old \in Modes => ModeNamed(v, old) \in Modes
         /\ v.mentions \cap Modes # {} => ModeNamed(v, old) \in v.mentions \cap Modes
<1> DEFINE F == {n \in DOMAIN ModeTests : ModeTests[n] \in v.mentions}
<1>1. DOMAIN ModeTests = 1..8
  BY DEF ModeTests
<1>2. ModeNamed(v, old) = IF F = {} THEN old ELSE ModeTests[Max(F)]
  BY DEF ModeNamed
<1>3. F # {} => Max(F) \in F
  <2>1. F \subseteq 1..8
    BY <1>1
  <2> HIDE DEF F
  <2> QED
    BY <2>1, Extremes
<1>4. \A n \in DOMAIN ModeTests : ModeTests[n] \in Modes
  BY DEF Modes, Range
<1>5. v.mentions \cap Modes # {} => F # {}
  BY DEF Modes, Range
<1> QED
  BY <1>2, <1>3, <1>4, <1>5

LEMMA NamedProfile ==
  ASSUME NEW v
  PROVE  PpNamed(v) \in Range(PpTests) \cup {"CLEAR"}
<1> DEFINE F == {n \in DOMAIN PpTests : PpTests[n] \in v.mentions}
<1>1. DOMAIN PpTests = 1..6
  BY DEF PpTests
<1>2. PpNamed(v) = IF F = {} THEN "CLEAR" ELSE PpTests[Min(F)]
  BY DEF PpNamed
<1>3. F # {} => Min(F) \in F
  <2>1. F \subseteq 1..8
    BY <1>1
  <2> HIDE DEF F
  <2> QED
    BY <2>1, Extremes
<1>4. \A n \in DOMAIN PpTests : PpTests[n] \in Range(PpTests)
  BY DEF Range
<1> QED
  BY <1>2, <1>3, <1>4

\* The settings and the lines executed, with the types of what they are counted by.
SettingsOK ==
  /\ config.session_mode \in Modes
  /\ config.pp \in Range(PpTests) \cup {"CLEAR"}
  /\ config.flash_size_mb < 1023
  /\ hsm \in {"closed", "initialized", "opened", "logged_in", "key"}
  /\ status \in {"running", "success", "failure"}
  /\ lines \in Nat /\ Len(ran) <= lines
  /\ \E S : ran \in Seq(S)

\* The last argument that names a mode.
Decides(i) ==
  /\ args[i].at = "session_mode"
  /\ args[i].value.mentions \cap Modes # {}
  /\ \A j \in (i + 1)..Len(args) : "session_mode" \notin Named(args[j])

(* It decides the mode from the moment it is read.  A configuration that   *)
(* was refused is not used any more.                                       *)
ArgsWin ==
  /\ args \in Seq(Args)
  /\ pc = "ini" => args = <<>>
  /\ pc # "exited" =>
       \A i \in DOMAIN args : Decides(i) => config.session_mode \in args[i].value.mentions

LEMMA SettingKeys == {"session_mode", "pp", "flash_size_mb", "chunk_size"} \subseteq Keys
BY DEF Keys, StringKeys, IntKeys, HexKeys

\* What a line that is not refused makes of the mode, the profile and the flash size.
LEMMA LineSettings ==
  ASSUME LinesAreValues, SettingsOK, NEW l \in IniLines \cup Args, ~Refused(l),
         config' = [k \in Keys |-> IF k \in Named(l) THEN Setting(k, l.value, config[k])
                                                     ELSE config[k]]
  PROVE  /\ config'.session_mode \in Modes
         /\ config'.session_mode = IF "session_mode" \in Named(l)
                                     THEN ModeNamed(l.value, config.session_mode)
                                     ELSE config.session_mode
         /\ config'.pp \in Range(PpTests) \cup {"CLEAR"}
         /\ config'.flash_size_mb < 1023
<1>1. config'.session_mode = IF "session_mode" \in Named(l)
                               THEN ModeNamed(l.value, config.session_mode)
                               ELSE config.session_mode
  <2>1. Setting("session_mode", l.value, config["session_mode"])
          = ModeNamed(l.value, config["session_mode"])
    BY DEF Setting, IntKeys, HexKeys
  <2> QED
    BY <2>1, SettingKeys
<1>2. config'.session_mode \in Modes
  BY <1>1, NamedMode DEF SettingsOK
<1>3. config'.pp \in Range(PpTests) \cup {"CLEAR"}
  <2>1. config'["pp"] = IF "pp" \in Named(l) THEN Setting("pp", l.value, config["pp"])
                                             ELSE config["pp"]
    BY SettingKeys
  <2>2. Setting("pp", l.value, config["pp"]) = PpNamed(l.value)
    BY DEF Setting, IntKeys, HexKeys
  <2> QED
    BY <2>1, <2>2, NamedProfile DEF SettingsOK
<1>4. config'.flash_size_mb < 1023
  <2>1. config'["flash_size_mb"] = IF "flash_size_mb" \in Named(l)
                                     THEN Setting("flash_size_mb", l.value, config["flash_size_mb"])
                                     ELSE config["flash_size_mb"]
    BY SettingKeys
  <2>2. CASE "flash_size_mb" \notin Named(l)
    BY <2>1, <2>2 DEF SettingsOK
  <2>3. CASE "flash_size_mb" \in Named(l)
    <3>1. l.at = "flash_size_mb"
      BY <2>3 DEF Named, StringKeys
    <3>2. ~(l.value.number >= 1023)
      BY <3>1 DEF Refused, IntKeys, Limit
    <3>3. l.value.number \in Int
      BY DEF LinesAreValues
    <3>4. Setting("flash_size_mb", l.value, config["flash_size_mb"]) = l.value.number
      BY DEF Setting, IntKeys, HexKeys
    <3>5. config'["flash_size_mb"] < 1023
      BY <2>1, <2>3, <3>2, <3>3, <3>4
    <3> QED
      BY <3>5
  <2> QED
    BY <2>2, <2>3
<1> QED
  BY <1>1, <1>2, <1>3, <1>4

\* A line is refused, or gives its settings.
LEMMA ArgStep ==
  ASSUME LinesAreValues, SettingsOK, NEW l \in IniLines \cup Args, process_arg(l),
         UNCHANGED <<hsm, lines, ran>>
  PROVE  /\ SettingsOK'
         /\ pc' = pc \/ pc' = "exited"
         /\ pc' # "exited" => config'.session_mode = IF "session_mode" \in Named(l)
                                  THEN ModeNamed(l.value, config.session_mode)
                                  ELSE config.session_mode
<1>1. CASE Refused(l) /\ Exit("failure") /\ UNCHANGED config
  BY <1>1 DEF SettingsOK, Exit
<1>2. CASE /\ ~Refused(l) /\ UNCHANGED <<pc, status>>
           /\ config' = [k \in Keys |-> IF k \in Named(l) THEN Setting(k, l.value, config[k])
                                                         ELSE config[k]]
  BY <1>2, LineSettings DEF SettingsOK
<1> QED
  BY <1>1, <1>2 DEF process_arg

LEMMA SettingsStep ==
  ASSUME LinesAreValues, ConfigOK, SettingsOK, [Next]_vars
  PROVE  SettingsOK'
<1>1. CASE load_ini_config
  <2>1. PICK l \in IniLines : IF Skipped(l) THEN UNCHANGED <<pc, config, status>>
                                            ELSE process_arg(l)
    BY <1>1 DEF load_ini_config
  <2>2. UNCHANGED <<hsm, lines, ran>>
    BY <1>1 DEF load_ini_config
  <2> QED
    BY <2>1, <2>2, ArgStep DEF SettingsOK
<1>2. CASE load_arg
  <2>1. PICK l \in Args : process_arg(l) /\ UNCHANGED <<hsm, lines, ran>>
    BY <1>2 DEF load_arg
  <2> QED
    BY <2>1, ArgStep
<1>3. CASE load_args
  <2>1. UNCHANGED <<hsm, lines, ran>> /\ status' \in {status, "failure"}
    BY <1>3 DEF load_args, Exit
  <2>2. /\ config'.session_mode = config.session_mode /\ config'.pp = config.pp
        /\ config'.flash_size_mb = config.flash_size_mb
    BY <1>3, SettingKeys DEF load_args, ConfigOK
  <2> QED
    BY <2>1, <2>2 DEF SettingsOK
<1>4. CASE script_line
  <2>1. /\ UNCHANGED config /\ lines' = lines + 1
        /\ ran' = ran \/ \E e : ran' = Append(ran, e)
        /\ hsm' \in {hsm, "closed", "key", "initialized"}
        /\ status' \in {status, "success", "failure"}
    <3>1. ASSUME mlsHsmCloseConnection("failure")
          PROVE  hsm' \in {hsm, "closed", "key", "initialized"} /\ status' = "failure"
      BY <3>1 DEF mlsHsmCloseConnection
    <3>2. PICK l \in ScriptLines : IF l.cmd = "#" THEN UNCHANGED <<pc, hsm, loline, ran, status>>
                                                  ELSE process_command(l)
      BY <1>4 DEF script_line
    <3>3. CASE UNCHANGED <<hsm, ran, status>>
      BY <1>4, <3>3 DEF script_line
    <3>4. CASE process_command(l)
      BY <1>4, <3>1, <3>4 DEF script_line, process_command
    <3> QED
      BY <3>2, <3>3, <3>4
  <2>2. lines' \in Nat /\ Len(ran') <= lines' /\ \E S : ran' \in Seq(S)
    <3>1. PICK S : ran \in Seq(S)
      BY DEF SettingsOK
    <3>2. Len(ran) \in Nat /\ lines \in Nat /\ Len(ran) <= lines
      BY <3>1 DEF SettingsOK
    <3>3. ASSUME NEW e, ran' = Append(ran, e)
          PROVE  Len(ran') = Len(ran) + 1 /\ ran' \in Seq(S \cup {e})
      <4>1. ran \in Seq(S \cup {e}) /\ e \in S \cup {e}
        BY <3>1
      <4> QED
        BY <3>3, <4>1
    <3>4. CASE ran' = ran
      BY <2>1, <3>1, <3>2, <3>4
    <3>5. CASE \E e : ran' = Append(ran, e)
      <4>1. \E S2 : ran' \in Seq(S2) /\ Len(ran') = Len(ran) + 1
        BY <3>3, <3>5
      <4>2. lines' = lines + 1
        BY <2>1
      <4> QED
        BY <3>2, <4>1, <4>2
    <3> QED
      BY <2>1, <3>4, <3>5
  <2> QED
    BY <2>1, <2>2 DEF SettingsOK
<1>5. CASE load_config \/ open_log \/ mlsHsmOpenConnection
  BY <1>5 DEF load_config, open_log, mlsHsmOpenConnection, Exit, SettingsOK
<1>6. CASE script_missing \/ process
  BY <1>6 DEF script_missing, process, mlsHsmCloseConnection, SettingsOK
<1>7. CASE Exited \/ UNCHANGED vars
  BY <1>7 DEF Exited, vars, SettingsOK
<1> QED
  BY <1>1, <1>2, <1>3, <1>4, <1>5, <1>6, <1>7 DEF Next

LEMMA ArgsStep ==
  ASSUME LinesAreValues, ConfigOK, SettingsOK, ArgsWin, [Next]_vars,
         pc \in {"ini", "args", "open", "hsm", "script", "exited"}
  PROVE  ArgsWin'
<1>1. CASE load_arg
  <2>1. PICK l \in Args : process_arg(l) /\ args' = Append(args, l)
    BY <1>1 DEF load_arg
  <2>2. /\ UNCHANGED <<hsm, lines, ran>> /\ pc = "args"
    BY <1>1 DEF load_arg
  <2>3. /\ args \in Seq(Args) /\ args' \in Seq(Args) /\ Len(args) \in Nat
        /\ Len(args') = Len(args) + 1 /\ args'[Len(args) + 1] = l
        /\ \A n \in 1..Len(args) : args'[n] = args[n]
    BY <2>1 DEF ArgsWin
  <2>4. /\ pc' \in {"args", "exited"}
        /\ pc' # "exited" => config'.session_mode = IF "session_mode" \in Named(l)
                                THEN ModeNamed(l.value, config.session_mode)
                                ELSE config.session_mode
    BY <2>1, <2>2, ArgStep
  <2>5. ASSUME pc' # "exited", NEW i \in DOMAIN args', Decides(i)'
        PROVE  config'.session_mode \in args'[i].value.mentions
    <3>1. /\ args'[i].at = "session_mode" /\ args'[i].value.mentions \cap Modes # {}
          /\ \A j \in (i + 1)..Len(args') : "session_mode" \notin Named(args'[j])
      BY <2>5 DEF Decides
    <3>2. CASE i = Len(args) + 1
      <4>1. args'[i] = l
        BY <2>3, <3>2
      <4>2. "session_mode" \in Named(l)
        BY <3>1, <4>1, SettingKeys DEF Named
      <4> QED
        BY <2>4, <2>5, <3>1, <4>1, <4>2, NamedMode
    <3>3. CASE i # Len(args) + 1
      <4>1. i \in 1..Len(args) /\ Len(args) + 1 \in (i + 1)..Len(args')
            /\ \A j \in (i + 1)..Len(args) : j \in (i + 1)..Len(args') /\ j \in 1..Len(args)
        BY <2>3, <3>3
      <4>2. "session_mode" \notin Named(l)
        BY <2>3, <3>1, <4>1
      <4>3. Decides(i)
        BY <2>3, <3>1, <4>1 DEF Decides
      <4>4. i \in DOMAIN args /\ pc # "exited"
        BY <2>2, <2>3, <4>1
      <4>5. config.session_mode \in args[i].value.mentions
        BY <4>3, <4>4 DEF ArgsWin
      <4> QED
        BY <2>3, <2>4, <2>5, <4>1, <4>2, <4>5
    <3> QED
      BY <3>2, <3>3
  <2>6. pc' # "ini"
    BY <2>4
  <2> QED
    BY <2>3, <2>5, <2>6 DEF ArgsWin
<1>2. ASSUME args' = args, pc' # "exited" => pc # "exited",
             \/ pc' # "ini" /\ config'.session_mode = config.session_mode
             \/ pc = "ini"
      PROVE  ArgsWin'
  <2>1. CASE pc = "ini"
    BY <1>2, <2>1 DEF ArgsWin
  <2>2. CASE pc' # "ini" /\ config'.session_mode = config.session_mode
    BY <1>2, <2>2 DEF ArgsWin, Decides
  <2> QED
    BY <1>2, <2>1, <2>2
<1>3. CASE load_ini_config \/ load_config
  BY <1>2, <1>3 DEF load_ini_config, load_config
<1>4. CASE load_args
  <2>1. args' = args /\ pc = "args" /\ pc' \in {"open", "exited"}
    BY <1>4 DEF load_args, Exit
  <2>2. config'.session_mode = config.session_mode
    BY <1>4, SettingKeys DEF load_args, ConfigOK
  <2> QED
    BY <1>2, <2>1, <2>2
<1>5. CASE open_log \/ mlsHsmOpenConnection \/ script_line \/ script_missing \/ process \/ Exited
  <2>1. UNCHANGED <<args, config>> /\ pc # "ini" /\ pc' # "ini"
        /\ (pc' # "exited" => pc # "exited")
    BY <1>5 DEF open_log, mlsHsmOpenConnection, script_line, script_missing, process, Exited,
      Exit, process_command, mlsHsmCloseConnection, vars
  <2> QED
    BY <1>2, <2>1
<1>6. CASE UNCHANGED vars
  BY <1>6 DEF vars, ArgsWin, Decides
<1> QED
  BY <1>1, <1>3, <1>4, <1>5, <1>6 DEF Next

LEMMA SettingsAlways ==
  ASSUME LinesAreValues
  PROVE  Spec => [](Measured /\ SettingsOK /\ ArgsWin)
<1>1. Init => SettingsOK /\ ArgsWin
  <2>1. /\ load_default_config.session_mode = "SCP_RSA" /\ load_default_config.pp = "RSA"
        /\ load_default_config.flash_size_mb = 32
    BY DEF load_default_config
  <2>2. "SCP_RSA" \in Modes /\ "RSA" \in Range(PpTests)
    <3>1. ModeTests[5] = "SCP_RSA" /\ 5 \in DOMAIN ModeTests
      BY DEF ModeTests
    <3>2. PpTests[5] = "RSA" /\ 5 \in DOMAIN PpTests
      BY DEF PpTests
    <3> QED
      BY <3>1, <3>2, Zenon DEF Modes, Range
  <2>3. <<>> \in Seq(Args) /\ <<>> \in Seq({}) /\ Len(<<>>) = 0 /\ DOMAIN <<>> = {}
    OBVIOUS
  <2>4. Init => SettingsOK
    BY <2>1, <2>2, <2>3 DEF Init, SettingsOK
  <2>5. Init => ArgsWin
    BY <2>3 DEF Init, ArgsWin
  <2> QED
    BY <2>4, <2>5
<1>2. Measured /\ SettingsOK /\ ArgsWin /\ [Next]_vars => SettingsOK' /\ ArgsWin'
  BY LinesAreValues, SettingsStep, ArgsStep DEF Measured, Checked
<1>3. Spec => []Measured
  BY LinesAreValues, MeasuredAlways
<1> QED
  BY <1>1, <1>2, <1>3, PTL DEF Spec

\* Whatever the .ini file, the command line and the script, the settings stay what the
\* modes, the profiles and the limits of the code allow: TypeOK for every instance.
THEOREM TypeCorrect == ASSUME LinesAreValues PROVE Spec => []TypeOK
<1>1. Measured /\ SettingsOK => TypeOK
  BY DEF Measured, Checked, SettingsOK, TypeOK, Limit, ByteLen
<1> QED
  BY <1>1, LinesAreValues, SettingsAlways, PTL

\* CommandLineWins for every instance: of the .ini file and the arguments, in any number
\* and order, the last argument that names a mode decides the mode of the session.
THEOREM LastArgumentWins == ASSUME LinesAreValues PROVE Spec => []CommandLineWins
<1>1. ArgsWin => CommandLineWins
  <2> SUFFICES ASSUME ArgsWin, Configured, NEW i \in DOMAIN args,
                      args[i].at = "session_mode",
                      Cardinality(args[i].value.mentions \cap Modes) = 1,
                      \A j \in (i + 1)..Len(args) : "session_mode" \notin Named(args[j])
               PROVE  config.session_mode \in args[i].value.mentions
    BY DEF CommandLineWins
  <2>1. args[i].value.mentions \cap Modes # {}
    BY FS_EmptySet
  <2> QED
    BY <2>1 DEF ArgsWin, Decides, Configured
<1> QED
  BY <1>1, LinesAreValues, SettingsAlways, PTL

-----------------------------------------------------------------------------
(* The words of a script line, and what a command makes of them.           *)

Word == [name : Commands \cup {"none"}, len : Nat, hex : BOOLEAN,
         kind : {"text", "s_record", "target"} \cup DOMAIN KeyFileLen]

\* The place of a command in the table.
LEMMA CommandIndex ==
  ASSUME NEW c \in Commands
  PROVE  Index(c) \in 1..19 /\ CmdTable[Index(c)] = c
<1>1. DOMAIN CmdTable = 1..19
  BY DEF CmdTable
<1>2. PICK i \in DOMAIN CmdTable : CmdTable[i] = c
  BY DEF Commands, Range
<1>3. Index(c) \in DOMAIN CmdTable /\ CmdTable[Index(c)] = c
  BY <1>2 DEF Index
<1> QED
  BY <1>1, <1>3

LEMMA CommandPlaces ==
  /\ "write-file" \in Commands /\ "verify-file" \in Commands
  /\ "read-configuration" \in Commands /\ "read-memory-mapping" \in Commands
  /\ "help" \in Commands /\ "write-only" \in Commands /\ "erase-data" \in Commands
  /\ Index("write-file") = 1 /\ Index("verify-file") = 2
  /\ Index("read-configuration") = 5 /\ Index("read-memory-mapping") = 6
  /\ Index("write-only") = 15 /\ Index("erase-data") = 16 /\ Index("help") = 17
<1>1. /\ DOMAIN CmdTable = 1..19
      /\ CmdTable[1] = "write-file" /\ CmdTable[2] = "verify-file"
      /\ CmdTable[5] = "read-configuration" /\ CmdTable[6] = "read-memory-mapping"
      /\ CmdTable[15] = "write-only" /\ CmdTable[16] = "erase-data" /\ CmdTable[17] = "help"
  BY DEF CmdTable
<1>2. \A i, j \in 1..19 : CmdTable[i] = CmdTable[j] => i = j
  BY DEF CmdTable
<1>3. \A i \in 1..19 : CmdTable[i] \in Commands
  BY <1>1 DEF Commands, Range
<1>4. \A i \in 1..19 : Index(CmdTable[i]) = i
  <2> SUFFICES ASSUME NEW i \in 1..19 PROVE Index(CmdTable[i]) = i
    OBVIOUS
  <2>1. Index(CmdTable[i]) \in 1..19 /\ CmdTable[Index(CmdTable[i])] = CmdTable[i]
    BY <1>3, CommandIndex, Zenon
  <2> QED
    BY <1>2, <2>1, Zenon
<1>5. {1, 2, 5, 6, 15, 16, 17} \subseteq 1..19
  OBVIOUS
<1> QED
  BY <1>1, <1>3, <1>4, <1>5

\* The table is searched from its start: what is found is the first of the names.
LEMMA RecognisedFirst ==
  ASSUME NEW names, names \subseteq Commands, names # {}
  PROVE  /\ Recognised(names) \in names
         /\ \A d \in names : Index(Recognised(names)) <= Index(d)
<1> DEFINE T == {Index(d) : d \in names}
<1>1. T \subseteq 1..19 /\ T # {}
  BY CommandIndex
<1>2. PICK x \in T : \A y \in T : x <= y
  <2> HIDE DEF T
  <2> QED
    BY <1>1, Extremes
<1>3. PICK c \in names : \A d \in names : Index(c) <= Index(d)
  <2>1. PICK c \in names : x = Index(c)
    OBVIOUS
  <2> QED
    BY <1>2, <2>1
<1> QED
  BY <1>3 DEF Recognised

\* What holds of 0, and of every number after one that it holds of, holds up to N.
LEMMA UpTo ==
  ASSUME NEW N \in Nat, NEW T, 0 \in T, \A n \in 0..(N - 1) : n \in T => n + 1 \in T
  PROVE  \A n \in 0..N : n \in T
<1> DEFINE missing == {n \in 1..N : n \notin T}
<1>1. ASSUME missing # {} PROVE FALSE
  <2>1. Min(missing) \in missing /\ \A y \in missing : Min(missing) <= y
    BY <1>1, Extremes
  <2>2. PICK m \in missing : \A y \in missing : m <= y
    BY <2>1
  <2>3. m - 1 \in 0..(N - 1) /\ (m - 1) + 1 = m /\ m \notin T
    OBVIOUS
  <2>4. m - 1 \notin T
    BY <2>3
  <2>5. m - 1 \in missing
    BY <2>3, <2>4
  <2> QED
    BY <2>2, <2>5
<1> QED
  BY <1>1

\* A word starts somewhere behind the start of the line, and the first at it.
LEMMA WordStarts ==
  ASSUME NEW ws \in Seq(Word)
  PROVE  /\ \A i \in DOMAIN ws : Start(ws, i) \in Nat
         /\ ws # <<>> => Start(ws, 1) = 0
<1> DEFINE N == Len(ws)
           Step(f, j) == IF j = 1 THEN 0 ELSE f[j - 1] + ws[j - 1].len + 1
           Solves(f, n) == f = [j \in 1..n |-> Step(f, j)]
           Known(n) == \E f : Solves(f, n) /\ \A j \in 1..n : f[j] \in Nat
           T == {n \in 0..N : Known(n)}
           at == CHOOSE f : Solves(f, N)
<1>1. N \in Nat /\ DOMAIN ws = 1..N /\ \A j \in 1..N : ws[j].len \in Nat
  <2>1. N \in Nat /\ DOMAIN ws = 1..N /\ \A j \in 1..N : ws[j] \in Word
    OBVIOUS
  <2>2. \A w \in Word : w.len \in Nat
    BY DEF Word
  <2> QED
    BY <2>1, <2>2, Zenon
<1> HIDE DEF N
<1>2. 0 \in T
  <2>1. Solves(<<>>, 0)
    OBVIOUS
  <2>2. Known(0)
    BY <2>1
  <2> HIDE DEF Known
  <2> QED
    BY <1>1, <2>2
<1>3. ASSUME NEW n \in 0..(N - 1), n \in T PROVE n + 1 \in T
  <2>1. PICK f : Solves(f, n) /\ \A j \in 1..n : f[j] \in Nat
    BY <1>3
  <2> DEFINE g == [j \in 1..(n + 1) |-> IF j <= n THEN f[j] ELSE Step(f, j)]
  <2>2. \A j \in 1..n : f[j] = Step(f, j)
    BY <2>1
  <2>3. \A j \in 1..(n + 1) : g[j] = Step(f, j)
    BY <2>2
  <2>4. \A j \in 1..(n + 1) : Step(g, j) = Step(f, j)
    <3> SUFFICES ASSUME NEW j \in 1..(n + 1), j # 1 PROVE g[j - 1] = f[j - 1]
      OBVIOUS
    <3>1. j - 1 \in 1..(n + 1) /\ j - 1 <= n
      OBVIOUS
    <3> QED
      BY <3>1
  <2>5. Solves(g, n + 1)
    <3> DEFINE h == [j \in 1..(n + 1) |-> Step(g, j)]
    <3>1. \A j \in 1..(n + 1) : g[j] = h[j]
      BY <2>3, <2>4
    <3> QED
      BY <3>1
  <2>6. \A j \in 1..(n + 1) : g[j] \in Nat
    <3> SUFFICES ASSUME NEW j \in 1..(n + 1) PROVE Step(f, j) \in Nat
      BY <2>3
    <3>1. CASE j = 1
      BY <3>1
    <3>2. CASE j # 1
      <4>1. j - 1 \in 1..n /\ j - 1 \in 1..N
        BY <1>1, <3>2
      <4>2. f[j - 1] \in Nat /\ ws[j - 1].len \in Nat
        BY <1>1, <2>1, <4>1
      <4> QED
        BY <3>2, <4>2
    <3> QED
      BY <3>1, <3>2
  <2> HIDE DEF g
  <2>7. Known(n + 1)
    BY <2>5, <2>6
  <2>8. n + 1 \in 0..N
    BY <1>1
  <2> HIDE DEF Known
  <2> QED
    BY <2>7, <2>8
<1>4. Known(N)
  <2> HIDE DEF T
  <2>1. \A n \in 0..N : n \in T
    BY <1>1, <1>2, <1>3, UpTo
  <2>2. N \in T
    BY <1>1, <2>1
  <2> HIDE DEF Known
  <2> QED
    BY <2>2, Zenon DEF T
<1>5. Solves(at, N)
  <2> HIDE DEF Solves
  <2> QED
    BY <1>4, Zenon
<1>6. \A i \in 1..N : Start(ws, i) = at[i]
  BY <1>1, Zenon DEF Start
<1> HIDE DEF at
<1>7. \A i \in 1..N : at[i] = Step(at, i)
  BY <1>5
<1>8. \A i \in 1..N : at[i] \in Nat
  <2> DEFINE S == {n \in 0..N : n = 0 \/ at[n] \in Nat}
  <2>1. 0 \in S
    BY <1>1
  <2>2. ASSUME NEW n \in 0..(N - 1), n \in S PROVE n + 1 \in S
    <3>1. n + 1 \in 1..N /\ n + 1 \in 0..N
      BY <1>1
    <3>2. CASE n = 0
      BY <1>7, <3>1, <3>2
    <3>3. CASE n # 0
      <4>1. at[n + 1] = at[n] + ws[n].len + 1
        BY <1>7, <3>1, <3>3
      <4>2. at[n] \in Nat /\ ws[n].len \in Nat
        BY <1>1, <2>2, <3>3
      <4> QED
        BY <3>1, <4>1, <4>2
    <3> QED
      BY <3>2, <3>3
  <2> HIDE DEF S
  <2>3. \A n \in 0..N : n \in S
    BY <1>1, <2>1, <2>2, UpTo
  <2> QED
    BY <1>1, <2>3 DEF S
<1>9. ws # <<>> => 1 \in 1..N
  BY <1>1 DEF N
<1> QED
  BY <1>1, <1>6, <1>7, <1>8, <1>9

\* The first word of a line is its command; the others are words too.
LEMMA LineWords ==
  ASSUME NEW l \in ScriptLines, l.cmd \in Commands
  PROVE  /\ Words(l) \in Seq(Word) /\ Words(l) # <<>>
         /\ Words(l)[1].name = l.cmd /\ Words(l)[1].len = NameLen[Index(l.cmd)]
         /\ l.args = <<>> => Len(Words(l)) = 1
<1> DEFINE w == [name |-> l.cmd, len |-> NameLen[Index(l.cmd)], kind |-> "text",
                 hex |-> l.cmd \in {"erase-data", "execute-code"}]
<1>1. l.args \in Seq(Word)
  BY LinesAssumption DEF Word
<1>2. Index(l.cmd) \in 1..19
  BY CommandIndex
<1>3. \A i \in 1..19 : NameLen[i] \in Nat
  BY DEF NameLen
<1>4. w \in Word
  BY <1>2, <1>3 DEF Word
<1>5. l.cmd # "none"
  <2>1. CmdTable[Index(l.cmd)] = l.cmd
    BY CommandIndex
  <2>2. \A i \in 1..19 : CmdTable[i] # "none"
    BY DEF CmdTable
  <2> QED
    BY <1>2, <2>1, <2>2
<1>6. Words(l) = <<w>> \o l.args
  BY <1>5 DEF Words
<1>7. w.name = l.cmd /\ w.len = NameLen[Index(l.cmd)]
  OBVIOUS
<1> HIDE DEF w
<1> QED
  BY <1>1, <1>4, <1>6, <1>7

\* No word of an S-record file comes first where write-file looks for it.
LEMMA ReaderCut ==
  ASSUME NEW l \in ScriptLines, l.cmd \in Readers
  PROVE  ~Accepts("write-file", Params(l, "write-file"))
<1> DEFINE ws == Words(l)
           upto == LineLen(l) - 1
           first(i) == Start(ws, i)
           last(i) == first(i) + ws[i].len
           kept == {i \in DOMAIN ws : last(i) > 10 /\ first(i) < upto}
           cut(i) == IF first(i) >= 10 /\ last(i) <= upto THEN ws[i]
                     ELSE IF first(i) >= 10 THEN Fragment(upto - first(i), ws[i].hex)
                     ELSE Fragment(last(i) - 10, TRUE)
           ps == Params(l, "write-file")
<1>1. NameLen[Index("write-file")] = 10
  BY CommandPlaces DEF NameLen
<1>2. ps = [n \in 1..Cardinality(kept) |-> cut(Min(kept) + n - 1)]
  BY <1>1 DEF Params
<1>3. l.cmd \in Commands /\ NameLen[Index(l.cmd)] \in {11, 18, 19}
  BY CommandPlaces DEF Readers, NameLen
<1>4. /\ ws \in Seq(Word) /\ ws # <<>> /\ ws[1].len \in {11, 18, 19}
      /\ Len(ws) \in Nat /\ 1 \in DOMAIN ws /\ DOMAIN ws = 1..Len(ws)
  <2> HIDE DEF ws
  <2>1. ws \in Seq(Word) /\ ws # <<>> /\ ws[1].len \in {11, 18, 19}
    BY <1>3, LineWords DEF ws
  <2> QED
    BY <2>1
<1>5. first(1) = 0 /\ \A i \in DOMAIN ws : first(i) \in Nat
  <2> HIDE DEF ws
  <2> QED
    BY <1>4, WordStarts
<1>6. last(1) > 10
  <2> HIDE DEF first, ws
  <2> QED
    BY <1>4, <1>5
<1>7. upto \in Int
  <2>1. Start(ws, Len(ws)) \in Nat /\ Last(ws).len \in Nat
    <3> HIDE DEF ws
    <3>1. Len(ws) \in DOMAIN ws /\ ws[Len(ws)] \in Word
      BY <1>4
    <3> QED
      BY <1>5, <3>1 DEF Last, Word
  <2>2. LineLen(l) = (IF ws = <<>> THEN 0 ELSE Start(ws, Len(ws)) + Last(ws).len)
                       + (IF l.ended THEN 1 ELSE 0)
    BY DEF LineLen
  <2> HIDE DEF ws
  <2> QED
    BY <1>4, <2>1, <2>2
<1>8. Len(ps) = 0 \/ (Len(ps) \in Nat /\ ps[1].kind = "target")
  <2> HIDE DEF ws, ps, upto, first
  <2>1. CASE upto <= 0
    <3>1. kept = {}
      BY <1>5, <1>7, <2>1
    <3>2. Cardinality(kept) = 0
      BY <3>1, FS_EmptySet
    <3> HIDE DEF kept, cut
    <3>3. ps = [n \in 1..0 |-> cut(Min(kept) + n - 1)]
      BY <1>2, <3>2, Zenon
    <3> QED
      BY <3>3
  <2>2. CASE 0 < upto
    <3>1. 1 \in kept /\ kept \subseteq 1..Len(ws)
      BY <1>4, <1>5, <1>6, <2>2
    <3>2. cut(1).kind = "target"
      BY <1>5 DEF Fragment
    <3> HIDE DEF kept, cut
    <3>3. Min(kept) = 1
      <4>1. Min(kept) \in kept /\ Min(kept) <= 1
        BY <1>4, <3>1, Extremes
      <4>2. \A i \in 1..Len(ws) : i <= 1 => i = 1
        BY <1>4
      <4> QED
        BY <3>1, <4>1, <4>2
    <3>4. Cardinality(kept) \in Nat /\ Cardinality(kept) # 0
      <4>1. IsFiniteSet(kept)
        <5>1. IsFiniteSet(1..Len(ws))
          BY <1>4, FS_Interval
        <5> QED
          BY <3>1, <5>1, FS_Subset
      <4> QED
        BY <3>1, <4>1, FS_CardinalityType, FS_EmptySet
    <3>5. Len(ps) = Cardinality(kept) /\ ps[1] = cut(1)
      BY <1>2, <3>3, <3>4
    <3> QED
      BY <3>2, <3>4, <3>5
  <2> QED
    BY <1>7, <2>1, <2>2
<1>9. Accepts("write-file", ps) <=> (Len(ps) \in {1, 2} /\ ps[1].kind = "s_record")
  BY DEF Accepts, FileCmds
<1> HIDE DEF ps
<1>10. ~Accepts("write-file", ps)
  BY <1>8, <1>9
<1> QED
  BY <1>10 DEF ps

\* A help without words has no parameters for any command.
LEMMA HelpCut ==
  ASSUME NEW l \in ScriptLines, l.cmd = "help", l.args = <<>>, NEW c \in Writers
  PROVE  ~Accepts(c, Params(l, c))
<1> DEFINE ws == Words(l)
           upto == LineLen(l) - 1
           kept == {i \in DOMAIN ws : Start(ws, i) + ws[i].len > 10 /\ Start(ws, i) < upto}
           ps == Params(l, c)
<1>1. NameLen[Index(c)] = 10
  BY CommandPlaces DEF NameLen, Writers
<1>2. \E cut : ps = [n \in 1..Cardinality(kept) |-> cut[n]]
  <2>1. DOMAIN ps = 1..Cardinality(kept) /\ ps = [n \in DOMAIN ps |-> ps[n]]
    BY <1>1 DEF Params
  <2> QED
    BY <2>1
<1>3. l.cmd \in Commands /\ NameLen[Index(l.cmd)] = 4
  BY CommandPlaces DEF NameLen
<1>4. ws \in Seq(Word) /\ ws # <<>> /\ ws[1].len = 4 /\ Len(ws) = 1
  <2> HIDE DEF ws
  <2> QED
    BY <1>3, LineWords DEF ws
<1>5. Start(ws, 1) = 0
  <2> HIDE DEF ws
  <2> QED
    BY <1>4, WordStarts
<1>6. kept = {}
  <2> HIDE DEF ws, upto
  <2>1. DOMAIN ws = {1}
    BY <1>4
  <2> QED
    BY <1>4, <1>5, <2>1
<1>7. Len(ps) = 0
  <2> HIDE DEF ps, kept
  <2>1. Cardinality(kept) = 0
    BY <1>6, FS_EmptySet
  <2> QED
    BY <1>2, <2>1
<1>8. /\ c \in FileCmds => (Accepts(c, ps) <=> Len(ps) \in {1, 2} /\ ps[1].kind = "s_record")
      /\ c = "erase-data" => (Accepts(c, ps) <=> Len(ps) = 2 /\ ps[1].hex /\ ps[2].hex)
  BY DEF Accepts, FileCmds
<1> HIDE DEF ps
<1>9. c \in FileCmds \/ c = "erase-data"
  BY DEF Writers, FileCmds
<1>10. ~Accepts(c, ps)
  BY <1>7, <1>8, <1>9
<1> QED
  BY <1>10 DEF ps

\* What is found in a line that reads is not a command that writes, or is refused.
LEMMA ReaderRefused ==
  ASSUME NEW l \in ScriptLines, Reads(l), NEW names, names \subseteq Commands, l.cmd \in names,
         Recognised(names) \in Writers
  PROVE  ~Accepts(Recognised(names), Params(l, Recognised(names)))
<1>1. Index(Recognised(names)) <= Index(l.cmd)
  BY RecognisedFirst
<1>2. CASE l.cmd \in Readers
  <2>1. Recognised(names) = "write-file"
    BY <1>1, <1>2, CommandPlaces DEF Readers, Writers
  <2> QED
    BY <1>2, <2>1, ReaderCut
<1>3. CASE l.cmd = "help" /\ l.args = <<>>
  BY <1>3, HelpCut
<1> QED
  BY <1>2, <1>3 DEF Reads

\* Only names of commands are left in loline, and no line that reads has written.
ReadInv ==
  /\ \A e \in loline : e[1] \in Commands
  /\ \E S : ran \in Seq(S)
  /\ ReadsDoNotWrite

LEMMA CommandRead ==
  ASSUME ReadInv, NEW l \in ScriptLines, l.cmd # "#", process_command(l)
  PROVE  ReadInv'
<1>1. PICK left \in SUBSET loline :
        LET stale == {e \in left : e[2] >= LineLen(l)}
            found == NamesIn(l) \cup stale
            c == Recognised({e[1] : e \in found})
        IN  /\ loline' = found
            /\ IF Supports(c, config.session_mode) /\ Accepts(c, Params(l, c))
                 THEN /\ ran' = Append(ran, Executed(l, c, LastLen(Params(l, c))))
                      /\ UNCHANGED <<pc, status, hsm>>
                 ELSE /\ mlsHsmCloseConnection("failure")
                      /\ UNCHANGED ran
  BY DEF process_command
<1> DEFINE stale == {e \in left : e[2] >= LineLen(l)}
           found == NamesIn(l) \cup stale
           names == {e[1] : e \in found}
           c == Recognised(names)
<1>2. /\ loline' = found
      /\ \/ ran' = ran
         \/ /\ Accepts(c, Params(l, c))
            /\ ran' = Append(ran, Executed(l, c, LastLen(Params(l, c))))
  BY <1>1
<1>3. \A e \in found : e[1] \in Commands
  <2>1. \A e \in stale : e[1] \in Commands
    BY DEF ReadInv
  <2>2. \A e \in NamesIn(l) : e[1] \in Commands
    <3>1. \A e \in NamesIn(l) : \E i \in DOMAIN Words(l) :
            e[1] = Words(l)[i].name /\ Words(l)[i].name # "none"
      BY DEF NamesIn
    <3>2. CASE l.cmd = "none"
      <4>1. Words(l) = <<>>
        BY <3>2 DEF Words
      <4>2. DOMAIN Words(l) = {}
        BY <4>1
      <4> QED
        BY <3>1, <4>2
    <3>3. CASE l.cmd \in Commands
      <4>1. Words(l) \in Seq(Word)
        BY <3>3, LineWords
      <4>2. \A i \in DOMAIN Words(l) : Words(l)[i].name \in Commands \cup {"none"}
        <5> DEFINE ws == Words(l)
        <5>1. ws \in Seq(Word)
          BY <4>1
        <5> HIDE DEF ws
        <5>2. \A i \in DOMAIN ws : ws[i].name \in Commands \cup {"none"}
          <6>1. \A i \in DOMAIN ws : ws[i] \in Word
            BY <5>1
          <6>2. \A w \in Word : w.name \in Commands \cup {"none"}
            BY DEF Word
          <6> QED
            BY <6>1, <6>2, Zenon
        <5> QED
          BY <5>2 DEF ws
      <4> QED
        BY <3>1, <4>2
    <3> QED
      BY <3>2, <3>3, LinesAssumption
  <2> QED
    BY <2>1, <2>2
<1>4. names \subseteq Commands
  BY <1>3
<1>5. Reads(l) => l.cmd \in names
  <2> SUFFICES ASSUME Reads(l) PROVE l.cmd \in names
    OBVIOUS
  <2>1. l.cmd \in Commands /\ l.cmd # "none"
    BY CommandPlaces DEF Reads, Readers
  <2>2. Words(l) \in Seq(Word) /\ Words(l) # <<>> /\ Words(l)[1].name = l.cmd
    BY <2>1, LineWords
  <2>3. 1 \in DOMAIN Words(l)
    <3> DEFINE ws == Words(l)
    <3>1. ws \in Seq(Word) /\ ws # <<>>
      BY <2>2
    <3> HIDE DEF ws
    <3>2. 1 \in DOMAIN ws
      BY <3>1
    <3> QED
      BY <3>2 DEF ws
  <2>4. <<l.cmd, Start(Words(l), 1)>> \in NamesIn(l)
    BY <2>1, <2>2, <2>3 DEF NamesIn
  <2> QED
    BY <2>4
<1> HIDE DEF names, found
<1>6. (\A e \in loline : e[1] \in Commands)'
  BY <1>2, <1>3
<1> HIDE DEF c
<1>7. CASE ran' = ran
  BY <1>6, <1>7 DEF ReadInv, ReadsDoNotWrite
<1>8. ASSUME Accepts(c, Params(l, c)), ran' = Append(ran, Executed(l, c, LastLen(Params(l, c))))
      PROVE  ReadInv'
  <2> DEFINE r == Executed(l, c, LastLen(Params(l, c)))
  <2>1. r.line = l /\ r.cmd = c
    BY DEF Executed
  <2>2. Reads(l) => c \notin Writers
    BY <1>4, <1>5, <1>8, ReaderRefused DEF c
  <2> HIDE DEF r
  <2>3. ran' = Append(ran, r)
    BY <1>8 DEF r
  <2>4. PICK S : ran \in Seq(S)
    BY DEF ReadInv
  <2>5. /\ ran' \in Seq(S \cup {r}) /\ DOMAIN ran' = DOMAIN ran \cup {Len(ran) + 1}
        /\ ran'[Len(ran) + 1] = r /\ \A i \in DOMAIN ran : ran'[i] = ran[i]
    <3>1. ran \in Seq(S \cup {r})
      BY <2>4
    <3>2. Append(ran, r) \in Seq(S \cup {r}) /\ Len(ran) \in Nat /\ DOMAIN ran = 1..Len(ran)
      BY <3>1
    <3> QED
      BY <2>3, <3>1, <3>2
  <2>6. ReadsDoNotWrite'
    <3> SUFFICES ASSUME NEW i \in DOMAIN ran', Reads(ran'[i].line)
                 PROVE  ran'[i].cmd \notin Writers
      BY DEF ReadsDoNotWrite
    <3>1. CASE i \in DOMAIN ran
      BY <2>5, <3>1 DEF ReadInv, ReadsDoNotWrite
    <3>2. CASE i = Len(ran) + 1
      BY <2>1, <2>2, <2>5, <3>2
    <3> QED
      BY <2>5, <3>1, <3>2
  <2> QED
    BY <1>6, <2>5, <2>6 DEF ReadInv
<1> QED
  BY <1>2, <1>7, <1>8

\* ReadsDoNotWrite for every script: a line that reads or compares the memory is never
\* executed as one that erases or writes it, whatever its words are and whatever earlier
\* lines left in the uninitialised buffer.
THEOREM ReadingIsSafe == Spec => []ReadsDoNotWrite
<1>1. Init => ReadInv
  <2>1. <<>> \in Seq({}) /\ DOMAIN <<>> = {}
    OBVIOUS
  <2> QED
    BY <2>1 DEF Init, ReadInv, ReadsDoNotWrite
<1>2. ReadInv /\ [Next]_vars => ReadInv'
  <2> SUFFICES ASSUME ReadInv, [Next]_vars PROVE ReadInv'
    OBVIOUS
  <2>1. CASE script_line
    <3>1. PICK l \in ScriptLines :
            IF l.cmd = "#" THEN UNCHANGED <<pc, hsm, loline, ran, status>> ELSE process_command(l)
      BY <2>1 DEF script_line
    <3>2. CASE UNCHANGED <<loline, ran>>
      BY <3>2 DEF ReadInv, ReadsDoNotWrite
    <3> QED
      BY <3>1, <3>2, CommandRead
  <2>2. CASE UNCHANGED <<loline, ran>>
    BY <2>2 DEF ReadInv, ReadsDoNotWrite
  <2>3. CASE load_ini_config \/ load_config \/ load_arg \/ load_args \/ open_log
             \/ mlsHsmOpenConnection \/ script_missing \/ process \/ Exited \/ UNCHANGED vars
    BY <2>2, <2>3 DEF load_ini_config, load_config, load_arg, load_args, open_log,
      mlsHsmOpenConnection, script_missing, process, Exited, vars
  <2> QED
    BY <2>1, <2>3 DEF Next
<1>3. ReadInv => ReadsDoNotWrite
  BY DEF ReadInv
<1> QED
  BY <1>1, <1>2, <1>3, PTL DEF Spec
=============================================================================
