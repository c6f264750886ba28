--------------------------- MODULE MCSessionBuild ---------------------------
(***************************************************************************)
(* An instance of SessionBuild.                                            *)
(***************************************************************************)
EXTENDS SessionBuild

NoValue   == [text |-> "", number |-> 0, digits |-> 0, mentions |-> {}]
Text(t)   == [NoValue EXCEPT !.text = t]
Number(n) == [NoValue EXCEPT !.number = n]
Digits(n) == [NoValue EXCEPT !.digits = n]
Says(ms)  == [NoValue EXCEPT !.mentions = ms]

Given(k, v) == [at |-> k, within |-> {}, value |-> v]
Comment     == [at |-> "#", within |-> {}, value |-> NoValue]
Empty       == [at |-> "none", within |-> {}, value |-> NoValue]

MCIniLines == {
  Comment, Empty,
  Given("session_mode", Says({"SCP_FLORA_RSA"})),
  Given("pp", Says({"ECDSA"})), Given("pp", Says({"CMAC", "E_CMAC"})),
  Given("chunk_size", Number(15354)),
  Given("usn", Digits(26)), Given("usn", Digits(32)) }

MCArgs == {
  Given("session_mode", Says({"SCP_ANGELA_ECDSA"})),
  Given("session_mode", Says({"SCP_OFF_AES"})),
  Given("session_mode", Says({"MSP_MAXQ1852_ECDSA"})),
  Given("session_mode", Says({})),
  Given("rsa_file", Text("crk.key")),
  Given("ecdsa_file", Text("crk_ecdsa.key")),
  Given("chunk_size", Number(15353)),
  [at |-> "script_file", within |-> {"pp"}, value |-> Text("1.txt")] }

MCGarbage == {-1, 32767}

Word(name, len, kind, hex) == [name |-> name, len |-> len, kind |-> kind, hex |-> hex]

Line(c, ws)       == [cmd |-> c, args |-> ws, ended |-> TRUE]
Unended(c, ws)    == [cmd |-> c, args |-> ws, ended |-> FALSE]
Image             == Word("none", 8, "s_record", FALSE)
Named_s19(c, len) == Word(c, len, "s_record", c \in {"erase-data", "execute-code"})
Key(c, len)       == Word(c, len, "rsa_key", c = "erase-data")
EcdsaKey(len)     == Word("none", len, "ecdsa_key", FALSE)
Target            == Word("none", 1, "target", FALSE)
Hex(n)            == Word("none", n, "text", TRUE)

MCScriptLines == {
  Line("#", <<>>), Line("none", <<>>),
  Line("write-file", <<Image>>),
  Line("write-only", <<Named_s19("write-file", 14)>>),
  Line("write-only", <<Named_s19("verify-file", 15)>>),
  Line("verify-file", <<Image>>),
  Line("verify-file", <<Named_s19("write-file", 14)>>),
  Line("verify-file", <<Named_s19("erase-data", 14)>>),
  Line("erase-data", <<Hex(4), Hex(4)>>),
  Unended("erase-data", <<Hex(4), Hex(1)>>),
  Line("read-configuration", <<>>),
  Line("read-memory-mapping", <<>>),
  Line("write-blpk", <<Hex(32)>>), Line("write-fak", <<Hex(32)>>),
  Line("write-crk", <<Key("none", 7)>>), Line("write-crk", <<EcdsaKey(7)>>),
  Line("renew-crk", <<Key("none", 7), Key("write-otp", 13)>>),
  Line("write-bpk", <<Hex(4), Hex(6)>>), Line("write-otp", <<Hex(4), Hex(5)>>),
  Line("write-otp", <<Hex(4), Hex(498)>>), Line("write-bpk", <<Hex(4), Hex(500)>>),
  Line("write-timeout", <<Target, Hex(4)>>), Line("write-timeout", <<Hex(1), Hex(4)>>),
  Line("execute-code", <<Hex(8)>>),
  Line("write-configuration", <<>>), Line("load-file", <<Image>>),
  Line("help", <<>>), Line("help", <<Hex(4), Image, Named_s19("write-file", 14)>>),
  Unended("kill-chip", <<>>) }
=============================================================================
