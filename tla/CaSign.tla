------------------------------- MODULE CaSign -------------------------------
(***************************************************************************)
(* ca_sign_build: puts a header and the arguments before a binary, signs   *)
(* the three and writes the signature, alone in one file and after the     *)
(* image in another.                                                       *)
(*                                                                         *)
(* A byte is <<"byte", value>>.  A byte of a signature is known by its     *)
(* place, the algorithm, the key and what is signed: a signature verifies  *)
(* exactly for what it was made of.  The files are those of the working directory; *)
(* a write may fail at the opening or, where Cuts says, in the middle.     *)
(***************************************************************************)
EXTENDS Integers, Sequences

CONSTANTS
  Libraries,      \* builds of the program: of "UCL", "MXIM_HSM" and "SAFENET_HSM"
  Configs,        \* the configurations that the .ini file and the arguments may give
  SIGNATURE_LEN,  \* bytes of a signature: 256 for "rsa", 64 for "ecdsa"
  Cuts            \* bound: how many bytes reach a file whose writing fails

VARIABLES
  library,    \* what the program was built with
  pc,         \* what the program does next; "idle" when it does not run
  config,     \* its configuration
  payload,    \* header, arguments and binary
  signature,
  err,        \* whether the last write failed
  files,      \* the contents of the files, by name
  signed      \* every image written whole so far, and what it was made of

signer_vars == <<library, pc, config, payload, signature, err, files, signed>>

NoConfig == [algo |-> "none"]

Octet == 0..255

\* Addresses and arguments are the bytes that the strings of the configuration denote.
ASSUME CaSignAssumption ==
  /\ Libraries \subseteq {"UCL", "MXIM_HSM", "SAFENET_HSM"}
  /\ \A c \in Configs :
       /\ c.algo \in {"rsa", "ecdsa"}
       /\ {c.header, c.signonly} \subseteq BOOLEAN
       /\ c.version \in Nat
       /\ {c.load_address, c.jump_address, c.arguments} \subseteq Seq(Octet)
       /\ c.slots \in Octet
  /\ SIGNATURE_LEN \in [{"rsa", "ecdsa"} -> Nat \ {0}]
  /\ Cuts \subseteq Nat

Byte(v) == <<"byte", v>>

Bytes(s) == [k \in 1..Len(s) |-> Byte(s[k])]

\* "copy byte per byte, starting from msB to lsB"; every number is of four bytes.
Weight == <<16777216, 65536, 256, 1>>

BigEndian(v) == [k \in 1..4 |-> Byte((v \div Weight[k]) % 256)]

Signature(algo, key, over) ==
  [k \in 1..SIGNATURE_LEN[algo] |-> <<"signature", k, algo, key, over>>]

Synchro(algo) ==
  IF algo = "rsa" THEN Bytes(<<89, 69, 83, 87, 69, 67, 65, 78>>)
                  ELSE Bytes(<<72, 73, 83, 87, 69, 68, 71, 68>>)

HEADER_VERSION_LEN == 4
HEADER_LOAD_ADDRESS_LEN == 4
HEADER_BINARY_LEN == 4
HEADER_JUMP_ADDRESS_LEN == 4
HEADER_ARGV_LEN == 4

\* What the memory slots of an rsa header, and the version of an ecdsa one, take.
HEADER_SLOTS_LEN == 28
HEADER_APPLICATION_VERSION_LEN == 4

TailLen(algo) == IF algo = "rsa" THEN HEADER_SLOTS_LEN ELSE HEADER_APPLICATION_VERSION_LEN

FixedLen == 8 + HEADER_VERSION_LEN + HEADER_LOAD_ADDRESS_LEN + HEADER_BINARY_LEN
              + HEADER_JUMP_ADDRESS_LEN + HEADER_ARGV_LEN

header_len(algo) == FixedLen + TailLen(algo)

(* The length in the header is that of the binary alone.                   *)
Header(c, payload_len) ==
  Synchro(c.algo) \o BigEndian(c.version)
    \o Bytes(c.load_address) \o BigEndian(payload_len)
    \o Bytes(c.jump_address) \o BigEndian(Len(c.arguments))
    \o [k \in 1..TailLen(c.algo) |-> Byte(c.slots)]

-----------------------------------------------------------------------------
Exit(s) == pc' = "exited" /\ err' = (s = "failure")

\* load_config, load_args and display_config; a line that is not understood ends the run.
load_config(c) ==
  /\ pc = "idle"
  /\ config' = c
  /\ payload' = <<>>
  /\ \/ pc' = "init" /\ UNCHANGED err
     \/ Exit("failure")
  /\ UNCHANGED <<library, signature, files, signed>>

\* ucl_init and, with an HSM, the connection, the login and the search of the key.
open_connection ==
  /\ pc = "init"
  /\ \/ pc' = "key" /\ UNCHANGED err
     \/ Exit("failure")
  /\ UNCHANGED <<library, config, payload, signature, files, signed>>

\* Only the UCL library needs the key file.
read_key ==
  /\ pc = "key"
  /\ \/ pc' = "read" /\ UNCHANGED err
     \/ library = "UCL" /\ Exit("failure")
  /\ UNCHANGED <<library, config, payload, signature, files, signed>>

\* read_file_size, malloc, read_binary_file.
read_binary_file ==
  /\ pc = "read"
  /\ \/ /\ "ca" \in DOMAIN files
        /\ payload' = files["ca"]
        /\ pc' = "header"
        /\ UNCHANGED err
     \/ Exit("failure") /\ UNCHANGED payload
  /\ UNCHANGED <<library, config, signature, files, signed>>

\* The addresses must be four bytes of hexadecimal digits.
add_header_to_payload ==
  /\ pc = "header"
  /\ IF ~config.header THEN pc' = "sign" /\ UNCHANGED <<payload, err>>
     ELSE IF Len(config.load_address) = HEADER_LOAD_ADDRESS_LEN
             /\ Len(config.jump_address) = HEADER_JUMP_ADDRESS_LEN
     THEN /\ payload' = Header(config, Len(payload)) \o Bytes(config.arguments) \o payload
          /\ pc' = "sign"
          /\ UNCHANGED err
     ELSE Exit("failure") /\ UNCHANGED payload
  /\ UNCHANGED <<library, config, signature, files, signed>>

(* The RSA code is the same for the UCL and SafeNet's libraries, and the   *)
(* key is read for the first only: with SafeNet's it is null.  An ecdsa    *)
(* signature that the UCL library cannot make ends the program by exit(0). *)
Signable == ~(library = "SAFENET_HSM" /\ config.algo = "rsa")

sign_payload ==
  /\ pc = "sign"
  /\ \/ /\ Signable
        /\ signature' = Signature(config.algo, config.key, payload)
        /\ pc' = "write_signature"
        /\ UNCHANGED err
     \/ Exit("failure") /\ UNCHANGED signature
     \/ /\ library = "UCL" /\ config.algo = "ecdsa"
        /\ Exit("success")
        /\ UNCHANGED signature
  /\ UNCHANGED <<library, config, payload, files, signed>>

\* new laid over old, as files are copied over those that a directory holds.
Over(new, old) ==
  [x \in DOMAIN new \cup DOMAIN old |-> IF x \in DOMAIN new THEN new[x] ELSE old[x]]

Stored(name, content) == Over([f \in {name} |-> content], files)

\* What a file holds after content was written to it, and whether that failed.
Write(name, content) ==
  \/ files' = Stored(name, content) /\ err' = FALSE
  \/ files' = files /\ err' = TRUE
  \/ \E n \in Cuts : /\ n < Len(content)
                     /\ files' = Stored(name, SubSeq(content, 1, n))
                     /\ err' = TRUE

\* With signonly the signature is all that is written.
write_signature ==
  /\ pc = "write_signature"
  /\ Write("sig", signature)
  /\ pc' = IF config.signonly THEN "exited" ELSE "write_file"
  /\ UNCHANGED <<library, config, payload, signature, signed>>

(* The result of write_file replaces that of write_signature.              *)
write_file ==
  /\ pc = "write_file"
  /\ Write("sca", payload \o signature)
  /\ signed' = IF err' THEN signed
               ELSE signed \cup {[config |-> config, binary |-> files["ca"],
                                  image |-> payload \o signature]}
  /\ pc' = "exited"
  /\ UNCHANGED <<library, config, payload, signature>>

SignerStep ==
  \/ open_connection \/ read_key \/ read_binary_file \/ add_header_to_payload
  \/ sign_payload \/ write_signature \/ write_file

SignerInit ==
  /\ library \in Libraries
  /\ pc = "idle"
  /\ config = NoConfig
  /\ payload = <<>>
  /\ signature = <<>>
  /\ err = FALSE
  /\ files = << >>
  /\ signed = {}

SignerTypeOK ==
  /\ library \in Libraries
  /\ pc \in {"idle", "init", "key", "read", "header", "sign", "write_signature",
             "write_file", "exited"}
  /\ config \in Configs \cup {NoConfig}
  /\ err \in BOOLEAN
  /\ DOMAIN files \subseteq {"ca", "sca", "sig", "scripts"}
  /\ config # NoConfig /\ config.header /\ pc \in {"sign", "write_signature", "write_file"} =>
       Len(payload) = header_len(config.algo) + Len(config.arguments) + Len(files["ca"])
=============================================================================
