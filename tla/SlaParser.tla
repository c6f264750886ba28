------------------------------ MODULE SlaParser -----------------------------
(***************************************************************************)
(* sla_parser: reads the image that ca_sign_build wrote, checks its header *)
(* and its signature, and writes the binary to raw.bin.                    *)
(***************************************************************************)
EXTENDS CaSign

CONSTANT
  Keys     \* the keys that an image may be signed with

VARIABLE
  parsed   \* what the last run of the parser read and found

NotParsed == [done |-> FALSE]

(* What the parser reads behind the end of a short file is not a signature *)
(* of anything.  Its value, 0 here, matters to nothing else: if a length is*)
(* read from there, there is no signature behind it.                       *)
Behind == <<"behind", 0>>

Field(image, offset, len) ==
  [k \in 1..len |-> IF offset + k <= Len(image) THEN image[offset + k] ELSE Behind]

\* Four bytes, each added to the ones before shifted by 8; of a byte of a signature,
\* some value.
Number(cells) ==
  LET byte(k) == cells[k][2]
  IN  ((byte(1) * 256 + byte(2)) * 256 + byte(3)) * 256 + byte(4)

LengthOffset == 8 + HEADER_VERSION_LEN + HEADER_LOAD_ADDRESS_LEN

binary_len(image) == Number(Field(image, LengthOffset, HEADER_BINARY_LEN))

\* The first eight bytes are all that is looked at before the signature.
Synchronised(image, algo) == Field(image, 0, 8) = Synchro(algo)

MutAnySignature(image, algo, key) == Synchronised(image, algo)

MutBinaryOnly(image, algo, key) ==
  /\ Synchronised(image, algo)
  /\ LET len == header_len(algo) + binary_len(image)
     IN  Field(image, len, SIGNATURE_LEN[algo])
           = Signature(algo, key, Field(image, header_len(algo), binary_len(image)))

(* The signature is looked for behind the header and the binary, as if     *)
(* there were no arguments, and must be that of all that precedes it.      *)
Accepted(image, algo, key) ==
  /\ Synchronised(image, algo)
  /\ LET len == header_len(algo) + binary_len(image)
     IN  Field(image, len, SIGNATURE_LEN[algo]) = Signature(algo, key, Field(image, 0, len))

(* raw.bin is cut out behind a header of the length of an rsa header,      *)
(* whatever the algorithm, and before the signature is checked.            *)
raw_bin(image) == Field(image, header_len("rsa"), binary_len(image))

\* An image is looked at between two runs of the signer.
parse ==
  /\ pc = "idle"
  /\ "sca" \in DOMAIN files
  /\ \E algo \in {"rsa", "ecdsa"}, key \in Keys :
       LET image == files["sca"]
       IN  parsed' = [done |-> TRUE, algo |-> algo, key |-> key, image |-> image,
                      accepted |-> Accepted(image, algo, key),
                      raw |-> IF Synchronised(image, algo) THEN raw_bin(image) ELSE <<>>]
  /\ UNCHANGED signer_vars

-----------------------------------------------------------------------------
(* Whatever write failed, and whatever an earlier run left in its place,   *)
(* an image that the parser accepts was written whole by one run of the    *)
(* signer, with that algorithm and that key; and raw.bin of an rsa image   *)
(* that the signer put a header before is its binary.                      *)
AcceptedIsSigned ==
  parsed.done /\ parsed.accepted =>
    \E s \in signed : /\ s.image = parsed.image
                      /\ s.config.algo = parsed.algo
                      /\ s.config.key = parsed.key
                      /\ parsed.algo = "rsa" /\ s.config.header => parsed.raw = s.binary

(* An image written whole with a header and without arguments is accepted  *)
(* by the parser that is given its algorithm and its key: the two programs *)
(* agree on the place, the width and the order of the bytes of every field *)
(* that leads to the signature.                                            *)
SignedIsAccepted ==
  parsed.done =>
    \A s \in signed :
      /\ s.image = parsed.image
      /\ s.config.header /\ s.config.arguments = <<>>
      /\ s.config.algo = parsed.algo /\ s.config.key = parsed.key
      => parsed.accepted
=============================================================================
