------------------------------ MODULE ScpPayload ------------------------------
(***************************************************************************)
(* The payloads of session_build: what each command announces as its       *)
(* length, how many bytes follow, and what protecting the payload makes of *)
(* them.  The bytes are left out.  A payload starts with a header of four  *)
(* bytes; the last two are its length.  A data command repeats the length  *)
(* of its data after its own two bytes.                                    *)
(***************************************************************************)
EXTENDS Integers, Sequences

PayloadHeader           == 4
CommandId               == 2
USN_LEN                 == 16
RSA_MODULUS_LEN         == 256
RSA_PUBLIC_EXPONENT_LEN == 4
ECDSA_MODULUS_LEN       == 32
UCL_AES_BLOCKSIZE       == 16

\* The lengths announced, outermost first, and the bytes after the header.
Body(lengths, size) == [lengths |-> lengths, size |-> size]

NoBody == Body(<<>>, 0)

-----------------------------------------------------------------------------
(* The opening.                                                            *)

RandomLen    == 16
HelloVersion == 8        \* version numbers, annex and configuration

hello_request_payload(mode) ==
  IF mode = "SBL" THEN Body(<<8>>, 8)         \* HELLO_REQ_CONST_LEN
                  ELSE Body(<<10>>, 9 + 1)    \* HELLO_SCP_REQ_CONST_LEN, admin mode

\* Only the last branch fills the serial number up to 16 bytes.
hello_reply_payload(mode, usn_len) ==
  CASE mode = "SBL" -> Body(<<46>>, 7 + 7 + usn_len + RandomLen)
    [] mode \in {"SCP_ON_AES", "SCP_FLORA_AES"} ->
         Body(<<50>>, 10 + HelloVersion + usn_len + RandomLen)
    [] OTHER ->
         LET filled == IF usn_len < USN_LEN THEN USN_LEN ELSE usn_len
         IN  Body(<<50>>, 10 + HelloVersion + filled + RandomLen)

challenge_payload          == Body(<<16>>, UCL_AES_BLOCKSIZE)
challenge_response_payload == Body(<<0>>, 0)

-----------------------------------------------------------------------------
(* The requests.  n is the number of bytes of the last parameter.          *)

read_configuration_payload == Body(<<2>>, CommandId)
mem_mapping_payload        == Body(<<2>>, CommandId)
kill_chip_payload          == Body(<<2>>, CommandId)
del_mem_payload            == Body(<<10>>, CommandId + 4 + 4)
write_bpk_blpk_payload     == Body(<<18>>, CommandId + UCL_AES_BLOCKSIZE)
write_bpk_fak_payload      == Body(<<18>>, CommandId + UCL_AES_BLOCKSIZE)
write_timeout_payload      == Body(<<2 + 1 + 2>>, CommandId + 1 + 2)

\* The outer length is one byte, the inner one, of offset and data, two.
write_bpk_payload(n) == Body(<<(2 + 2 + 2 + n) % 256, 2 + n>>, CommandId + 2 + 2 + n)
write_otp_payload(n) == Body(<<(2 + 2 + 2 + n) % 256, 2 + n>>, CommandId + 2 + 2 + n)

MutAddressOnly(n) == Body(<<n>>, CommandId + n)

execute_code_payload(n) == Body(<<n + 2>>, CommandId + n)

write_crk_payload_rsa ==
  Body(<<2 + 2 + 256 + 4 + 256, RSA_MODULUS_LEN * 2 + RSA_PUBLIC_EXPONENT_LEN>>,
       CommandId + 2 + RSA_MODULUS_LEN + RSA_PUBLIC_EXPONENT_LEN + RSA_MODULUS_LEN)

write_crk_payload_ecdsa ==
  Body(<<2 + 2 + ECDSA_MODULUS_LEN * 4, ECDSA_MODULUS_LEN * 4>>,
       CommandId + 2 + 4 * ECDSA_MODULUS_LEN)

rewrite_crk_payload_ecdsa ==
  Body(<<2 + 2 + 6 * ECDSA_MODULUS_LEN, 6 * ECDSA_MODULUS_LEN>>,
       CommandId + 2 + 6 * ECDSA_MODULUS_LEN)

\* The data themselves may be long: their length takes both bytes.
write_mem_payload(n)   == Body(<<(2 + 4 + 4 + n) % 65536>>, CommandId + 4 + 4 + n)
verify_data_payload(n) == Body(<<(2 + 4 + 4 + n) % 65536>>, CommandId + 4 + 4 + n)

\* The payload of a script command; the packets of a file command are module
\* ScpWriteFile's, and two commands send nothing.
Request(c, n, mode) ==
  CASE c = "read-configuration"       -> read_configuration_payload
    [] c = "read-memory-mapping"      -> mem_mapping_payload
    [] c = "kill-chip"                -> kill_chip_payload
    [] c = "erase-data"               -> del_mem_payload
    [] c = "write-blpk"               -> write_bpk_blpk_payload
    [] c = "write-fak"                -> write_bpk_fak_payload
    [] c = "write-timeout"            -> write_timeout_payload
    [] c = "write-bpk"                -> write_bpk_payload(n)
    [] c = "write-otp"                -> write_otp_payload(n)
    [] c = "execute-code"             -> execute_code_payload(n)
    [] c = "renew-crk"                -> rewrite_crk_payload_ecdsa
    [] c = "write-crk"                -> IF mode = "SCP_ANGELA_ECDSA"
                                           THEN write_crk_payload_ecdsa
                                           ELSE write_crk_payload_rsa
    [] OTHER                          -> NoBody

generic_response_payload == Body(<<4>>, 4)

-----------------------------------------------------------------------------
(* Protection.  The mode chooses it, and the profile only encryption.      *)

SignatureLen(mode) ==
  CASE mode \in {"SCP_RSA", "SCP_FLORA_RSA"} -> RSA_MODULUS_LEN
    [] mode = "SCP_ANGELA_ECDSA"             -> 2 * ECDSA_MODULUS_LEN
    [] OTHER                                 -> UCL_AES_BLOCKSIZE

Encrypts(mode, pp) ==
  mode \notin {"SCP_RSA", "SCP_FLORA_RSA", "SCP_ANGELA_ECDSA"} /\ pp = "E_CMAC"

\* The size rounded up to blocks is that of the payload without its header, but the
\* blocks are taken from the start of the payload: its last four bytes are lost.
padding(ipayload) ==
  LET blocks == (ipayload - PayloadHeader + UCL_AES_BLOCKSIZE - 1) \div UCL_AES_BLOCKSIZE
  IN  blocks * UCL_AES_BLOCKSIZE

\* ipayload once the payload is encrypted, if it is, and signed.
Protected(body, mode, pp) ==
  LET plain == PayloadHeader + body.size
  IN  (IF Encrypts(mode, pp) THEN padding(plain) ELSE plain) + SignatureLen(mode)

-----------------------------------------------------------------------------
(* What the receiver of a payload relies on.                               *)

\* Each length announces everything that follows it.
Announced(body) ==
  \A k \in DOMAIN body.lengths : body.lengths[k] = body.size - 4 * (k - 1)
=============================================================================
