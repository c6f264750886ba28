---------------------------- MODULE MCScpSession ----------------------------
(* Instances of ScpSession for TLC.  Transaction identifiers are counted   *)
(* modulo 3 so that they wrap; the sequence number wraps at 16 as in the   *)
(* code, which takes eight exchanges.                                      *)
EXTENDS ScpSession

MCModes == {"SCP_OFF_AES", "SCP_FLORA_AES", "SCP_ANGELA_ECDSA"}
MCCmds  == {"write_blpk", "write_crk"}
=============================================================================
