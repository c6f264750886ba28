------------------------------ MODULE MCSendScp ------------------------------
(***************************************************************************)
(* An instance of SendScp: the session that loads a key after a write.     *)
(***************************************************************************)
EXTENDS SendScp, MCSerialSender

KeySession == {SessionOf(<<"write_mem", "write_crk">>)}

NoCommandLine == {[first_retry_nb |-> 0, warningRestrictedData |-> FALSE]}
=============================================================================
