---------------------------- MODULE MCSerialSender ----------------------------
(***************************************************************************)
(* Instances of SerialSender: the sessions that session_build writes in    *)
(* mode SCP_RSA for a script of no, one or two commands.                   *)
(***************************************************************************)
EXTENDS SerialSender

Opening == <<
  Conv!Packet("host", "connection_request", "none", 0, 0),
  Conv!Packet("bl", "connection_reply", "none", 0, 0),
  Conv!Packet("host", "ack", "none", 0, 0),
  Conv!Packet("host", "hello_request", "none", 0, 0),
  Conv!Packet("bl", "ack", "none", 0, 0),
  Conv!Packet("bl", "hello_reply", "none", 1, 0),
  Conv!Packet("host", "ack", "none", 1, 0) >>

\* The n-th command of a script.
Exchange(c, n) == <<
  Conv!Packet("host", "request", c, 2 * n, n - 1),
  Conv!Packet("bl", "ack", "none", 2 * n, 0),
  Conv!Packet("bl", "response", c, 2 * n + 1, n - 1),
  Conv!Packet("host", "ack", "none", 2 * n + 1, 0) >>

Closing(n) == <<
  Conv!Packet("host", "disconnection_request", "none", 2 * n + 2, 0),
  Conv!Packet("bl", "disconnection_reply", "none", 2 * n + 2, 0) >>

SessionOf(script) ==
  Opening \o FlattenSeq([n \in 1..Len(script) |-> Exchange(script[n], n)])
          \o Closing(Len(script))

MCSessions == {SessionOf(<<>>), SessionOf(<<"write_crk">>),
               SessionOf(<<"write_mem", "write_crk">>)}

MCCommandLines == [first_retry_nb : {1, 4}, warningRestrictedData : BOOLEAN]
=============================================================================
