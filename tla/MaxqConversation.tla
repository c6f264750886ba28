-------------------------- MODULE MaxqConversation --------------------------
(***************************************************************************)
(* The conversation of the Maxim Secure Protocol of the MAXQ1852: the host *)
(* asks, the chip answers, and nothing else.  There is no connection, no   *)
(* acknowledgement and no end of session.  Requests are numbered from 1,   *)
(* modulo SEQ_MOD; an answer has no number.                                *)
(***************************************************************************)
EXTENDS Naturals, Sequences

CONSTANTS
  Cmds,     \* the commands of the chip
  SEQ_MOD   \* 65536: the sequence number has two bytes

VARIABLE log     \* who spoke, about which command, under which number

NoSeq == 0

Message(side, c, s) == [from |-> side, cmd |-> c, seq |-> s]

\* The chip owes an answer to the last request.
Pending == log # <<>> /\ log[Len(log)].from = "host"

\* Before an answer comes its request: the next one has the number after that.
NextNumber == IF log = <<>> THEN 1 ELSE (log[Len(log) - 1].seq + 1) % SEQ_MOD

Ask(c) ==
  /\ ~Pending
  /\ log' = Append(log, Message("host", c, NextNumber))

Answer ==
  /\ Pending
  /\ log' = Append(log, Message("usip", log[Len(log)].cmd, NoSeq))

Next == Answer \/ \E c \in Cmds : Ask(c)

Spec == log = <<>> /\ [][Next]_log
=============================================================================
