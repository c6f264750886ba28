--------------------------- MODULE ScpConversation ---------------------------
(***************************************************************************)
(* The conversation that a Secure Communication Protocol (SCP) session is: *)
(* what the host and the ROM bootloader ("bl") say to each other, in order,*)
(* with no mention of who produces it.  session_build writes such a        *)
(* conversation to disk, one file per packet, and serial_sender replays it.*)
(*                                                                         *)
(* The protocol is stop-and-wait.  Every data packet, and the connection   *)
(* reply, is acknowledged by the other side before anything else is said,  *)
(* and the acknowledgement carries the sequence number of what it          *)
(* acknowledges.  Only a data packet or a disconnection request takes a    *)
(* new sequence number (modulo 16).  A command and its response carry the  *)
(* same transaction identifier, which is renewed after each response.      *)
(***************************************************************************)
EXTENDS Naturals, Sequences

CONSTANTS
  Cmds,     \* the commands of the bootloader (write_mem, write_crk, ...)
  TR_MOD    \* transaction identifiers are counted modulo TR_MOD (256 on the wire)

VARIABLE
  log       \* the packets said so far, in order

SEQ_MOD == 16          \* "seq & 15": the sequence number is a nibble on the wire

Sides == {"host", "bl"}

Other(side) == IF side = "host" THEN "bl" ELSE "host"

NoCmd == "none"

Names == {"connection_request", "connection_reply", "ack",
          "hello_request", "hello_reply", "challenge", "challenge_response",
          "request", "response",
          "disconnection_request", "disconnection_reply"}

Packets == [from : Sides, name : Names, cmd : Cmds \cup {NoCmd},
            seq : 0..(SEQ_MOD - 1), tr : 0..(TR_MOD - 1)]

Packet(side, name, c, s, t) ==
  [from |-> side, name |-> name, cmd |-> c, seq |-> s, tr |-> t]

NextSeq(s) == (s + 1) % SEQ_MOD
NextTr(t)  == (t + 1) % TR_MOD

-----------------------------------------------------------------------------
LastOf(l) == l[Len(l)]

\* The packets that the other side must acknowledge.
Acknowledged == {"connection_reply", "hello_request", "hello_reply",
                 "challenge", "challenge_response", "request", "response"}

\* The packets after which the host may issue a command or close the session.
Idle == {"hello_reply", "challenge_response", "response"}

\* The conversation l has just acknowledged a packet whose name is in S.
JustAcked(l, S) ==
  /\ Len(l) > 1
  /\ LastOf(l).name = "ack"
  /\ l[Len(l) - 1].name \in S

\* The packet that the last acknowledgement of l acknowledges.
AckedOf(l) == l[Len(l) - 1]

\* The transaction identifier of the next command after l.
TrAfter(l) == IF AckedOf(l).name = "response" THEN NextTr(AckedOf(l).tr) ELSE 0

(* The commands of the requests among the first n packets of l, in order,  *)
(* and those of all of l.                                                  *)
RequestsUpTo(l) ==
  LET f[n \in 0..Len(l)] ==
        IF n = 0 THEN <<>>
        ELSE IF l[n].name = "request" THEN Append(f[n - 1], l[n].cmd) ELSE f[n - 1]
  IN  f

Requested(l) == RequestsUpTo(l)[Len(l)]

\* Whether q may come right after p: whoever acknowledges goes on, and only then.
MayFollow(q, p) ==
  IF p.name = "ack" THEN q.from = p.from /\ q.name # "ack" ELSE q.from = Other(p.from)

(* What a conversation that was closed looks like to who reads its names:  *)
(* it opens with the connection and ends with the disconnection, each      *)
(* request is acknowledged and answered by a response, and a hello is      *)
(* answered by who acknowledged it.                                        *)
Complete(l) ==
  /\ l \in Seq({l[n] : n \in DOMAIN l}) /\ Len(l) > 4
  /\ l[1].name = "connection_request" /\ l[1].from = "host"
  /\ l[2].name = "connection_reply" /\ l[3].name = "ack"
  /\ l[Len(l)].name = "disconnection_reply" /\ l[Len(l)].from = "bl"
  /\ \A n \in 1..Len(l) : l[n].from \in Sides /\ l[n].name \in Names
  /\ \A n \in 1..(Len(l) - 1) : MayFollow(l[n + 1], l[n])
  /\ \A n \in 3..Len(l) :
       /\ l[n].name \notin {"connection_request", "connection_reply"}
       /\ l[n].name = "request" =>
            l[n].from = "host" /\ n + 1 < Len(l) /\ l[n + 1].name = "ack"
       /\ l[n].name = "response" <=> l[n - 2].name = "request"
       /\ l[n].name = "hello_reply" => l[n].from = "bl" /\ l[n - 1].name = "ack"

Say(side, name, c, s, t) == log' = Append(log, Packet(side, name, c, s, t))

-----------------------------------------------------------------------------
Connect ==
  /\ log = <<>>
  /\ \E s \in 0..(SEQ_MOD - 1) : Say("host", "connection_request", NoCmd, s, 0)

Accept ==
  /\ Len(log) > 0
  /\ LastOf(log).name = "connection_request"
  /\ Say("bl", "connection_reply", NoCmd, LastOf(log).seq, 0)

Ack ==
  /\ Len(log) > 0
  /\ LastOf(log).name \in Acknowledged
  /\ Say(Other(LastOf(log).from), "ack", NoCmd, LastOf(log).seq, 0)

\* The only data packet that does not take a new sequence number.
Hello ==
  /\ JustAcked(log, {"connection_reply"})
  /\ Say("host", "hello_request", NoCmd, AckedOf(log).seq, 0)

HelloBack ==
  /\ JustAcked(log, {"hello_request"})
  /\ Say("bl", "hello_reply", NoCmd, NextSeq(AckedOf(log).seq), 0)

Challenge ==
  /\ JustAcked(log, {"hello_reply"})
  /\ Say("host", "challenge", NoCmd, NextSeq(AckedOf(log).seq), 0)

ChallengeResponse ==
  /\ JustAcked(log, {"challenge"})
  /\ Say("bl", "challenge_response", NoCmd, NextSeq(AckedOf(log).seq), 0)

Request ==
  /\ JustAcked(log, Idle)
  /\ \E c \in Cmds :
       Say("host", "request", c, NextSeq(AckedOf(log).seq), TrAfter(log))

Response ==
  /\ JustAcked(log, {"request"})
  /\ Say("bl", "response", AckedOf(log).cmd, NextSeq(AckedOf(log).seq),
         AckedOf(log).tr)

Disconnect ==
  /\ JustAcked(log, Idle)
  /\ Say("host", "disconnection_request", NoCmd, NextSeq(AckedOf(log).seq), 0)

Disconnected ==
  /\ Len(log) > 0
  /\ LastOf(log).name = "disconnection_request"
  /\ Say("bl", "disconnection_reply", NoCmd, LastOf(log).seq, 0)

Init == log = <<>>

Next == \/ Connect \/ Accept \/ Ack
        \/ Hello \/ HelloBack \/ Challenge \/ ChallengeResponse
        \/ Request \/ Response
        \/ Disconnect \/ Disconnected

Spec == Init /\ [][Next]_log
=============================================================================
