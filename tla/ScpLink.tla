------------------------------- MODULE ScpLink -------------------------------
(***************************************************************************)
(* The other side of serial_sender: the ROM bootloader of the chip and the *)
(* serial line, neither of which is in this repository.  Both are modelled *)
(* from what the session generator expects of them and from what the       *)
(* sender is prepared for.                                                 *)
(*                                                                         *)
(* The bootloader follows the conversation of module ScpConversation: it   *)
(* answers the packet that comes next with what the conversation has it    *)
(* say, and ignores any other.  It answers a repeated connection request   *)
(* as long as it is not connected.  A command of OneTime, which writes a   *)
(* key or a one-time-programmable setting, is refused once it is loaded.   *)
(*                                                                         *)
(* The line is first-in first-out in both directions.  An answer stays in  *)
(* bl_out as long as it has not reached the input buffer of the host.  At  *)
(* most MaxLost packets are lost or damaged.  The bootloader ignores a     *)
(* damaged packet, and the host reads it as Junk.                          *)
(***************************************************************************)
EXTENDS Naturals, Sequences, FiniteSets, SequencesExt

CONSTANTS
  OneTime,        \* the commands that the bootloader executes only once
  MaxLost         \* bound: packets that the line loses or damages

ASSUME LinkAssumption == MaxLost \in Nat

VARIABLES
  session,        \* the conversation being replayed: packets of packet.list
  to_bl,          \* what the host sent and the bootloader has not received
  bl_out,         \* what the bootloader said and the host has not received
  to_host,        \* the input buffer of the serial port
  bl_pos,         \* how far the bootloader is in the conversation
  executed,       \* the commands executed in this session
  loaded,         \* the commands of OneTime executed since the chip was made
  refused,        \* the bootloader refused a command in this session
  lost            \* packets lost or damaged so far

link_vars == <<to_bl, bl_out, to_host, bl_pos, executed, loaded, refused, lost>>

Conv == INSTANCE ScpConversation WITH
  Cmds <- {}, TR_MOD <- 256, log <- session

\* A damaged packet, or what a read that starts in the middle of a packet finds.
Junk  == Conv!Packet("bl", "junk", "none", 0, 0)
\* The answer of the bootloader to a command it refuses.
Error == Conv!Packet("bl", "error", "none", 0, 0)

-----------------------------------------------------------------------------
(* The bootloader.                                                         *)

Listening == bl_pos \in {0, 2}

\* The packets that the conversation has the bootloader say after its first n.
AnswersAfter(n) ==
  LET silent(m) == m = Len(session) \/ session[m + 1].from = "host"
      last == CHOOSE m \in n..Len(session) :
                silent(m) /\ \A k \in n..(m - 1) : ~silent(k)
  IN  SubSeq(session, n + 1, last)

BlConnect ==
  /\ Listening
  /\ Head(to_bl) = session[1]
  /\ bl_out' = Append(bl_out, session[2])
  /\ bl_pos' = 2
  /\ UNCHANGED <<executed, loaded, refused>>

Expected == bl_pos \in 2..(Len(session) - 1) /\ Head(to_bl) = session[bl_pos + 1]

IsRefused(p) == p.name = "request" /\ p.cmd \in OneTime \cap loaded

BlFollow ==
  /\ Expected
  /\ ~IsRefused(Head(to_bl))
  /\ bl_out' = bl_out \o AnswersAfter(bl_pos + 1)
  /\ bl_pos' = bl_pos + 1 + Len(AnswersAfter(bl_pos + 1))
  /\ IF Head(to_bl).name = "request"
       THEN /\ executed' = Append(executed, Head(to_bl).cmd)
            /\ loaded' = loaded \cup ({Head(to_bl).cmd} \cap OneTime)
       ELSE UNCHANGED <<executed, loaded>>
  /\ UNCHANGED refused

\* The command is acknowledged; its response is an error, and the session is over.
BlRefuse ==
  /\ Expected
  /\ IsRefused(Head(to_bl))
  /\ bl_out' = bl_out \o <<session[bl_pos + 2], Error>>
  /\ bl_pos' = Len(session)
  /\ refused' = TRUE
  /\ UNCHANGED <<executed, loaded>>

BlIgnore ==
  /\ ~(Listening /\ Head(to_bl) = session[1])
  /\ ~Expected
  /\ UNCHANGED <<bl_out, bl_pos, executed, loaded, refused>>

BlReceive ==
  /\ to_bl # <<>>
  /\ to_bl' = Tail(to_bl)
  /\ BlConnect \/ BlFollow \/ BlRefuse \/ BlIgnore
  /\ UNCHANGED <<session, to_host, lost>>

-----------------------------------------------------------------------------
(* The line.                                                               *)

Deliver ==
  /\ bl_out # <<>>
  /\ to_host' = Append(to_host, Head(bl_out))
  /\ bl_out' = Tail(bl_out)
  /\ UNCHANGED <<session, to_bl, bl_pos, executed, loaded, refused, lost>>

Lose ==
  /\ lost < MaxLost
  /\ lost' = lost + 1
  /\ \/ to_bl # <<>> /\ to_bl' = Tail(to_bl) /\ UNCHANGED bl_out
     \/ bl_out # <<>> /\ bl_out' = Tail(bl_out) /\ UNCHANGED to_bl
     \/ bl_out # <<>> /\ bl_out' = <<Junk>> \o Tail(bl_out) /\ UNCHANGED to_bl
  /\ UNCHANGED <<session, to_host, bl_pos, executed, loaded, refused>>

LinkStep == BlReceive \/ Deliver \/ Lose

\* The chip is reset and the port opened, which empties its buffers, to replay s.
NewSession(s) ==
  /\ session' = s
  /\ to_bl' = <<>>
  /\ bl_out' = <<>>
  /\ to_host' = <<>>
  /\ bl_pos' = 0
  /\ executed' = <<>>
  /\ refused' = FALSE
  /\ UNCHANGED <<loaded, lost>>

LinkInit(s) ==
  /\ session = s
  /\ to_bl = <<>>
  /\ bl_out = <<>>
  /\ to_host = <<>>
  /\ bl_pos = 0
  /\ executed = <<>>
  /\ loaded \in SUBSET OneTime
  /\ refused = FALSE
  /\ lost = 0
=============================================================================
