----------------------------- MODULE SerialSender -----------------------------
(***************************************************************************)
(* serial_sender.py: one run of the program that replays the packets of a  *)
(* session, listed in packet.list, against the bootloader of module ScpLink*)
(* The packets whose file name says "host" are written to the port.  Those *)
(* that say "bl" are read from it and compared with the file.  The list    *)
(* names the first packets of the session, all of them unless a part of the*)
(* files is missing; a gap anywhere else stops at the first packet that the*)
(* bootloader does not expect.                                             *)
(*                                                                         *)
(* A read returns the next packet or times out when nothing arrives: after *)
(* 0.2 s for the connection reply, after 5 s for any other packet.  Time is*)
(* not modelled: a read that finds the input buffer empty may always time  *)
(* out, whatever is on its way.                                            *)
(***************************************************************************)
EXTENDS ScpLink, Integers

CONSTANTS
  Sessions,           \* the conversations that may be in packet.list
  CommandLines,       \* the options that a run may be started with
  PORT_RESULTS        \* outcomes of getting the port, of those in open_port

Options == [first_retry_nb : Nat, warningRestrictedData : BOOLEAN]

\* The packets are those of a session that session_build wrote to its end.
ASSUME SessionsAssumption ==
  /\ \A s \in Sessions : Conv!Complete(s)
  /\ CommandLines \subseteq Options

ASSUME PortAssumption == PORT_RESULTS \subseteq {"opened", "undetected", "unavailable"}

VARIABLES
  options,            \* the command line: first_retry_nb (-f), warningRestrictedData (-w)
  listed,             \* how many packets of the session packet.list names
  pc,                 \* where the program is
  attempt,            \* connection requests sent
  pos,                \* the packet of the list being processed
  return_code         \* exit status

run_vars == <<options, listed>>
sender_vars == <<run_vars, pc, attempt, pos, return_code>>
vars == <<session, link_vars, sender_vars>>

\* sys.exit(-1) and sys.exit(-2) as the shell sees them.
FAILED == 255
NOT_CONNECTED == 254
RESTRICTED == 1
RETURN_CODES == {0, RESTRICTED, NOT_CONNECTED, FAILED}

PCS == {"not_started", "open_port", "parse", "first_try", "con_reply", "packets", "exited"}

\* packet_list[3:-2], counted from 1.
Middle == 4..(listed - 2)

Exit(code) == pc' = "exited" /\ return_code' = code

-----------------------------------------------------------------------------
(* With --auto-usb-detect the port is that of the first device that udev   *)
(* announces, or none.  The port is opened before the try statement: an    *)
(* exception there ends the interpreter with status 1, which is also the   *)
(* code of RuntimeError.                                                   *)
open_port ==
  /\ pc = "open_port"
  /\ \/ /\ "opened" \in PORT_RESULTS
        /\ pc' = "parse"
        /\ UNCHANGED return_code
     \/ /\ "undetected" \in PORT_RESULTS
        /\ Exit(FAILED)
     \/ /\ "unavailable" \in PORT_RESULTS
        /\ Exit(1)
  /\ UNCHANGED <<session, link_vars, run_vars, attempt, pos>>

\* A list with a bad name, a packet that cannot be read, and a list too short for
\* the three packets that are taken first, are an Exception.
parse_scpcmd_file ==
  /\ pc = "parse"
  /\ \/ listed > 2 /\ pc' = "first_try" /\ UNCHANGED return_code
     \/ Exit(FAILED)
  /\ UNCHANGED <<session, link_vars, run_vars, attempt, pos>>

(* The progress bar around the connection loop counts up to                *)
(* first_retry_nb - 1.  Its update raises a ValueError when the iteration  *)
(* numbered first_retry_nb begins, so that no request is sent in that one. *)
MutOneTryMore == attempt > options.first_retry_nb

OutOfRange == attempt + 1 > options.first_retry_nb - 1

connection_request ==
  /\ pc = "first_try"
  /\ ~OutOfRange
  /\ attempt' = attempt + 1
  /\ to_bl' = Append(to_bl, session[1])
  /\ pc' = "con_reply"
  /\ UNCHANGED <<session, bl_out, to_host, bl_pos, executed, loaded, refused, lost,
                 run_vars, pos, return_code>>

connection_failed ==
  /\ pc = "first_try"
  /\ OutOfRange
  /\ Exit(NOT_CONNECTED)
  /\ UNCHANGED <<session, link_vars, run_vars, attempt, pos>>

-----------------------------------------------------------------------------
(* readPacket takes the packet at the head of the input buffer.  It takes  *)
(* Junk for a header and swallows what the length it finds there says.     *)
readPacket ==
  /\ \/ to_host' = Tail(to_host)
     \/ Head(to_host) = Junk /\ \E n \in 1..Len(to_host) :
                                  to_host' = SubSeq(to_host, n + 1, Len(to_host))
  /\ UNCHANGED bl_out

MutNoTimeout == FALSE /\ UNCHANGED <<to_host, bl_out>>

\* Nothing arrives, or a packet is cut by the timeout and its end arrives later.
ReadTimeout ==
  /\ to_host = <<>>
  /\ UNCHANGED to_host
  /\ \/ UNCHANGED bl_out
     \/ bl_out # <<>> /\ bl_out' = <<Junk>> \o Tail(bl_out)

MutAnyAnswer(p, expected) == TRUE

(* check() compares the packet with the file, except for hello_reply, of   *)
(* which it reads the fields that it prints.  An acknowledgement has no    *)
(* data to read them from, and other data may not be what it can parse.    *)
Accepts(p, expected) ==
  IF expected.name = "hello_reply" THEN p.name # "ack" ELSE p = expected

Rejects(p, expected) == p # expected \/ expected.name = "hello_reply"

Received(expected) ==
  to_host # <<>> /\ Accepts(Head(to_host), expected) /\ readPacket

ReceiveFails(expected) ==
  \/ ReadTimeout
  \/ to_host # <<>> /\ Rejects(Head(to_host), expected) /\ readPacket

connection_reply ==
  /\ pc = "con_reply"
  /\ \/ /\ Received(session[2])
        /\ pc' = "packets"
        /\ pos' = 3
     \/ /\ ReceiveFails(session[2])
        /\ pc' = "first_try"
        /\ UNCHANGED pos
  /\ UNCHANGED <<session, to_bl, bl_pos, executed, loaded, refused, lost,
                 run_vars, attempt, return_code>>

-----------------------------------------------------------------------------
\* Lists with packets in the middle, between the first three and the last two.
HasMiddle == listed > 5

(* Between the acknowledgement of the reply and the packets in the middle, *)
(* a second progress bar cannot be drawn for no packet (ZeroDivisionError) *)
(* nor made for less (ValueError).                                         *)
short_list ==
  /\ pc = "packets"
  /\ pos = 4
  /\ ~HasMiddle
  /\ Exit(IF listed = 5 THEN FAILED ELSE NOT_CONNECTED)
  /\ UNCHANGED <<session, link_vars, run_vars, attempt, pos>>

\* The acknowledgement of the reply, the packets in the middle, then the last two.
InList == pc = "packets" /\ pos <= listed /\ (pos = 3 \/ HasMiddle)

send ==
  /\ InList
  /\ session[pos].from = "host"
  /\ to_bl' = Append(to_bl, session[pos])
  /\ pos' = pos + 1
  /\ UNCHANGED <<session, bl_out, to_host, bl_pos, executed, loaded, refused, lost,
                 run_vars, pc, attempt, return_code>>

receive ==
  /\ InList
  /\ session[pos].from = "bl"
  /\ Received(session[pos])
  /\ pos' = pos + 1
  /\ UNCHANGED <<session, to_bl, bl_pos, executed, loaded, refused, lost,
                 run_vars, pc, attempt, return_code>>

MutSkipPacket == pos' = pos + 1 /\ UNCHANGED <<pc, return_code>>

MutFailureIsZero == Exit(0) /\ UNCHANGED pos

MutNeverRestricted == Exit(FAILED) /\ UNCHANGED pos

\* With -w, whatever fails in the middle is reported as RestrictedProcessing.
OnFailure ==
  /\ Exit(IF options.warningRestrictedData /\ pos \in Middle THEN RESTRICTED ELSE FAILED)
  /\ UNCHANGED pos

receive_failed ==
  /\ InList
  /\ session[pos].from = "bl"
  /\ ReceiveFails(session[pos])
  /\ OnFailure
  /\ UNCHANGED <<session, to_bl, bl_pos, executed, loaded, refused, lost, run_vars, attempt>>

disconnected ==
  /\ pc = "packets"
  /\ HasMiddle
  /\ pos = listed + 1
  /\ Exit(0)
  /\ UNCHANGED <<session, link_vars, run_vars, attempt, pos>>

-----------------------------------------------------------------------------
\* A run is started, on a chip that has been reset, to replay the first n packets of s.
start(s, n, opts) ==
  /\ NewSession(s)
  /\ options' = opts
  /\ listed' = n
  /\ pc' = "open_port"
  /\ attempt' = 0
  /\ pos' = 1
  /\ return_code' = 0

SenderInit(s, opts) ==
  /\ LinkInit(s)
  /\ options = opts
  /\ listed = Len(s)
  /\ attempt = 0
  /\ pos = 1
  /\ return_code = 0

SenderStep ==
  \/ open_port \/ parse_scpcmd_file
  \/ connection_request \/ connection_failed \/ connection_reply
  \/ short_list \/ send \/ receive \/ receive_failed \/ disconnected

Running == pc \notin {"not_started", "exited"}

\* A step of a run or of what is outside the program.
RunStep == SenderStep \/ (LinkStep /\ UNCHANGED sender_vars)

\* One run.
RunInit ==
  /\ pc = "open_port"
  /\ \E s \in Sessions, opts \in CommandLines : SenderInit(s, opts)

-----------------------------------------------------------------------------
\* The state of the program, and of the link to the bootloader, is well formed.
TypeOK ==
  /\ pc \in PCS
  /\ attempt \in 0..options.first_retry_nb
  /\ listed \in 0..Len(session)
  /\ pos \in 1..(listed + 1)
  /\ return_code \in RETURN_CODES
  /\ bl_pos \in 0..Len(session)
  /\ loaded \subseteq OneTime
  /\ lost \in 0..MaxLost

\* The responses among the packets already processed.
Confirmed == Cardinality({k \in 1..(pos - 1) : session[k].name = "response"})

(* The sender is never more than one command ahead of what it has seen     *)
(* confirmed, so that a run that fails leaves at most one command of which *)
(* it does not know whether it was executed.                               *)
LockStep == Len(executed) \in {Confirmed, Confirmed + 1}

(* serial_sender keeps the promise of module ScpReplay: status 0 only for a*)
(* session whose commands were all executed, once and in order.            *)
Replay == INSTANCE ScpReplay WITH
  wanted <- Conv!Requested(session),
  outcome <- IF pc # "exited" THEN "none"
             ELSE IF return_code = 0 THEN "success" ELSE "failure"

IsReplay == Replay!Spec

(* Whatever the bootloader and the line do, or do not do, the program ends:*)
(* its reads time out and it sends a bounded number of connection requests.*)
Termination == <>(pc = "exited")
=============================================================================
