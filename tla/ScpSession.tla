----------------------------- MODULE ScpSession -----------------------------
(***************************************************************************)
(* The session generator: process_script of session_build.c and the        *)
(* functions it calls.  It reads a script of commands and writes, as one   *)
(* file per packet, the whole conversation that serial_sender will replay: *)
(* what the host sends and what the bootloader is expected to answer.      *)
(*                                                                         *)
(* There is one action per packet-emitting call of process_script.  The    *)
(* bytes of a packet are abstracted to its name, its command, its sender,  *)
(* its sequence number and its transaction identifier; the script to the   *)
(* kinds of its lines, chosen as they are read; a file to the number of    *)
(* write-data packets it needs (module ScpWriteFile computes them).        *)
(***************************************************************************)
EXTENDS Naturals, Integers, Sequences, FiniteSets

CONSTANTS
  MODES,          \* the values that "session_mode=" may give session_mode
  SimpleCmds,     \* the commands whose script line is one exchange
  FAILURES,       \* what may go wrong: "signature", "extension" of a write-file
  MXIM_HSM,       \* the program is built with _MXIM_HSM
  TR_MOD,         \* 256 in the code
  MaxLines,       \* bound: lines of the script
  MaxChunks,      \* bound: write-data packets that a file needs
  MaxLost         \* bound: packet files that cannot be created

VARIABLES
  session_mode, \* the mode, which the configuration or the command line chose
  pc,           \* the next call of process_script
  who,          \* the sender that host() or usip() set last
  seq,          \* the sequence number, reduced only when it is written
  tr_id,        \* the transaction identifier
  cmd,          \* the command being exchanged
  chunks,       \* write-data or compare-data exchanges the line still needs
  nlines,       \* lines of the script read so far
  wanted,       \* the commands that those lines ask for, in order
  packets,      \* every packet emitted; its index is "compteur"
  files,        \* the values of compteur whose packet file was created
  status,       \* "running", or how the process exited
  packet_list   \* the numbers of the packets that packet.list names

vars == <<session_mode, pc, who, seq, tr_id, cmd, chunks, nlines, wanted, packets,
          files, status, packet_list>>

FileCmds == {"del_mem", "write_mem", "verify_data"}
Cmds     == SimpleCmds \cup FileCmds

Conv == INSTANCE ScpConversation WITH log <- packets

Modes == {"SBL", "SCP_ON_AES", "SCP_OFF_AES", "SCP_RSA",
          "SCP_FLORA_RSA", "SCP_FLORA_AES", "SCP_ANGELA_ECDSA"}

ASSUME SessionAssumption ==
  /\ MODES \subseteq Modes
  /\ FAILURES \subseteq {"signature", "extension"}
  /\ MXIM_HSM \in BOOLEAN
  /\ TR_MOD \in Nat \ {0}
  /\ MaxLines \in Nat
  /\ MaxChunks \in Nat
  /\ MaxLost \in Nat
  /\ SimpleCmds \cap (FileCmds \cup {"none"}) = {}

Unreadable == -1         \* the chunks of a file that cannot be read

-----------------------------------------------------------------------------
(* Which modes accept a command: each command function returns             *)
(* EXIT_FAILURE, before it touches seq, in the modes that do not have it.  *)

OldScp   == {"SCP_ON_AES", "SCP_OFF_AES", "SCP_RSA"}
FloraScp == {"SCP_FLORA_RSA", "SCP_FLORA_AES", "SCP_ANGELA_ECDSA"}

write_otp_modes     == FloraScp
rewrite_crk_modes   == {"SCP_ANGELA_ECDSA"}
write_bpk_fak_modes == OldScp
del_mem_modes       == Modes \ {"SBL"}

Supported(c) ==
  CASE c \in {"write_timeout", "kill_chip", "write_bpk", "execute_code",
              "write_otp", "write_crk"}          -> session_mode \in write_otp_modes
    [] c = "rewrite_crk"                         -> session_mode \in rewrite_crk_modes
    [] c \in {"write_blpk", "write_fak",
              "read_configuration",
              "mem_mapping"}                     -> session_mode \in write_bpk_fak_modes
    [] OTHER                                     -> session_mode \in del_mem_modes

\* What a request is signed with; the other modes compute a CMAC, which cannot fail.
RsaModes   == {"SCP_RSA", "SCP_FLORA_RSA"}
EcdsaModes == {"SCP_ANGELA_ECDSA"}

AesMode == session_mode \in {"SCP_ON_AES", "SCP_FLORA_AES"}

-----------------------------------------------------------------------------
(* Emission.                                                               *)

Goto(from, to) == pc = from /\ pc' = to

Exit(code) == status' = code /\ pc' = "exited"

\* compteur++, display_frame(), display_bin(): the return value of display_bin,
\* which says whether the file was created, is ignored.
maxim_send(side, name, c, s, t) ==
  /\ packets' = Append(packets, Conv!Packet(side, name, c, s % 16, t))
  /\ \/ files' = files \cup {Len(packets) + 1}
     \/ /\ Len(packets) - Cardinality(files) < MaxLost
        /\ files' = files

\* who' = side stands for the call of host() or usip() before the emission.
Say(side, name) ==
  /\ who' = side
  /\ seq' = seq
  /\ maxim_send(side, name, "none", seq, 0)
  /\ UNCHANGED <<session_mode, tr_id, cmd, chunks, nlines, wanted, status, packet_list>>

\* The same, where the code emits on behalf of whoever spoke last.
SayNext(name) ==
  /\ who' = who
  /\ seq' = seq + 1
  /\ maxim_send(who, name, "none", seq + 1, 0)
  /\ UNCHANGED <<session_mode, tr_id, cmd, chunks, nlines, wanted, status, packet_list>>

ack(side) == Say(side, "ack")

connection_request == Goto("con_req", "con_rep") /\ Say("host", "connection_request")
connection_reply   == Goto("con_rep", "con_ack") /\ Say("bl", "connection_reply")

MutAckByBl == Goto("con_ack", "hello_req") /\ ack("bl")

connection_ack     == Goto("con_ack", "hello_req") /\ ack("host")

hello_request == Goto("hello_req", "hello_bl_ack") /\ Say("host", "hello_request")
hello_bl_ack  == Goto("hello_bl_ack", "hello_rep") /\ ack("bl")
hello_reply   == Goto("hello_rep", "hello_ack") /\ SayNext("hello_reply")
hello_ack     == Goto("hello_ack", IF AesMode THEN "challenge" ELSE "line") /\ ack("host")

challenge          == Goto("challenge", "chal_bl_ack") /\ SayNext("challenge")
challenge_bl_ack   == Goto("chal_bl_ack", "chal_rsp") /\ ack("bl")
challenge_response == Goto("chal_rsp", "chal_ack") /\ SayNext("challenge_response")
challenge_ack      == Goto("chal_ack", "line") /\ ack("host")

-----------------------------------------------------------------------------
(* The loop over the lines of the script.                                  *)

Begin(c, n) == pc' = "request" /\ cmd' = c /\ chunks' = n

Times(c, n) == [i \in 1..n |-> c]

\* A comment, "help", or "write-configuration", which is not implemented.
skip_line == UNCHANGED <<pc, cmd, chunks, wanted, status>>

\* An unknown command, a wrong number of parameters, a parameter or a mode that
\* the command refuses, a key file that is not found.
bad_line ==
  /\ Exit("failure")
  /\ UNCHANGED <<cmd, chunks, wanted>>

simple_line ==
  \E c \in SimpleCmds :
    /\ Supported(c)
    /\ Begin(c, 0)
    /\ wanted' = Append(wanted, c)
    /\ UNCHANGED status

\* write_file issues its erasure before it opens the file.
write_file ==
  \E n \in Unreadable..MaxChunks :
    /\ Begin("del_mem", n)
    /\ wanted' = wanted \o <<"del_mem">> \o Times("write_mem", n)
    /\ UNCHANGED status

\* write_only and verify_file open the file first: an unreadable one is a bad line.
FileLine(c) ==
  \E n \in 0..MaxChunks :
    /\ IF n = 0 THEN UNCHANGED <<pc, cmd, chunks>> ELSE Begin(c, n)
    /\ wanted' = wanted \o Times(c, n)
    /\ UNCHANGED status

write_only  == FileLine("write_mem")
verify_file == FileLine("verify_data")

process_command ==
  /\ pc = "line"
  /\ nlines < MaxLines
  /\ nlines' = nlines + 1
  /\ skip_line \/ bad_line \/ simple_line \/ write_file \/ write_only \/ verify_file
  /\ UNCHANGED <<session_mode, who, seq, tr_id, packets, files, packet_list>>

end_of_script ==
  /\ Goto("line", "disc_req")
  /\ UNCHANGED <<session_mode, who, seq, tr_id, cmd, chunks, nlines, wanted, packets, files,
                 status, packet_list>>

-----------------------------------------------------------------------------
(* One exchange: request, acknowledgement, response, acknowledgement.      *)

\* write_file and verify_file do not look at what these two return.
MutWritesIgnored == cmd \in {"del_mem", "verify_data", "write_mem"}

ResultIgnored == cmd \in {"del_mem", "verify_data"}

MutFailureIsSuccess == IF ResultIgnored THEN pc' = "bl_ack" /\ UNCHANGED status
                                        ELSE Exit("success")

OnFailure == IF ResultIgnored THEN pc' = "bl_ack" /\ UNCHANGED status
                              ELSE Exit("failure")

request_signed ==
  /\ pc = "request"
  /\ Supported(cmd)
  /\ pc' = "bl_ack"
  /\ seq' = seq + 1
  /\ maxim_send(who, "request", cmd, seq + 1, tr_id)
  /\ UNCHANGED <<session_mode, who, tr_id, cmd, chunks, nlines, wanted, status,
                 packet_list>>

\* The mode does not have the command, or del_mem does not know the extension of
\* the file, which read_s19 or read_s20 will not read either: seq is not touched.
request_refused ==
  /\ pc = "request"
  /\ \/ ~Supported(cmd)
     \/ cmd = "del_mem" /\ chunks = Unreadable /\ "extension" \in FAILURES
  /\ OnFailure
  /\ UNCHANGED <<session_mode, who, seq, tr_id, cmd, chunks, nlines, wanted, packets,
                 files, packet_list>>

\* Signing failed: the sequence number is already taken.
SignatureFails ==
  /\ pc = "request"
  /\ Supported(cmd)
  /\ "signature" \in FAILURES
  /\ seq' = seq + 1
  /\ UNCHANGED <<session_mode, who, tr_id, cmd, chunks, nlines, wanted, packets, files,
                 packet_list>>

\* rsa_sign_payload returns EXIT_FAILURE, and so does ecdsa_sign_payload with the HSM.
request_unsigned ==
  /\ session_mode \in RsaModes \cup (IF MXIM_HSM THEN EcdsaModes ELSE {})
  /\ SignatureFails
  /\ OnFailure

\* With the UCL or SafeNet library ecdsa_sign_payload calls exit(0).
sign_exit ==
  /\ session_mode \in EcdsaModes
  /\ ~MXIM_HSM
  /\ SignatureFails
  /\ Exit("success")

bl_ack == Goto("bl_ack", "response") /\ ack("bl")

MutNoModulo == tr_id + 1

next_tr == (tr_id + 1) % TR_MOD

generic_response ==
  /\ Goto("response", "host_ack")
  /\ IF session_mode = "SBL"
       THEN UNCHANGED <<seq, tr_id, packets, files>>
       ELSE /\ seq' = seq + 1
            /\ maxim_send(who, "response", cmd, seq + 1, tr_id)
            /\ tr_id' = next_tr
  /\ UNCHANGED <<session_mode, who, cmd, chunks, nlines, wanted, status, packet_list>>

\* write_file reads the file once the erasure has been acknowledged.
file_erased ==
  /\ cmd = "del_mem"
  /\ \/ /\ chunks = Unreadable
        /\ Exit("failure")
        /\ UNCHANGED <<cmd, chunks>>
     \/ /\ chunks = 0
        /\ pc' = "line"
        /\ UNCHANGED <<cmd, chunks, status>>
     \/ /\ chunks > 0
        /\ Begin("write_mem", chunks)
        /\ UNCHANGED status

MutOneChunkMore ==
  /\ cmd \in {"write_mem", "verify_data"}
  /\ chunks' = chunks - 1
  /\ pc' = IF chunks > 0 THEN "request" ELSE "line"
  /\ UNCHANGED <<cmd, status>>

next_chunk ==
  /\ cmd \in {"write_mem", "verify_data"}
  /\ chunks' = chunks - 1
  /\ pc' = IF chunks > 1 THEN "request" ELSE "line"
  /\ UNCHANGED <<cmd, status>>

command_done ==
  /\ cmd \in SimpleCmds
  /\ pc' = "line"
  /\ UNCHANGED <<cmd, chunks, status>>

host_ack ==
  /\ pc = "host_ack"
  /\ who' = "host"
  /\ maxim_send("host", "ack", "none", seq, 0)
  /\ file_erased \/ next_chunk \/ command_done
  /\ UNCHANGED <<session_mode, seq, tr_id, nlines, wanted, packet_list>>

-----------------------------------------------------------------------------
MutOldSeq == Goto("disc_req", "disc_rep") /\ Say("host", "disconnection_request")

disconnection_request == Goto("disc_req", "disc_rep") /\ SayNext("disconnection_request")
disconnection_reply   == Goto("disc_rep", "return") /\ Say("bl", "disconnection_reply")

return ==
  /\ pc = "return"
  /\ Exit("success")
  /\ UNCHANGED <<session_mode, who, seq, tr_id, cmd, chunks, nlines, wanted, packets,
                 files, packet_list>>

\* build_application_mod.sh: "session_build ... && ls -1 *.packet >packet.list"
publish ==
  /\ pc = "exited"
  /\ status = "success"
  /\ packet_list = {}
  /\ packet_list' = files
  /\ UNCHANGED <<session_mode, pc, who, seq, tr_id, cmd, chunks, nlines, wanted,
                 packets, files, status>>

Terminated ==
  /\ pc = "exited"
  /\ UNCHANGED vars

Init ==
  /\ session_mode \in MODES
  /\ pc = "con_req"
  /\ who = "host"
  /\ seq = 0
  /\ tr_id = 0
  /\ cmd = "none"
  /\ chunks = 0
  /\ nlines = 0
  /\ wanted = <<>>
  /\ packets = <<>>
  /\ files = {}
  /\ status = "running"
  /\ packet_list = {}

Opening ==
  \/ connection_request \/ connection_reply \/ connection_ack
  \/ hello_request \/ hello_bl_ack \/ hello_reply \/ hello_ack
  \/ challenge \/ challenge_bl_ack \/ challenge_response \/ challenge_ack

Exchange ==
  \/ request_signed \/ request_refused \/ request_unsigned \/ sign_exit
  \/ bl_ack \/ generic_response \/ host_ack

Closing == disconnection_request \/ disconnection_reply \/ return \/ publish

Next == \/ Opening \/ process_command \/ end_of_script
        \/ Exchange \/ Closing \/ Terminated

Spec == Init /\ [][Next]_vars

-----------------------------------------------------------------------------
(* Properties.                                                             *)

TypeOK ==
  /\ session_mode \in MODES
  /\ pc \in {"con_req", "con_rep", "con_ack", "hello_req", "hello_bl_ack",
             "hello_rep", "hello_ack", "challenge", "chal_bl_ack", "chal_rsp",
             "chal_ack", "line", "request", "bl_ack", "response", "host_ack",
             "disc_req", "disc_rep", "return", "exited"}
  /\ who \in {"host", "bl"}
  /\ seq \in Nat
  /\ tr_id \in 0..(TR_MOD - 1)
  /\ cmd \in Cmds \cup {"none"}
  /\ chunks \in Unreadable..MaxChunks
  /\ nlines \in 0..MaxLines
  /\ wanted \in Seq(Cmds)
  /\ packets \in Seq(Conv!Packets)
  /\ files \subseteq 1..Len(packets)
  /\ status \in {"running", "success", "failure"}
  /\ packet_list \subseteq files

\* Whatever the script, what session_build emits is an SCP conversation: sender,
\* acknowledgement, sequence number and transaction identifier of every packet
\* follow from the packets before it.  The code never states this: it comes from
\* host(), usip(), seq++ and tr_id++ scattered over fifty functions, and three
\* entries of the changelog (1191, 1221, 1231) are errors in it.
IsConversation == Conv!Spec

\* A session that was closed is one that serial_sender can replay: it is told by the
\* names of the packets alone, each command is answered, and who speaks follows from
\* what was said.
ClosedIsComplete ==
  packets # <<>> /\ Conv!LastOf(packets).name = "disconnection_reply"
    => Conv!Complete(packets)

Sent == Conv!Requested(packets)

\* The commands of the session are those of the script, in the script's order,
\* none skipped, none sent twice.
SentIsPrefix == /\ Len(Sent) <= Len(wanted)
                /\ Sent = SubSeq(wanted, 1, Len(Sent))

\* An exit status of 0 promises a session that does everything the script says.
SuccessIsComplete == status = "success" => Sent = wanted

(* The commands of l whose failure is looked at: SelectSeq, as a function  *)
(* that can be reasoned about.                                             *)
Unchecked(c) == c \in {"del_mem", "verify_data"}

Kept(l) ==
  LET f[n \in 0..Len(l)] ==
        IF n = 0 THEN <<>>
        ELSE IF Unchecked(l[n]) THEN f[n - 1] ELSE Append(f[n - 1], l[n])
  IN  f[Len(l)]

\* Losing its signature may cost an erasure or a comparison, whose result is
\* ignored, but a session that is reported built never lacks a command that
\* writes: those are sent as the script orders them.
WritesFollowScript == status = "success" => Kept(Sent) = Kept(wanted)

\* What serial_sender takes for granted of packet.list: the connection is in its
\* first three packets, the disconnection in its last two, and no file is missing.
PublishedIsWhole ==
  packet_list # {} =>
    /\ packet_list = 1..Len(packets)
    /\ Len(packets) >= 5
    /\ packets[1].name = "connection_request"
    /\ packets[2].name = "connection_reply"
    /\ packets[3].name = "ack"
    /\ packets[Len(packets) - 1].name = "disconnection_request"
    /\ packets[Len(packets)].name = "disconnection_reply"
=============================================================================
