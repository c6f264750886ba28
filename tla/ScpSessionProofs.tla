-------------------------- MODULE ScpSessionProofs --------------------------
(***************************************************************************)
(* Proofs about ScpSession, for every set of modes, script length, file    *)
(* size and transaction modulus.                                           *)
(***************************************************************************)
EXTENDS ScpSession, FiniteSetTheorems, SequenceTheorems, WellFoundedInduction, TLAPS

\* In every mode but SBL, when a signature either succeeds or stops the program,
\* no command is lost silently.
NothingSwallowed ==
  /\ "SBL" \notin MODES
  /\ "extension" \notin FAILURES
  /\ "signature" \in FAILURES => ~MXIM_HSM /\ MODES \cap RsaModes = {}

SameMode == UNCHANGED session_mode

\* No step changes the mode of the session: it is an option of the command line.
LEMMA SameModeStep == [Next]_vars => SameMode
<1> SUFFICES ASSUME [Next]_vars PROVE session_mode' = session_mode
  BY DEF SameMode
<1>1. CASE Opening
  BY <1>1 DEF Opening, connection_request, connection_reply, connection_ack,
    hello_request, hello_bl_ack, hello_reply, hello_ack, challenge, challenge_bl_ack,
    challenge_response, challenge_ack, ack, Say, SayNext
<1>2. CASE process_command \/ end_of_script
  BY <1>2 DEF process_command, end_of_script
<1>3. CASE Exchange
  BY <1>3 DEF Exchange, request_signed, request_refused, request_unsigned, sign_exit,
    SignatureFails, bl_ack, ack, Say, generic_response, host_ack
<1>4. CASE Closing
  BY <1>4 DEF Closing, disconnection_request, disconnection_reply, return, publish,
    Say, SayNext
<1>5. CASE Terminated \/ UNCHANGED vars
  BY <1>5 DEF Terminated, vars
<1> QED
  BY <1>1, <1>2, <1>3, <1>4, <1>5 DEF Next

-----------------------------------------------------------------------------
(* Facts about the sequence of packets and the sequence number.            *)

LEMMA AppendFacts ==
  ASSUME NEW S, NEW l \in Seq(S), NEW p \in S
  PROVE  /\ Append(l, p) \in Seq(S)
         /\ Len(Append(l, p)) = Len(l) + 1
         /\ Append(l, p)[Len(l) + 1] = p
         /\ \A i \in 1..Len(l) : Append(l, p)[i] = l[i]
  OBVIOUS

LEMMA SeqNibble ==
  ASSUME NEW s \in Nat
  PROVE  /\ s % 16 \in 0..15
         /\ ((s % 16) + 1) % 16 = (s + 1) % 16
  OBVIOUS

LEMMA TrRange ==
  ASSUME NEW t \in 0..(TR_MOD - 1)
  PROVE  (t + 1) % TR_MOD \in 0..(TR_MOD - 1)
  BY SessionAssumption

-----------------------------------------------------------------------------
(* What emitting a packet does to the packets and the files.               *)

Emitted(side, name, c, s, t) ==
  /\ packets' \in Seq(Conv!Packets)
  /\ Len(packets') = Len(packets) + 1
  /\ packets'[Len(packets) + 1] = Conv!Packet(side, name, c, s % 16, t)
  /\ \A i \in 1..Len(packets) : packets'[i] = packets[i]
  /\ packets' = Append(packets, Conv!Packet(side, name, c, s % 16, t))
  /\ files' \subseteq 1..Len(packets')
  /\ packet_list \subseteq files'

LEMMA Emission ==
  ASSUME TypeOK
  PROVE  \A side \in {"host", "bl"}, name \in Conv!Names, c \in Cmds \cup {"none"},
            s \in Nat, t \in 0..(TR_MOD - 1) :
           maxim_send(side, name, c, s, t) => Emitted(side, name, c, s, t)
<1> SUFFICES ASSUME NEW side \in {"host", "bl"}, NEW name \in Conv!Names,
                    NEW c \in Cmds \cup {"none"}, NEW s \in Nat,
                    NEW t \in 0..(TR_MOD - 1),
                    maxim_send(side, name, c, s, t)
             PROVE  Emitted(side, name, c, s, t)
  OBVIOUS
<1> DEFINE p == Conv!Packet(side, name, c, s % 16, t)
<1>1. p \in Conv!Packets
  BY SeqNibble DEF Conv!Packet, Conv!Packets, Conv!Sides, Conv!NoCmd, Conv!SEQ_MOD
<1>2. packets \in Seq(Conv!Packets) /\ packets' = Append(packets, p)
  BY DEF maxim_send, TypeOK
<1> HIDE DEF p
<1>3. /\ packets' \in Seq(Conv!Packets)
      /\ Len(packets') = Len(packets) + 1
      /\ packets'[Len(packets) + 1] = p
      /\ \A i \in 1..Len(packets) : packets'[i] = packets[i]
  BY <1>1, <1>2, AppendFacts
<1>4. files' \subseteq 1..Len(packets') /\ packet_list \subseteq files'
  <2>1. /\ files' \in {files, files \cup {Len(packets) + 1}}
        /\ files \subseteq 1..Len(packets)
        /\ packet_list \subseteq files
    BY DEF maxim_send, TypeOK
  <2>2. Len(packets) \in Nat /\ Len(packets') = Len(packets) + 1
    BY <1>2, <1>3
  <2> QED
    BY <2>1, <2>2
<1> QED
  BY <1>2, <1>3, <1>4 DEF Emitted, p

-----------------------------------------------------------------------------
(* Type correctness.                                                       *)

\* The steps that say something on behalf of a given side, or of the last one.
LEMMA SayType ==
  ASSUME TypeOK
  PROVE  /\ \A side \in {"host", "bl"}, name \in Conv!Names :
              Say(side, name) =>
                /\ Emitted(side, name, "none", seq, 0)
                /\ who' = side /\ seq' = seq
         /\ \A name \in Conv!Names :
              SayNext(name) =>
                /\ Emitted(who, name, "none", seq + 1, 0)
                /\ who' = who /\ seq' = seq + 1
<1>1. 0 \in 0..(TR_MOD - 1)
  BY SessionAssumption
<1>2. seq \in Nat /\ seq + 1 \in Nat /\ who \in {"host", "bl"}
  BY DEF TypeOK
<1> QED
  BY <1>1, <1>2, Emission DEF Say, SayNext

LEMMA OpeningType == TypeOK /\ Opening /\ SameMode => TypeOK'
<1> SUFFICES ASSUME TypeOK, Opening, session_mode' = session_mode PROVE TypeOK'
  BY DEF SameMode
<1>1. CASE connection_request
  BY <1>1, SayType DEF TypeOK, Emitted, connection_request, Goto, Say, Conv!Names
<1>2. CASE connection_reply
  BY <1>2, SayType DEF TypeOK, Emitted, connection_reply, Goto, Say, Conv!Names
<1>3. CASE connection_ack
  BY <1>3, SayType DEF TypeOK, Emitted, connection_ack, ack, Goto, Say, Conv!Names
<1>4. CASE hello_request
  BY <1>4, SayType DEF TypeOK, Emitted, hello_request, Goto, Say, Conv!Names
<1>5. CASE hello_bl_ack
  BY <1>5, SayType DEF TypeOK, Emitted, hello_bl_ack, ack, Goto, Say, Conv!Names
<1>6. CASE hello_reply
  BY <1>6, SayType DEF TypeOK, Emitted, hello_reply, Goto, SayNext, Conv!Names
<1>7. CASE hello_ack
  BY <1>7, SayType DEF TypeOK, Emitted, hello_ack, ack, Goto, Say, Conv!Names
<1>8. CASE challenge
  BY <1>8, SayType DEF TypeOK, Emitted, challenge, Goto, SayNext, Conv!Names
<1>9. CASE challenge_bl_ack
  BY <1>9, SayType DEF TypeOK, Emitted, challenge_bl_ack, ack, Goto, Say, Conv!Names
<1>10. CASE challenge_response
  BY <1>10, SayType DEF TypeOK, Emitted, challenge_response, Goto, SayNext, Conv!Names
<1>11. CASE challenge_ack
  BY <1>11, SayType DEF TypeOK, Emitted, challenge_ack, ack, Goto, Say, Conv!Names
<1> QED
  BY <1>1, <1>2, <1>3, <1>4, <1>5, <1>6, <1>7, <1>8, <1>9, <1>10, <1>11 DEF Opening

LEMMA TimesType ==
  ASSUME NEW c, NEW n \in Int
  PROVE  Times(c, n) \in Seq({c})
  BY DEF Times

LEMMA ScriptType == TypeOK /\ process_command /\ SameMode => TypeOK'
<1> SUFFICES ASSUME TypeOK, process_command, session_mode' = session_mode
             PROVE  TypeOK'
  BY DEF SameMode
<1> USE DEF process_command
<1>1. /\ nlines' \in 0..MaxLines
      /\ UNCHANGED <<who, seq, tr_id, packets, files, packet_list>>
  BY SessionAssumption DEF TypeOK
<1> DEFINE Chosen == /\ pc' \in {"line", "request", "exited"}
                     /\ status' \in {"running", "success", "failure"}
                     /\ cmd' \in Cmds \cup {"none"}
                     /\ chunks' \in Unreadable..MaxChunks
                     /\ wanted' \in Seq(Cmds)
<1>2. Chosen
  <2>1. CASE skip_line
    BY <2>1 DEF skip_line, TypeOK
  <2>2. CASE bad_line
    BY <2>2 DEF bad_line, Exit, TypeOK
  <2>3. CASE simple_line
    <3>1. PICK c \in SimpleCmds :
            Begin(c, 0) /\ wanted' = Append(wanted, c) /\ UNCHANGED status
      BY <2>3 DEF simple_line
    <3>2. c \in Cmds /\ wanted \in Seq(Cmds) /\ 0 \in Unreadable..MaxChunks
      BY SessionAssumption DEF TypeOK, Cmds, Unreadable
    <3> QED
      BY <3>1, <3>2 DEF Begin, TypeOK
  <2>4. CASE write_file
    <3>1. PICK n \in Unreadable..MaxChunks :
            /\ Begin("del_mem", n)
            /\ wanted' = wanted \o <<"del_mem">> \o Times("write_mem", n)
      BY <2>4 DEF write_file
    <3>2. Times("write_mem", n) \in Seq({"write_mem"})
      BY TimesType, SessionAssumption DEF Unreadable
    <3>3. wanted \in Seq(Cmds) /\ "del_mem" \in Cmds /\ "write_mem" \in Cmds
      BY DEF TypeOK, Cmds, FileCmds
    <3>4. wanted' \in Seq(Cmds)
      BY <3>1, <3>2, <3>3
    <3> QED
      BY <2>4, <3>1, <3>3, <3>4 DEF write_file, Begin, TypeOK
  <2>5. ASSUME NEW c \in {"write_mem", "verify_data"}, FileLine(c)
        PROVE  Chosen
    <3>1. PICK n \in 0..MaxChunks :
            /\ IF n = 0 THEN UNCHANGED <<pc, cmd, chunks>> ELSE Begin(c, n)
            /\ wanted' = wanted \o Times(c, n)
      BY <2>5 DEF FileLine
    <3>2. Times(c, n) \in Seq({c})
      BY TimesType
    <3>3. wanted \in Seq(Cmds) /\ c \in Cmds
      BY DEF TypeOK, Cmds, FileCmds
    <3>4. wanted' \in Seq(Cmds)
      BY <3>1, <3>2, <3>3
    <3> QED
      BY <2>5, <3>1, <3>3, <3>4, SessionAssumption
      DEF FileLine, Begin, TypeOK, Unreadable
  <2> QED
    BY <2>1, <2>2, <2>3, <2>4, <2>5 DEF write_only, verify_file
<1> QED
  BY <1>1, <1>2 DEF TypeOK

\* A file command is exchanged only while packets of the file are left; without
\* this the countdown of chunks could leave its range.
InExchange == pc \in {"request", "bl_ack", "response", "host_ack"}
ChunksLeft == InExchange /\ cmd \in {"write_mem", "verify_data"} => chunks > 0

LEMMA ExchangeType == TypeOK /\ ChunksLeft /\ Exchange /\ SameMode => TypeOK'
<1> SUFFICES ASSUME TypeOK, ChunksLeft, Exchange, session_mode' = session_mode
             PROVE  TypeOK'
  BY DEF SameMode
<1>1. CASE request_signed
  <2>1. cmd \in Cmds \cup {"none"} /\ seq + 1 \in Nat /\ tr_id \in 0..(TR_MOD - 1)
        /\ who \in {"host", "bl"} /\ "request" \in Conv!Names
    BY DEF TypeOK, Conv!Names
  <2>2. Emitted(who, "request", cmd, seq + 1, tr_id)
    BY <1>1, <2>1, Emission DEF request_signed
  <2> QED
    BY <1>1, <2>1, <2>2 DEF request_signed, Emitted, TypeOK
<1>2. CASE request_refused
  BY <1>2 DEF request_refused, OnFailure, Exit, TypeOK
<1>3. CASE request_unsigned
  BY <1>3 DEF request_unsigned, SignatureFails, OnFailure, Exit, TypeOK
<1>4. CASE sign_exit
  BY <1>4 DEF sign_exit, SignatureFails, Exit, TypeOK
<1>5. CASE bl_ack
  BY <1>5, SayType DEF TypeOK, Emitted, bl_ack, ack, Goto, Say, Conv!Names
<1>6. CASE generic_response
  <2>1. cmd \in Cmds \cup {"none"} /\ seq + 1 \in Nat /\ tr_id \in 0..(TR_MOD - 1)
        /\ who \in {"host", "bl"} /\ "response" \in Conv!Names
    BY DEF TypeOK, Conv!Names
  <2>2. CASE session_mode = "SBL"
    BY <1>6, <2>2 DEF generic_response, Goto, TypeOK
  <2>3. CASE session_mode # "SBL"
    <3>1. Emitted(who, "response", cmd, seq + 1, tr_id)
      BY <1>6, <2>1, <2>3, Emission DEF generic_response
    <3>2. tr_id' \in 0..(TR_MOD - 1)
      BY <1>6, <2>1, <2>3, TrRange DEF generic_response, next_tr
    <3> QED
      BY <1>6, <2>1, <2>3, <3>1, <3>2 DEF generic_response, Goto, Emitted, TypeOK
  <2> QED
    BY <2>2, <2>3
<1>7. CASE host_ack
  <2>1. Emitted("host", "ack", "none", seq, 0)
    <3>1. 0 \in 0..(TR_MOD - 1)
      BY SessionAssumption
    <3>2. seq \in Nat
      BY DEF TypeOK
    <3> QED
      BY <1>7, <3>1, <3>2, Emission DEF host_ack, Conv!Names
  <2>2. /\ pc' \in {"line", "request", "exited"}
        /\ status' \in {"running", "success", "failure"}
        /\ cmd' \in Cmds \cup {"none"}
        /\ chunks' \in Unreadable..MaxChunks
    <3>1. CASE file_erased
      BY <3>1 DEF file_erased, Begin, Exit, TypeOK, Cmds, FileCmds
    <3>2. CASE next_chunk
      <4>1. chunks > 0
        BY <1>7, <3>2 DEF host_ack, next_chunk, ChunksLeft, InExchange
      <4> QED
        BY <3>2, <4>1, SessionAssumption DEF next_chunk, TypeOK, Unreadable
    <3>3. CASE command_done
      BY <3>3 DEF command_done, TypeOK
    <3> QED
      BY <1>7, <3>1, <3>2, <3>3 DEF host_ack
  <2> QED
    BY <1>7, <2>1, <2>2 DEF host_ack, Emitted, TypeOK
<1> QED
  BY <1>1, <1>2, <1>3, <1>4, <1>5, <1>6, <1>7 DEF Exchange

LEMMA ChunksStep ==
  TypeOK /\ ChunksLeft /\ [Next]_vars => ChunksLeft'
<1> SUFFICES ASSUME TypeOK, ChunksLeft, [Next]_vars PROVE ChunksLeft'
  OBVIOUS
<1> USE DEF ChunksLeft, InExchange
<1>1. CASE Opening
  BY <1>1 DEF Opening, connection_request, connection_reply, connection_ack,
    hello_request, hello_bl_ack, hello_reply, hello_ack, challenge,
    challenge_bl_ack, challenge_response, challenge_ack, Goto
<1>2. CASE process_command
  <2>1. CASE skip_line \/ bad_line
    BY <1>2, <2>1 DEF process_command, skip_line, bad_line, Exit
  <2>2. CASE simple_line
    BY <1>2, <2>2, SessionAssumption DEF process_command, simple_line, Begin, FileCmds
  <2>3. CASE write_file
    BY <1>2, <2>3 DEF process_command, write_file, Begin
  <2>4. CASE write_only \/ verify_file
    <3>1. PICK c \in {"write_mem", "verify_data"}, n \in 0..MaxChunks :
            IF n = 0 THEN UNCHANGED <<pc, cmd, chunks>> ELSE Begin(c, n)
      BY <2>4 DEF write_only, verify_file, FileLine
    <3> QED
      BY <1>2, <3>1, SessionAssumption DEF process_command, Begin
  <2> QED
    BY <1>2, <2>1, <2>2, <2>3, <2>4 DEF process_command
<1>3. CASE end_of_script \/ Closing \/ Terminated
  BY <1>3 DEF end_of_script, Closing, disconnection_request, disconnection_reply,
    return, publish, Terminated, Goto, Exit, vars
<1>4. CASE Exchange
  <2>1. CASE host_ack
    <3>1. CASE file_erased
      BY <3>1 DEF file_erased, Begin, Exit
    <3>2. CASE next_chunk
      BY <3>2 DEF next_chunk, TypeOK
    <3>3. CASE command_done
      BY <3>3 DEF command_done
    <3> QED
      BY <2>1, <3>1, <3>2, <3>3 DEF host_ack
  <2>2. CASE ~host_ack
    BY <1>4, <2>2 DEF Exchange, request_signed, request_refused, request_unsigned,
      sign_exit, SignatureFails, bl_ack, ack, Say, generic_response, OnFailure, Goto, Exit
  <2> QED
    BY <2>1, <2>2
<1>5. CASE UNCHANGED vars
  BY <1>5 DEF vars
<1> QED
  BY <1>1, <1>2, <1>3, <1>4, <1>5 DEF Next

LEMMA ClosingType ==
  TypeOK /\ (Closing \/ end_of_script \/ Terminated) /\ SameMode => TypeOK'
<1> SUFFICES ASSUME TypeOK, Closing \/ end_of_script \/ Terminated,
                    session_mode' = session_mode
             PROVE  TypeOK'
  BY DEF SameMode
<1>1. CASE disconnection_request
  BY <1>1, SayType DEF TypeOK, Emitted, disconnection_request, Goto, SayNext, Conv!Names
<1>2. CASE disconnection_reply
  BY <1>2, SayType DEF TypeOK, Emitted, disconnection_reply, Goto, Say, Conv!Names
<1>3. CASE return
  BY <1>3 DEF return, Exit, TypeOK
<1>4. CASE publish
  BY <1>4 DEF publish, TypeOK
<1>5. CASE end_of_script
  BY <1>5 DEF end_of_script, Goto, TypeOK
<1>6. CASE Terminated
  BY <1>6 DEF Terminated, vars, TypeOK
<1> QED
  BY <1>1, <1>2, <1>3, <1>4, <1>5, <1>6 DEF Closing

\* TypeOK of every reachable state: in particular the transaction identifier
\* stays a residue of TR_MOD and the countdown of chunks never runs below zero.
THEOREM TypeCorrect == Spec => [](TypeOK /\ ChunksLeft)
<1>1. Init => TypeOK /\ ChunksLeft
  BY SessionAssumption DEF Init, TypeOK, ChunksLeft, InExchange, Unreadable
<1>2. TypeOK /\ ChunksLeft /\ [Next]_vars => (TypeOK /\ ChunksLeft)'
  <2> SUFFICES ASSUME TypeOK, ChunksLeft, [Next]_vars PROVE TypeOK'
    BY ChunksStep
  <2>1. CASE UNCHANGED vars
    BY <2>1 DEF vars, TypeOK
  <2> QED
    BY <2>1, OpeningType, ScriptType, ExchangeType, ClosingType, SameModeStep DEF Next
<1> QED
  BY <1>1, <1>2, PTL DEF Spec

-----------------------------------------------------------------------------
(* The generator implements the conversation.  The invariant ties the      *)
(* program counter to the end of the conversation: the packet that awaits  *)
(* an acknowledgement, or the one that was just acknowledged.              *)

Last == packets[Len(packets)]
Pending(side, name) ==
  Len(packets) > 0 /\ Last.from = side /\ Last.name = name /\ Last.seq = seq % 16
Heard(S) ==
  Conv!JustAcked(packets, S) /\ Conv!AckedOf(packets).seq = seq % 16

AtIdle == Heard(Conv!Idle) /\ who = "host" /\ Conv!TrAfter(packets) = tr_id

OpeningTail ==
  /\ pc = "con_req"      => packets = <<>>
  /\ pc = "con_rep"      => Pending("host", "connection_request")
  /\ pc = "con_ack"      => Pending("bl", "connection_reply")
  /\ pc = "hello_req"    => Heard({"connection_reply"})
  /\ pc = "hello_bl_ack" => Pending("host", "hello_request")
  /\ pc = "hello_rep"    => Heard({"hello_request"}) /\ who = "bl"
  /\ pc = "hello_ack"    => Pending("bl", "hello_reply")
  /\ pc = "challenge"    => Heard({"hello_reply"}) /\ who = "host"
  /\ pc = "chal_bl_ack"  => Pending("host", "challenge")
  /\ pc = "chal_rsp"     => Heard({"challenge"}) /\ who = "bl"
  /\ pc = "chal_ack"     => Pending("bl", "challenge_response")
  /\ pc \in {"con_req", "con_rep", "con_ack", "hello_req", "hello_bl_ack",
             "hello_rep", "hello_ack", "challenge", "chal_bl_ack", "chal_rsp",
             "chal_ack"} => tr_id = 0

ExchangeTail ==
  /\ pc \in {"line", "disc_req"} => AtIdle
  /\ pc = "request"  => AtIdle /\ cmd \in Cmds /\ Supported(cmd)
  /\ pc = "bl_ack"   => /\ Pending("host", "request") /\ cmd \in Cmds
                        /\ Last.cmd = cmd /\ Last.tr = tr_id
  /\ pc = "response" => /\ Heard({"request"}) /\ who = "bl" /\ cmd \in Cmds
                        /\ Conv!AckedOf(packets).cmd = cmd
                        /\ Conv!AckedOf(packets).tr = tr_id
  /\ pc = "host_ack" => /\ Pending("bl", "response") /\ cmd \in Cmds
                        /\ tr_id = Conv!NextTr(Last.tr)
  /\ pc = "disc_rep" => Pending("host", "disconnection_request")

EndsWith == OpeningTail /\ ExchangeTail

\* Acknowledging the pending packet is a step of the conversation, after which
\* the other side has been heard.
LEMMA AckStep ==
  ASSUME TypeOK, NEW side \in {"host", "bl"}, NEW name \in Conv!Acknowledged,
         Pending(Conv!Other(side), name),
         Emitted(side, "ack", "none", seq, 0), seq' = seq
  PROVE  /\ Conv!Next
         /\ \A S : name \in S => Heard(S)'
         /\ Conv!AckedOf(packets)' = Last
<1>1. /\ packets \in Seq(Conv!Packets) /\ Len(packets) \in Nat /\ Len(packets) > 0
      /\ packets[Len(packets)].from = Conv!Other(side)
      /\ packets[Len(packets)].name = name
      /\ packets[Len(packets)].seq = seq % 16
  BY DEF TypeOK, Pending, Last
<1>2. /\ Len(packets') = Len(packets) + 1
      /\ packets'[Len(packets')] = Conv!Packet(side, "ack", "none", seq % 16, 0)
      /\ packets'[Len(packets') - 1] = packets[Len(packets)]
  BY <1>1 DEF Emitted
<1>3. Conv!Ack
  BY <1>1 DEF Conv!Ack, Conv!Say, Emitted, Conv!LastOf, Conv!Other, Conv!NoCmd
<1>4. /\ Conv!AckedOf(packets)' = Last
      /\ \A S : name \in S => Heard(S)'
  BY <1>1, <1>2 DEF Conv!AckedOf, Last, Heard, Conv!JustAcked, Conv!LastOf, Conv!Packet
<1> QED
  BY <1>3, <1>4 DEF Conv!Next

\* Whatever is emitted is pending until it is acknowledged.
LEMMA EmittedPending ==
  ASSUME TypeOK, NEW side, NEW name, NEW c, NEW s \in Nat, NEW t,
         Emitted(side, name, c, s, t), seq' = s
  PROVE  /\ Pending(side, name)'
         /\ Last'.cmd = c /\ Last'.tr = t
  BY DEF TypeOK, Emitted, Pending, Last, Conv!Packet

\* A data packet, or a disconnection request, is sent by whoever was heard last.
LEMMA SeqOfNext ==
  ASSUME TypeOK, NEW S, Heard(S)
  PROVE  /\ packets \in Seq(Conv!Packets) /\ Len(packets) > 1
         /\ Conv!NextSeq(Conv!AckedOf(packets).seq) = (seq + 1) % 16
         /\ Conv!AckedOf(packets).seq = seq % 16
  BY SeqNibble DEF TypeOK, Heard, Conv!JustAcked, Conv!NextSeq, Conv!SEQ_MOD

LEMMA OpeningStep == TypeOK /\ EndsWith /\ Opening => EndsWith' /\ Conv!Next
<1> SUFFICES ASSUME TypeOK, EndsWith, Opening PROVE EndsWith' /\ Conv!Next
  OBVIOUS
<1> USE DEF EndsWith, OpeningTail, ExchangeTail, Goto
<1>0. seq \in Nat /\ seq + 1 \in Nat /\ who \in {"host", "bl"}
  BY DEF TypeOK
<1>1. CASE connection_request
  <2>1. Emitted("host", "connection_request", "none", seq, 0) /\ seq' = seq
    BY <1>1, SayType DEF connection_request, Conv!Names
  <2>2. Pending("host", "connection_request")'
    BY <1>0, <2>1, EmittedPending
  <2>3. pc = "con_req" /\ pc' = "con_rep" /\ tr_id' = tr_id
    BY <1>1 DEF connection_request, Say
  <2>4. Conv!Connect
    BY <1>0, <2>1, <2>3, SeqNibble DEF Conv!Connect, Conv!Say, Emitted, Conv!NoCmd, Conv!SEQ_MOD
  <2> QED
    BY <2>2, <2>3, <2>4 DEF Conv!Next
<1>2. CASE connection_reply
  <2>1. Emitted("bl", "connection_reply", "none", seq, 0) /\ seq' = seq
    BY <1>2, SayType DEF connection_reply, Conv!Names
  <2>2. Pending("bl", "connection_reply")'
    BY <1>0, <2>1, EmittedPending
  <2>3. pc = "con_rep" /\ pc' = "con_ack" /\ tr_id' = tr_id
    BY <1>2 DEF connection_reply, Say
  <2>4. Conv!Accept
    BY <2>1, <2>3 DEF Conv!Accept, Conv!Say, Emitted, Conv!NoCmd, Pending, Last, Conv!LastOf
  <2> QED
    BY <2>2, <2>3, <2>4 DEF Conv!Next
<1>3. CASE connection_ack
  <2>1. Emitted("host", "ack", "none", seq, 0) /\ seq' = seq
    BY <1>3, SayType DEF connection_ack, ack, Conv!Names
  <2>2. pc = "con_ack" /\ pc' = "hello_req" /\ tr_id' = tr_id
    BY <1>3 DEF connection_ack, ack, Say
  <2>3. Conv!Next /\ Heard({"connection_reply"})'
    BY <2>1, <2>2, AckStep DEF Conv!Acknowledged, Conv!Other
  <2> QED
    BY <2>2, <2>3
<1>4. CASE hello_request
  <2>1. Emitted("host", "hello_request", "none", seq, 0) /\ seq' = seq
    BY <1>4, SayType DEF hello_request, Conv!Names
  <2>2. Pending("host", "hello_request")'
    BY <1>0, <2>1, EmittedPending
  <2>3. pc = "hello_req" /\ pc' = "hello_bl_ack" /\ tr_id' = tr_id
    BY <1>4 DEF hello_request, Say
  <2>4. Conv!Hello
    BY <2>1, <2>3, SeqOfNext DEF Conv!Hello, Conv!Say, Emitted, Conv!NoCmd, Heard
  <2> QED
    BY <2>2, <2>3, <2>4 DEF Conv!Next
<1>5. CASE hello_bl_ack
  <2>1. Emitted("bl", "ack", "none", seq, 0) /\ seq' = seq /\ who' = "bl"
    BY <1>5, SayType DEF hello_bl_ack, ack, Conv!Names
  <2>2. pc = "hello_bl_ack" /\ pc' = "hello_rep" /\ tr_id' = tr_id
    BY <1>5 DEF hello_bl_ack, ack, Say
  <2>3. Conv!Next /\ Heard({"hello_request"})'
    BY <2>1, <2>2, AckStep DEF Conv!Acknowledged, Conv!Other
  <2> QED
    BY <2>1, <2>2, <2>3
<1>6. CASE hello_reply
  <2>1. pc = "hello_rep" /\ pc' = "hello_ack" /\ tr_id' = tr_id /\ who = "bl"
    BY <1>6 DEF hello_reply, SayNext
  <2>2. Emitted("bl", "hello_reply", "none", seq + 1, 0) /\ seq' = seq + 1
    BY <1>6, <2>1, SayType DEF hello_reply, Conv!Names
  <2>3. Pending("bl", "hello_reply")'
    BY <1>0, <2>2, EmittedPending
  <2>4. Conv!HelloBack
    BY <2>1, <2>2, SeqOfNext DEF Conv!HelloBack, Conv!Say, Emitted, Conv!NoCmd, Heard
  <2> QED
    BY <2>1, <2>3, <2>4 DEF Conv!Next
<1>7. CASE hello_ack
  <2>1. Emitted("host", "ack", "none", seq, 0) /\ seq' = seq /\ who' = "host"
    BY <1>7, SayType DEF hello_ack, ack, Conv!Names
  <2>2. pc = "hello_ack" /\ pc' \in {"challenge", "line"} /\ tr_id' = 0
    BY <1>7 DEF hello_ack, ack, Say
  <2>3. /\ Conv!Next
        /\ Heard({"hello_reply"})' /\ Heard(Conv!Idle)'
        /\ Conv!AckedOf(packets)' = Last
    BY <2>1, <2>2, AckStep DEF Conv!Acknowledged, Conv!Other, Conv!Idle
  <2>4. Conv!TrAfter(packets)' = 0
    BY <2>2, <2>3 DEF Conv!TrAfter, Pending
  <2> QED
    BY <2>1, <2>2, <2>3, <2>4 DEF AtIdle
<1>8. CASE challenge
  <2>1. pc = "challenge" /\ pc' = "chal_bl_ack" /\ tr_id' = tr_id /\ who = "host"
    BY <1>8 DEF challenge, SayNext
  <2>2. Emitted("host", "challenge", "none", seq + 1, 0) /\ seq' = seq + 1
    BY <1>8, <2>1, SayType DEF challenge, Conv!Names
  <2>3. Pending("host", "challenge")'
    BY <1>0, <2>2, EmittedPending
  <2>4. Conv!Challenge
    BY <2>1, <2>2, SeqOfNext DEF Conv!Challenge, Conv!Say, Emitted, Conv!NoCmd, Heard
  <2> QED
    BY <2>1, <2>3, <2>4 DEF Conv!Next
<1>9. CASE challenge_bl_ack
  <2>1. Emitted("bl", "ack", "none", seq, 0) /\ seq' = seq /\ who' = "bl"
    BY <1>9, SayType DEF challenge_bl_ack, ack, Conv!Names
  <2>2. pc = "chal_bl_ack" /\ pc' = "chal_rsp" /\ tr_id' = tr_id
    BY <1>9 DEF challenge_bl_ack, ack, Say
  <2>3. Conv!Next /\ Heard({"challenge"})'
    BY <2>1, <2>2, AckStep DEF Conv!Acknowledged, Conv!Other
  <2> QED
    BY <2>1, <2>2, <2>3
<1>10. CASE challenge_response
  <2>1. pc = "chal_rsp" /\ pc' = "chal_ack" /\ tr_id' = tr_id /\ who = "bl"
    BY <1>10 DEF challenge_response, SayNext
  <2>2. Emitted("bl", "challenge_response", "none", seq + 1, 0) /\ seq' = seq + 1
    BY <1>10, <2>1, SayType DEF challenge_response, Conv!Names
  <2>3. Pending("bl", "challenge_response")'
    BY <1>0, <2>2, EmittedPending
  <2>4. Conv!ChallengeResponse
    BY <2>1, <2>2, SeqOfNext
    DEF Conv!ChallengeResponse, Conv!Say, Emitted, Conv!NoCmd, Heard
  <2> QED
    BY <2>1, <2>3, <2>4 DEF Conv!Next
<1>11. CASE challenge_ack
  <2>1. Emitted("host", "ack", "none", seq, 0) /\ seq' = seq /\ who' = "host"
    BY <1>11, SayType DEF challenge_ack, ack, Conv!Names
  <2>2. pc = "chal_ack" /\ pc' = "line" /\ tr_id' = 0
    BY <1>11 DEF challenge_ack, ack, Say
  <2>3. Conv!Next /\ Heard(Conv!Idle)' /\ Conv!AckedOf(packets)' = Last
    BY <2>1, <2>2, AckStep DEF Conv!Acknowledged, Conv!Other, Conv!Idle
  <2>4. Conv!TrAfter(packets)' = 0
    BY <2>2, <2>3 DEF Conv!TrAfter, Pending
  <2> QED
    BY <2>1, <2>2, <2>3, <2>4 DEF AtIdle
<1> QED
  BY <1>1, <1>2, <1>3, <1>4, <1>5, <1>6, <1>7, <1>8, <1>9, <1>10, <1>11 DEF Opening

\* The commands that a file needs exist in every mode but SBL.
LEMMA FileCmdsSupported ==
  ASSUME TypeOK, session_mode # "SBL"
  PROVE  \A c \in FileCmds : Supported(c)
  BY SessionAssumption DEF TypeOK, FileCmds, Supported, del_mem_modes

\* The mode does not change, nor does what it supports.
LEMMA SupportedNext ==
  ASSUME SameMode, Supported(cmd')
  PROVE  Supported(cmd)'
  BY DEF SameMode, Supported, write_otp_modes, rewrite_crk_modes,
         write_bpk_fak_modes, del_mem_modes

LEMMA ScriptStep ==
  ASSUME session_mode # "SBL", TypeOK, EndsWith, process_command \/ end_of_script, SameMode
  PROVE  EndsWith' /\ UNCHANGED packets
<1> USE DEF EndsWith, OpeningTail, ExchangeTail
<1>1. UNCHANGED <<who, seq, tr_id, packets>> /\ pc = "line" /\ AtIdle
  BY DEF process_command, end_of_script, Goto
<1>2. AtIdle'
  BY <1>1 DEF AtIdle, Heard
<1>3. \/ pc' \in {"line", "disc_req", "exited"}
      \/ pc' = "request" /\ cmd' \in Cmds /\ Supported(cmd')
  <2>1. CASE end_of_script
    BY <2>1 DEF end_of_script, Goto
  <2>2. CASE skip_line \/ bad_line
    BY <1>1, <2>2 DEF skip_line, bad_line, Exit
  <2>3. CASE simple_line
    BY <2>3 DEF simple_line, Begin, Cmds
  <2>4. CASE write_file
    <3>1. pc' = "request" /\ cmd' = "del_mem"
      BY <2>4 DEF write_file, Begin
    <3> QED
      BY <3>1, FileCmdsSupported DEF Cmds, FileCmds
  <2>5. CASE write_only \/ verify_file
    <3>1. PICK c \in {"write_mem", "verify_data"} :
            \/ UNCHANGED <<pc, cmd>>
            \/ pc' = "request" /\ cmd' = c
      BY <2>5 DEF write_only, verify_file, FileLine, Begin
    <3> QED
      BY <1>1, <3>1, FileCmdsSupported DEF Cmds, FileCmds
  <2> QED
    BY <2>1, <2>2, <2>3, <2>4, <2>5 DEF process_command
<1> QED
  BY <1>1, <1>2, <1>3, SupportedNext

LEMMA ExchangeStep ==
  ASSUME NothingSwallowed, TypeOK, EndsWith, Exchange, SameMode
  PROVE  EndsWith' /\ [Conv!Next]_packets
<1> USE DEF EndsWith, OpeningTail, ExchangeTail, Goto
<1>0. /\ seq \in Nat /\ seq + 1 \in Nat /\ tr_id \in 0..(TR_MOD - 1)
      /\ session_mode \in MODES /\ session_mode # "SBL"
  BY DEF TypeOK, NothingSwallowed
<1>1. CASE request_signed
  <2>1. /\ pc = "request" /\ pc' = "bl_ack" /\ who = "host" /\ cmd \in Cmds
        /\ UNCHANGED <<tr_id, cmd>> /\ seq' = seq + 1
    BY <1>1 DEF request_signed, AtIdle
  <2>2. Emitted("host", "request", cmd, seq + 1, tr_id)
    BY <1>0, <1>1, <2>1, Emission DEF request_signed, Conv!Names
  <2>3. Pending("host", "request")' /\ Last'.cmd = cmd /\ Last'.tr = tr_id
    BY <1>0, <2>1, <2>2, EmittedPending
  <2>4. Conv!Request
    BY <2>1, <2>2, SeqOfNext DEF Conv!Request, Conv!Say, Emitted, AtIdle, Heard
  <2> QED
    BY <2>1, <2>3, <2>4 DEF Conv!Next
<1>2. CASE request_refused
  BY <1>2 DEF request_refused, NothingSwallowed
<1>3. CASE request_unsigned
  BY <1>0, <1>3 DEF request_unsigned, SignatureFails, NothingSwallowed, EcdsaModes
<1>4. CASE sign_exit
  BY <1>4 DEF sign_exit, SignatureFails, Exit
<1>5. CASE bl_ack
  <2>1. Emitted("bl", "ack", "none", seq, 0) /\ seq' = seq /\ who' = "bl"
    BY <1>5, SayType DEF bl_ack, ack, Conv!Names
  <2>2. pc = "bl_ack" /\ pc' = "response" /\ UNCHANGED <<tr_id, cmd>>
    BY <1>5 DEF bl_ack, ack, Say
  <2>3. /\ Conv!Next /\ Heard({"request"})'
        /\ Conv!AckedOf(packets)' = Last
    BY <2>1, <2>2, AckStep DEF Conv!Acknowledged, Conv!Other
  <2> QED
    BY <2>1, <2>2, <2>3
<1>6. CASE generic_response
  <2>1. /\ pc = "response" /\ pc' = "host_ack" /\ who = "bl" /\ cmd \in Cmds
        /\ cmd' = cmd /\ seq' = seq + 1 /\ tr_id' = Conv!NextTr(tr_id)
        /\ maxim_send("bl", "response", cmd, seq + 1, tr_id)
    BY <1>0, <1>6 DEF generic_response, next_tr, Conv!NextTr
  <2>2. Emitted("bl", "response", cmd, seq + 1, tr_id)
    BY <1>0, <2>1, Emission DEF Conv!Names
  <2>3. Pending("bl", "response")' /\ Last'.tr = tr_id
    BY <1>0, <2>1, <2>2, EmittedPending
  <2>4. Conv!Response
    BY <2>1, <2>2, SeqOfNext DEF Conv!Response, Conv!Say, Emitted, Heard
  <2> QED
    BY <2>1, <2>3, <2>4 DEF Conv!Next
<1>7. CASE host_ack
  <2>1. /\ pc = "host_ack" /\ UNCHANGED <<seq, tr_id>> /\ who' = "host"
        /\ Emitted("host", "ack", "none", seq, 0)
    <3>1. 0 \in 0..(TR_MOD - 1)
      BY SessionAssumption
    <3> QED
      BY <1>0, <1>7, <3>1, Emission DEF host_ack, Conv!Names
  <2>2. Conv!Next /\ Heard(Conv!Idle)' /\ Conv!AckedOf(packets)' = Last
    BY <2>1, AckStep DEF Conv!Acknowledged, Conv!Other, Conv!Idle
  <2>3. AtIdle'
    BY <2>1, <2>2 DEF AtIdle, Conv!TrAfter, Pending
  <2>4. \/ pc' \in {"line", "exited"}
        \/ pc' = "request" /\ cmd' \in Cmds /\ Supported(cmd')
    <3>1. CASE file_erased
      BY <1>0, <3>1, FileCmdsSupported DEF file_erased, Begin, Exit, Cmds, FileCmds
    <3>2. CASE next_chunk
      BY <1>0, <3>2, FileCmdsSupported DEF next_chunk, Cmds, FileCmds
    <3>3. CASE command_done
      BY <3>3 DEF command_done
    <3> QED
      BY <1>7, <3>1, <3>2, <3>3 DEF host_ack
  <2> QED
    BY <2>1, <2>2, <2>3, <2>4, SupportedNext
<1> QED
  BY <1>1, <1>2, <1>3, <1>4, <1>5, <1>6, <1>7 DEF Exchange

LEMMA ClosingStep ==
  ASSUME TypeOK, EndsWith, Closing \/ Terminated
  PROVE  EndsWith' /\ [Conv!Next]_packets
<1> USE DEF EndsWith, OpeningTail, ExchangeTail, Goto
<1>0. seq \in Nat /\ seq + 1 \in Nat
  BY DEF TypeOK
<1>1. CASE disconnection_request
  <2>1. pc = "disc_req" /\ pc' = "disc_rep" /\ who = "host"
    BY <1>1 DEF disconnection_request, AtIdle
  <2>2. Emitted("host", "disconnection_request", "none", seq + 1, 0) /\ seq' = seq + 1
    BY <1>1, <2>1, SayType DEF disconnection_request, Conv!Names
  <2>3. Pending("host", "disconnection_request")'
    BY <1>0, <2>2, EmittedPending
  <2>4. Conv!Disconnect
    BY <2>1, <2>2, SeqOfNext
    DEF Conv!Disconnect, Conv!Say, Emitted, Conv!NoCmd, AtIdle, Heard
  <2> QED
    BY <2>1, <2>3, <2>4 DEF Conv!Next
<1>2. CASE disconnection_reply
  <2>1. Emitted("bl", "disconnection_reply", "none", seq, 0)
    BY <1>2, SayType DEF disconnection_reply, Conv!Names
  <2>2. pc = "disc_rep" /\ pc' = "return"
    BY <1>2 DEF disconnection_reply
  <2>3. Conv!Disconnected
    BY <2>1, <2>2
    DEF Conv!Disconnected, Conv!Say, Emitted, Conv!NoCmd, Pending, Last, Conv!LastOf
  <2> QED
    BY <2>2, <2>3 DEF Conv!Next
<1>3. CASE return \/ publish \/ Terminated
  BY <1>3 DEF return, publish, Terminated, vars, Exit
<1> QED
  BY <1>1, <1>2, <1>3 DEF Closing

\* Every step of the generator is one of the conversation, or leaves it as it is.
LEMMA ConversationStep ==
  ASSUME NothingSwallowed, TypeOK, EndsWith, [Next]_vars
  PROVE  EndsWith' /\ [Conv!Next]_packets
<1>1. CASE UNCHANGED vars
  BY <1>1, SameModeStep, SupportedNext
  DEF vars, SameMode, EndsWith, OpeningTail, ExchangeTail, AtIdle, Pending, Heard, Last
<1>2. CASE process_command \/ end_of_script
  <2>1. SameMode /\ session_mode # "SBL"
    BY SameModeStep DEF NothingSwallowed, TypeOK
  <2> QED
    BY <1>2, <2>1, ScriptStep
<1> QED
  BY <1>1, <1>2, OpeningStep, ExchangeStep, ClosingStep, SameModeStep DEF Next

\* The conversation has not begun.
LEMMA ConversationInit == Init => EndsWith /\ Conv!Init
  BY DEF Init, EndsWith, OpeningTail, ExchangeTail, Conv!Init

\* Whatever the mode (but SBL), the script, the files and the wrapping of its
\* counters, session_build emits an SCP conversation, unless a command whose
\* failure is ignored could fail: IsConversation for every instance.
THEOREM SessionIsConversation ==
  ASSUME NothingSwallowed
  PROVE  Spec => IsConversation
<1>1. TypeOK /\ EndsWith /\ [Next]_vars => EndsWith' /\ [Conv!Next]_packets
  BY ConversationStep, NothingSwallowed
<1> QED
  BY <1>1, ConversationInit, TypeCorrect, PTL DEF Spec, IsConversation, Conv!Spec

-----------------------------------------------------------------------------
(* A published list is a whole session: what the sender takes for granted. *)

\* No failed signature ends the program with success.
NoFalseSuccess == "signature" \in FAILURES => MXIM_HSM \/ MODES \cap EcdsaModes = {}

\* Every packet file can be created, and success is not said in the middle.
NothingLost == MaxLost = 0 /\ NoFalseSuccess

AllFiles == files = 1..Len(packets)

Begun ==
  /\ Len(packets) >= 3
  /\ packets[1].name = "connection_request"
  /\ packets[2].name = "connection_reply"
  /\ packets[3].name = "ack"

Ended ==
  /\ Len(packets) >= 5
  /\ packets[Len(packets) - 1].name = "disconnection_request"
  /\ packets[Len(packets)].name = "disconnection_reply"

Connecting == pc \in {"con_req", "con_rep", "con_ack"}

\* The packets at both ends of the session, by what the generator does next.  The
\* session has its end only once it is returned from, and success is only said then.
Ends ==
  /\ pc = "con_req" => packets = <<>>
  /\ pc = "con_rep" => Len(packets) = 1 /\ packets[1].name = "connection_request"
  /\ pc = "con_ack" => /\ Len(packets) = 2
                       /\ packets[1].name = "connection_request"
                       /\ packets[2].name = "connection_reply"
  /\ ~Connecting => Begun
  /\ pc = "disc_rep" => /\ Len(packets) >= 4
                        /\ packets[Len(packets)].name = "disconnection_request"
  /\ pc = "return" \/ status = "success" => Ended

Verdict ==
  /\ status # "running" => pc = "exited"
  /\ packet_list # {} => status = "success" /\ packet_list = files

WholeInv == AllFiles /\ Ends /\ Verdict

\* One more packet, and its file.
Wrote(name) ==
  /\ packets \in Seq(Conv!Packets) /\ packets' \in Seq(Conv!Packets)
  /\ Len(packets') = Len(packets) + 1
  /\ packets'[Len(packets')].name = name
  /\ \A i \in 1..Len(packets) : packets'[i] = packets[i]
  /\ AllFiles'

LEMMA WriteWhole ==
  ASSUME TypeOK, AllFiles, MaxLost = 0
  PROVE  \A side \in {"host", "bl"}, name \in Conv!Names, c \in Cmds \cup {"none"},
            s \in Nat, t \in 0..(TR_MOD - 1) :
           maxim_send(side, name, c, s, t) => Wrote(name)
<1> SUFFICES ASSUME NEW side \in {"host", "bl"}, NEW name \in Conv!Names,
                    NEW c \in Cmds \cup {"none"}, NEW s \in Nat,
                    NEW t \in 0..(TR_MOD - 1),
                    maxim_send(side, name, c, s, t)
             PROVE  Wrote(name)
  OBVIOUS
<1>1. Emitted(side, name, c, s, t)
  BY Emission
<1>2. Len(packets) \in Nat
  BY DEF TypeOK
<1>3. Cardinality(files) = Len(packets)
  <2> DEFINE n == Len(packets)
  <2>1. n \in Int /\ 1 \in Int
    BY <1>2
  <2>2. Cardinality(1..n) = IF 1 > n THEN 0 ELSE n - 1 + 1
    <3> HIDE DEF n
    <3> QED
      BY <2>1, FS_Interval
  <2> QED
    BY <1>2, <2>2 DEF AllFiles
<1>4. files' = files \cup {Len(packets) + 1}
  BY <1>2, <1>3 DEF maxim_send
<1>5. AllFiles'
  <2>1. Len(packets') = Len(packets) + 1
    BY <1>1 DEF Emitted
  <2> QED
    BY <1>2, <1>4, <2>1 DEF AllFiles
<1>6. packets'[Len(packets')].name = name
  BY <1>1, <1>2 DEF Emitted, Conv!Packet
<1> QED
  BY <1>1, <1>5, <1>6 DEF Emitted, Wrote, TypeOK

LEMMA SayWhole ==
  ASSUME TypeOK, AllFiles, MaxLost = 0
  PROVE  \A name \in Conv!Names :
           /\ \A side \in {"host", "bl"} : Say(side, name) => Wrote(name)
           /\ SayNext(name) => Wrote(name)
<1>1. 0 \in 0..(TR_MOD - 1)
  BY SessionAssumption
<1>2. seq \in Nat /\ seq + 1 \in Nat /\ who \in {"host", "bl"}
  BY DEF TypeOK
<1> QED
  BY <1>1, <1>2, WriteWhole DEF Say, SayNext

\* Once three packets are written, a step in the middle of the session leaves them.
LEMMA MiddleStep ==
  ASSUME TypeOK, WholeInv, ~Connecting, ~Connecting', pc' \notin {"disc_rep", "return"},
         status' # "success", status' # "running" => pc' = "exited",
         packet_list' = packet_list, status = "running",
         \/ UNCHANGED <<packets, files>>
         \/ \E name \in Conv!Names : Wrote(name)
  PROVE  WholeInv'
<1>1. AllFiles'
  BY DEF WholeInv, AllFiles, Wrote
<1>2. packet_list' = {}
  BY DEF WholeInv, Verdict
<1>3. Begun'
  <2>1. CASE UNCHANGED <<packets, files>>
    BY <2>1 DEF WholeInv, Ends, Begun
  <2>2. ASSUME NEW name \in Conv!Names, Wrote(name) PROVE Begun'
    <3>1. Len(packets) \in Nat /\ Begun
      BY DEF TypeOK, WholeInv, Ends
    <3>2. 1 \in 1..Len(packets) /\ 2 \in 1..Len(packets) /\ 3 \in 1..Len(packets)
      BY <3>1 DEF Begun
    <3> QED
      BY <2>2, <3>1, <3>2 DEF Wrote, Begun
  <2> QED
    BY <2>1, <2>2
<1> QED
  BY <1>1, <1>2, <1>3 DEF WholeInv, Ends, Verdict, Connecting

LEMMA OpeningWhole ==
  ASSUME TypeOK, WholeInv, MaxLost = 0, Opening
  PROVE  WholeInv'
<1>1. AllFiles /\ status = "running"
  BY DEF WholeInv, Verdict, Opening, connection_request, connection_reply, connection_ack,
    hello_request, hello_bl_ack, hello_reply, hello_ack, challenge, challenge_bl_ack,
    challenge_response, challenge_ack, Goto, TypeOK
<1>2. packet_list' = packet_list /\ status' = status /\ packet_list = {}
  BY <1>1 DEF WholeInv, Verdict, Opening, connection_request, connection_reply,
    connection_ack, hello_request, hello_bl_ack, hello_reply, hello_ack, challenge,
    challenge_bl_ack, challenge_response, challenge_ack, ack, Say, SayNext
<1>3. Len(packets) \in Nat
  BY DEF TypeOK
<1>4. CASE connection_request
  <2>1. Wrote("connection_request") /\ packets = <<>> /\ pc' = "con_rep"
    BY <1>1, <1>4, SayWhole
    DEF connection_request, Goto, Conv!Names, WholeInv, Ends
  <2> QED
    BY <1>1, <1>2, <2>1 DEF WholeInv, Ends, Verdict, Wrote, Connecting
<1>5. CASE connection_reply
  <2>1. Wrote("connection_reply") /\ pc = "con_rep" /\ pc' = "con_ack"
    BY <1>1, <1>5, SayWhole DEF connection_reply, Goto, Conv!Names
  <2>2. Len(packets) = 1 /\ packets[1].name = "connection_request" /\ 1 \in 1..1
    BY <2>1 DEF WholeInv, Ends
  <2> QED
    BY <1>1, <1>2, <2>1, <2>2 DEF WholeInv, Ends, Verdict, Wrote, Connecting
<1>6. CASE connection_ack
  <2>1. Wrote("ack") /\ pc = "con_ack" /\ pc' = "hello_req"
    BY <1>1, <1>6, SayWhole DEF connection_ack, ack, Goto, Conv!Names
  <2>2. /\ Len(packets) = 2
        /\ packets[1].name = "connection_request" /\ packets[2].name = "connection_reply"
        /\ 1 \in 1..2 /\ 2 \in 1..2
    BY <2>1 DEF WholeInv, Ends
  <2> QED
    BY <1>1, <1>2, <2>1, <2>2 DEF WholeInv, Ends, Verdict, Wrote, Connecting, Begun
<1>7. CASE ~(connection_request \/ connection_reply \/ connection_ack)
  <2>1. /\ ~Connecting /\ ~Connecting' /\ pc' \notin {"disc_rep", "return"}
        /\ \E name \in Conv!Names :
             SayNext(name) \/ \E side \in {"host", "bl"} : Say(side, name)
    BY <1>7 DEF Opening, hello_request, hello_bl_ack, hello_reply, hello_ack, challenge,
      challenge_bl_ack, challenge_response, challenge_ack, ack, Goto, Connecting, Conv!Names
  <2>2. \E name \in Conv!Names : Wrote(name)
    BY <1>1, <2>1, SayWhole
  <2> QED
    BY <1>1, <1>2, <2>1, <2>2, MiddleStep
<1> QED
  BY <1>4, <1>5, <1>6, <1>7

LEMMA ScriptWhole ==
  ASSUME TypeOK, WholeInv, process_command \/ end_of_script
  PROVE  WholeInv'
<1>1. /\ pc = "line" /\ status = "running"
      /\ UNCHANGED <<packets, files, packet_list>>
  BY DEF process_command, end_of_script, Goto, WholeInv, Verdict, TypeOK
<1>2. /\ pc' \in {"line", "request", "exited", "disc_req"}
      /\ status' \in {"running", "failure"} /\ (status' # "running" => pc' = "exited")
  <2>1. CASE end_of_script
    BY <1>1, <2>1 DEF end_of_script, Goto
  <2>2. CASE process_command
    <3>1. CASE skip_line \/ bad_line
      BY <1>1, <3>1 DEF skip_line, bad_line, Exit
    <3>2. CASE simple_line \/ write_file
      BY <1>1, <3>2 DEF simple_line, write_file, Begin
    <3>3. CASE write_only \/ verify_file
      BY <1>1, <3>3 DEF write_only, verify_file, FileLine, Begin
    <3> QED
      BY <2>2, <3>1, <3>2, <3>3 DEF process_command
  <2> QED
    BY <2>1, <2>2
<1> QED
  BY <1>1, <1>2, MiddleStep DEF Connecting

\* The only exit with success in the middle of a session is the one excluded.
LEMMA ExchangeWhole ==
  ASSUME NothingLost, TypeOK, WholeInv, Exchange
  PROVE  WholeInv'
<1>1. InExchange /\ status = "running" /\ AllFiles /\ MaxLost = 0
  BY DEF Exchange, request_signed, request_refused, request_unsigned, sign_exit,
    SignatureFails, bl_ack, generic_response, host_ack, Goto, InExchange, WholeInv,
    Verdict, TypeOK, NothingLost
<1>2. ~Connecting
  BY <1>1 DEF InExchange, Connecting
<1>3. /\ cmd \in Cmds \cup {"none"} /\ seq \in Nat /\ seq + 1 \in Nat
      /\ tr_id \in 0..(TR_MOD - 1) /\ 0 \in 0..(TR_MOD - 1) /\ who \in {"host", "bl"}
      /\ "none" \in Cmds \cup {"none"}
  BY SessionAssumption DEF TypeOK
<1>4. {"request", "response", "ack"} \subseteq Conv!Names
  BY DEF Conv!Names
<1> DEFINE Middle ==
      /\ pc' \in {"bl_ack", "response", "host_ack", "line", "request", "exited"}
      /\ status' \in {"running", "failure"} /\ (status' # "running" => pc' = "exited")
      /\ packet_list' = packet_list
      /\ UNCHANGED <<packets, files>> \/ \E name \in Conv!Names : Wrote(name)
<1>5. Middle
  <2>1. CASE request_signed
    <3>1. Wrote("request")
      BY <1>1, <1>3, <1>4, <2>1, WriteWhole DEF request_signed
    <3> QED
      BY <1>1, <1>4, <2>1, <3>1 DEF request_signed
  <2>2. CASE request_refused \/ request_unsigned
    BY <1>1, <2>2 DEF request_refused, request_unsigned, SignatureFails, OnFailure, Exit
  <2>3. CASE sign_exit
    BY <2>3 DEF sign_exit, SignatureFails, NothingLost, NoFalseSuccess, TypeOK
  <2>4. CASE bl_ack
    <3>1. Wrote("ack")
      BY <1>1, <1>4, <2>4, SayWhole DEF bl_ack, ack
    <3> QED
      BY <1>1, <1>4, <2>4, <3>1 DEF bl_ack, ack, Say, Goto
  <2>5. CASE generic_response
    <3>1. UNCHANGED <<packets, files>> \/ Wrote("response")
      BY <1>1, <1>3, <1>4, <2>5, WriteWhole DEF generic_response
    <3> QED
      BY <1>1, <1>4, <2>5, <3>1 DEF generic_response, Goto
  <2>6. CASE host_ack
    <3>1. Wrote("ack")
      BY <1>1, <1>3, <1>4, <2>6, WriteWhole DEF host_ack
    <3>2. /\ pc' \in {"line", "request", "exited"}
          /\ status' \in {"running", "failure"} /\ (status' # "running" => pc' = "exited")
      BY <1>1, <2>6 DEF host_ack, file_erased, next_chunk, command_done, Begin, Exit
    <3> QED
      BY <1>4, <2>6, <3>1, <3>2 DEF host_ack
  <2> QED
    BY <2>1, <2>2, <2>3, <2>4, <2>5, <2>6 DEF Exchange
<1> QED
  BY <1>1, <1>2, <1>5, MiddleStep DEF Connecting

LEMMA ClosingWhole ==
  ASSUME TypeOK, WholeInv, MaxLost = 0, Closing
  PROVE  WholeInv'
<1>1. AllFiles /\ Len(packets) \in Nat
  BY DEF WholeInv, TypeOK
<1>2. ASSUME ~Connecting, NEW name \in Conv!Names, Wrote(name) PROVE Begun'
  <2>1. Begun /\ 1 \in 1..Len(packets) /\ 2 \in 1..Len(packets) /\ 3 \in 1..Len(packets)
    BY <1>1, <1>2 DEF WholeInv, Ends, Begun
  <2> QED
    BY <1>1, <1>2, <2>1 DEF Wrote, Begun
<1>3. CASE disconnection_request
  <2>1. Wrote("disconnection_request") /\ pc = "disc_req" /\ pc' = "disc_rep"
    BY <1>1, <1>3, SayWhole DEF disconnection_request, Goto, Conv!Names
  <2>2. /\ status = "running" /\ packet_list = {}
        /\ status' = status /\ packet_list' = packet_list
    BY <1>3, <2>1 DEF disconnection_request, SayNext, WholeInv, Verdict
  <2>3. Begun' /\ Len(packets) >= 3
    BY <1>2, <2>1 DEF Connecting, Conv!Names, WholeInv, Ends, Begun
  <2> QED
    BY <1>1, <2>1, <2>2, <2>3 DEF WholeInv, Ends, Verdict, Connecting, Wrote
<1>4. CASE disconnection_reply
  <2>1. Wrote("disconnection_reply") /\ pc = "disc_rep" /\ pc' = "return"
    BY <1>1, <1>4, SayWhole DEF disconnection_reply, Goto, Conv!Names
  <2>2. /\ status = "running" /\ packet_list = {}
        /\ status' = status /\ packet_list' = packet_list
    BY <1>4, <2>1 DEF disconnection_reply, Say, WholeInv, Verdict
  <2>3. Begun'
    BY <1>2, <2>1 DEF Connecting, Conv!Names
  <2>4. Ended'
    <3>1. Len(packets) >= 4 /\ packets[Len(packets)].name = "disconnection_request"
      BY <2>1 DEF WholeInv, Ends
    <3>2. Len(packets) \in 1..Len(packets) /\ Len(packets') - 1 = Len(packets)
      BY <1>1, <2>1, <3>1 DEF Wrote
    <3> QED
      BY <1>1, <2>1, <3>1, <3>2 DEF Wrote, Ended
  <2> QED
    BY <1>1, <2>1, <2>2, <2>3, <2>4 DEF WholeInv, Ends, Verdict, Connecting, Wrote
<1>5. CASE return
  BY <1>5 DEF return, Exit, WholeInv, AllFiles, Ends, Verdict, Begun, Ended, Connecting
<1>6. CASE publish
  BY <1>6 DEF publish, WholeInv, AllFiles, Ends, Verdict, Begun, Ended, Connecting
<1> QED
  BY <1>3, <1>4, <1>5, <1>6 DEF Closing

\* When every packet file is created, a published packet.list names a whole session,
\* connection and disconnection included, whatever the script and whatever failed:
\* the sender can index its first three and its last two packets.
THEOREM PublishedListIsWhole ==
  ASSUME NothingLost
  PROVE  Spec => []PublishedIsWhole
<1>1. Init => WholeInv
  BY DEF Init, WholeInv, AllFiles, Ends, Verdict, Connecting
<1>2. TypeOK /\ WholeInv /\ [Next]_vars => WholeInv'
  <2> SUFFICES ASSUME TypeOK, WholeInv, [Next]_vars PROVE WholeInv'
    OBVIOUS
  <2>1. CASE Terminated \/ UNCHANGED vars
    BY <2>1 DEF Terminated, vars, WholeInv, AllFiles, Ends, Verdict, Begun, Ended, Connecting
  <2> QED
    BY <2>1, OpeningWhole, ScriptWhole, ExchangeWhole, ClosingWhole, NothingLost
    DEF Next, NothingLost
<1>3. WholeInv => PublishedIsWhole
  BY DEF WholeInv, AllFiles, Ends, Verdict, Connecting, Begun, Ended, PublishedIsWhole
<1> QED
  BY <1>1, <1>2, <1>3, TypeCorrect, PTL DEF Spec
-----------------------------------------------------------------------------
(* A session that was closed is one that serial_sender can replay.         *)

\* Who says a packet that is not an acknowledgement.
Speaker(name) ==
  IF name \in {"connection_reply", "hello_reply", "challenge_response", "response",
               "disconnection_reply"}
    THEN "bl" ELSE "host"

\* What may be said once a packet of that name is acknowledged.
AfterAck(name) ==
  CASE name = "connection_reply" -> {"hello_request"}
    [] name = "hello_request"    -> {"hello_reply"}
    [] name = "challenge"        -> {"challenge_response"}
    [] name = "request"          -> {"response"}
    [] OTHER                     -> {"challenge", "request", "disconnection_request"}

\* Packet n + 1 is what packet n, and the one it acknowledges, ask for.
Follows(l, n) ==
  \/ /\ l[n].name \in Conv!Acknowledged
     /\ l[n + 1].name = "ack" /\ l[n + 1].from = Conv!Other(l[n].from)
  \/ l[n].name = "connection_request" /\ l[n + 1].name = "connection_reply"
  \/ l[n].name = "disconnection_request" /\ l[n + 1].name = "disconnection_reply"
  \/ /\ l[n].name = "ack" /\ n > 1 /\ l[n - 1].name \in Conv!Acknowledged
     /\ l[n + 1].name \in AfterAck(l[n - 1].name)

Proper(l) ==
  /\ l # <<>> => l[1].name = "connection_request"
  /\ \A n \in 1..Len(l) : l[n].name # "ack" => l[n].from = Speaker(l[n].name)
  /\ \A n \in 1..(Len(l) - 1) : Follows(l, n)

\* The packet that a step of the conversation adds.
Continues(p) ==
  /\ p.name # "ack" => p.from = Speaker(p.name)
  /\ IF packets = <<>> THEN p.name = "connection_request"
                       ELSE Follows(Append(packets, p), Len(packets))

\* Every step of the conversation adds a packet that its last ones ask for.
LEMMA NextContinues ==
  ASSUME packets \in Seq(Conv!Packets), Conv!Next
  PROVE  \E p : packets' = Append(packets, p) /\ Continues(p)
<1> DEFINE n == Len(packets)
           prev == packets[n - 1].name
<1>1. n \in Nat /\ (packets = <<>> <=> n = 0)
  OBVIOUS
<1>2. ASSUME NEW p PROVE
        /\ Append(packets, p)[n + 1] = p
        /\ n > 0 => Append(packets, p)[n] = packets[n]
        /\ n > 1 => Append(packets, p)[n - 1] = packets[n - 1]
  OBVIOUS
<1>3. CASE Conv!Connect
  <2>1. PICK s : packets = <<>> /\ Conv!Say("host", "connection_request", Conv!NoCmd, s, 0)
    BY <1>3 DEF Conv!Connect
  <2> QED
    BY <2>1 DEF Conv!Say, Continues, Conv!Packet, Speaker
<1>4. CASE Conv!Ack
  <2>1. PICK p : /\ packets' = Append(packets, p)
                 /\ p.name = "ack" /\ p.from = Conv!Other(packets[n].from)
                 /\ n > 0 /\ packets[n].name \in Conv!Acknowledged
    BY <1>4 DEF Conv!Ack, Conv!Say, Conv!Packet, Conv!LastOf
  <2> QED
    BY <1>1, <1>2, <2>1 DEF Continues, Follows
<1>5. CASE Conv!Accept \/ Conv!Disconnected
  <2>1. PICK p : /\ packets' = Append(packets, p)
                 /\ n > 0 /\ p.from = "bl"
                 /\ \/ /\ p.name = "connection_reply"
                       /\ packets[n].name = "connection_request"
                    \/ /\ p.name = "disconnection_reply"
                       /\ packets[n].name = "disconnection_request"
    BY <1>5 DEF Conv!Accept, Conv!Disconnected, Conv!Say, Conv!Packet, Conv!LastOf
  <2> QED
    BY <1>1, <1>2, <2>1 DEF Continues, Follows, Speaker
<1>6. ASSUME NEW p, packets' = Append(packets, p), n > 1, packets[n].name = "ack",
             prev \in Conv!Acknowledged, p.name \in AfterAck(prev),
             p.name # "ack", p.from = Speaker(p.name)
      PROVE  \E q : packets' = Append(packets, q) /\ Continues(q)
  BY <1>1, <1>2, <1>6 DEF Continues, Follows
<1>7. CASE Conv!Hello \/ Conv!HelloBack
  <2>1. PICK p : /\ packets' = Append(packets, p)
                 /\ n > 1 /\ packets[n].name = "ack"
                 /\ \/ p.name = "hello_request" /\ p.from = "host" /\ prev = "connection_reply"
                    \/ p.name = "hello_reply" /\ p.from = "bl" /\ prev = "hello_request"
    BY <1>7 DEF Conv!Hello, Conv!HelloBack, Conv!Say, Conv!Packet, Conv!JustAcked, Conv!LastOf
  <2> QED
    BY <1>6, <2>1 DEF AfterAck, Speaker, Conv!Acknowledged
<1>8. CASE Conv!ChallengeResponse \/ Conv!Response
  <2>1. PICK p : /\ packets' = Append(packets, p)
                 /\ n > 1 /\ packets[n].name = "ack" /\ p.from = "bl"
                 /\ \/ p.name = "challenge_response" /\ prev = "challenge"
                    \/ p.name = "response" /\ prev = "request"
    BY <1>8 DEF Conv!ChallengeResponse, Conv!Response, Conv!Say, Conv!Packet, Conv!JustAcked,
       Conv!LastOf
  <2> QED
    BY <1>6, <2>1 DEF AfterAck, Speaker, Conv!Acknowledged
<1>9. CASE Conv!Challenge \/ Conv!Request \/ Conv!Disconnect
  <2>1. PICK p : /\ packets' = Append(packets, p)
                 /\ n > 1 /\ packets[n].name = "ack" /\ p.from = "host"
                 /\ p.name \in {"challenge", "request", "disconnection_request"}
                 /\ prev \in Conv!Idle
    BY <1>9 DEF Conv!Challenge, Conv!Request, Conv!Disconnect, Conv!Say, Conv!Packet,
       Conv!JustAcked, Conv!LastOf, Conv!Idle
  <2> QED
    BY <1>6, <2>1 DEF AfterAck, Speaker, Conv!Acknowledged, Conv!Idle
<1> QED
  BY <1>3, <1>4, <1>5, <1>7, <1>8, <1>9 DEF Conv!Next

\* A conversation stays one whose packets are asked for.
LEMMA ProperStep ==
  ASSUME packets \in Seq(Conv!Packets), packets' \in Seq(Conv!Packets), Proper(packets),
         [Conv!Next]_packets
  PROVE  Proper(packets')
<1>1. CASE packets' = packets
  BY <1>1
<1>2. CASE Conv!Next
  <2>1. PICK p : packets' = Append(packets, p) /\ Continues(p)
    BY <1>2, NextContinues
  <2> DEFINE n == Len(packets)
             l == packets'
  <2>2. /\ n \in Nat /\ Len(l) = n + 1 /\ l[n + 1] = p /\ l # <<>>
        /\ \A i \in 1..n : l[i] = packets[i]
        /\ packets = <<>> <=> n = 0
    BY <2>1
  <2>3. l[1].name = "connection_request"
    BY <2>1, <2>2 DEF Continues, Proper
  <2>4. \A i \in 1..Len(l) : l[i].name # "ack" => l[i].from = Speaker(l[i].name)
    <3>1. \A i \in 1..(n + 1) : i = n + 1 \/ i \in 1..n
      BY <2>2
    <3>2. p.name # "ack" => p.from = Speaker(p.name)
      BY <2>1 DEF Continues
    <3>3. \A i \in 1..n : l[i].name # "ack" => l[i].from = Speaker(l[i].name)
      BY <2>2 DEF Proper
    <3> QED
      BY <2>2, <3>1, <3>2, <3>3
  <2>5. ASSUME NEW i \in 1..(Len(l) - 1)
        PROVE  Follows(l, i)
    <3>1. CASE i = n
      BY <2>1, <2>2, <3>1 DEF Continues
    <3>2. CASE i # n
      <4>1. /\ i \in 1..(n - 1) /\ i \in 1..n /\ i + 1 \in 1..n
            /\ (i > 1 => i - 1 \in 1..n)
        BY <2>2, <3>2
      <4>2. Follows(packets, i)
        BY <4>1 DEF Proper
      <4> QED
        BY <2>2, <4>1, <4>2 DEF Follows
    <3> QED
      BY <3>1, <3>2
  <2> QED
    BY <2>3, <2>4, <2>5 DEF Proper
<1> QED
  BY <1>1, <1>2

\* A conversation that was closed is a complete one.
LEMMA ProperComplete ==
  ASSUME NEW l \in Seq(Conv!Packets), Proper(l), Len(l) > 4,
         l[Len(l)].name = "disconnection_reply"
  PROVE  Conv!Complete(l)
<1>0. Len(l) \in Nat
  OBVIOUS
<1>1. /\ Len(l) \in Nat /\ DOMAIN l = 1..Len(l)
      /\ \A n \in 1..Len(l) : l[n] \in Conv!Packets
  OBVIOUS
<1>2. \A n \in 1..Len(l) : l[n].from \in {"host", "bl"} /\ l[n].name \in Conv!Names
  BY <1>1 DEF Conv!Packets, Conv!Sides
<1>3. /\ \A n \in 1..Len(l) : l[n].name # "ack" => l[n].from = Speaker(l[n].name)
      /\ \A n \in 1..(Len(l) - 1) : Follows(l, n)
      /\ l[1].name = "connection_request"
  BY DEF Proper
<1>4. /\ 1 \in 1..Len(l) /\ Len(l) \in 1..Len(l)
      /\ 1 \in 1..(Len(l) - 1) /\ 2 \in 1..(Len(l) - 1)
  BY <1>1
<1>5. l[2].name = "connection_reply" /\ l[3].name = "ack"
  <2>1. Follows(l, 1) /\ Follows(l, 2)
    BY <1>3, <1>4
  <2>2. l[2].name = "connection_reply"
    BY <1>3, <2>1 DEF Follows, Conv!Acknowledged
  <2> QED
    BY <2>1, <2>2 DEF Follows, Conv!Acknowledged
<1>6. l[1].from = "host" /\ l[Len(l)].from = "bl"
  BY <1>3, <1>4 DEF Speaker
<1>7. ASSUME NEW n \in 1..(Len(l) - 1)
      PROVE  Conv!MayFollow(l[n + 1], l[n])
  <2>1. n \in 1..Len(l) /\ n + 1 \in 1..Len(l) /\ (n > 1 => n - 1 \in 1..Len(l) /\ n - 1 \in 1..(Len(l) - 1))
    BY <1>1
  <2>2. Follows(l, n)
    BY <1>3
  <2>3. CASE l[n].name # "ack"
    BY <1>3, <2>1, <2>2, <2>3 DEF Follows, Conv!MayFollow, Conv!Other, Speaker, Conv!Acknowledged
  <2>4. CASE l[n].name = "ack"
    <3>1. /\ n > 1 /\ l[n - 1].name \in Conv!Acknowledged
          /\ l[n + 1].name \in AfterAck(l[n - 1].name)
      BY <2>2, <2>4 DEF Follows, Conv!Acknowledged
    <3>2. l[n].from = Conv!Other(l[n - 1].from)
      <4>1. Follows(l, n - 1) /\ (n - 1) + 1 = n
        BY <1>3, <2>1, <3>1
      <4> QED
        BY <2>4, <3>1, <4>1 DEF Follows, Conv!Acknowledged
    <3>3. l[n - 1].from = Speaker(l[n - 1].name)
      BY <1>3, <2>1, <3>1 DEF Conv!Acknowledged
    <3>4. l[n + 1].name # "ack" /\ Speaker(l[n + 1].name) = Conv!Other(Speaker(l[n - 1].name))
      BY <3>1 DEF AfterAck, Speaker, Conv!Other, Conv!Acknowledged
    <3>5. l[n + 1].from = Speaker(l[n + 1].name)
      BY <1>3, <2>1, <3>4
    <3> QED
      BY <2>4, <3>2, <3>3, <3>4, <3>5 DEF Conv!MayFollow
  <2> QED
    BY <2>3, <2>4
<1>8. ASSUME NEW n \in 3..Len(l)
      PROVE  /\ l[n].name \notin {"connection_request", "connection_reply"}
             /\ l[n].name = "request" =>
                  l[n].from = "host" /\ n + 1 < Len(l) /\ l[n + 1].name = "ack"
             /\ l[n].name = "response" <=> l[n - 2].name = "request"
             /\ l[n].name = "hello_reply" => l[n].from = "bl" /\ l[n - 1].name = "ack"
  <2>1. /\ n \in 1..Len(l) /\ n - 1 \in 1..Len(l) /\ n - 2 \in 1..Len(l)
        /\ n - 1 \in 1..(Len(l) - 1) /\ n - 2 \in 1..(Len(l) - 1)
        /\ (n - 1) + 1 = n /\ (n - 2) + 1 = n - 1 /\ (n - 1) - 1 = n - 2
    BY <1>1
  <2>2. Follows(l, n - 1) /\ Follows(l, n - 2)
    BY <1>3, <2>1
  <2>3. l[n].name \notin {"connection_request", "connection_reply"}
    <3>1. l[n].name # "connection_request" /\ l[n - 1].name # "connection_request"
      BY <2>1, <2>2 DEF Follows, AfterAck, Conv!Acknowledged
    <3> QED
      BY <2>1, <2>2, <3>1 DEF Follows, AfterAck, Conv!Acknowledged
  <2>4. ASSUME l[n].name = "request"
        PROVE  l[n].from = "host" /\ n + 1 < Len(l) /\ l[n + 1].name = "ack"
    <3>1. n # Len(l)
      BY <2>4
    <3>2. n \in 1..(Len(l) - 1)
      BY <1>0, <3>1
    <3>3. l[n + 1].name = "ack"
      BY <1>3, <2>4, <3>2 DEF Follows
    <3>4. n + 1 # Len(l)
      BY <3>3
    <3>5. n + 1 < Len(l)
      BY <1>0, <3>2, <3>4
    <3>6. l[n].from = "host"
      BY <1>3, <2>1, <2>4 DEF Speaker
    <3> QED
      BY <3>3, <3>5, <3>6
  <2>5. l[n].name = "response" <=> l[n - 2].name = "request"
    BY <2>1, <2>2 DEF Follows, AfterAck, Conv!Acknowledged
  <2>6. l[n].name = "hello_reply" => l[n].from = "bl" /\ l[n - 1].name = "ack"
    BY <1>3, <2>1, <2>2 DEF Follows, AfterAck, Conv!Acknowledged, Speaker
  <2> QED
    BY <2>3, <2>4, <2>5, <2>6
<1>9. l \in Seq({l[n] : n \in DOMAIN l})
  BY <1>1
<1> QED
  BY <1>2, <1>3, <1>5, <1>6, <1>7, <1>8, <1>9 DEF Conv!Complete, Conv!Sides

\* What session_build closes, serial_sender can replay: ClosedIsComplete for every
\* mode but SBL, script and file, unless a command whose failure is ignored could fail.
THEOREM ClosedSessionIsComplete ==
  ASSUME NothingSwallowed
  PROVE  Spec => []ClosedIsComplete
<1>1. Init => Proper(packets)
  BY DEF Init, Proper
<1>2. TypeOK /\ TypeOK' /\ Proper(packets) /\ [Conv!Next]_packets => Proper(packets)'
  <2> SUFFICES ASSUME TypeOK, TypeOK', Proper(packets), [Conv!Next]_packets
               PROVE  Proper(packets')
    BY DEF Proper, Follows
  <2> QED
    BY ProperStep DEF TypeOK
<1>3. ASSUME TypeOK, Proper(packets)
      PROVE  ClosedIsComplete
  <2> SUFFICES ASSUME packets # <<>>, packets[Len(packets)].name = "disconnection_reply"
               PROVE  Conv!Complete(packets)
    BY DEF ClosedIsComplete, Conv!LastOf
  <2>1. packets \in Seq(Conv!Packets) /\ Len(packets) \in Nat /\ Len(packets) # 0
    BY <1>3 DEF TypeOK
  <2>2. /\ packets[1].name = "connection_request"
        /\ \A n \in 1..(Len(packets) - 1) : Follows(packets, n)
    BY <1>3, <2>1 DEF Proper
  <2>3. Len(packets) > 1 => packets[2].name = "connection_reply"
    <3>1. Len(packets) > 1 => Follows(packets, 1)
      BY <2>1, <2>2
    <3> QED
      BY <2>2, <3>1 DEF Follows, Conv!Acknowledged
  <2>4. Len(packets) > 2 => packets[3].name = "ack"
    <3>1. Len(packets) > 2 => Follows(packets, 2) /\ Len(packets) > 1
      BY <2>1, <2>2
    <3> QED
      BY <2>3, <3>1 DEF Follows, Conv!Acknowledged
  <2>5. Len(packets) > 3 => packets[4].name = "hello_request"
    <3>1. Len(packets) > 3 => Follows(packets, 3) /\ Len(packets) > 2 /\ Len(packets) > 1
      BY <2>1, <2>2
    <3> QED
      BY <2>3, <2>4, <3>1 DEF Follows, AfterAck, Conv!Acknowledged
  <2>6. Len(packets) \notin {1, 2, 3, 4}
    BY <2>2, <2>3, <2>4, <2>5
  <2>7. Len(packets) > 4
    <3>1. \A n \in Nat : n \in {0, 1, 2, 3, 4} \/ n > 4
      OBVIOUS
    <3> QED
      BY <2>1, <2>6, <3>1, Zenon
  <2> QED
    BY <1>3, <2>1, <2>7, ProperComplete
<1>4. Spec => []TypeOK
  BY TypeCorrect, PTL
<1>5. Spec => [][Conv!Next]_packets
  BY SessionIsConversation, NothingSwallowed, PTL DEF IsConversation, Conv!Spec
<1> QED
  BY <1>1, <1>2, <1>3, <1>4, <1>5, PTL DEF Spec

\* A published list is what serial_sender assumes it to be: every packet of a complete
\* session, when every packet file is created and no failure goes unreported.
THEOREM PublishedListIsComplete ==
  ASSUME NothingSwallowed, NothingLost
  PROVE  Spec => [](packet_list # {} => /\ packet_list = 1..Len(packets)
                                        /\ Conv!Complete(packets))
<1>1. TypeOK /\ PublishedIsWhole /\ ClosedIsComplete =>
        (packet_list # {} => packet_list = 1..Len(packets) /\ Conv!Complete(packets))
  BY DEF PublishedIsWhole, ClosedIsComplete, Conv!LastOf
<1>2. Spec => []TypeOK
  BY TypeCorrect, PTL
<1> QED
  BY <1>1, <1>2, ClosedSessionIsComplete, PublishedListIsWhole, NothingSwallowed, NothingLost, PTL
-----------------------------------------------------------------------------
(* What the session asks for is what the script does.                      *)

\* g gives, for each number of packets of l, the commands that those request.
Unfolds(l, g) ==
  g = [n \in 0..Len(l) |->
         IF n = 0 THEN <<>>
         ELSE IF l[n].name = "request" THEN Append(g[n - 1], l[n].cmd) ELSE g[n - 1]]

\* There is one such function.  Each packet that is said carries this on, so that no
\* induction over the length of a session is needed.
Countable(l) == \E g : Unfolds(l, g) /\ \A h : Unfolds(l, h) => h = g

\* Where there is one, RequestsUpTo is that function.
LEMMA RequestsAre ==
  ASSUME NEW l, NEW g, Unfolds(l, g), \A h : Unfolds(l, h) => h = g
  PROVE  Conv!RequestsUpTo(l) = g
<1> DEFINE r == CHOOSE h : Unfolds(l, h)
<1>1. Unfolds(l, r)
  <2> HIDE DEF Unfolds
  <2> QED
    BY Zenon
<1>2. Conv!RequestsUpTo(l) = r
  BY Zenon DEF Conv!RequestsUpTo, Unfolds
<1> QED
  BY <1>1, <1>2, Zenon

\* Nothing is requested before anything is said.
LEMMA NothingRequested == Countable(<<>>) /\ Conv!Requested(<<>>) = <<>>
<1> DEFINE g == [n \in 0..0 |-> <<>>]
<1>1. Len(<<>>) = 0 /\ 0 \in 0..0 /\ \A n \in 0..0 : n = 0
  OBVIOUS
<1>2. Unfolds(<<>>, g)
  BY <1>1 DEF Unfolds
<1>3. ASSUME NEW h, Unfolds(<<>>, h) PROVE h = g
  <2>1. h = [n \in 0..0 |-> h[n]] /\ \A n \in 0..0 : h[n] = <<>>
    BY <1>1, <1>3 DEF Unfolds
  <2> QED
    BY <2>1
<1>4. Conv!RequestsUpTo(<<>>) = g
  BY <1>2, <1>3, RequestsAre
<1> QED
  BY <1>1, <1>2, <1>3, <1>4 DEF Countable, Conv!Requested

\* One more packet asks for one more command, or for none.
LEMMA OneMorePacket ==
  ASSUME NEW S, NEW l \in Seq(S), NEW p \in S, Countable(l)
  PROVE  /\ Countable(Append(l, p))
         /\ Conv!Requested(Append(l, p)) =
              IF p.name = "request" THEN Append(Conv!Requested(l), p.cmd)
                                    ELSE Conv!Requested(l)
<1> DEFINE m == Len(l)
           k == Append(l, p)
<1>1. PICK g : Unfolds(l, g) /\ \A h : Unfolds(l, h) => h = g
  BY DEF Countable
<1> DEFINE last == IF p.name = "request" THEN Append(g[m], p.cmd) ELSE g[m]
           f == [n \in 0..(m + 1) |-> IF n = m + 1 THEN last ELSE g[n]]
<1>2. /\ m \in Nat /\ Len(k) = m + 1 /\ k[m + 1] = p
      /\ \A n \in 1..m : k[n] = l[n]
  OBVIOUS
<1> HIDE DEF k, m
<1>3. \A n \in 0..(m + 1) :
        /\ n = m + 1 \/ n \in 0..m
        /\ n # 0 => n - 1 \in 0..m /\ n - 1 \in 0..(m + 1) /\ n - 1 # m + 1
        /\ n # 0 /\ n # m + 1 => n \in 1..m
  BY <1>2
<1>4. /\ g = [n \in 0..m |-> g[n]]
      /\ \A n \in 0..m : g[n] = IF n = 0 THEN <<>>
                                ELSE IF l[n].name = "request"
                                  THEN Append(g[n - 1], l[n].cmd) ELSE g[n - 1]
  BY <1>1, Zenon DEF Unfolds, m
<1>5. \A n \in 0..(m + 1) : f[n] = IF n = 0 THEN <<>>
                                   ELSE IF k[n].name = "request"
                                     THEN Append(f[n - 1], k[n].cmd) ELSE f[n - 1]
  <2> TAKE n \in 0..(m + 1)
  <2>1. CASE n = m + 1
    <3>1. n # 0 /\ n - 1 = m /\ m \in 0..(m + 1) /\ m # m + 1
      BY <1>2, <2>1
    <3>2. f[n] = last /\ f[n - 1] = g[m]
      BY <2>1, <3>1
    <3> QED
      BY <1>2, <2>1, <3>1, <3>2
  <2>2. CASE n # m + 1
    <3>1. f[n] = g[n] /\ n \in 0..m
      BY <1>3, <2>2
    <3>2. n # 0 => f[n - 1] = g[n - 1] /\ k[n] = l[n]
      BY <1>2, <1>3, <2>2
    <3> QED
      BY <1>4, <3>1, <3>2
  <2> QED
    BY <2>1, <2>2
<1>6. f = [n \in 0..(m + 1) |-> f[n]]
  BY Zenon
<1>7. f[m + 1] = last
  BY <1>2
<1> HIDE DEF f
<1>8. Unfolds(k, f)
  BY <1>2, <1>5, <1>6, Zenon DEF Unfolds
<1>9. ASSUME NEW h, Unfolds(k, h)
      PROVE  h = f
  <2>1. /\ h = [n \in 0..(m + 1) |-> h[n]]
        /\ \A n \in 0..(m + 1) : h[n] = IF n = 0 THEN <<>>
                                        ELSE IF k[n].name = "request"
                                          THEN Append(h[n - 1], k[n].cmd) ELSE h[n - 1]
    BY <1>2, <1>9, Zenon DEF Unfolds
  <2> DEFINE e == [n \in 0..m |-> h[n]]
  <2>2. \A n \in 0..m : e[n] = IF n = 0 THEN <<>>
                               ELSE IF l[n].name = "request"
                                 THEN Append(e[n - 1], l[n].cmd) ELSE e[n - 1]
    <3> TAKE n \in 0..m
    <3>1. n \in 0..(m + 1) /\ (n # 0 => n - 1 \in 0..m /\ n \in 1..m)
      BY <1>2
    <3>2. e[n] = h[n] /\ (n # 0 => e[n - 1] = h[n - 1] /\ k[n] = l[n])
      BY <1>2, <3>1
    <3> QED
      BY <2>1, <3>1, <3>2
  <2>3. e = [n \in 0..m |-> e[n]]
    BY Zenon
  <2>4. \A n \in 0..m : e[n] = h[n]
    OBVIOUS
  <2> HIDE DEF e
  <2>5. Unfolds(l, e)
    BY <2>2, <2>3, Zenon DEF Unfolds, m
  <2>6. e = g
    BY <1>1, <2>5
  <2>7. \A n \in 0..m : h[n] = f[n]
    <3> TAKE n \in 0..m
    <3>1. n \in 0..(m + 1) /\ n # m + 1
      BY <1>2
    <3> QED
      BY <2>4, <2>6, <3>1 DEF f
  <2>8. h[m + 1] = f[m + 1]
    <3>1. m + 1 \in 0..(m + 1) /\ m + 1 # 0 /\ (m + 1) - 1 = m /\ m \in 0..m
      BY <1>2
    <3>2. h[m] = g[m]
      BY <2>4, <2>6, <3>1
    <3>3. h[m + 1] = IF k[m + 1].name = "request" THEN Append(h[(m + 1) - 1], k[m + 1].cmd)
                                                  ELSE h[(m + 1) - 1]
      BY <2>1, <3>1, Zenon
    <3>4. h[m + 1] = IF p.name = "request" THEN Append(g[m], p.cmd) ELSE g[m]
      BY <1>2, <3>1, <3>2, <3>3, Zenon
    <3> QED
      BY <1>7, <3>4
  <2>9. \A n \in 0..(m + 1) : h[n] = f[n]
    BY <1>3, <2>7, <2>8
  <2> QED
    BY <1>6, <2>1, <2>9, Zenon
<1>10. Conv!RequestsUpTo(k) = f /\ Conv!RequestsUpTo(l) = g
  BY <1>1, <1>8, <1>9, RequestsAre
<1>11. Conv!Requested(k) = last /\ Conv!Requested(l) = g[m]
  BY <1>2, <1>7, <1>10 DEF Conv!Requested, m
<1> QED
  BY <1>8, <1>9, <1>11 DEF Countable, k
\* What an exchange under way leaves to be asked for.
Left ==
  IF cmd = "del_mem" THEN Times("write_mem", chunks)
  ELSE IF cmd \in {"write_mem", "verify_data"} THEN Times(cmd, chunks - 1)
  ELSE <<>>

\* What the lines read so far still want.
Remaining ==
  IF pc = "request" THEN <<cmd>> \o Left
  ELSE IF pc \in {"bl_ack", "response", "host_ack"} THEN Left
  ELSE <<>>

\* What was asked for, and what remains, is what is wanted, until the program ends.  It
\* ends with success only when nothing remains, but for a signature that exits with 0.
Asked ==
  /\ status # "running" => pc = "exited"
  /\ pc # "exited" => wanted = Sent \o Remaining
  /\ pc = "exited" => \E r \in Seq(Cmds) : wanted = Sent \o r
  /\ status = "success" /\ NoFalseSuccess => wanted = Sent

ScriptInv == Countable(packets) /\ Sent \in Seq(Cmds) /\ Asked

\* Times(c, n) is a first c, and the others.
LEMMA TimesFacts ==
  ASSUME NEW c
  PROVE  /\ \A n \in Int : n <= 0 => Times(c, n) = <<>>
         /\ \A n \in Nat : n > 0 => <<c>> \o Times(c, n - 1) = Times(c, n)
<1>1. ASSUME NEW n \in Int, n <= 0 PROVE Times(c, n) = <<>>
  <2>1. 1..n = 1..0
    BY <1>1
  <2>2. Times(c, n) = Times(c, 0)
    BY <2>1, Zenon DEF Times
  <2>3. Times(c, 0) \in Seq({c}) /\ Len(Times(c, 0)) = 0
    BY TimesType DEF Times
  <2> QED
    BY <2>2, <2>3
<1>2. ASSUME NEW n \in Nat, n > 0 PROVE <<c>> \o Times(c, n - 1) = Times(c, n)
  <2> DEFINE a == Times(c, n - 1)
             b == Times(c, n)
             d == <<c>> \o a
  <2>1. /\ a \in Seq({c}) /\ Len(a) = n - 1 /\ b \in Seq({c}) /\ Len(b) = n
        /\ \A i \in 1..(n - 1) : a[i] = c
        /\ \A i \in 1..n : b[i] = c
    BY <1>2, TimesType DEF Times
  <2> HIDE DEF a, b
  <2>2. d \in Seq({c}) /\ Len(d) = n /\ \A i \in 1..n : d[i] = c
    BY <1>2, <2>1
  <2> HIDE DEF d
  <2>3. d = b
    BY <2>1, <2>2
  <2> QED
    BY <2>3 DEF a, b, d
<1> QED
  BY <1>1, <1>2

\* What remains is a sequence of commands.
LEMMA LeftType ==
  ASSUME TypeOK
  PROVE  Left \in Seq(Cmds)
<1>1. chunks \in Int /\ chunks - 1 \in Int
  BY SessionAssumption DEF TypeOK, Unreadable
<1>2. \A c \in FileCmds, n \in Int : Times(c, n) \in Seq(Cmds)
  BY DEF Times, Cmds
<1>3. <<>> \in Seq(Cmds) /\ {"write_mem", "verify_data"} \subseteq FileCmds
  BY DEF FileCmds
<1>4. CASE cmd = "del_mem"
  BY <1>1, <1>2, <1>3, <1>4 DEF Left
<1>5. CASE cmd \in {"write_mem", "verify_data"}
  BY <1>1, <1>2, <1>3, <1>5 DEF Left
<1> QED
  BY <1>3, <1>4, <1>5 DEF Left

\* A packet that is emitted asks for its command, if it is a request.
LEMMA EmittedSent ==
  ASSUME TypeOK, Countable(packets), Sent \in Seq(Cmds),
         NEW side, NEW name, NEW c, NEW s, NEW t, Emitted(side, name, c, s, t)
  PROVE  /\ Countable(packets)'
         /\ Sent' = IF name = "request" THEN Append(Sent, c) ELSE Sent
<1> DEFINE p == Conv!Packet(side, name, c, s % 16, t)
<1>1. packets \in Seq(Conv!Packets) /\ packets' = Append(packets, p)
  BY DEF TypeOK, Emitted
<1>2. p.name = name /\ p.cmd = c
  BY DEF Conv!Packet
<1>3. p \in {packets'[n] : n \in 1..Len(packets')}
  BY <1>1
<1>4. packets \in Seq(Conv!Packets \cup {p}) /\ p \in Conv!Packets \cup {p}
  BY <1>1
<1> HIDE DEF p
<1>5. /\ Countable(packets')
      /\ Conv!Requested(packets') = IF name = "request" THEN Append(Conv!Requested(packets), c)
                                                       ELSE Conv!Requested(packets)
  BY <1>1, <1>2, <1>4, OneMorePacket
<1>6. Sent' = Conv!Requested(packets')
  BY DEF Sent, Conv!Requested, Conv!RequestsUpTo
<1>7. Countable(packets)' <=> Countable(packets')
  BY DEF Countable, Unfolds
<1> QED
  BY <1>5, <1>6, <1>7 DEF Sent

\* Nothing is asked for when nothing is emitted.
LEMMA UnchangedSent ==
  ASSUME Countable(packets), packets' = packets
  PROVE  Countable(packets)' /\ Sent' = Sent
<1>1. Sent' = Conv!Requested(packets')
  BY DEF Sent, Conv!Requested, Conv!RequestsUpTo
<1>2. Countable(packets)' <=> Countable(packets')
  BY DEF Countable, Unfolds
<1>3. Conv!Requested(packets') = Sent /\ Countable(packets')
  <2> DEFINE l == packets'
  <2>1. l = packets
    OBVIOUS
  <2> HIDE DEF l
  <2>2. Conv!Requested(l) = Sent /\ Countable(l)
    BY <2>1, Zenon DEF Sent
  <2> QED
    BY <2>2 DEF l
<1> QED
  BY <1>1, <1>2, <1>3

\* While a packet that is not a request is emitted, between exchanges, all that the lines
\* want has been asked for.
LEMMA QuietStep ==
  ASSUME TypeOK, ScriptInv, status = "running", status' = "running",
         pc # "exited", pc' # "exited", wanted' = wanted, Remaining' = Remaining,
         \/ packets' = packets
         \/ \E side, name, c, s, t : name # "request" /\ Emitted(side, name, c, s, t)
  PROVE  ScriptInv'
<1>1. Countable(packets)' /\ Sent' = Sent
  <2>1. CASE packets' = packets
    BY <2>1, UnchangedSent DEF ScriptInv
  <2>2. CASE \E side, name, c, s, t : name # "request" /\ Emitted(side, name, c, s, t)
    BY <2>2, EmittedSent DEF ScriptInv
  <2> QED
    BY <2>1, <2>2
<1> QED
  BY <1>1 DEF ScriptInv, Asked

\* The handshake and the disconnection ask for nothing.
LEMMA OpeningAsks ==
  ASSUME TypeOK, ScriptInv, Opening
  PROVE  ScriptInv'
<1>1. /\ wanted' = wanted /\ status' = status /\ status = "running"
      /\ pc \in {"con_req", "con_rep", "con_ack", "hello_req", "hello_bl_ack",
                 "hello_rep", "hello_ack", "challenge", "chal_bl_ack", "chal_rsp", "chal_ack"}
      /\ pc' \in {"con_rep", "con_ack", "hello_req", "hello_bl_ack", "hello_rep", "hello_ack",
                  "challenge", "chal_bl_ack", "chal_rsp", "chal_ack", "line"}
      /\ \E name \in Conv!Names \ {"request"} :
           SayNext(name) \/ \E side \in {"host", "bl"} : Say(side, name)
  BY DEF Opening, connection_request, connection_reply, connection_ack,
    hello_request, hello_bl_ack, hello_reply, hello_ack, challenge, challenge_bl_ack,
    challenge_response, challenge_ack, ack, Goto, Say, SayNext, Conv!Names, ScriptInv, Asked,
    TypeOK
<1>2. Remaining = <<>> /\ Remaining' = <<>>
  BY <1>1 DEF Remaining
<1>3. \E side, name, c, s, t : name # "request" /\ Emitted(side, name, c, s, t)
  BY <1>1, SayType
<1> QED
  BY <1>1, <1>2, <1>3, QuietStep

\* A line adds to what is wanted what remains to be asked for.
LEMMA LineAsks ==
  ASSUME TypeOK, TypeOK', ScriptInv, process_command \/ end_of_script
  PROVE  ScriptInv'
<1>1. /\ pc = "line" /\ status = "running" /\ packets' = packets /\ wanted = Sent
      /\ Sent \in Seq(Cmds) /\ chunks \in Int
  <2>1. pc = "line" /\ packets' = packets /\ chunks \in Int
    BY SessionAssumption DEF process_command, end_of_script, Goto, TypeOK, Unreadable
  <2>2. Remaining = <<>> /\ status = "running"
    BY <2>1 DEF Remaining, ScriptInv, Asked, TypeOK
  <2> QED
    BY <2>1, <2>2 DEF ScriptInv, Asked
<1>2. Countable(packets)' /\ Sent' = Sent
  BY <1>1, UnchangedSent DEF ScriptInv
<1>3. /\ status' \in {"running", "failure"} /\ (status' = "failure" <=> pc' = "exited")
      /\ wanted' = Sent \o Remaining'
  <2>1. CASE end_of_script
    BY <1>1, <2>1 DEF end_of_script, Goto, Remaining
  <2>2. CASE skip_line \/ bad_line
    BY <1>1, <2>2 DEF skip_line, bad_line, Exit, Remaining
  <2>3. CASE simple_line
    <3>1. PICK c \in SimpleCmds :
            /\ pc' = "request" /\ cmd' = c /\ wanted' = Append(wanted, c)
            /\ status' = status
      BY <2>3 DEF simple_line, Begin
    <3>2. c \notin FileCmds /\ c \in Cmds
      BY SessionAssumption DEF Cmds
    <3>3. Remaining' = <<c>> \o <<>>
      BY <3>1, <3>2 DEF Remaining, Left, FileCmds
    <3> QED
      BY <1>1, <3>1, <3>2, <3>3
  <2>4. CASE write_file
    <3>1. PICK n \in Unreadable..MaxChunks :
            /\ pc' = "request" /\ cmd' = "del_mem" /\ chunks' = n /\ status' = status
            /\ wanted' = wanted \o <<"del_mem">> \o Times("write_mem", n)
      BY <2>4 DEF write_file, Begin
    <3>2. Remaining' = <<"del_mem">> \o Times("write_mem", n)
      BY <3>1 DEF Remaining, Left
    <3>3. Times("write_mem", n) \in Seq(Cmds) /\ "del_mem" \in Cmds
      BY SessionAssumption DEF Times, Unreadable, Cmds, FileCmds
    <3>4. \A a, b, d \in Seq(Cmds) : (a \o b) \o d = a \o (b \o d)
      OBVIOUS
    <3>5. <<"del_mem">> \in Seq(Cmds)
      BY <3>3
    <3> QED
      BY <1>1, <3>1, <3>2, <3>3, <3>4, <3>5
  <2>5. ASSUME NEW c \in {"write_mem", "verify_data"}, FileLine(c)
        PROVE  /\ status' = status /\ wanted' = Sent \o Remaining' /\ pc' # "exited"
    <3>1. PICK n \in 0..MaxChunks :
            /\ IF n = 0 THEN UNCHANGED <<pc, cmd, chunks>> ELSE Begin(c, n)
            /\ wanted' = wanted \o Times(c, n) /\ status' = status
      BY <2>5 DEF FileLine
    <3>2. CASE n = 0
      <4>1. pc' = "line" /\ wanted' = wanted \o Times(c, 0) /\ status' = status
        BY <1>1, <3>1, <3>2
      <4>2. Times(c, 0) = <<>>
        <5>1. 0 \in Int /\ 0 <= 0
          OBVIOUS
        <5> QED
          BY <5>1, TimesFacts, Zenon
      <4>3. Remaining' = <<>>
        BY <4>1 DEF Remaining
      <4> QED
        BY <1>1, <4>1, <4>2, <4>3
    <3>3. CASE n # 0
      <4>1. pc' = "request" /\ cmd' = c /\ chunks' = n
        BY <3>1, <3>3 DEF Begin
      <4>2. Remaining' = <<c>> \o Times(c, n - 1)
        BY <4>1 DEF Remaining, Left
      <4>3. n \in Nat /\ n > 0
        BY <3>3, SessionAssumption
      <4>4. Remaining' = Times(c, n)
        BY <4>2, <4>3, TimesFacts
      <4> QED
        BY <1>1, <3>1, <4>1, <4>4
    <3> QED
      BY <3>2, <3>3
  <2> QED
    BY <1>1, <2>1, <2>2, <2>3, <2>4, <2>5
       DEF process_command, write_only, verify_file, simple_line, write_file, Begin
<1>4. <<>> \in Seq(Cmds) /\ (pc' = "exited" => Remaining' = <<>>)
  BY DEF Remaining
<1> QED
  BY <1>1, <1>2, <1>3, <1>4 DEF ScriptInv, Asked

\* A request moves its command from what remains to what was asked for; every other
\* step of an exchange leaves both as they are.
LEMMA ExchangeAsks ==
  ASSUME NothingSwallowed, TypeOK, TypeOK', ChunksLeft, EndsWith, ScriptInv, Exchange
  PROVE  ScriptInv'
<1>1. /\ pc \in {"request", "bl_ack", "response", "host_ack"} /\ status = "running"
      /\ wanted = Sent \o Remaining /\ wanted' = wanted /\ Sent \in Seq(Cmds)
      /\ Left \in Seq(Cmds) /\ Countable(packets) /\ session_mode \in MODES
  <2>1. pc \in {"request", "bl_ack", "response", "host_ack"} /\ wanted' = wanted
    BY DEF Exchange, request_signed, request_refused, request_unsigned, sign_exit,
      SignatureFails, bl_ack, ack, Say, Goto, generic_response, host_ack
  <2> QED
    BY <2>1, LeftType DEF ScriptInv, Asked, TypeOK
<1>2. ASSUME pc' \in {"response", "host_ack"}, pc \in {"bl_ack", "response"}, status' = status,
             UNCHANGED <<cmd, chunks>>,
             \E side, name, c, s, t : name # "request" /\ Emitted(side, name, c, s, t)
      PROVE  ScriptInv'
  <2>1. Left' = Left
    BY <1>2 DEF Left, Times
  <2>2. Remaining' = Remaining
    BY <1>2, <2>1 DEF Remaining
  <2>3. pc # "exited" /\ pc' # "exited"
    BY <1>2
  <2> QED
    BY <1>1, <1>2, <2>2, <2>3, QuietStep
<1>3. CASE request_signed
  <2>1. pc = "request" /\ pc' = "bl_ack" /\ cmd \in Cmds /\ UNCHANGED <<cmd, chunks, status>>
    BY <1>3 DEF request_signed, EndsWith, ExchangeTail
  <2>2. Emitted(who, "request", cmd, seq + 1, tr_id)
    BY <1>3, <2>1, Emission DEF request_signed, Conv!Names, TypeOK
  <2>3. Countable(packets)' /\ Sent' = Append(Sent, cmd)
    BY <1>1, <2>2, EmittedSent
  <2>4. Left' = Left
    BY <2>1 DEF Left, Times
  <2>5. Remaining = <<cmd>> \o Left /\ Remaining' = Left
    BY <2>1, <2>4 DEF Remaining
  <2>6. \A a, b \in Seq(Cmds), c \in Cmds :
          Append(a, c) \in Seq(Cmds) /\ Append(a, c) \o b = a \o (<<c>> \o b)
    OBVIOUS
  <2>7. wanted' = Sent' \o Remaining' /\ Sent' \in Seq(Cmds)
    BY <1>1, <2>1, <2>3, <2>5, <2>6
  <2> QED
    BY <1>1, <2>1, <2>3, <2>7 DEF ScriptInv, Asked
<1>4. CASE request_refused
  BY <1>4 DEF request_refused, NothingSwallowed, EndsWith, ExchangeTail
<1>5. CASE request_unsigned
  BY <1>1, <1>5 DEF request_unsigned, SignatureFails, NothingSwallowed
<1>6. CASE sign_exit
  <2>1. /\ pc = "request" /\ pc' = "exited" /\ packets' = packets /\ cmd \in Cmds
        /\ ~NoFalseSuccess
    BY <1>1, <1>6
       DEF sign_exit, SignatureFails, Exit, NoFalseSuccess, EndsWith, ExchangeTail
  <2>2. Countable(packets)' /\ Sent' = Sent
    BY <1>1, <2>1, UnchangedSent
  <2>3. wanted' = Sent' \o Remaining /\ Remaining \in Seq(Cmds)
    BY <1>1, <2>1, <2>2 DEF Remaining
  <2>4. ~NoFalseSuccess'
    BY <2>1 DEF NoFalseSuccess
  <2> QED
    BY <1>1, <2>1, <2>2, <2>3, <2>4 DEF ScriptInv, Asked
<1>7. CASE bl_ack
  <2>1. /\ Emitted("bl", "ack", "none", seq, 0) /\ pc = "bl_ack" /\ pc' = "response"
        /\ UNCHANGED <<cmd, chunks, status>>
    BY <1>7, SayType DEF bl_ack, ack, Goto, Say, Conv!Names
  <2>2. \E side, name, c, s, t : name # "request" /\ Emitted(side, name, c, s, t)
    BY <2>1
  <2> QED
    BY <1>2, <2>1, <2>2
<1>8. CASE generic_response
  <2>1. /\ maxim_send(who, "response", cmd, seq + 1, tr_id) /\ cmd \in Cmds
        /\ pc = "response" /\ pc' = "host_ack" /\ UNCHANGED <<cmd, chunks, status>>
    BY <1>1, <1>8
       DEF generic_response, Goto, NothingSwallowed, EndsWith, ExchangeTail
  <2>2. Emitted(who, "response", cmd, seq + 1, tr_id)
    BY <2>1, Emission, SMTT(30) DEF Conv!Names, TypeOK
  <2>3. \E side, name, c, s, t : name # "request" /\ Emitted(side, name, c, s, t)
    BY <2>2
  <2> QED
    BY <1>2, <2>1, <2>3
<1>9. CASE host_ack
  <2>1. Emitted("host", "ack", "none", seq, 0) /\ pc = "host_ack" /\ Remaining = Left
    <3>1. 0 \in 0..(TR_MOD - 1) /\ seq \in Nat
      BY SessionAssumption DEF TypeOK
    <3>2. pc = "host_ack" /\ maxim_send("host", "ack", "none", seq, 0)
      BY <1>9 DEF host_ack
    <3> QED
      BY <3>1, <3>2, Emission DEF Conv!Names, Remaining
  <2>2. Countable(packets)' /\ Sent' = Sent
    BY <1>1, <2>1, EmittedSent
  <2>3. chunks \in Int /\ \A n \in Int : n < 1 \/ n \in Nat \ {0}
    BY SessionAssumption DEF TypeOK, Unreadable
  <2>4. /\ Remaining' = Left /\ status' \in {"running", "failure"}
        /\ status' = "failure" <=> pc' = "exited"
    <3>1. CASE file_erased
      <4>1. Left = Times("write_mem", chunks)
        BY <3>1 DEF file_erased, Left
      <4>2. CASE chunks > 0
        <5>1. pc' = "request" /\ cmd' = "write_mem" /\ chunks' = chunks /\ status' = status
          BY <3>1, <4>2, SessionAssumption DEF file_erased, Begin, Unreadable
        <5>2. Remaining' = <<"write_mem">> \o Times("write_mem", chunks - 1)
          BY <5>1 DEF Remaining, Left, Times
        <5>3. chunks \in Nat
          BY <2>3, <4>2
        <5>4. Remaining' = Times("write_mem", chunks)
          BY <4>2, <5>2, <5>3, TimesFacts
        <5> QED
          BY <1>1, <4>1, <5>1, <5>4
      <4>3. CASE ~(chunks > 0)
        <5>1. chunks <= 0
          BY <2>3, <4>3
        <5>2. Left = <<>>
          BY <2>3, <4>1, <5>1, TimesFacts
        <5>3. \/ pc' = "line" /\ status' = status
              \/ pc' = "exited" /\ status' = "failure"
          BY <3>1, <4>3 DEF file_erased, Exit
        <5> QED
          BY <1>1, <5>2, <5>3 DEF Remaining
      <4> QED
        BY <4>2, <4>3
    <3>2. CASE next_chunk
      <4>1. /\ cmd \in {"write_mem", "verify_data"} /\ cmd' = cmd /\ chunks' = chunks - 1
            /\ status' = status /\ pc' = IF chunks > 1 THEN "request" ELSE "line"
        BY <3>2 DEF next_chunk
      <4>2. Left = Times(cmd, chunks - 1)
        BY <4>1 DEF Left
      <4>3. chunks > 0
        BY <2>1, <4>1 DEF ChunksLeft, InExchange
      <4>4. CASE chunks > 1
        <5>1. Remaining' = <<cmd>> \o Times(cmd, chunks' - 1)
          BY <4>1, <4>4 DEF Remaining, Left, Times
        <5>2. chunks' \in Nat /\ chunks' > 0
          BY <2>3, <4>1, <4>4
        <5>3. Remaining' = Times(cmd, chunks')
          BY <5>1, <5>2, TimesFacts
        <5> QED
          BY <1>1, <4>1, <4>2, <4>4, <5>3
      <4>5. CASE ~(chunks > 1)
        <5>1. chunks - 1 = 0 /\ 0 \in Int /\ 0 <= 0
          BY <2>3, <4>3, <4>5
        <5>2. Left = <<>>
          BY <4>2, <5>1, TimesFacts
        <5> QED
          BY <1>1, <4>1, <4>5, <5>2 DEF Remaining
      <4> QED
        BY <4>4, <4>5
    <3>3. CASE command_done
      <4>1. cmd \notin FileCmds /\ pc' = "line" /\ status' = status
        BY <3>3, SessionAssumption DEF command_done
      <4> QED
        BY <1>1, <4>1 DEF Left, Remaining, FileCmds
    <3> QED
      BY <1>9, <3>1, <3>2, <3>3 DEF host_ack
  <2>5. wanted' = Sent' \o Remaining'
    BY <1>1, <2>1, <2>2, <2>4
  <2>6. Remaining' \in Seq(Cmds) /\ Sent' \in Seq(Cmds)
    BY <1>1, <2>2, <2>4
  <2> QED
    BY <2>2, <2>4, <2>5, <2>6 DEF ScriptInv, Asked
<1> QED
  BY <1>3, <1>4, <1>5, <1>6, <1>7, <1>8, <1>9 DEF Exchange

\* Nothing remains when the session is closed, and what has ended stays as it is.
LEMMA ClosingAsks ==
  ASSUME TypeOK, ScriptInv, Closing \/ Terminated \/ UNCHANGED vars
  PROVE  ScriptInv'
<1>1. CASE disconnection_request \/ disconnection_reply
  <2>1. /\ pc \in {"disc_req", "disc_rep"} /\ pc' \in {"disc_rep", "return"}
        /\ wanted' = wanted /\ status' = status /\ status = "running"
        /\ SayNext("disconnection_request") \/ Say("bl", "disconnection_reply")
    BY <1>1 DEF disconnection_request, disconnection_reply, Goto, Say, SayNext, ScriptInv,
      Asked, TypeOK
  <2>2. Remaining = <<>> /\ Remaining' = <<>>
    BY <2>1 DEF Remaining
  <2>3. \E side, name, c, s, t : name # "request" /\ Emitted(side, name, c, s, t)
    BY <2>1, SayType DEF Conv!Names
  <2> QED
    BY <2>1, <2>2, <2>3, QuietStep
<1>2. CASE return
  <2>1. pc = "return" /\ pc' = "exited" /\ packets' = packets /\ wanted' = wanted
    BY <1>2 DEF return, Exit
  <2>2. wanted = Sent /\ Sent \in Seq(Cmds) /\ wanted = Sent \o <<>> /\ <<>> \in Seq(Cmds)
    BY <2>1 DEF ScriptInv, Asked, Remaining
  <2>3. Countable(packets)' /\ Sent' = Sent
    BY <2>1, UnchangedSent DEF ScriptInv
  <2> QED
    BY <2>1, <2>2, <2>3 DEF ScriptInv, Asked
<1>3. CASE publish \/ Terminated \/ UNCHANGED vars
  <2>1. UNCHANGED <<pc, cmd, chunks, wanted, status, packets>>
    BY <1>3 DEF publish, Terminated, vars
  <2>2. Countable(packets)' /\ Sent' = Sent
    BY <2>1, UnchangedSent DEF ScriptInv
  <2>3. Remaining' = Remaining
    BY <2>1 DEF Remaining, Left, Times
  <2> QED
    BY <2>1, <2>2, <2>3 DEF ScriptInv, Asked, NoFalseSuccess
<1> QED
  BY <1>1, <1>2, <1>3 DEF Closing

\* What was asked for, and what remains to be, is what the script wants: inductive,
\* with the conversation that was had so far.
LEMMA ScriptInvariance ==
  ASSUME NothingSwallowed
  PROVE  Spec => [](EndsWith /\ ScriptInv)
<1>1. Init => ScriptInv
  <2>1. Init => packets = <<>> /\ wanted = <<>> /\ pc = "con_req" /\ status = "running"
    BY DEF Init
  <2>2. Init => Countable(packets) /\ Sent = <<>>
    BY <2>1, NothingRequested DEF Sent
  <2>3. Init => Remaining = <<>>
    BY <2>1 DEF Remaining
  <2>4. <<>> \in Seq(Cmds) /\ <<>> \o <<>> = <<>>
    OBVIOUS
  <2> QED
    BY <2>1, <2>2, <2>3, <2>4 DEF ScriptInv, Asked
<1>2. TypeOK /\ TypeOK' /\ ChunksLeft /\ EndsWith /\ ScriptInv /\ [Next]_vars => ScriptInv'
  <2> SUFFICES ASSUME TypeOK, TypeOK', ChunksLeft, EndsWith, ScriptInv, [Next]_vars
               PROVE  ScriptInv'
    OBVIOUS
  <2>1. CASE Opening
    BY <2>1, OpeningAsks
  <2>2. CASE process_command \/ end_of_script
    BY <2>2, LineAsks
  <2>3. CASE Exchange
    BY <2>3, ExchangeAsks, NothingSwallowed
  <2>4. CASE Closing \/ Terminated \/ UNCHANGED vars
    BY <2>4, ClosingAsks
  <2> QED
    BY <2>1, <2>2, <2>3, <2>4 DEF Next
<1>3. TypeOK /\ EndsWith /\ [Next]_vars => EndsWith'
  BY ConversationStep, NothingSwallowed
<1>4. Init => EndsWith
  BY ConversationInit
<1>5. Spec => []TypeOK /\ []ChunksLeft
  BY TypeCorrect, PTL
<1>6. Spec => []EndsWith
  BY <1>3, <1>4, <1>5, PTL DEF Spec
<1> QED
  BY <1>1, <1>2, <1>5, <1>6, PTL DEF Spec

\* SentIsPrefix for every instance where no failure is ignored: at any moment, also when
\* the program stops in the middle, the requests written so far are the first commands
\* of the lines read, in their order, none skipped and none sent twice.
THEOREM RequestsFollowScript ==
  ASSUME NothingSwallowed
  PROVE  Spec => []SentIsPrefix
<1>1. TypeOK /\ EndsWith /\ ScriptInv => SentIsPrefix
  <2> SUFFICES ASSUME TypeOK, EndsWith, ScriptInv PROVE SentIsPrefix
    OBVIOUS
  <2>1. Remaining \in Seq(Cmds)
    <3>1. pc = "request" => cmd \in Cmds
      BY DEF EndsWith, ExchangeTail
    <3>2. Left \in Seq(Cmds) /\ <<>> \in Seq(Cmds)
      BY LeftType
    <3>3. pc = "request" => <<cmd>> \o Left \in Seq(Cmds)
      BY <3>1, <3>2
    <3> QED
      BY <3>2, <3>3 DEF Remaining
  <2>2. PICK r \in Seq(Cmds) : wanted = Sent \o r
    BY <2>1 DEF ScriptInv, Asked
  <2>3. \A a, b \in Seq(Cmds) : Len(a) <= Len(a \o b) /\ SubSeq(a \o b, 1, Len(a)) = a
    OBVIOUS
  <2> QED
    BY <2>2, <2>3 DEF SentIsPrefix, ScriptInv
<1> QED
  BY <1>1, ScriptInvariance, TypeCorrect, NothingSwallowed, PTL

\* SuccessIsComplete for every instance where no failure is ignored and no failed
\* signature exits with 0: a session reported built does everything the script says.
THEOREM SuccessIsWhole ==
  ASSUME NothingSwallowed, NoFalseSuccess
  PROVE  Spec => []SuccessIsComplete
<1>1. ScriptInv => SuccessIsComplete
  BY NoFalseSuccess DEF ScriptInv, Asked, SuccessIsComplete
<1> QED
  BY <1>1, ScriptInvariance, NothingSwallowed, PTL

-----------------------------------------------------------------------------
(* Induction over the natural numbers, stated on sets.                     *)

NatLess == OpToRel(<, Nat)

\* Every non-empty set of natural numbers has a least element.
LEMMA LeastNatural ==
  ASSUME NEW T, T \subseteq Nat, T # {}
  PROVE  \E x \in T : \A y \in T : x <= y
<1>1. \A x, y \in Nat : <<x, y>> \in NatLess <=> x < y
  BY DEF NatLess, OpToRel
<1>2. IsWellFoundedOn(NatLess, Nat)
  BY NatLessThanWellFounded, Zenon DEF NatLess
<1>3. PICK x \in T : \A y \in T : ~ (<<y, x>> \in NatLess)
  BY <1>2, WFMin, Zenon
<1>4. ASSUME NEW y \in T PROVE x <= y
  <2>1. x \in Nat /\ y \in Nat /\ ~ (y < x)
    BY <1>1, <1>3, Zenon
  <2> QED
    BY <2>1
<1> QED
  BY <1>4

\* A set that contains 0 and every successor of its elements up to N contains 0..N.
LEMMA IntervalInduction ==
  ASSUME NEW N \in Nat, NEW T, 0 \in T,
         \A n \in 0..(N - 1) : n \in T => n + 1 \in T
  PROVE  \A n \in 0..N : n \in T
<1> DEFINE Missing == {n \in 0..N : n \notin T}
<1> SUFFICES ASSUME Missing # {} PROVE FALSE
  OBVIOUS
<1>1. PICK m \in Missing : \A y \in Missing : m <= y
  <2>1. Missing \subseteq Nat
    OBVIOUS
  <2> QED
    BY <2>1, LeastNatural
<1>2. m # 0 /\ m - 1 \in 0..(N - 1) /\ m - 1 \notin Missing
  BY <1>1
<1> QED
  BY <1>1, <1>2

-----------------------------------------------------------------------------
(* The commands that write, whatever fails.                                *)

\* l as packets, in which only the commands that write are requests.
Marked(l) ==
  [n \in 1..Len(l) |-> [name |-> IF Unchecked(l[n]) THEN "ignored" ELSE "request",
                        cmd |-> l[n]]]

\* What is kept of l is what is requested by its packets.
LEMMA KeptIsRequested ==
  ASSUME NEW S, NEW l \in Seq(S), Countable(Marked(l))
  PROVE  Kept(l) = Conv!Requested(Marked(l))
<1> DEFINE m == Marked(l)
           Keeps(f) == f = [n \in 0..Len(l) |->
                              IF n = 0 THEN <<>>
                              ELSE IF Unchecked(l[n]) THEN f[n - 1] ELSE Append(f[n - 1], l[n])]
           k == CHOOSE f : Keeps(f)
<1>1. /\ Len(l) \in Nat /\ Len(m) = Len(l)
      /\ \A n \in 1..Len(l) : /\ m[n].name = "request" <=> ~Unchecked(l[n])
                             /\ m[n].cmd = l[n]
  BY DEF Marked
<1> HIDE DEF m
<1>2. ASSUME NEW f PROVE Keeps(f) <=> Unfolds(m, f)
  <2>1. \A n \in 0..Len(l) : n # 0 => n \in 1..Len(l)
    BY <1>1
  <2>2. \A n \in 0..Len(l) :
          (IF n = 0 THEN <<>> ELSE IF Unchecked(l[n]) THEN f[n - 1] ELSE Append(f[n - 1], l[n]))
        = (IF n = 0 THEN <<>>
           ELSE IF m[n].name = "request" THEN Append(f[n - 1], m[n].cmd) ELSE f[n - 1])
    BY <1>1, <2>1
  <2> QED
    BY <1>1, <2>2 DEF Unfolds
<1>3. PICK g : Unfolds(m, g) /\ \A h : Unfolds(m, h) => h = g
  BY DEF Countable, m
<1>4. Keeps(k)
  <2> HIDE DEF Keeps
  <2> QED
    BY <1>2, <1>3, Zenon
<1>5. k = g
  <2> HIDE DEF k, Keeps
  <2> QED
    BY <1>2, <1>3, <1>4, Zenon
<1>6. Kept(l) = k[Len(l)]
  BY Zenon DEF Kept
<1>7. Conv!RequestsUpTo(m) = g
  BY <1>3, RequestsAre
<1>8. Conv!Requested(m) = g[Len(l)]
  BY <1>1, <1>7 DEF Conv!Requested
<1> HIDE DEF k
<1> QED
  BY <1>5, <1>6, <1>8 DEF m

\* One more command is kept, or not.
LEMMA MarkOneMore ==
  ASSUME NEW l \in Seq(Cmds), NEW c \in Cmds, Countable(Marked(l))
  PROVE  /\ Countable(Marked(Append(l, c)))
         /\ Kept(Append(l, c)) = IF Unchecked(c) THEN Kept(l) ELSE Append(Kept(l), c)
<1> DEFINE p == [name |-> IF Unchecked(c) THEN "ignored" ELSE "request", cmd |-> c]
           P == [name : {"ignored", "request"}, cmd : Cmds]
           m == Marked(l)
           k == Marked(Append(l, c))
<1>1. /\ Append(l, c) \in Seq(Cmds) /\ Len(l) \in Nat /\ Len(Append(l, c)) = Len(l) + 1
      /\ Append(l, c)[Len(l) + 1] = c
      /\ \A n \in 1..Len(l) : Append(l, c)[n] = l[n] /\ l[n] \in Cmds
  OBVIOUS
<1>2. m \in Seq(P) /\ Len(m) = Len(l) /\ p \in P
  BY <1>1 DEF Marked
<1>3. k = Append(m, p)
  <2>1. k \in Seq(P) /\ Len(k) = Len(l) + 1
    <3> DEFINE d == Append(l, c)
    <3>1. d \in Seq(Cmds) /\ Len(d) = Len(l) + 1 /\ Len(l) + 1 \in Nat
      BY <1>1
    <3> HIDE DEF d
    <3>2. Marked(d) \in Seq(P) /\ Len(Marked(d)) = Len(d)
      BY <3>1 DEF Marked
    <3> QED
      BY <3>1, <3>2 DEF d
  <2>2. \A n \in 1..Len(l) : k[n] = m[n]
    BY <1>1 DEF Marked
  <2>3. k[Len(l) + 1] = p
    BY <1>1 DEF Marked
  <2> HIDE DEF k, m, p, P
  <2>4. /\ Append(m, p) \in Seq(P) /\ Len(Append(m, p)) = Len(l) + 1
        /\ Append(m, p)[Len(l) + 1] = p /\ \A n \in 1..Len(l) : Append(m, p)[n] = m[n]
    BY <1>1, <1>2
  <2>5. \A n \in 1..(Len(l) + 1) : k[n] = Append(m, p)[n]
    BY <1>1, <2>2, <2>3, <2>4
  <2> QED
    BY <1>1, <2>1, <2>4, <2>5, SeqEqual
<1>4. /\ Countable(k)
      /\ Conv!Requested(k) = IF p.name = "request" THEN Append(Conv!Requested(m), p.cmd)
                                                   ELSE Conv!Requested(m)
  <2> HIDE DEF k, m, p, P
  <2> QED
    BY <1>2, <1>3, OneMorePacket DEF m
<1>5. Kept(l) = Conv!Requested(m) /\ Kept(Append(l, c)) = Conv!Requested(k)
  BY <1>1, <1>4, KeptIsRequested
<1> HIDE DEF k, m
<1> QED
  BY <1>4, <1>5 DEF k

\* Nothing is kept of nothing.
LEMMA KeptOfNone == Countable(Marked(<<>>)) /\ Kept(<<>>) = <<>>
<1>1. Marked(<<>>) = <<>>
  BY DEF Marked
<1>2. <<>> \in Seq({})
  OBVIOUS
<1> QED
  BY <1>1, <1>2, NothingRequested, KeptIsRequested

\* The commands kept can be told of every sequence of commands.
LEMMA KeptType ==
  ASSUME NEW l \in Seq(Cmds)
  PROVE  Countable(Marked(l)) /\ Kept(l) \in Seq(Cmds)
<1> DEFINE Good(k) == Countable(Marked(k)) /\ Kept(k) \in Seq(Cmds)
           T == {n \in Nat : \A k \in Seq(Cmds) : Len(k) = n => Good(k)}
<1>1. 0 \in T
  <2>1. Good(<<>>)
    <3>1. <<>> \in Seq(Cmds)
      OBVIOUS
    <3> QED
      BY <3>1, KeptOfNone, Zenon
  <2>2. \A k \in Seq(Cmds) : Len(k) = 0 => k = <<>>
    OBVIOUS
  <2> HIDE DEF Good
  <2> QED
    BY <2>1, <2>2
<1>2. ASSUME NEW n \in Nat, n \in T PROVE n + 1 \in T
  <2> SUFFICES ASSUME NEW k \in Seq(Cmds), Len(k) = n + 1 PROVE Good(k)
    OBVIOUS
  <2> DEFINE f == SubSeq(k, 1, n)
  <2>1. f \in Seq(Cmds) /\ Len(f) = n /\ k[n + 1] \in Cmds /\ k = Append(f, k[n + 1])
    <3>1. f \in Seq(Cmds) /\ Len(f) = n /\ k[n + 1] \in Cmds /\ \A j \in 1..n : f[j] = k[j]
      BY <1>2
    <3> HIDE DEF f
    <3> QED
      BY <1>2, <3>1
  <2>2. Good(f)
    <3> HIDE DEF f, Good
    <3> QED
      BY <1>2, <2>1
  <2> HIDE DEF f
  <2>3. /\ Countable(Marked(k))
        /\ Kept(k) = IF Unchecked(k[n + 1]) THEN Kept(f) ELSE Append(Kept(f), k[n + 1])
    BY <2>1, <2>2, MarkOneMore
  <2> QED
    BY <2>1, <2>2, <2>3
<1>3. Len(l) \in Nat
  OBVIOUS
<1> HIDE DEF T
<1>4. \A n \in 0..Len(l) : n \in T
  <2>1. \A n \in 0..(Len(l) - 1) : n \in T => n + 1 \in T
    BY <1>2, <1>3
  <2> QED
    BY <1>1, <1>3, <2>1, IntervalInduction
<1>5. Len(l) \in T
  BY <1>3, <1>4
<1> QED
  BY <1>5 DEF T

LEMMA KeptOneMore ==
  ASSUME NEW l \in Seq(Cmds), NEW c \in Cmds
  PROVE  Kept(Append(l, c)) = IF Unchecked(c) THEN Kept(l) ELSE Append(Kept(l), c)
  BY KeptType, MarkOneMore

\* One more of the same.
LEMMA TimesOneMore ==
  ASSUME NEW c, NEW n \in Nat
  PROVE  Times(c, n + 1) = Append(Times(c, n), c)
<1> DEFINE a == Times(c, n)
           b == Times(c, n + 1)
           d == Append(a, c)
<1>1. /\ a \in Seq({c}) /\ Len(a) = n /\ b \in Seq({c}) /\ Len(b) = n + 1
      /\ \A i \in 1..n : a[i] = c
      /\ \A i \in 1..(n + 1) : b[i] = c
  BY TimesType DEF Times
<1> HIDE DEF a, b
<1>2. d \in Seq({c}) /\ Len(d) = n + 1 /\ \A i \in 1..(n + 1) : d[i] = c
  BY <1>1
<1> HIDE DEF d
<1>3. d = b
  BY <1>1, <1>2
<1> QED
  BY <1>3 DEF a, b, d

\* Appending to a concatenation is appending to its second part.
LEMMA ConcatAppend ==
  ASSUME NEW a \in Seq(Cmds), NEW b \in Seq(Cmds), NEW c \in Cmds
  PROVE  Append(a \o b, c) = a \o Append(b, c)
<1>1. a \o b \in Seq(Cmds) /\ <<c>> \in Seq(Cmds)
  OBVIOUS
<1>2. Append(a \o b, c) = (a \o b) \o <<c>> /\ Append(b, c) = b \o <<c>>
  BY <1>1, AppendIsConcat
<1>3. (a \o b) \o <<c>> = a \o (b \o <<c>>)
  BY <1>1, ConcatAssociative
<1> QED
  BY <1>2, <1>3

\* What is kept of n times the same command.
LEMMA KeptTimes ==
  ASSUME NEW l \in Seq(Cmds), NEW c \in FileCmds, NEW n \in Int
  PROVE  Kept(l \o Times(c, n)) = IF Unchecked(c) THEN Kept(l) ELSE Kept(l) \o Times(c, n)
<1> DEFINE T == {k \in Nat : Kept(l \o Times(c, k)) =
                               IF Unchecked(c) THEN Kept(l) ELSE Kept(l) \o Times(c, k)}
<1>1. c \in Cmds /\ Kept(l) \in Seq(Cmds)
  BY KeptType DEF Cmds
<1>2. \A k \in Int : Times(c, k) \in Seq(Cmds)
  BY <1>1 DEF Times
<1>3. \A a \in Seq(Cmds) : a \o <<>> = a
  OBVIOUS
<1>4. \A a, b \in Seq(Cmds) : a \o b \in Seq(Cmds)
  OBVIOUS
<1>5. ASSUME NEW k \in Int, k <= 0
      PROVE  Kept(l \o Times(c, k)) = IF Unchecked(c) THEN Kept(l) ELSE Kept(l) \o Times(c, k)
  <2>1. Times(c, k) = <<>>
    BY <1>5, TimesFacts
  <2> QED
    BY <1>1, <1>3, <2>1
<1>6. 0 \in T
  BY <1>5
<1>7. ASSUME NEW k \in Nat, k \in T PROVE k + 1 \in T
  <2>1. Times(c, k) \in Seq(Cmds) /\ Times(c, k + 1) = Append(Times(c, k), c)
    <3>1. k \in Int
      BY <1>7
    <3> QED
      BY <1>2, <1>7, <3>1, TimesOneMore, Zenon
  <2>2. l \o Times(c, k + 1) = Append(l \o Times(c, k), c)
    <3> DEFINE t == Times(c, k)
    <3>1. t \in Seq(Cmds)
      BY <2>1
    <3> HIDE DEF t
    <3>2. Append(l \o t, c) = l \o Append(t, c)
      BY <1>1, <3>1, ConcatAppend
    <3> QED
      BY <2>1, <3>2 DEF t
  <2>3. Kept(l \o Times(c, k + 1)) = IF Unchecked(c) THEN Kept(l \o Times(c, k))
                                     ELSE Append(Kept(l \o Times(c, k)), c)
    <3>1. l \o Times(c, k) \in Seq(Cmds)
      BY <1>4, <2>1
    <3> QED
      BY <1>1, <2>2, <3>1, KeptOneMore, Zenon
  <2>4. Kept(l) \o Times(c, k + 1) = Append(Kept(l) \o Times(c, k), c)
    <3> DEFINE t == Times(c, k)
               K == Kept(l)
    <3>1. t \in Seq(Cmds) /\ K \in Seq(Cmds)
      BY <1>1, <2>1
    <3> HIDE DEF t, K
    <3>2. Append(K \o t, c) = K \o Append(t, c)
      BY <1>1, <3>1, ConcatAppend
    <3> QED
      BY <2>1, <3>2 DEF t, K
  <2>5. Kept(l \o Times(c, k)) = IF Unchecked(c) THEN Kept(l) ELSE Kept(l) \o Times(c, k)
    BY <1>7
  <2>6. Kept(l \o Times(c, k + 1)) = IF Unchecked(c) THEN Kept(l)
                                     ELSE Kept(l) \o Times(c, k + 1)
    BY <2>3, <2>4, <2>5
  <2>7. k + 1 \in Nat
    BY <1>7
  <2> QED
    BY <2>6, <2>7, Zenon
<1> HIDE DEF T
<1>8. CASE n <= 0
  BY <1>5, <1>8
<1>9. CASE n > 0
  <2>1. n \in Nat /\ n \in 0..n /\ \A k \in 0..(n - 1) : k \in T => k + 1 \in T
    BY <1>7, <1>9
  <2>2. n \in T
    BY <1>6, <2>1, IntervalInduction
  <2> QED
    BY <2>2 DEF T
<1> QED
  BY <1>8, <1>9

\* The writes that an exchange under way leaves to be asked for.
WritesLeft ==
  IF cmd = "del_mem" THEN Times("write_mem", chunks)
  ELSE IF cmd = "write_mem" THEN Times("write_mem", chunks - 1)
  ELSE <<>>

WritesRemaining ==
  IF pc = "request" THEN IF Unchecked(cmd) THEN WritesLeft ELSE <<cmd>> \o WritesLeft
  ELSE IF pc \in {"bl_ack", "response", "host_ack"} THEN WritesLeft
  ELSE <<>>

\* The writes asked for, and those that remain, are those wanted, whatever becomes of
\* the erasures and the comparisons.
WriteInv ==
  /\ Countable(packets) /\ Sent \in Seq(Cmds)
  /\ status # "running" => pc = "exited"
  /\ InExchange => cmd \in Cmds
  /\ pc # "exited" => Kept(wanted) = Kept(Sent) \o WritesRemaining
  /\ status = "success" /\ NoFalseSuccess => Kept(Sent) = Kept(wanted)

\* The writes that remain are commands.
LEMMA WritesLeftType ==
  ASSUME TypeOK
  PROVE  WritesLeft \in Seq(Cmds)
<1>1. chunks \in Int /\ chunks - 1 \in Int
  BY SessionAssumption DEF TypeOK, Unreadable
<1>2. \A n \in Int : Times("write_mem", n) \in Seq(Cmds)
  BY DEF Times, Cmds, FileCmds
<1>3. <<>> \in Seq(Cmds)
  OBVIOUS
<1> QED
  BY <1>1, <1>2, <1>3 DEF WritesLeft

\* A step that asks for nothing and leaves what remains.
LEMMA WritesQuiet ==
  ASSUME TypeOK, WriteInv, pc # "exited", pc' # "exited", status' = status, wanted' = wanted,
         WritesRemaining' = WritesRemaining, InExchange' => cmd' \in Cmds,
         \/ packets' = packets
         \/ \E side, name, c, s, t : name # "request" /\ Emitted(side, name, c, s, t)
  PROVE  WriteInv'
<1>1. Countable(packets)' /\ Sent' = Sent
  <2>1. CASE packets' = packets
    BY <2>1, UnchangedSent DEF WriteInv
  <2>2. CASE \E side, name, c, s, t : name # "request" /\ Emitted(side, name, c, s, t)
    BY <2>2, EmittedSent DEF WriteInv
  <2> QED
    BY <2>1, <2>2
<1>2. Kept(Sent)' = Kept(Sent) /\ Kept(wanted)' = Kept(wanted)
  BY <1>1 DEF Kept
<1>3. (pc # "exited")' /\ (status = "running")'
  BY DEF WriteInv, TypeOK
<1> QED
  BY <1>1, <1>2, <1>3 DEF WriteInv

\* The program ends: with failure, or with a success that was false.
LEMMA WritesEnd ==
  ASSUME TypeOK, WriteInv, packets' = packets, wanted' = wanted, pc' = "exited",
         status' # "success" \/ ~NoFalseSuccess \/ Kept(Sent) = Kept(wanted)
  PROVE  WriteInv'
<1>1. Countable(packets)' /\ Sent' = Sent
  BY UnchangedSent DEF WriteInv
<1>2. Kept(Sent)' = Kept(Sent) /\ Kept(wanted)' = Kept(wanted)
  BY <1>1 DEF Kept
<1> QED
  BY <1>1, <1>2 DEF WriteInv, NoFalseSuccess, InExchange

\* The handshake and the disconnection write nothing.
LEMMA WritesOpening ==
  ASSUME TypeOK, WriteInv, Opening \/ disconnection_request \/ disconnection_reply
  PROVE  WriteInv'
<1>1. /\ wanted' = wanted /\ status' = status
      /\ pc \notin {"request", "bl_ack", "response", "host_ack", "exited"}
      /\ pc' \notin {"request", "bl_ack", "response", "host_ack", "exited"}
      /\ \E name \in Conv!Names \ {"request"} :
           SayNext(name) \/ \E side \in {"host", "bl"} : Say(side, name)
  BY DEF Opening, connection_request, connection_reply, connection_ack,
    hello_request, hello_bl_ack, hello_reply, hello_ack, challenge, challenge_bl_ack,
    challenge_response, challenge_ack, disconnection_request, disconnection_reply, ack, Goto,
    Say, SayNext, Conv!Names
<1>2. WritesRemaining = <<>> /\ WritesRemaining' = <<>> /\ ~InExchange'
  BY <1>1 DEF WritesRemaining, InExchange
<1>3. \E side, name, c, s, t : name # "request" /\ Emitted(side, name, c, s, t)
  BY <1>1, SayType
<1> QED
  BY <1>1, <1>2, <1>3, WritesQuiet

\* A line adds the writes it wants to those that remain.
LEMMA WritesLine ==
  ASSUME TypeOK, TypeOK', WriteInv, process_command \/ end_of_script
  PROVE  WriteInv'
<1>1. pc = "line" /\ packets' = packets /\ WritesRemaining = <<>> /\ status = "running"
  BY DEF process_command, end_of_script, Goto, WritesRemaining, WriteInv, TypeOK
<1>2. Countable(packets)' /\ Sent' = Sent
  BY <1>1, UnchangedSent DEF WriteInv
<1>3. /\ wanted \in Seq(Cmds) /\ Kept(Sent) \in Seq(Cmds) /\ Kept(wanted) = Kept(Sent)
  <2>1. wanted \in Seq(Cmds) /\ Kept(Sent) \in Seq(Cmds)
    BY KeptType DEF TypeOK, WriteInv
  <2>2. Kept(wanted) = Kept(Sent) \o <<>>
    BY <1>1 DEF WriteInv
  <2> QED
    BY <2>1, <2>2
<1> DEFINE K == Kept(Sent)
<1>4. K \o <<>> = K /\ Kept(Sent)' = K /\ Kept(wanted)' = Kept(wanted')
  BY <1>2, <1>3 DEF Kept
<1>5. CASE bad_line
  <2>1. packets' = packets /\ wanted' = wanted /\ pc' = "exited" /\ status' # "success"
    BY <1>1, <1>5 DEF bad_line, Exit
  <2> QED
    BY <2>1, WritesEnd
<1>6. ASSUME status' = status, pc' # "exited", InExchange' => cmd' \in Cmds,
             Kept(wanted') = K \o WritesRemaining'
      PROVE  WriteInv'
  BY <1>1, <1>2, <1>4, <1>6 DEF WriteInv
<1>7. CASE end_of_script \/ skip_line
  <2>1. /\ status' = status /\ pc' \in {"line", "disc_req"} /\ wanted' = wanted
    BY <1>1, <1>7 DEF end_of_script, skip_line, Goto
  <2>2. WritesRemaining' = <<>> /\ ~InExchange'
    BY <2>1 DEF WritesRemaining, InExchange
  <2> QED
    BY <1>3, <1>4, <1>6, <2>1, <2>2
<1>8. CASE simple_line
  <2>1. PICK c \in SimpleCmds :
          /\ pc' = "request" /\ cmd' = c /\ wanted' = Append(wanted, c) /\ status' = status
    BY <1>8 DEF simple_line, Begin
  <2>2. c \in Cmds /\ c \notin FileCmds /\ ~Unchecked(c)
    BY SessionAssumption DEF Cmds, FileCmds, Unchecked
  <2>3. WritesRemaining' = <<c>> \o <<>>
    BY <2>1, <2>2 DEF WritesRemaining, WritesLeft, FileCmds, Unchecked
  <2>4. Kept(wanted') = Append(K, c)
    BY <1>3, <2>1, <2>2, KeptOneMore
  <2>5. Append(K, c) = K \o (<<c>> \o <<>>)
    BY <1>3, <2>2
  <2> QED
    BY <1>6, <2>1, <2>2, <2>3, <2>4, <2>5
<1>9. CASE write_file
  <2>1. PICK n \in Unreadable..MaxChunks :
          /\ pc' = "request" /\ cmd' = "del_mem" /\ chunks' = n /\ status' = status
          /\ wanted' = wanted \o <<"del_mem">> \o Times("write_mem", n)
    BY <1>9 DEF write_file, Begin
  <2>2. n \in Int /\ "del_mem" \in Cmds /\ "write_mem" \in FileCmds
    BY SessionAssumption DEF Unreadable, Cmds, FileCmds
  <2>3. wanted \o <<"del_mem">> = Append(wanted, "del_mem")
        /\ Append(wanted, "del_mem") \in Seq(Cmds)
    BY <1>3, <2>2
  <2>4. Kept(Append(wanted, "del_mem")) = K
    BY <1>3, <2>2, KeptOneMore DEF Unchecked
  <2>5. Kept(wanted') = K \o Times("write_mem", n)
    <3> DEFINE w == Append(wanted, "del_mem")
    <3>1. ~Unchecked("write_mem")
      BY DEF Unchecked
    <3> HIDE DEF w
    <3>2. w \in Seq(Cmds) => Kept(w \o Times("write_mem", n)) = Kept(w) \o Times("write_mem", n)
      BY <2>2, <3>1, KeptTimes, Zenon
    <3>3. wanted' = w \o Times("write_mem", n) /\ w \in Seq(Cmds)
      BY <2>1, <2>3 DEF w
    <3>4. Kept(w) = K
      BY <2>4 DEF w
    <3> QED
      BY <3>2, <3>3, <3>4
  <2>6. WritesRemaining' = Times("write_mem", n)
    BY <2>1 DEF WritesRemaining, WritesLeft, Unchecked, Times
  <2> QED
    BY <1>6, <2>1, <2>2, <2>5, <2>6
<1>10. ASSUME NEW c \in {"write_mem", "verify_data"}, FileLine(c)
       PROVE  WriteInv'
  <2>1. PICK n \in 0..MaxChunks :
          /\ IF n = 0 THEN UNCHANGED <<pc, cmd, chunks>> ELSE Begin(c, n)
          /\ wanted' = wanted \o Times(c, n) /\ status' = status
    BY <1>10 DEF FileLine
  <2>2. n \in Int /\ n \in Nat /\ c \in FileCmds /\ c \in Cmds
    BY SessionAssumption DEF FileCmds, Cmds
  <2>3. Kept(wanted') = IF c = "verify_data" THEN K ELSE K \o Times(c, n)
    <3>1. Unchecked(c) <=> c = "verify_data"
      BY DEF Unchecked
    <3>2. Kept(wanted \o Times(c, n)) = IF Unchecked(c) THEN Kept(wanted)
                                       ELSE Kept(wanted) \o Times(c, n)
      BY <1>3, <2>2, KeptTimes, Zenon
    <3> QED
      BY <1>3, <2>1, <3>1, <3>2
  <2>4. CASE n = 0
    <3>1. pc' = "line" /\ Times(c, n) = <<>>
      <4>1. n <= 0
        BY <2>4
      <4>2. Times(c, n) = <<>>
        BY <2>2, <4>1, TimesFacts, Zenon
      <4> QED
        BY <1>1, <2>1, <2>4, <4>2
    <3>2. WritesRemaining' = <<>> /\ ~InExchange'
      BY <3>1 DEF WritesRemaining, InExchange
    <3> QED
      BY <1>4, <1>6, <2>1, <2>3, <3>1, <3>2
  <2>5. CASE n # 0
    <3>1. pc' = "request" /\ cmd' = c /\ chunks' = n
      BY <2>1, <2>5 DEF Begin
    <3>2. WritesRemaining' = IF c = "verify_data" THEN <<>> ELSE <<c>> \o Times(c, n - 1)
      BY <3>1 DEF WritesRemaining, WritesLeft, Unchecked, Times
    <3>3. <<c>> \o Times(c, n - 1) = Times(c, n)
      <4>1. n > 0
        BY <2>2, <2>5
      <4> QED
        BY <2>2, <4>1, TimesFacts
    <3> QED
      BY <1>4, <1>6, <2>1, <2>2, <2>3, <3>1, <3>2, <3>3
  <2> QED
    BY <2>4, <2>5
<1> QED
  BY <1>5, <1>7, <1>8, <1>9, <1>10 DEF process_command, write_only, verify_file

\* A request of a write moves it from those that remain to those asked for; losing a
\* request whose result is ignored, or a response, leaves both as they are.
LEMMA WritesExchange ==
  ASSUME TypeOK, TypeOK', ChunksLeft, WriteInv, Exchange
  PROVE  WriteInv'
<1>1. /\ InExchange /\ cmd \in Cmds /\ status = "running" /\ wanted' = wanted
      /\ Kept(wanted) = Kept(Sent) \o WritesRemaining /\ WritesLeft \in Seq(Cmds)
      /\ Kept(Sent) \in Seq(Cmds) /\ session_mode \in MODES
  <2>1. InExchange /\ wanted' = wanted
    BY DEF Exchange, request_signed, request_refused, request_unsigned, sign_exit,
      SignatureFails, bl_ack, ack, Say, Goto, generic_response, host_ack, InExchange
  <2> QED
    BY <2>1, WritesLeftType, KeptType DEF WriteInv, TypeOK, InExchange
<1>2. ASSUME pc' \in {"bl_ack", "response", "host_ack"}, status' = status,
             UNCHANGED <<cmd, chunks>>, WritesRemaining = WritesLeft,
             \/ packets' = packets
             \/ \E side, name, c, s, t : name # "request" /\ Emitted(side, name, c, s, t)
      PROVE  WriteInv'
  <2>1. WritesLeft' = WritesLeft
    BY <1>2 DEF WritesLeft, Times
  <2>2. WritesRemaining' = WritesRemaining
    BY <1>2, <2>1 DEF WritesRemaining
  <2>3. pc # "exited" /\ pc' # "exited" /\ cmd' \in Cmds
    BY <1>1, <1>2 DEF InExchange
  <2> QED
    BY <1>1, <1>2, <2>2, <2>3, WritesQuiet
<1>3. CASE request_signed
  <2>1. pc = "request" /\ pc' = "bl_ack" /\ UNCHANGED <<cmd, chunks, status>>
    BY <1>3 DEF request_signed
  <2>2. Emitted(who, "request", cmd, seq + 1, tr_id)
    BY <1>1, <1>3, Emission DEF request_signed, Conv!Names, TypeOK
  <2>3. Countable(packets)' /\ Sent' = Append(Sent, cmd) /\ Sent \in Seq(Cmds)
    BY <2>2, EmittedSent DEF WriteInv
  <2>4. WritesLeft' = WritesLeft
    BY <2>1 DEF WritesLeft, Times
  <2>5. /\ WritesRemaining = IF Unchecked(cmd) THEN WritesLeft ELSE <<cmd>> \o WritesLeft
        /\ WritesRemaining' = WritesLeft
    BY <2>1, <2>4 DEF WritesRemaining
  <2>6. /\ Kept(Append(Sent, cmd)) = IF Unchecked(cmd) THEN Kept(Sent)
                                     ELSE Append(Kept(Sent), cmd)
        /\ Kept(Sent)' = Kept(Sent') /\ Kept(wanted)' = Kept(wanted)
    <3>1. Kept(Sent)' = Kept(Sent') /\ Kept(wanted)' = Kept(wanted)
      BY <1>1 DEF Kept
    <3> QED
      BY <1>1, <2>3, <3>1, KeptOneMore
  <2>7. Append(Kept(Sent), cmd) \o WritesLeft = Kept(Sent) \o (<<cmd>> \o WritesLeft)
    <3>1. \A a, b \in Seq(Cmds), c \in Cmds : Append(a, c) \o b = a \o (<<c>> \o b)
      OBVIOUS
    <3> QED
      BY <1>1, <3>1
  <2>8. Kept(wanted)' = Kept(Sent)' \o WritesRemaining'
    BY <1>1, <2>3, <2>5, <2>6, <2>7
  <2>9. Sent' \in Seq(Cmds)
    BY <1>1, <2>3
  <2> QED
    BY <1>1, <2>1, <2>3, <2>8, <2>9 DEF WriteInv
<1>4. CASE request_refused \/ request_unsigned
  <2>1. pc = "request" /\ packets' = packets /\ OnFailure /\ UNCHANGED <<cmd, chunks>>
    BY <1>4 DEF request_refused, request_unsigned, SignatureFails
  <2>2. CASE ResultIgnored
    <3>1. pc' = "bl_ack" /\ status' = status /\ Unchecked(cmd)
      BY <2>1, <2>2 DEF OnFailure, ResultIgnored, Unchecked
    <3>2. WritesRemaining = WritesLeft
      BY <2>1, <3>1 DEF WritesRemaining
    <3> QED
      BY <1>2, <2>1, <3>1, <3>2
  <2>3. CASE ~ResultIgnored
    BY <1>1, <2>1, <2>3, WritesEnd DEF OnFailure, Exit
  <2> QED
    BY <2>2, <2>3
<1>5. CASE sign_exit
  <2>1. packets' = packets /\ pc' = "exited" /\ ~NoFalseSuccess
    BY <1>1, <1>5 DEF sign_exit, SignatureFails, Exit, NoFalseSuccess
  <2> QED
    BY <1>1, <2>1, WritesEnd
<1>6. CASE bl_ack
  <2>1. /\ Emitted("bl", "ack", "none", seq, 0) /\ pc = "bl_ack" /\ pc' = "response"
        /\ UNCHANGED <<cmd, chunks, status>>
    BY <1>6, SayType DEF bl_ack, ack, Goto, Say, Conv!Names
  <2>2. /\ \E side, name, c, s, t : name # "request" /\ Emitted(side, name, c, s, t)
        /\ WritesRemaining = WritesLeft
    BY <2>1 DEF WritesRemaining
  <2> QED
    BY <1>2, <2>1, <2>2
<1>7. CASE generic_response
  <2>1. /\ pc = "response" /\ pc' = "host_ack" /\ UNCHANGED <<cmd, chunks, status>>
        /\ packets' = packets \/ maxim_send(who, "response", cmd, seq + 1, tr_id)
    BY <1>7 DEF generic_response, Goto
  <2>2. /\ \/ packets' = packets
           \/ \E side, name, c, s, t : name # "request" /\ Emitted(side, name, c, s, t)
        /\ WritesRemaining = WritesLeft
    <3>1. maxim_send(who, "response", cmd, seq + 1, tr_id)
            => Emitted(who, "response", cmd, seq + 1, tr_id)
      <4>1. /\ who \in {"host", "bl"} /\ "response" \in Conv!Names
            /\ cmd \in Cmds \cup {"none"} /\ tr_id \in 0..(TR_MOD - 1)
        BY <1>1 DEF Conv!Names, TypeOK
      <4>2. seq + 1 \in Nat
        BY <1>1 DEF TypeOK
      <4> QED
        BY <1>1, <4>1, <4>2, Emission, Zenon
    <3> QED
      BY <2>1, <3>1 DEF WritesRemaining
  <2> QED
    BY <1>2, <2>1, <2>2
<1>8. CASE host_ack
  <2>1. Emitted("host", "ack", "none", seq, 0) /\ pc = "host_ack"
    <3>1. 0 \in 0..(TR_MOD - 1) /\ seq \in Nat
      BY SessionAssumption DEF TypeOK
    <3>2. pc = "host_ack" /\ maxim_send("host", "ack", "none", seq, 0)
      BY <1>8 DEF host_ack
    <3> QED
      BY <3>1, <3>2, Emission DEF Conv!Names
  <2>2. Countable(packets)' /\ Sent' = Sent
    BY <2>1, EmittedSent DEF WriteInv
  <2>3. chunks \in Int /\ chunks - 1 \in Int
    BY SessionAssumption DEF TypeOK, Unreadable
  <2>4. /\ status' \in {"running", "failure"} /\ (status' = "failure" <=> pc' = "exited")
        /\ WritesRemaining' = WritesLeft /\ (InExchange' => cmd' \in Cmds)
    <3>1. CASE file_erased
      <4>1. WritesLeft = Times("write_mem", chunks)
        BY <3>1 DEF file_erased, WritesLeft
      <4>2. CASE chunks > 0
        <5>1. pc' = "request" /\ cmd' = "write_mem" /\ chunks' = chunks /\ status' = status
          BY <3>1, <4>2, SessionAssumption DEF file_erased, Begin, Unreadable
        <5>2. WritesRemaining' = <<"write_mem">> \o Times("write_mem", chunks - 1)
          BY <5>1 DEF WritesRemaining, WritesLeft, Unchecked, Times
        <5>3. chunks \in Nat
          BY <2>3, <4>2
        <5>4. WritesRemaining' = Times("write_mem", chunks)
          BY <4>2, <5>2, <5>3, TimesFacts
        <5> QED
          BY <1>1, <4>1, <5>1, <5>4 DEF Cmds, FileCmds
      <4>3. CASE ~(chunks > 0)
        <5>1. chunks <= 0
          BY <2>3, <4>3
        <5>2. WritesLeft = <<>>
          BY <2>3, <4>1, <5>1, TimesFacts
        <5>3. \/ pc' = "line" /\ status' = status
              \/ pc' = "exited" /\ status' = "failure"
          BY <3>1, <4>3 DEF file_erased, Exit
        <5> QED
          BY <1>1, <5>2, <5>3 DEF WritesRemaining, InExchange
      <4> QED
        BY <4>2, <4>3
    <3>2. CASE next_chunk
      <4>1. /\ cmd \in {"write_mem", "verify_data"} /\ cmd' = cmd /\ chunks' = chunks - 1
            /\ status' = status /\ pc' = IF chunks > 1 THEN "request" ELSE "line"
        BY <3>2 DEF next_chunk
      <4>2. CASE cmd = "verify_data"
        BY <1>1, <4>1, <4>2 DEF WritesRemaining, WritesLeft, Unchecked, InExchange
      <4>3. CASE cmd = "write_mem" /\ chunks > 1
        <5>1. /\ WritesLeft = Times("write_mem", chunks - 1)
              /\ WritesRemaining' = <<"write_mem">> \o Times("write_mem", chunks' - 1)
          BY <4>1, <4>3 DEF WritesRemaining, WritesLeft, Unchecked, Times
        <5>2. chunks' \in Nat /\ chunks' > 0
          BY <2>3, <4>1, <4>3
        <5>3. WritesRemaining' = Times("write_mem", chunks')
          BY <5>1, <5>2, TimesFacts
        <5> QED
          BY <1>1, <4>1, <4>3, <5>1, <5>3
      <4>4. CASE cmd = "write_mem" /\ ~(chunks > 1)
        <5>1. chunks - 1 <= 0
          BY <2>3, <4>4
        <5>2. WritesLeft = <<>>
          BY <2>3, <4>4, <5>1, TimesFacts DEF WritesLeft
        <5> QED
          BY <1>1, <4>1, <4>4, <5>2 DEF WritesRemaining, InExchange
      <4> QED
        BY <4>1, <4>2, <4>3, <4>4
    <3>3. CASE command_done
      <4>1. cmd \notin FileCmds /\ pc' = "line" /\ status' = status
        BY <3>3, SessionAssumption DEF command_done
      <4> QED
        BY <1>1, <4>1 DEF WritesLeft, WritesRemaining, FileCmds, InExchange
    <3> QED
      BY <1>8, <3>1, <3>2, <3>3 DEF host_ack
  <2>5. WritesRemaining = WritesLeft
    BY <2>1 DEF WritesRemaining
  <2>6. Kept(Sent)' = Kept(Sent) /\ Kept(wanted)' = Kept(wanted)
    BY <1>1, <2>2 DEF Kept
  <2> QED
    BY <1>1, <2>2, <2>4, <2>5, <2>6 DEF WriteInv
<1> QED
  BY <1>3, <1>4, <1>5, <1>6, <1>7, <1>8 DEF Exchange

\* WritesFollowScript for every instance, in every mode and whatever goes wrong, when no
\* failed signature exits with 0: a session that is reported built has every write of
\* the script, in its order, although erasures and comparisons may be missing.
THEOREM WritesAreWhole ==
  ASSUME NoFalseSuccess
  PROVE  Spec => []WritesFollowScript
<1>1. Init => WriteInv
  <2>1. Init => packets = <<>> /\ wanted = <<>> /\ pc = "con_req" /\ status = "running"
    BY DEF Init
  <2>2. Init => Countable(packets) /\ Sent = <<>>
    BY <2>1, NothingRequested DEF Sent
  <2>3. pc = "con_req" => WritesRemaining = <<>> /\ ~InExchange
    BY DEF WritesRemaining, InExchange
  <2>4. <<>> \in Seq(Cmds) /\ <<>> \o <<>> = <<>>
    OBVIOUS
  <2> QED
    BY <2>1, <2>2, <2>3, <2>4, KeptOfNone DEF WriteInv
<1>2. TypeOK /\ TypeOK' /\ ChunksLeft /\ WriteInv /\ [Next]_vars => WriteInv'
  <2> SUFFICES ASSUME TypeOK, TypeOK', ChunksLeft, WriteInv, [Next]_vars
               PROVE  WriteInv'
    OBVIOUS
  <2>1. CASE Opening \/ disconnection_request \/ disconnection_reply
    BY <2>1, WritesOpening
  <2>2. CASE process_command \/ end_of_script
    BY <2>2, WritesLine
  <2>3. CASE Exchange
    BY <2>3, WritesExchange
  <2>4. CASE return
    <3>1. pc = "return" /\ pc' = "exited" /\ packets' = packets /\ wanted' = wanted
      BY <2>4 DEF return, Exit
    <3>2. Kept(wanted) = Kept(Sent) \o <<>>
      BY <3>1 DEF WriteInv, WritesRemaining
    <3>3. Kept(Sent) \in Seq(Cmds)
      BY KeptType DEF WriteInv
    <3>4. Kept(Sent) = Kept(wanted)
      BY <3>2, <3>3
    <3> QED
      BY <3>1, <3>4, WritesEnd
  <2>5. CASE publish \/ Terminated \/ UNCHANGED vars
    <3>1. UNCHANGED <<pc, cmd, chunks, wanted, status, packets>>
      BY <2>5 DEF publish, Terminated, vars
    <3>2. Countable(packets)' /\ Sent' = Sent
      BY <3>1, UnchangedSent DEF WriteInv
    <3>3. Kept(Sent)' = Kept(Sent) /\ Kept(wanted)' = Kept(wanted)
      BY <3>1, <3>2 DEF Kept
    <3>4. WritesRemaining' = WritesRemaining /\ InExchange' = InExchange
      BY <3>1 DEF WritesRemaining, WritesLeft, Times, InExchange
    <3> QED
      BY <3>1, <3>2, <3>3, <3>4 DEF WriteInv, NoFalseSuccess
  <2> QED
    BY <2>1, <2>2, <2>3, <2>4, <2>5 DEF Next, Closing
<1>3. WriteInv => WritesFollowScript
  BY NoFalseSuccess DEF WriteInv, WritesFollowScript
<1>4. Spec => []TypeOK /\ []ChunksLeft
  BY TypeCorrect, PTL
<1> QED
  BY <1>1, <1>2, <1>3, <1>4, PTL DEF Spec
=============================================================================
