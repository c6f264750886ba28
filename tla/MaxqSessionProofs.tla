------------------------- MODULE MaxqSessionProofs --------------------------
(***************************************************************************)
(* Proofs about MaxqSession, for every library, script, file and size of a *)
(* piece.                                                                  *)
(***************************************************************************)
EXTENDS MaxqSession, SequenceTheorems, WellFoundedInduction, TLAPS

-----------------------------------------------------------------------------
(* Facts about sequences of any elements, and appending to them.           *)

ElementsOf(s) == {s[n] : n \in 1..Len(s)}

IsSequence(s) == s \in Seq(ElementsOf(s))

LEMMA AppendToSequence ==
  ASSUME NEW s, IsSequence(s), NEW e
  PROVE  /\ IsSequence(Append(s, e))
         /\ Len(s) \in Nat
         /\ Len(Append(s, e)) = Len(s) + 1
         /\ Append(s, e)[Len(s) + 1] = e
         /\ \A n \in 1..Len(s) : Append(s, e)[n] = s[n]
<1> DEFINE t == Append(s, e)
           S == ElementsOf(s) \cup {e}
<1>1. s \in Seq(S)
  BY DEF IsSequence
<1>2. /\ t \in Seq(S) /\ Len(s) \in Nat
      /\ Len(t) = Len(s) + 1
      /\ t[Len(s) + 1] = e
      /\ \A n \in 1..Len(s) : t[n] = s[n]
  BY <1>1
<1>3. t \in [1..Len(t) -> ElementsOf(t)]
  <2>1. t \in [1..Len(t) -> S]
    <3> HIDE DEF t, S
    <3> QED
      BY <1>2, LenProperties
  <2> QED
    BY <2>1 DEF ElementsOf
<1>4. t \in Seq(ElementsOf(t))
  <2>1. Len(t) \in Nat
    BY <1>2
  <2> HIDE DEF t, S
  <2> QED
    BY <1>3, <2>1
<1> QED
  BY <1>2, <1>4 DEF IsSequence

LEMMA EmptySequence == IsSequence(<<>>)
BY DEF IsSequence

\* The message that a packet is to the conversation.
Spoken(p) == [from |-> p.from, cmd |-> p.cmd,
              seq |-> IF p.from = "host" THEN p.seq ELSE 0]

LEMMA SaidGrows ==
  ASSUME IsSequence(packets), NEW e, packets' = Append(packets, e)
  PROVE  Said' = Append(Said, Spoken(e))
<1>1. /\ Len(packets) \in Nat
      /\ Len(packets') = Len(packets) + 1
      /\ packets'[Len(packets) + 1] = e
      /\ \A n \in 1..Len(packets) : packets'[n] = packets[n]
  BY AppendToSequence
<1> DEFINE M == {Spoken(packets[n]) : n \in 1..Len(packets)} \cup {Spoken(e)}
           l == [n \in 1..Len(packets) |-> Spoken(packets[n])]
           m == [n \in 1..Len(packets') |-> Spoken(packets'[n])]
<1>2. Said = l /\ Said' = m
  BY DEF Said, Spoken
<1>3. l \in Seq(M) /\ Len(l) = Len(packets)
  BY <1>1
<1>4. m = Append(l, Spoken(e))
  <2>1. m \in Seq(M) /\ Len(m) = Len(l) + 1
    BY <1>1, <1>3
  <2>2. \A n \in 1..Len(l) : m[n] = l[n]
    BY <1>1, <1>3
  <2>3. m[Len(l) + 1] = Spoken(e)
    BY <1>1, <1>3
  <2>4. Spoken(e) \in M
    OBVIOUS
  <2> HIDE DEF l, m, M
  <2> QED
    BY <1>3, <2>1, <2>2, <2>3, <2>4
<1> QED
  BY <1>2, <1>4

-----------------------------------------------------------------------------
(* The packets are a conversation.  The invariant ties what the generator  *)
(* does next to the last packet: a request whose answer is to come, or an  *)
(* answer whose request has the number before seq.                         *)

Last_packet == packets[Len(packets)]

Asked ==
  /\ packets # <<>>
  /\ Last_packet.from = "host"
  /\ Last_packet.cmd = cmd
  /\ seq = (Last_packet.seq + 1) % SEQ_MOD

Answered ==
  IF packets = <<>> THEN seq = 1
  ELSE /\ Len(packets) > 1
       /\ Last_packet.from = "usip"
       /\ packets[Len(packets) - 1].from = "host"
       /\ seq = (packets[Len(packets) - 1].seq + 1) % SEQ_MOD

InLoop == pc \in {"start", "open", "line", "read", "chunk"}

\* A file stays open as long as its pieces are sent, under a command for files.
FileOpen == lines[Len(lines)].file # NoFile

TalkInv ==
  /\ IsSequence(packets)
  /\ IsSequence(lines)
  /\ pc \in {"start", "open", "line", "read", "chunk", "response", "exited"}
  /\ InLoop => Answered
  /\ pc = "response" => Asked /\ cmd \in Cmds /\ (FileOpen => cmd \in FileCmds)
  /\ pc \in {"read", "chunk"} => cmd \in FileCmds

\* A step that emits no packet is a stutter of the conversation.
LEMMA SilentStep ==
  ASSUME UNCHANGED packets
  PROVE  UNCHANGED Said
BY DEF Said

\* A request, signed or not, is one of the conversation, unless the program ends there.
LEMMA RequestStep ==
  ASSUME TalkInv, InLoop, NEW c \in Cmds, NEW n, NEW address, NEW code,
         request(c, n, address, code)
  PROVE  /\ [Conv!Next]_Said
         /\ IsSequence(packets')
         /\ pc' = "response" => Asked' /\ cmd' = c
         /\ pc' \in {"response", "exited"}
<1>1. CASE UNCHANGED packets
  <2>1. pc' = "exited"
    <3>1. ASSUME NEW signed \in BOOLEAN, Emit(c, n, address, code, signed) PROVE FALSE
      <4>1. \E e : packets' = Append(packets, e)
        BY <3>1 DEF Emit
      <4>2. Len(packets') = Len(packets) + 1 /\ Len(packets) \in Nat
        BY <4>1, AppendToSequence DEF TalkInv
      <4> QED
        BY <1>1, <4>2
    <3> QED
      BY <3>1 DEF request, ExitProgram
  <2> QED
    BY <1>1, <2>1, SilentStep DEF TalkInv
<1>2. CASE ~UNCHANGED packets
  <2>1. PICK signed \in BOOLEAN : Emit(c, n, address, code, signed)
    BY <1>2 DEF request
  <2>2. pc' = "response" /\ cmd' = c /\ seq' = (seq + 1) % SEQ_MOD
    BY <1>2 DEF request, ExitProgram, maxq1852_add_seq
  <2>3. PICK e : /\ packets' = Append(packets, e)
                 /\ e.from = "host" /\ e.cmd = c /\ e.seq = seq
    BY <2>1 DEF Emit
  <2>4. /\ IsSequence(packets') /\ Len(packets) \in Nat
        /\ Len(packets') = Len(packets) + 1
        /\ packets'[Len(packets) + 1] = e
    BY <2>3, AppendToSequence DEF TalkInv
  <2>5. Asked'
    BY <2>2, <2>3, <2>4 DEF Asked, Last_packet
  <2>6. Conv!Ask(c)
    <3>1. Said' = Append(Said, Conv!Message("host", c, seq))
      BY <2>3, SaidGrows DEF TalkInv, Spoken, Conv!Message
    <3>2. Answered
      BY DEF TalkInv
    <3>3. CASE packets = <<>>
      <4>1. Said = <<>>
        BY <3>3 DEF Said
      <4> QED
        BY <3>1, <3>2, <3>3, <4>1 DEF Answered, Conv!Ask, Conv!Pending, Conv!NextNumber
    <3>4. CASE packets # <<>>
      <4>1. /\ Len(packets) > 1 /\ packets[Len(packets)].from = "usip"
            /\ packets[Len(packets) - 1].from = "host"
            /\ seq = (packets[Len(packets) - 1].seq + 1) % SEQ_MOD
        BY <3>2, <3>4 DEF Answered, Last_packet
      <4>2. /\ Len(Said) = Len(packets)
            /\ Said[Len(packets)].from = "usip"
            /\ Said[Len(packets) - 1].seq = packets[Len(packets) - 1].seq
        BY <2>4, <4>1 DEF Said
      <4> QED
        BY <2>4, <3>1, <4>1, <4>2 DEF Conv!Ask, Conv!Pending, Conv!NextNumber
    <3> QED
      BY <3>3, <3>4
  <2> QED
    BY <2>2, <2>4, <2>5, <2>6 DEF Conv!Next
<1> QED
  BY <1>1, <1>2

LEMMA ResponseStep ==
  ASSUME TalkInv, response
  PROVE  Conv!Answer /\ TalkInv'
<1>1. Asked /\ cmd \in Cmds /\ (FileOpen => cmd \in FileCmds) /\ IsSequence(packets)
  BY DEF response, TalkInv
<1> DEFINE e == [from |-> "usip", cmd |-> cmd]
<1>2. packets' = Append(packets, e)
  BY DEF response
<1>3. /\ IsSequence(packets') /\ Len(packets) \in Nat
      /\ Len(packets') = Len(packets) + 1
      /\ packets'[Len(packets) + 1] = e
      /\ \A n \in 1..Len(packets) : packets'[n] = packets[n]
  BY <1>1, <1>2, AppendToSequence
<1>4. Len(packets) > 0
  BY <1>1, <1>3 DEF Asked, IsSequence
<1>5. Conv!Answer
  <2>1. Said' = Append(Said, Conv!Message("usip", cmd, Conv!NoSeq))
    BY <1>1, <1>2, SaidGrows DEF Spoken, Conv!Message, Conv!NoSeq
  <2>2. /\ Said # <<>> /\ Len(Said) = Len(packets)
        /\ Said[Len(Said)].from = "host" /\ Said[Len(Said)].cmd = cmd
    BY <1>1, <1>3, <1>4 DEF Said, Asked, Last_packet
  <2> QED
    BY <2>1, <2>2 DEF Conv!Answer, Conv!Pending
<1>6. Answered'
  <2>1. seq' = seq /\ packets' # <<>> /\ packets'[Len(packets)] = packets[Len(packets)]
    BY <1>3, <1>4 DEF response
  <2> QED
    BY <1>1, <1>3, <1>4, <2>1 DEF Answered, Asked, Last_packet
<1> QED
  BY <1>1, <1>3, <1>5, <1>6 DEF response, TalkInv, InLoop, FileOpen, line_vars

LEMMA CommandStep ==
  ASSUME TalkInv, simple_line \/ load_chunk
  PROVE  [Conv!Next]_Said /\ TalkInv'
<1>1. CASE simple_line
  <2>1. PICK c \in Simple : \E n : Line(c, NoFile) /\ request(c, n, 0, <<>>)
    BY <1>1 DEF simple_line
  <2>2. /\ [Conv!Next]_Said
        /\ IsSequence(packets')
        /\ pc' = "response" => Asked' /\ cmd' = c
        /\ pc' \in {"response", "exited"}
    <3>1. InLoop /\ c \in Cmds
      BY <1>1 DEF simple_line, ReadLine, InLoop, Cmds
    <3> QED
      BY <2>1, <3>1, RequestStep
  <2>3. IsSequence(lines') /\ ~FileOpen'
    <3>1. PICK l : lines' = Append(lines, l) /\ l.file = NoFile
      BY <2>1 DEF Line
    <3> QED
      BY <3>1, AppendToSequence DEF TalkInv, FileOpen
  <2> QED
    BY <2>2, <2>3 DEF TalkInv, InLoop, Cmds
<1>2. CASE load_chunk
  <2>1. InLoop /\ cmd \in FileCmds /\ cmd \in Cmds
    BY <1>2 DEF load_chunk, InLoop, TalkInv, Cmds
  <2>2. request(cmd, ADDRESS_LEN + chunk_size, i, Chunk) /\ lines' = lines
    BY <1>2 DEF load_chunk
  <2>3. /\ [Conv!Next]_Said
        /\ IsSequence(packets')
        /\ pc' = "response" => Asked' /\ cmd' = cmd
        /\ pc' \in {"response", "exited"}
    BY <2>1, <2>2, RequestStep
  <2> QED
    BY <2>1, <2>2, <2>3 DEF TalkInv, InLoop
<1> QED
  BY <1>1, <1>2

\* The steps that only read the script and the file.
LEMMA ReadingStep ==
  ASSUME TalkInv,
         \/ process_script \/ open_script \/ skip_line \/ bad_line \/ file_line
         \/ end_of_script \/ read_hex \/ file_read \/ skip_chunk \/ file_done
         \/ Terminated \/ UNCHANGED vars
  PROVE  UNCHANGED Said /\ TalkInv'
<1> DEFINE Reads ==
      /\ UNCHANGED <<packets, seq>>
      /\ IsSequence(lines')
      /\ \/ InLoop /\ (InLoop' \/ pc' = "exited")
         \/ UNCHANGED <<pc, cmd, lines>>
      /\ pc' \in {"read", "chunk"} => cmd' \in FileCmds
      /\ pc' \in {"start", "open", "line", "read", "chunk", "response", "exited"}
<1>1. CASE process_script \/ open_script \/ bad_line \/ end_of_script
  <2>1. Reads
    BY <1>1 DEF process_script, open_script, bad_line, end_of_script, ReadLine, Return,
      ExitProgram, TalkInv, InLoop
  <2> QED
    BY <2>1, SilentStep DEF TalkInv, InLoop, Answered, Last_packet, Asked, FileOpen
<1>2. CASE skip_line
  <2>1. Reads
    <3>1. IsSequence(lines')
      BY <1>2, AppendToSequence DEF skip_line, Line, TalkInv
    <3> QED
      BY <1>2, <3>1 DEF skip_line, ReadLine, TalkInv, InLoop
  <2> QED
    BY <2>1, SilentStep DEF TalkInv, InLoop, Answered, Last_packet, Asked, FileOpen
<1>3. CASE file_line
  <2>1. IsSequence(lines')
    <3>1. lines' = lines \/ \E l : lines' = Append(lines, l)
      BY <1>3 DEF file_line, Line
    <3>2. IsSequence(lines)
      BY DEF TalkInv
    <3>3. ASSUME NEW l, lines' = Append(lines, l) PROVE IsSequence(lines')
      BY <3>2, <3>3, AppendToSequence
    <3> QED
      BY <3>1, <3>2, <3>3
  <2>2. pc' \in {"read", "exited"} /\ cmd' \in FileCmds
    BY <1>3 DEF file_line, Return, ExitProgram
  <2>3. Reads
    BY <1>3, <2>1, <2>2 DEF file_line, ReadLine, InLoop
  <2> QED
    BY <2>3, SilentStep DEF TalkInv, InLoop, Answered, Last_packet, Asked, FileOpen
<1>4. CASE read_hex \/ file_read \/ skip_chunk \/ file_done
  <2>1. Reads
    BY <1>4 DEF read_hex, file_read, skip_chunk, file_done, Return, ExitProgram, TalkInv,
      InLoop, line_vars, file_vars
  <2> QED
    BY <2>1, SilentStep DEF TalkInv, InLoop, Answered, Last_packet, Asked, FileOpen
<1>5. CASE Terminated \/ UNCHANGED vars
  <2>1. Reads
    BY <1>5 DEF Terminated, vars, line_vars, file_vars, TalkInv
  <2> QED
    BY <2>1, SilentStep DEF TalkInv, InLoop, Answered, Last_packet, Asked, FileOpen
<1> QED
  BY <1>1, <1>2, <1>3, <1>4, <1>5

\* Whatever the script, its files and the wrapping of the sequence number, a MAXQ1852
\* session is a conversation of the protocol: IsMaxqConversation for every instance.
THEOREM SessionIsMaxqConversation == Spec => IsMaxqConversation
<1>1. Init => TalkInv /\ Said = <<>>
  BY EmptySequence DEF Init, TalkInv, InLoop, Answered, Said
<1>2. TalkInv /\ [Next]_vars => TalkInv' /\ [Conv!Next]_Said
  BY ResponseStep, CommandStep, ReadingStep DEF Next, Conv!Next
<1> QED
  BY <1>1, <1>2, PTL DEF Spec, IsMaxqConversation, Conv!Spec

-----------------------------------------------------------------------------
(* The packet of a request is followed as its length and its two length    *)
(* bytes while it is built.                                                *)
IsBytes(s, n) == s \in Seq(Int) /\ Len(s) = n

LEMMA BytesCounted == \A n \in Nat : IsBytes(Bytes(n), n)
BY DEF IsBytes, Bytes

LEMMA Joined ==
  ASSUME NEW s, NEW t, NEW m \in Nat, NEW n \in Nat, IsBytes(s, m), IsBytes(t, n)
  PROVE  /\ IsBytes(s \o t, m + n)
         /\ \A k \in 1..m : (s \o t)[k] = s[k]
BY DEF IsBytes

\* What precedes the sequence number: header, code of the command, parameters, and
\* transaction identifier.
LEMMA OpenedLength ==
  ASSUME NEW n \in Nat
  PROVE  IsBytes(Opened(n), n + 8)
<1> DEFINE header == maxq1852_synchro
           coded == header \o Bytes(1)
           filled == coded \o Bytes(n)
<1>1. IsBytes(header, 3)
  BY BytesCounted DEF maxq1852_synchro, SYNCHRO_LEN
<1> HIDE DEF header
<1>2. IsBytes(coded, 4)
  BY <1>1, BytesCounted, Joined
<1> HIDE DEF coded
<1>3. IsBytes(filled, 4 + n)
  BY <1>2, BytesCounted, Joined
<1> HIDE DEF filled
<1>4. IsBytes(filled \o Bytes(4), (4 + n) + 4)
  BY <1>3, BytesCounted, Joined
<1>5. Opened(n) = filled \o Bytes(4)
  BY DEF Opened, maxq1852_add_trid, filled, coded, header
<1>6. (4 + n) + 4 = n + 8
  OBVIOUS
<1> QED
  BY <1>4, <1>5, <1>6

\* The signature adds to the packet the 64 bytes that its length bytes have counted.
LEMMA SignedLength ==
  ASSUME NEW n \in Nat, n + 71 < 256 * 256, seq \in Nat
  PROVE  LET packet == ecdsa_sign_payload(Built(n))
         IN  packet[2] + 256 * packet[3] = Len(packet) - SYNCHRO_LEN
<1> DEFINE numbered == SeqAdded(Opened(n))
           total == n + 71
           built == Built(n)
           part == Bytes(ECDSA_MODULUS_LEN)
           half == built \o part
           packet == ecdsa_sign_payload(built)
<1>1. IsBytes(numbered, n + 10)
  <2>1. IsBytes(<<seq % 256, seq \div 256>>, 2)
    BY DEF IsBytes
  <2>2. IsBytes(Opened(n) \o <<seq % 256, seq \div 256>>, (n + 8) + 2)
    BY <2>1, OpenedLength, Joined
  <2> QED
    BY <2>2 DEF SeqAdded
<1> HIDE DEF numbered
<1>2. length(Len(numbered)) = total /\ total \in Nat
  BY <1>1 DEF IsBytes, length, ECDSA_SIGNATURE_LEN
<1>3. built = [numbered EXCEPT ![2] = total % 256, ![3] = (total \div 256) % 256]
  BY <1>2 DEF Built, LengthSet, numbered
<1>4. total % 256 \in Int /\ (total \div 256) % 256 \in Int
  BY <1>2
<1>5. /\ IsBytes(built, n + 10)
      /\ built[2] = total % 256
      /\ built[3] = (total \div 256) % 256
  <2> HIDE DEF total, built
  <2> QED
    BY <1>1, <1>3, <1>4 DEF IsBytes
<1>6. built[2] + 256 * built[3] = total
  <2>1. total \div 256 \in 0..255
    BY <1>2
  <2>2. (total \div 256) % 256 = total \div 256
    BY <2>1
  <2>3. (total % 256) + 256 * (total \div 256) = total
    BY <1>2
  <2> QED
    BY <1>5, <2>2, <2>3
<1> HIDE DEF built
<1>7. IsBytes(part, 32)
  BY BytesCounted DEF ECDSA_MODULUS_LEN
<1> HIDE DEF part
<1>8. /\ IsBytes(half, (n + 10) + 32)
      /\ \A k \in 1..(n + 10) : half[k] = built[k]
  <2>1. IsBytes(built, n + 10) /\ n + 10 \in Nat
    BY <1>5
  <2> QED
    BY <1>7, <2>1, Joined
<1>9. /\ IsBytes(packet, ((n + 10) + 32) + 32)
      /\ \A k \in 1..((n + 10) + 32) : packet[k] = half[k]
  <2>1. packet = half \o part
    BY DEF ecdsa_sign_payload, half, part
  <2>2. IsBytes(half, (n + 10) + 32) /\ (n + 10) + 32 \in Nat
    BY <1>8
  <2> HIDE DEF half, packet
  <2>3. /\ IsBytes(half \o part, ((n + 10) + 32) + 32)
        /\ \A k \in 1..((n + 10) + 32) : (half \o part)[k] = half[k]
    BY <1>7, <2>2, Joined
  <2> QED
    BY <2>1, <2>3
<1> HIDE DEF half
<1> HIDE DEF packet
<1>10. Len(packet) = n + 74 /\ packet[2] = built[2] /\ packet[3] = built[3]
  BY <1>8, <1>9 DEF IsBytes
<1>11. packet[2] + 256 * packet[3] = Len(packet) - SYNCHRO_LEN
  BY <1>6, <1>10 DEF SYNCHRO_LEN
<1> QED
  BY <1>11 DEF packet, built

\* One more request leaves AnnouncedIsSent true.
LEMMA EmitAnnounced ==
  ASSUME IsSequence(packets), AnnouncedIsSent, seq \in Nat,
         NEW c, NEW n \in Nat, n + 71 < 256 * 256,
         NEW address, NEW code, NEW signed \in BOOLEAN,
         Emit(c, n, address, code, signed)
  PROVE  AnnouncedIsSent'
<1> DEFINE bytes == ecdsa_sign_payload(Built(n))
<1>1. PICK e : packets' = Append(packets, e) /\ (e.signed => e.bytes = bytes)
  BY DEF Emit
<1>2. bytes[2] + 256 * bytes[3] = Len(bytes) - SYNCHRO_LEN
  BY SignedLength
<1> HIDE DEF bytes
<1>3. /\ Len(packets) \in Nat
      /\ Len(packets') = Len(packets) + 1
      /\ packets'[Len(packets) + 1] = e
      /\ \A k \in 1..Len(packets) : packets'[k] = packets[k]
  BY <1>1, AppendToSequence
<1>4. ASSUME NEW k \in 1..Len(packets'),
             packets'[k].from = "host", packets'[k].signed
      PROVE  packets'[k].bytes[2] + 256 * packets'[k].bytes[3]
               = Len(packets'[k].bytes) - SYNCHRO_LEN
  <2>1. CASE k = Len(packets) + 1
    BY <1>1, <1>2, <1>3, <1>4, <2>1
  <2>2. CASE k # Len(packets) + 1
    BY <1>3, <1>4, <2>2 DEF AnnouncedIsSent
  <2> QED
    BY <2>1, <2>2
<1> QED
  BY <1>4 DEF AnnouncedIsSent

LEMMA LengthsFit ==
  /\ MAX_BYTES \in Nat /\ MAX_BYTES >= ECDSA_SIGNATURE_LEN
  /\ ADDRESS_LEN + MAX_BYTES + 71 < 256 * 256
BY SMT DEF MAX_BYTES, ADDRESS_LEN, ECDSA_SIGNATURE_LEN

\* No more parameters than a line of the script can give.
LEMMA ParametersAreLengths ==
  \A c \in DOMAIN SimpleCmds : SimpleCmds[c] \subseteq 0..(ADDRESS_LEN + MAX_BYTES)
<1> DEFINE all == 0..(ADDRESS_LEN + MAX_BYTES)
<1>1. AddressAndData \subseteq all
  BY MaxqAssumption, LengthsFit DEF AddressAndData, ADDRESS_LEN
<1>2. /\ engage_pllo \subseteq all /\ load_customer_key \subseteq all
      /\ verify_customer_key \subseteq all /\ activate_customer_key \subseteq all
      /\ generate_application_startup_signature \subseteq all
      /\ verify_application_startup_signature \subseteq all
      /\ write_register \subseteq all /\ read_register \subseteq all
      /\ erase_code_flash_area \subseteq all /\ erase_all_flash_areas \subseteq all
  <2>1. MAX_BYTES \in Nat /\ MAX_BYTES >= 64
    BY LengthsFit DEF ECDSA_SIGNATURE_LEN
  <2> QED
    BY <2>1 DEF engage_pllo, load_customer_key, verify_customer_key,
      activate_customer_key, generate_application_startup_signature,
      verify_application_startup_signature, write_register, read_register,
      erase_code_flash_area, erase_all_flash_areas, ECDSA_SIGNATURE_LEN, ADDRESS_LEN
<1> SUFFICES \A c \in DOMAIN SimpleCmds : SimpleCmds[c] \subseteq all
  OBVIOUS
<1> HIDE DEF all
<1> QED
  BY <1>1, <1>2 DEF SimpleCmds, load_code, verify_code, load_data, verify_maxq1852_data

Numbered == seq \in Nat

\* Every signed request announces the length that follows its header, whatever the
\* parameters put in it: AnnouncedIsSent for every instance.
THEOREM LengthsAnnounced == Spec => []AnnouncedIsSent
<1>1. Init => AnnouncedIsSent
  BY DEF Init, AnnouncedIsSent
<1>2. TalkInv /\ Numbered /\ AnnouncedIsSent /\ [Next]_vars => AnnouncedIsSent'
  <2> SUFFICES ASSUME TalkInv, Numbered, AnnouncedIsSent, [Next]_vars
               PROVE  AnnouncedIsSent'
    OBVIOUS
  <2>1. CASE UNCHANGED packets
    BY <2>1 DEF AnnouncedIsSent
  <2>2. CASE response
    <3>1. PICK e : packets' = Append(packets, e) /\ e.from = "usip"
      BY <2>2 DEF response
    <3>2. /\ Len(packets) \in Nat
          /\ Len(packets') = Len(packets) + 1
          /\ packets'[Len(packets) + 1] = e
          /\ \A k \in 1..Len(packets) : packets'[k] = packets[k]
      BY <3>1, AppendToSequence DEF TalkInv
    <3> QED
      BY <3>1, <3>2 DEF AnnouncedIsSent
  <2>3. ASSUME NEW c, NEW n \in Nat, n + 71 < 256 * 256, NEW address, NEW code,
               request(c, n, address, code)
        PROVE  AnnouncedIsSent'
    <3>1. CASE \E signed \in BOOLEAN : Emit(c, n, address, code, signed)
      <4>1. PICK signed \in BOOLEAN : Emit(c, n, address, code, signed)
        BY <3>1
      <4>2. IsSequence(packets)
        BY DEF TalkInv
      <4> HIDE DEF TalkInv
      <4> QED
        BY <2>3, <4>1, <4>2, EmitAnnounced DEF Numbered
    <3> QED
      BY <2>1, <2>3, <3>1 DEF request
  <2>4. CASE simple_line
    <3>0. PICK c \in Simple : \E n \in SimpleCmds[c] : request(c, n, 0, <<>>)
      BY <2>4 DEF simple_line
    <3>1. PICK n \in SimpleCmds[c] : request(c, n, 0, <<>>)
      BY <3>0
    <3>2. n \in Nat /\ n + 71 < 256 * 256
      <4>1. SimpleCmds[c] \subseteq 0..(ADDRESS_LEN + MAX_BYTES)
        BY MaxqAssumption, ParametersAreLengths
      <4>2. n \in 0..(ADDRESS_LEN + MAX_BYTES)
        BY <4>1
      <4> QED
        BY <4>2, LengthsFit DEF ADDRESS_LEN
    <3> QED
      BY <2>3, <3>1, <3>2
  <2>5. CASE load_chunk
    <3>1. /\ ADDRESS_LEN + chunk_size \in Nat
          /\ ADDRESS_LEN + chunk_size + 71 < 256 * 256
      BY MaxqAssumption, LengthsFit DEF ADDRESS_LEN
    <3> QED
      BY <2>3, <2>5, <3>1 DEF load_chunk
  <2> QED
    BY <2>1, <2>2, <2>4, <2>5 DEF Next, process_script, open_script, skip_line, bad_line,
      file_line, end_of_script, read_hex, file_read, skip_chunk, file_done, Terminated, vars
<1>3. Init => TalkInv
  BY EmptySequence DEF Init, TalkInv, InLoop, Answered
<1>4. TalkInv /\ [Next]_vars => TalkInv'
  BY ResponseStep, CommandStep, ReadingStep DEF Next
<1>5. Init => Numbered
  BY DEF Init, Numbered
<1>6. Numbered /\ [Next]_vars => Numbered'
  <2>1. ASSUME seq \in Nat PROVE maxq1852_add_seq \in Nat
    BY <2>1, MaxqAssumption DEF maxq1852_add_seq
  <2> QED
    BY <2>1 DEF Numbered, Next, process_script, open_script, skip_line, bad_line,
      simple_line, request, file_line, end_of_script, read_hex, file_read, skip_chunk, load_chunk,
      file_done, response, Terminated, vars
<1> QED
  BY <1>1, <1>2, <1>3, <1>4, <1>5, <1>6, PTL DEF Spec

-----------------------------------------------------------------------------
(* A file is loaded whole, and verified as it was loaded.  The invariant,  *)
(* FileInv, relates what was read to the file (Reading), then the memory   *)
(* image to the file and the pieces sent so far to the image (Loading), and*)
(* says of a line that was carried out that its pieces are a function of   *)
(* its file alone (SentOf), whichever of the two commands it is.           *)

File == lines[Len(lines)].file
Read == Len(File) - Len(records)

\* The first k records of a file, and the address of the last byte in them.
ImageTo(f, k) == UNION {{[addr |-> Base(f, n) + f[n].addr + m - 1, byte |-> f[n].bytes[m]]
                          : m \in 1..Len(f[n].bytes)} : n \in {n \in DataRecords(f) : n <= k}}

IsLast(f, k, a) ==
  \E n \in DataRecords(f) :
    /\ n <= k /\ f[n].bytes # <<>>
    /\ a = Base(f, n) + f[n].addr + Len(f[n].bytes) - 1
    /\ \A m \in DataRecords(f) : n < m /\ m <= k => f[m].bytes = <<>>

Record == [type : RecordTypes, addr : 0..(PAGE - 1), bytes : Seq(Nat)]
Byte == [addr : Nat, byte : 0..Blank]

Reading ==
  /\ lines # <<>> /\ File \in Files
  /\ records \in Seq(Record) /\ Len(records) <= Len(File)
  /\ \A m \in 1..Len(records) : records[m] = File[Read + m]
  /\ hex_extended_address \in Nat
  /\ hex_extended_address * PAGE = Base(File, Read + 1)
  /\ data \in Seq(Byte)
  /\ ElementsOf(data) = ImageTo(File, Read)
  /\ data # <<>> => IsLast(File, Read, data[Len(data)].addr)
  /\ Pieces(Len(lines)) = {}

\* The memory that a file describes, and the address of its last byte.
MapOf(f) == [a \in 0..(LOC_SIZE - 1) |->
  IF \E b \in Image(f) : b.addr = a THEN (CHOOSE b \in Image(f) : b.addr = a).byte
                                     ELSE Blank]

LastOf(f) == IF Image(f) = {} THEN 0 ELSE CHOOSE a \in 0..(LOC_SIZE - 1) : IsLast(f, Len(f), a)

PieceAt(loc, j) == [addr |-> j, code |-> [k \in 1..chunk_size |-> loc[j + k - 1]]]

IsWritten(loc, j) == \E k \in 1..chunk_size : loc[j + k - 1] # Blank

\* The pieces below limit that the loop sends of the memory loc.
PiecesTo(loc, last, limit) ==
  {PieceAt(loc, j) : j \in {j \in 0..(limit - 1) :
                              j % chunk_size = 0 /\ j < last /\ IsWritten(loc, j)}}

SentOf(f) == PiecesTo(MapOf(f), LastOf(f), LOC_SIZE)

Loading(limit) ==
  /\ lines # <<>> /\ File \in Files
  /\ Disjoint(File) => dataloc = MapOf(File)
  /\ Image(File) # {} => IsLast(File, Len(File), last_index)
  /\ i % chunk_size = 0
  /\ Pieces(Len(lines)) = PiecesTo(dataloc, last_index, limit)

Carried(n) ==
  lines[n].file # NoFile /\ Disjoint(lines[n].file) => Pieces(n) = SentOf(lines[n].file)

LinesInv ==
  /\ pc \in {"start", "open"} => lines = <<>>
  /\ \A n \in 1..Len(lines) :
       lines[n].file \in Files \cup {NoFile} /\ lines[n].first \in 1..(Len(packets) + 1)
  /\ \A n \in Finished : Carried(n)

FileInv ==
  /\ TypeOK
  /\ LinesInv
  /\ pc = "read" => Reading
  /\ pc = "chunk" => Loading(i)
  /\ pc = "response" /\ FileOpen => InFile /\ Loading(i + chunk_size)

-----------------------------------------------------------------------------
(* Arithmetic of multiples, and the extremes of a set of indices.          *)

LEMMA Remainder ==
  ASSUME NEW c \in Nat \ {0}, NEW a \in Int
  PROVE  a % c \in 0..(c - 1) /\ (a - (a % c)) % c = 0
<1>1. a % c \in Int /\ a % c >= 0 /\ a % c < c
  OBVIOUS
<1>2. (a - (a % c)) % c = 0
  OBVIOUS
<1> QED
  BY <1>1, <1>2

LEMMA Multiple ==
  ASSUME NEW c \in Nat \ {0}, NEW a \in Int, a % c = 0
  PROVE  \E q \in Int : a = c * q
<1>1. a = c * (a \div c)
  BY Z3
<1>2. a \div c \in Int
  OBVIOUS
<1> QED
  BY <1>1, <1>2

LEMMA NextMultiple ==
  ASSUME NEW c \in Nat \ {0}, NEW a \in Int, a % c = 0
  PROVE  (a + c) % c = 0
<1>1. PICK q \in Int : a = c * q
  BY Multiple
<1>2. c * q + c = c * (q + 1)
  OBVIOUS
<1>3. (c * (q + 1)) % c = 0
  OBVIOUS
<1> QED
  BY <1>1, <1>2, <1>3

LEMMA MultiplesApart ==
  ASSUME NEW c \in Nat \ {0}, NEW a \in Int, NEW b \in Int, a % c = 0, b % c = 0, a < b
  PROVE  a + c <= b
<1>1. PICK q \in Int : a = c * q
  BY Multiple
<1>2. PICK p \in Int : b = c * p
  BY Multiple
<1>3. q + 1 <= p
  BY <1>1, <1>2
<1>4. c * (q + 1) <= c * p
  BY <1>3
<1>5. c * (q + 1) = c * q + c
  OBVIOUS
<1> QED
  BY <1>1, <1>2, <1>4, <1>5

LEMMA Extremes ==
  ASSUME NEW N \in Nat, NEW T, T \subseteq 1..N, T # {}
  PROVE  /\ Min(T) \in T /\ \A y \in T : Min(T) <= y
         /\ Max(T) \in T /\ \A y \in T : Max(T) >= y
<1>0. \A y \in T : y \in Nat /\ 1 <= y /\ y <= N
  OBVIOUS
<1> DEFINE less == OpToRel(<, Nat)
<1>1. \A x, y \in Nat : <<x, y>> \in less <=> x < y
  BY DEF OpToRel
<1> HIDE DEF less
<1>2. ASSUME NEW S, S \subseteq Nat, S # {} PROVE \E x \in S : \A y \in S : x <= y
  <2>1. IsWellFoundedOn(less, Nat)
    BY NatLessThanWellFounded, Zenon DEF less
  <2>2. PICK x \in S : \A y \in S : ~ (<<y, x>> \in less)
    BY <1>2, <2>1, WFMin, Zenon
  <2>3. \A y \in S : x \in Nat /\ y \in Nat /\ ~ (y < x)
    BY <1>1, <1>2, <2>2, Zenon
  <2> QED
    BY <2>2, <2>3
<1>3. \E x \in T : \A y \in T : x <= y
  <2>1. T \subseteq Nat
    BY <1>0
  <2> QED
    BY <1>2, <2>1, Zenon
<1>4. \E x \in T : \A y \in T : x >= y
  <2> DEFINE S == {N - y : y \in T}
  <2>1. S \subseteq Nat /\ S # {}
    <3>1. \A y \in T : N - y \in Nat
      BY <1>0
    <3> QED
      BY <3>1
  <2>2. PICK x \in S : \A y \in S : x <= y
    BY <1>2, <2>1
  <2>3. PICK z \in T : x = N - z
    BY <2>2
  <2>4. \A y \in T : N - y \in S
    OBVIOUS
  <2>5. ASSUME NEW y \in T PROVE z >= y
    <3>1. N - z <= N - y
      BY <2>2, <2>3, <2>4
    <3>2. y \in Int /\ z \in Int
      BY <1>0, <2>3, <2>5
    <3> QED
      BY <3>1, <3>2
  <2> QED
    BY <2>5
<1> QED
  BY <1>3, <1>4 DEF Min, Max

-----------------------------------------------------------------------------
(* What a file holds, record by record.                                    *)

LEMMA FileType ==
  ASSUME NEW f \in Files
  PROVE  /\ f \in Seq(Record) /\ Len(f) \in Nat
         /\ \A n \in 1..Len(f) :
              /\ f[n] \in Record /\ f[n].addr \in Nat /\ Len(f[n].bytes) \in Nat
              /\ f[n].type = "00" => f[n].bytes \in Seq(0..Blank)
              /\ f[n].type = "04" => f[n].bytes[1] \in Nat
<1>1. IsHexFile(f)
  BY MaxqAssumption
<1>2. f \in Seq(Record) /\ Len(f) \in Nat
  BY <1>1 DEF IsHexFile, Record
<1>3. ASSUME NEW n \in 1..Len(f)
      PROVE  /\ f[n] \in Record /\ f[n].addr \in Nat /\ Len(f[n].bytes) \in Nat
             /\ f[n].type = "00" => f[n].bytes \in Seq(0..Blank)
             /\ f[n].type = "04" => f[n].bytes[1] \in Nat
  <2>1. f[n] \in Record
    BY <1>2
  <2>2. f[n].bytes \in Seq(Nat) /\ f[n].addr \in 0..(PAGE - 1)
    BY <2>1 DEF Record
  <2>3. f[n].type = "04" => f[n].bytes # <<>>
    BY <1>1, <1>3 DEF IsHexFile
  <2>4. f[n].type = "00" => f[n].bytes \in Seq(0..Blank)
    BY <1>1, <1>3 DEF IsHexFile
  <2>5. f[n].type = "04" => f[n].bytes[1] \in Nat
    BY <2>2, <2>3
  <2>6. f[n].addr \in Nat /\ Len(f[n].bytes) \in Nat
    BY <2>2
  <2> QED
    BY <2>1, <2>4, <2>5, <2>6
<1> QED
  BY <1>2, <1>3

Bases(f, n) == {m \in 1..(n - 1) : f[m].type = "04"}

\* A base is set by the last extended address record before it.
LEMMA BaseStep ==
  ASSUME NEW f \in Files
  PROVE  /\ Base(f, 1) = 0
         /\ \A k \in 0..(Len(f) - 1) :
              Base(f, k + 2) = IF f[k + 1].type = "04" THEN PAGE * f[k + 1].bytes[1]
                                                       ELSE Base(f, k + 1)
<1>1. Base(f, 1) = 0
  <2>1. {m \in 1..(1 - 1) : f[m].type = "04"} = {}
    OBVIOUS
  <2> QED
    BY <2>1 DEF Base
<1>2. ASSUME NEW k \in 0..(Len(f) - 1)
      PROVE  Base(f, k + 2) = IF f[k + 1].type = "04" THEN PAGE * f[k + 1].bytes[1]
                                                      ELSE Base(f, k + 1)
  <2> DEFINE last(S) == CHOOSE m \in S : \A other \in S : other <= m
  <2>0. k \in Nat
    BY FileType
  <2>1. \A n \in Int : Base(f, n) = IF Bases(f, n) = {} THEN 0
                                    ELSE PAGE * f[last(Bases(f, n))].bytes[1]
    BY DEF Base, Bases
  <2>2. CASE f[k + 1].type = "04"
    <3>1. k + 1 \in Bases(f, k + 2) /\ \A m \in Bases(f, k + 2) : m \in Int /\ m <= k + 1
      BY <2>0, <2>2 DEF Bases
    <3>2. last(Bases(f, k + 2)) = k + 1
      <4>1. last(Bases(f, k + 2)) \in Bases(f, k + 2)
            /\ \A other \in Bases(f, k + 2) : other <= last(Bases(f, k + 2))
        BY <3>1
      <4> HIDE DEF last
      <4>2. last(Bases(f, k + 2)) <= k + 1 /\ k + 1 <= last(Bases(f, k + 2))
            /\ last(Bases(f, k + 2)) \in Int
        BY <3>1, <4>1, Zenon
      <4> QED
        BY <2>0, <4>2
    <3>3. k + 2 \in Int /\ Bases(f, k + 2) # {}
      BY <2>0, <3>1
    <3> HIDE DEF last
    <3> QED
      BY <2>1, <2>2, <3>2, <3>3, Zenon
  <2>3. CASE f[k + 1].type # "04"
    <3>1. Bases(f, k + 2) = Bases(f, k + 1)
      BY <2>0, <2>3 DEF Bases
    <3>2. k + 2 \in Int /\ k + 1 \in Int
      BY <2>0
    <3> HIDE DEF last
    <3> QED
      BY <2>1, <2>3, <3>1, <3>2, Zenon
  <2> QED
    BY <2>2, <2>3
<1> QED
  BY <1>1, <1>2

LEMMA BaseType ==
  ASSUME NEW f \in Files, NEW n \in 1..(Len(f) + 1)
  PROVE  Base(f, n) \in Nat
<1> DEFINE S == Bases(f, n)
           last == CHOOSE m \in S : \A other \in S : other <= m
<1>1. n - 1 \in Nat /\ Len(f) \in Nat
  BY FileType
<1>2. S \subseteq 1..(n - 1)
  BY DEF Bases
<1>3. CASE S = {}
  BY <1>3 DEF Base, Bases
<1>4. CASE S # {}
  <2>1. Max(S) \in S /\ \A y \in S : Max(S) >= y
    BY <1>1, <1>2, <1>4, Extremes, Zenon
  <2>2. \A y \in S : y \in Int
    BY <1>2
  <2>3. Max(S) \in S /\ \A y \in S : y <= Max(S)
    <3> HIDE DEF S
    <3>1. Max(S) \in Int
      BY <2>1, <2>2
    <3> QED
      BY <2>1, <2>2, <3>1
  <2>4. last \in S
    <3> HIDE DEF S
    <3> QED
      BY <2>3, Zenon
  <2>5. last \in 1..Len(f) /\ f[last].type = "04"
    <3> HIDE DEF last
    <3> QED
      BY <1>1, <2>4 DEF Bases
  <2>6. f[last].bytes[1] \in Nat
    BY <2>5, FileType, Zenon
  <2>7. Base(f, n) = PAGE * f[last].bytes[1]
    BY <1>4 DEF Base, Bases
  <2>8. \A x, y \in Nat : x * y \in Nat
    OBVIOUS
  <2> QED
    BY <2>6, <2>7, <2>8, MaxqAssumption, Zenon
<1> QED
  BY <1>3, <1>4

\* The bytes of record n at their addresses.
BytesOf(f, n) == {[addr |-> Base(f, n) + f[n].addr + m - 1, byte |-> f[n].bytes[m]]
                    : m \in 1..Len(f[n].bytes)}

LEMMA ImageParts ==
  ASSUME NEW f \in Files
  PROVE  /\ \A k, b : b \in ImageTo(f, k) <=> \E n \in DataRecords(f) : n <= k /\ b \in BytesOf(f, n)
         /\ \A b : b \in Image(f) <=> \E n \in DataRecords(f) : b \in BytesOf(f, n)
         /\ Image(f) = ImageTo(f, Len(f))
         /\ ImageTo(f, 0) = {}
         /\ \A k \in 0..(Len(f) - 1) :
              ImageTo(f, k + 1) = ImageTo(f, k) \cup
                                  (IF f[k + 1].type = "00" THEN BytesOf(f, k + 1) ELSE {})
<1>1. \A k, b : b \in ImageTo(f, k) <=> \E n \in DataRecords(f) : n <= k /\ b \in BytesOf(f, n)
  <2>1. \A k : ImageTo(f, k) = UNION {BytesOf(f, n) : n \in {n \in DataRecords(f) : n <= k}}
    BY DEF ImageTo, BytesOf
  <2> QED
    BY <2>1
<1>2. \A b : b \in Image(f) <=> \E n \in DataRecords(f) : b \in BytesOf(f, n)
  <2>1. Image(f) = UNION {BytesOf(f, n) : n \in DataRecords(f)}
    BY DEF Image, BytesOf
  <2> QED
    BY <2>1
<1>3. Len(f) \in Nat /\ \A n : n \in DataRecords(f) <=> n \in 1..Len(f) /\ f[n].type = "00"
  BY FileType DEF DataRecords
<1>4. Image(f) = ImageTo(f, Len(f))
  <2>1. \A n \in DataRecords(f) : n <= Len(f)
    BY <1>3
  <2>2. \A b : b \in Image(f) <=> b \in ImageTo(f, Len(f))
    BY <1>1, <1>2, <2>1, Zenon
  <2> QED
    BY <2>2
<1>5. ImageTo(f, 0) = {}
  BY <1>1, <1>3
<1>6. ASSUME NEW k \in 0..(Len(f) - 1)
      PROVE  ImageTo(f, k + 1) = ImageTo(f, k) \cup
                                  (IF f[k + 1].type = "00" THEN BytesOf(f, k + 1) ELSE {})
  <2>0. k \in Nat /\ k + 1 \in 1..Len(f)
    BY <1>3
  <2>1. \A n \in 1..Len(f) : n <= k + 1 <=> n <= k \/ n = k + 1
    BY <2>0
  <2>2. \A b : b \in ImageTo(f, k + 1) <=>
                 b \in ImageTo(f, k) \/ (f[k + 1].type = "00" /\ b \in BytesOf(f, k + 1))
    BY <1>1, <1>3, <2>0, <2>1, Zenon
  <2> QED
    BY <2>2
<1> QED
  BY <1>1, <1>2, <1>4, <1>5, <1>6

LEMMA BytesType ==
  ASSUME NEW f \in Files, NEW n \in DataRecords(f)
  PROVE  /\ n \in 1..Len(f)
         /\ Base(f, n) \in Nat /\ f[n].addr \in Nat /\ Len(f[n].bytes) \in Nat
         /\ \A m \in 1..Len(f[n].bytes) : f[n].bytes[m] \in 0..Blank
         /\ BytesOf(f, n) \subseteq Byte
<1>1. n \in 1..Len(f) /\ f[n].type = "00" /\ Len(f) \in Nat
  BY FileType DEF DataRecords
<1>2. f[n].bytes \in Seq(0..Blank) /\ f[n].addr \in Nat /\ Len(f[n].bytes) \in Nat
  BY <1>1, FileType, Zenon
<1>3. n \in 1..(Len(f) + 1)
  BY <1>1
<1>4. Base(f, n) \in Nat
  BY <1>3, BaseType, Zenon
<1>5. \A m \in 1..Len(f[n].bytes) : f[n].bytes[m] \in 0..Blank
  BY <1>2, ElementOfSeq, Zenon
<1>6. \A m \in 1..Len(f[n].bytes) : Base(f, n) + f[n].addr + m - 1 \in Nat
  BY <1>2, <1>4
<1> QED
  BY <1>1, <1>2, <1>4, <1>5, <1>6 DEF BytesOf, Byte

LEMMA ImageType ==
  ASSUME NEW f \in Files, NEW b \in Image(f)
  PROVE  b \in Byte /\ b.addr \in 0..(LOC_SIZE - 1) /\ b.byte \in 0..Blank
<1>1. PICK n \in DataRecords(f) : b \in BytesOf(f, n)
  BY ImageParts, Zenon
<1>2. b \in Byte
  BY <1>1, BytesType
<1>3. b.addr < LOC_SIZE
  BY FilesFit
<1> QED
  BY <1>2, <1>3, MaxqAssumption DEF Byte

\* The last byte is one of the image, and there is one as soon as there is a byte.
LEMMA LastInImage ==
  ASSUME NEW f \in Files, NEW k \in Nat, NEW a, IsLast(f, k, a)
  PROVE  \E b \in ImageTo(f, k) : b.addr = a
<1>1. PICK n \in DataRecords(f) :
        /\ n <= k /\ f[n].bytes # <<>>
        /\ a = Base(f, n) + f[n].addr + Len(f[n].bytes) - 1
  BY DEF IsLast
<1>2. Len(f[n].bytes) \in Nat /\ f[n].bytes \in Seq(0..Blank)
  BY FileType, BytesType DEF DataRecords
<1>3. Len(f[n].bytes) \in 1..Len(f[n].bytes)
  BY <1>1, <1>2
<1> DEFINE b == [addr |-> Base(f, n) + f[n].addr + Len(f[n].bytes) - 1,
                 byte |-> f[n].bytes[Len(f[n].bytes)]]
<1>4. b \in BytesOf(f, n)
  BY <1>3 DEF BytesOf
<1>5. b \in ImageTo(f, k)
  BY <1>1, <1>4, ImageParts
<1> QED
  BY <1>1, <1>5

LEMMA LastIsOne ==
  ASSUME NEW f \in Files, NEW a, NEW b, IsLast(f, Len(f), a), IsLast(f, Len(f), b)
  PROVE  a = b
<1>1. PICK n \in DataRecords(f) :
        /\ f[n].bytes # <<>> /\ a = Base(f, n) + f[n].addr + Len(f[n].bytes) - 1
        /\ \A m \in DataRecords(f) : n < m /\ m <= Len(f) => f[m].bytes = <<>>
  BY DEF IsLast
<1>2. PICK m \in DataRecords(f) :
        /\ f[m].bytes # <<>> /\ b = Base(f, m) + f[m].addr + Len(f[m].bytes) - 1
        /\ \A o \in DataRecords(f) : m < o /\ o <= Len(f) => f[o].bytes = <<>>
  BY DEF IsLast
<1>3. n \in 1..Len(f) /\ m \in 1..Len(f) /\ Len(f) \in Nat
  BY FileType, BytesType
<1>4. ~ (n < m) /\ ~ (m < n)
  BY <1>1, <1>2, <1>3
<1>5. n = m
  BY <1>3, <1>4
<1> QED
  BY <1>1, <1>2, <1>5

-----------------------------------------------------------------------------
(* The memory image that is made of the bytes read.                        *)

LEMMA PlacedType ==
  ASSUME NEW bytes \in Seq(Byte), NEW c, NEW a
  PROVE  /\ KeepFirst(bytes, a) = Blank \/
              \E n \in At(bytes, a) : KeepFirst(bytes, a) = bytes[n].byte
         /\ KeepLast(bytes, a) = Blank \/
              \E n \in At(bytes, a) : KeepLast(bytes, a) = bytes[n].byte
         /\ KeepFirst(bytes, a) = Blank =>
              \A n \in At(bytes, a) : bytes[n].byte = Blank
         /\ KeepLast(bytes, a) = Blank /\ At(bytes, a) # {} =>
              \E n \in At(bytes, a) : bytes[n].byte = Blank
<1> DEFINE W == {n \in At(bytes, a) : bytes[n].byte # Blank}
           L == At(bytes, a)
<1>1. Len(bytes) \in Nat /\ W \subseteq 1..Len(bytes) /\ L \subseteq 1..Len(bytes)
  BY DEF At
<1>2. W # {} => Min(W) \in W
  BY <1>1, Extremes, Zenon
<1>3. L # {} => Max(L) \in L
  BY <1>1, Extremes, Zenon
<1>4. KeepFirst(bytes, a) = IF W = {} THEN Blank ELSE bytes[Min(W)].byte
  BY DEF KeepFirst
<1>5. KeepLast(bytes, a) = IF L = {} THEN Blank ELSE bytes[Max(L)].byte
  BY DEF KeepLast
<1>6. W \subseteq L /\ \A n \in L : n \in W <=> bytes[n].byte # Blank
  OBVIOUS
<1> HIDE DEF W, L
<1>7. /\ KeepFirst(bytes, a) = Blank \/ \E n \in L : KeepFirst(bytes, a) = bytes[n].byte
      /\ KeepFirst(bytes, a) = Blank => \A n \in L : bytes[n].byte = Blank
  BY <1>2, <1>4, <1>6
<1>8. /\ KeepLast(bytes, a) = Blank \/ \E n \in L : KeepLast(bytes, a) = bytes[n].byte
      /\ KeepLast(bytes, a) = Blank /\ L # {} => \E n \in L : bytes[n].byte = Blank
  BY <1>3, <1>5
<1> QED
  BY <1>7, <1>8 DEF L

\* Whichever of two values it keeps, the memory is that of a file whose bytes agree.
LEMMA PlacedIsMap ==
  ASSUME NEW f \in Files, NEW bytes \in Seq(Byte), ElementsOf(bytes) = Image(f), NEW c
  PROVE  /\ \A a \in 0..(LOC_SIZE - 1) : Placed(c, bytes)[a] \in 0..Blank
         /\ Disjoint(f) => Placed(c, bytes) = MapOf(f)
<1>1. Len(bytes) \in Nat /\ \A n \in 1..Len(bytes) : bytes[n] \in Byte /\ bytes[n] \in Image(f)
  BY DEF ElementsOf
<1>2. \A b \in Image(f) : \E n \in 1..Len(bytes) : b = bytes[n]
  BY DEF ElementsOf
<1> DEFINE V(a) == IF c = "load_code" THEN KeepFirst(bytes, a) ELSE KeepLast(bytes, a)
<1>3. \A a \in 0..(LOC_SIZE - 1) : Placed(c, bytes)[a] = V(a)
  BY DEF Placed
<1>4. ASSUME NEW a
      PROVE  /\ V(a) = Blank \/ \E n \in At(bytes, a) : V(a) = bytes[n].byte
             /\ V(a) = Blank /\ At(bytes, a) # {} =>
                  \E n \in At(bytes, a) : V(a) = bytes[n].byte
  <2>1. CASE c = "load_code"
    BY <2>1, PlacedType
  <2>2. CASE c # "load_code"
    BY <2>2, PlacedType
  <2> QED
    BY <2>1, <2>2
<1> HIDE DEF V
<1>5. ASSUME NEW a \in 0..(LOC_SIZE - 1) PROVE V(a) \in 0..Blank
  <2>1. Blank \in 0..Blank
    BY DEF Blank
  <2>2. \A n \in At(bytes, a) : bytes[n].byte \in 0..Blank
    BY <1>1 DEF At, Byte
  <2> QED
    BY <1>4, <2>1, <2>2, Zenon
<1>6. ASSUME Disjoint(f), NEW a \in 0..(LOC_SIZE - 1) PROVE V(a) = MapOf(f)[a]
  <2> DEFINE m == CHOOSE b \in Image(f) : b.addr = a
  <2>1. MapOf(f)[a] = IF \E b \in Image(f) : b.addr = a THEN m.byte ELSE Blank
    BY DEF MapOf
  <2>2. At(bytes, a) # {} <=> \E b \in Image(f) : b.addr = a
    BY <1>1, <1>2 DEF At
  <2>3. (\E b \in Image(f) : b.addr = a) => m \in Image(f) /\ m.addr = a
    OBVIOUS
  <2> HIDE DEF m
  <2>4. CASE At(bytes, a) = {}
    BY <1>4, <2>1, <2>2, <2>4
  <2>5. CASE At(bytes, a) # {}
    <3>1. PICK n \in At(bytes, a) : V(a) = bytes[n].byte
      BY <1>4, <2>5
    <3>2. bytes[n] \in Image(f) /\ bytes[n].addr = a
      BY <1>1 DEF At
    <3>3. bytes[n] = m
      BY <1>6, <2>2, <2>3, <2>5, <3>2 DEF Disjoint
    <3> QED
      BY <2>1, <2>2, <2>5, <3>1, <3>3
  <2> QED
    BY <2>4, <2>5
<1>7. Disjoint(f) => Placed(c, bytes) = MapOf(f)
  BY <1>3, <1>6 DEF Placed, MapOf
<1> QED
  BY <1>3, <1>5, <1>7

-----------------------------------------------------------------------------
(* The pieces that the loop over a file sends, and those of the lines.     *)

LEMMA NoPieces == ASSUME NEW loc, NEW last PROVE PiecesTo(loc, last, 0) = {}
BY DEF PiecesTo

LEMMA PiecesMore ==
  ASSUME NEW loc, NEW last \in Int, NEW j \in Nat, j % chunk_size = 0
  PROVE  PiecesTo(loc, last, j + chunk_size) =
           PiecesTo(loc, last, j) \cup
             (IF j < last /\ IsWritten(loc, j) THEN {PieceAt(loc, j)} ELSE {})
<1> DEFINE Sends(limit) == {x \in 0..(limit - 1) : x % chunk_size = 0 /\ x < last
                                                     /\ IsWritten(loc, x)}
<1>1. chunk_size \in Nat \ {0}
  BY MaxqAssumption
<1>2. ASSUME NEW x \in Int, x % chunk_size = 0, x >= 0
      PROVE  x <= j + chunk_size - 1 <=> x <= j - 1 \/ x = j
  <2>1. ~ (j < x /\ x < j + chunk_size)
    <3> SUFFICES ASSUME j < x, x < j + chunk_size PROVE FALSE
      OBVIOUS
    <3>0. j \in Int /\ j < x
      OBVIOUS
    <3>1. j + chunk_size <= x
      BY <1>1, <1>2, <3>0, MultiplesApart, Zenon
    <3> QED
      BY <1>1, <3>1
  <2> QED
    BY <1>1, <2>1
<1>3. Sends(j + chunk_size) = Sends(j) \cup (IF j < last /\ IsWritten(loc, j) THEN {j} ELSE {})
  <2>1. ASSUME NEW x
        PROVE  x \in Sends(j + chunk_size) <=>
                 x \in Sends(j) \/ (x = j /\ j < last /\ IsWritten(loc, j))
    <3>1. x \in Sends(j + chunk_size) <=>
            x \in Int /\ x >= 0 /\ x <= j + chunk_size - 1
            /\ x % chunk_size = 0 /\ x < last /\ IsWritten(loc, x)
      BY <1>1
    <3>2. x \in Sends(j) <=>
            x \in Int /\ x >= 0 /\ x <= j - 1
            /\ x % chunk_size = 0 /\ x < last /\ IsWritten(loc, x)
      BY <1>1
    <3> HIDE DEF Sends
    <3>3. j \in Int /\ j >= 0
      OBVIOUS
    <3> QED
      BY <1>2, <3>1, <3>2, <3>3, Zenon
  <2> QED
    BY <2>1
<1>4. \A limit : PiecesTo(loc, last, limit) = {PieceAt(loc, x) : x \in Sends(limit)}
  BY DEF PiecesTo
<1> HIDE DEF Sends
<1> QED
  BY <1>3, <1>4

LEMMA PiecesEnd ==
  ASSUME NEW loc, NEW last \in Int, NEW limit \in Nat, last <= limit, limit <= LOC_SIZE
  PROVE  PiecesTo(loc, last, limit) = PiecesTo(loc, last, LOC_SIZE)
<1>1. \A x : x \in 0..(limit - 1) /\ x < last <=> x \in 0..(LOC_SIZE - 1) /\ x < last
  BY MaxqAssumption
<1> QED
  BY <1>1 DEF PiecesTo

\* One more packet belongs to the last line.
LEMMA PiecesGrow ==
  ASSUME IsSequence(packets), Len(lines) \in Nat, lines' = lines,
         \A n \in 1..Len(lines) : lines[n].first \in 1..(Len(packets) + 1),
         NEW e, packets' = Append(packets, e), NEW n \in 1..Len(lines)
  PROVE  Pieces(n)' = IF n = Len(lines) /\ e.from = "host"
                        THEN Pieces(n) \cup {[addr |-> e.addr, code |-> e.code]}
                        ELSE Pieces(n)
<1>1. /\ Len(packets) \in Nat
      /\ Len(packets') = Len(packets) + 1
      /\ packets'[Len(packets) + 1] = e
      /\ \A k \in 1..Len(packets) : packets'[k] = packets[k]
  BY AppendToSequence
<1>2. lines[n].first \in 1..(Len(packets) + 1)
  OBVIOUS
<1>3. n < Len(lines) => lines[n + 1].first \in 1..(Len(packets) + 1)
  OBVIOUS
<1>4. PacketsOf(n)' = IF n = Len(lines) THEN PacketsOf(n) \cup {Len(packets) + 1}
                                        ELSE PacketsOf(n)
  <2>1. CASE n = Len(lines)
    <3>1. PacketsOf(n) = lines[n].first .. Len(packets)
          /\ PacketsOf(n)' = lines[n].first .. (Len(packets) + 1)
      BY <1>1, <2>1 DEF PacketsOf
    <3> QED
      BY <1>1, <1>2, <2>1, <3>1
  <2>2. CASE n # Len(lines)
    BY <1>1, <2>2 DEF PacketsOf
  <2> QED
    BY <2>1, <2>2
<1>5. PacketsOf(n) \subseteq 1..Len(packets)
  BY <1>1, <1>2, <1>3 DEF PacketsOf
<1>6. \A k \in PacketsOf(n) : packets'[k] = packets[k]
  BY <1>1, <1>5
<1>7. Pieces(n)' = {[addr |-> packets'[k].addr, code |-> packets'[k].code] :
                       k \in {k \in PacketsOf(n)' : packets'[k].from = "host"}}
  BY DEF Pieces
<1>8. CASE n # Len(lines) \/ e.from # "host"
  <2>1. {k \in PacketsOf(n)' : packets'[k].from = "host"}
          = {k \in PacketsOf(n) : packets[k].from = "host"}
    BY <1>1, <1>4, <1>6, <1>8
  <2> QED
    BY <1>6, <1>7, <1>8, <2>1 DEF Pieces
<1>9. CASE n = Len(lines) /\ e.from = "host"
  <2>1. {k \in PacketsOf(n)' : packets'[k].from = "host"}
          = {k \in PacketsOf(n) : packets[k].from = "host"} \cup {Len(packets) + 1}
    BY <1>1, <1>4, <1>6, <1>9
  <2> DEFINE H == {k \in PacketsOf(n) : packets[k].from = "host"}
             N == Len(packets) + 1
             piece(k) == [addr |-> packets[k].addr, code |-> packets[k].code]
             piece2(k) == [addr |-> packets'[k].addr, code |-> packets'[k].code]
  <2>2. Pieces(n) = {piece(k) : k \in H} /\ Pieces(n)' = {piece2(k) : k \in H \cup {N}}
    BY <1>7, <2>1 DEF Pieces
  <2>3. \A k \in H : piece2(k) = piece(k)
    BY <1>6
  <2>4. piece2(N) = [addr |-> e.addr, code |-> e.code]
    BY <1>1
  <2> HIDE DEF H, N, piece, piece2
  <2> QED
    BY <1>9, <2>2, <2>3, <2>4
<1> QED
  BY <1>8, <1>9

\* A new line takes nothing from the ones before it, and begins without a piece.
LEMMA PiecesNewLine ==
  ASSUME IsSequence(packets), IsSequence(lines),
         \A n \in 1..Len(lines) : lines[n].first \in 1..(Len(packets) + 1),
         NEW l, l.first = Len(packets) + 1, lines' = Append(lines, l),
         packets' = packets \/ \E e : packets' = Append(packets, e)
  PROVE  /\ \A n \in 1..Len(lines) : Pieces(n)' = Pieces(n)
         /\ packets' = packets => Pieces(Len(lines))' = {}
<1>1. /\ Len(packets) \in Nat /\ Len(packets') \in Nat
      /\ \A k \in 1..Len(packets) : packets'[k] = packets[k]
  BY AppendToSequence DEF IsSequence
<1>2. /\ Len(lines) \in Nat /\ Len(lines') = Len(lines) + 1
      /\ lines'[Len(lines) + 1] = l
      /\ \A n \in 1..Len(lines) : lines'[n] = lines[n]
  BY AppendToSequence
<1>3. ASSUME NEW n \in 1..Len(lines) PROVE Pieces(n)' = Pieces(n)
  <2>1. n < Len(lines) => lines'[n + 1] = lines[n + 1]
                          /\ lines[n + 1].first \in 1..(Len(packets) + 1)
    BY <1>2
  <2>2. PacketsOf(n)' = PacketsOf(n) /\ PacketsOf(n) \subseteq 1..Len(packets)
    <3>1. lines'[n].first = lines[n].first /\ lines[n].first \in 1..(Len(packets) + 1)
      BY <1>2
    <3>2. CASE n < Len(lines)
      <4>1. n \in Int /\ n < Len(lines) + 1
        BY <1>2
      <4>2. PacketsOf(n) = lines[n].first .. (lines[n + 1].first - 1)
        BY <3>2 DEF PacketsOf
      <4>3. PacketsOf(n)' = lines'[n].first .. (lines'[n + 1].first - 1)
        BY <1>2, <4>1 DEF PacketsOf
      <4>4. lines[n + 1].first - 1 <= Len(packets) /\ lines[n].first \in Nat \ {0}
        BY <1>1, <2>1, <3>1, <3>2
      <4>5. lines[n].first .. (lines[n + 1].first - 1) \subseteq 1..Len(packets)
        BY <1>1, <2>1, <3>2, <4>4
      <4> QED
        BY <2>1, <3>1, <3>2, <4>2, <4>3, <4>5
    <3>3. CASE n = Len(lines)
      BY <1>1, <1>2, <3>1, <3>3 DEF PacketsOf
    <3> QED
      BY <1>2, <3>2, <3>3
  <2>3. \A k \in PacketsOf(n) : packets'[k] = packets[k]
    BY <1>1, <2>2
  <2>4. {k \in PacketsOf(n)' : packets'[k].from = "host"}
          = {k \in PacketsOf(n) : packets[k].from = "host"}
    BY <2>2, <2>3
  <2> QED
    BY <2>3, <2>4 DEF Pieces
<1>4. ASSUME packets' = packets PROVE Pieces(Len(lines))' = {}
  <2>1. \A k : ~ (k \in (Len(packets) + 1)..Len(packets))
    BY <1>1
  <2>2. PacketsOf(Len(lines))' = {}
    BY <1>2, <1>4, <2>1 DEF PacketsOf
  <2> QED
    BY <2>2 DEF Pieces
<1> QED
  BY <1>3, <1>4

-----------------------------------------------------------------------------
(* The steps, first what they do to the lines.                             *)

\* A step that reads no line keeps what was carried out; the last line may be added to it.
LEMMA LinesKept ==
  ASSUME IsSequence(packets), IsSequence(lines), LinesInv, lines' = lines,
         packets' = packets \/ \E e : packets' = Append(packets, e),
         pc' \in {"start", "open"} => lines = <<>>,
         pc' = "line" => \/ pc = "line" /\ packets' = packets
                         \/ lines = <<>>
                         \/ Carried(Len(lines))'
  PROVE  LinesInv'
<1>1. /\ Len(packets) \in Nat /\ Len(packets') \in Nat
      /\ Len(packets') \in {Len(packets), Len(packets) + 1}
  BY AppendToSequence DEF IsSequence
<1>2. Len(lines) \in Nat
  BY DEF IsSequence
<1>3. \A n \in 1..Len(lines) : lines[n].first \in 1..(Len(packets) + 1)
  BY DEF LinesInv
<1>4. ASSUME NEW n \in 1..(Len(lines) - 1) PROVE Pieces(n)' = Pieces(n)
  <2>1. CASE packets' = packets
    BY <2>1 DEF Pieces, PacketsOf
  <2>2. ASSUME NEW e, packets' = Append(packets, e) PROVE Pieces(n)' = Pieces(n)
    <3>1. n \in 1..Len(lines) /\ n # Len(lines)
      BY <1>2
    <3> QED
      BY <1>2, <1>3, <2>2, <3>1, PiecesGrow
  <2> QED
    BY <2>1, <2>2
<1>5. \A n \in 1..(Len(lines) - 1) : Carried(n)'
  <2> TAKE n \in 1..(Len(lines) - 1)
  <2>1. n \in Finished
    BY <1>2 DEF Finished
  <2>2. Carried(n)
    BY <2>1 DEF LinesInv
  <2> QED
    BY <1>4, <2>2 DEF Carried
<1>6. \A n \in Finished' : Carried(n)'
  <2>1. CASE pc' # "line"
    BY <1>5, <2>1 DEF Finished
  <2>2. CASE pc' = "line" /\ pc = "line" /\ packets' = packets
    <3>1. ASSUME NEW n \in 1..Len(lines) PROVE Carried(n)'
      <4>1. Carried(n)
        BY <2>2 DEF LinesInv, Finished
      <4>2. Pieces(n)' = Pieces(n)
        BY <2>2 DEF Pieces, PacketsOf
      <4> QED
        BY <4>1, <4>2 DEF Carried
    <3> QED
      BY <2>2, <3>1 DEF Finished
  <2>3. CASE pc' = "line" /\ lines = <<>>
    BY <2>3 DEF Finished
  <2>4. CASE pc' = "line" /\ Carried(Len(lines))'
    <3>1. \A n \in 1..Len(lines) : n \in 1..(Len(lines) - 1) \/ n = Len(lines)
      BY <1>2
    <3>2. \A n \in 1..Len(lines) : Carried(n)'
      BY <1>5, <2>4, <3>1, Zenon
    <3> QED
      BY <2>4, <3>2 DEF Finished
  <2> QED
    BY <2>1, <2>2, <2>3, <2>4
<1>7. \A n \in 1..Len(lines) : lines[n].first \in 1..(Len(packets') + 1)
  BY <1>1, <1>3
<1> QED
  BY <1>6, <1>7 DEF LinesInv

\* A line that is read leaves the lines before it carried out.
LEMMA LinesRead ==
  ASSUME IsSequence(packets), IsSequence(lines), LinesInv, pc = "line",
         NEW l, l.first = Len(packets) + 1, l.file \in Files \cup {NoFile},
         lines' = Append(lines, l),
         packets' = packets \/ \E e : packets' = Append(packets, e),
         pc' \notin {"start", "open"}, pc' = "line" => l.file = NoFile
  PROVE  LinesInv'
<1>1. /\ Len(packets) \in Nat /\ Len(packets') \in Nat
      /\ Len(packets') \in {Len(packets), Len(packets) + 1}
  BY AppendToSequence DEF IsSequence
<1>2. /\ Len(lines) \in Nat /\ Len(lines') = Len(lines) + 1
      /\ lines'[Len(lines) + 1] = l
      /\ \A n \in 1..Len(lines) : lines'[n] = lines[n]
  BY AppendToSequence
<1>3. \A n \in 1..Len(lines) : lines[n].first \in 1..(Len(packets) + 1)
                               /\ lines[n].file \in Files \cup {NoFile}
  BY DEF LinesInv
<1>4. \A n \in 1..Len(lines) : Pieces(n)' = Pieces(n)
  BY <1>3, PiecesNewLine
<1>5. \A n \in 1..Len(lines) : Carried(n)'
  <2> TAKE n \in 1..Len(lines)
  <2>1. Carried(n)
    BY DEF LinesInv, Finished
  <2> QED
    BY <1>2, <1>4, <2>1 DEF Carried
<1>6. \A n \in Finished' : Carried(n)'
  <2>1. CASE pc' # "line"
    <3>1. Finished' = 1..Len(lines)
      BY <1>2, <2>1 DEF Finished
    <3> QED
      BY <1>5, <3>1
  <2>2. CASE pc' = "line"
    <3>1. Carried(Len(lines))'
      BY <1>2, <2>2 DEF Carried
    <3>2. \A n \in Finished' : n \in 1..Len(lines) \/ n = Len(lines')
      BY <1>2, <2>2 DEF Finished
    <3> QED
      BY <1>5, <3>1, <3>2, Zenon
  <2> QED
    BY <2>1, <2>2
<1>7. \A n \in 1..Len(lines') : /\ lines'[n].first \in 1..(Len(packets') + 1)
                                /\ lines'[n].file \in Files \cup {NoFile}
  <2> TAKE n \in 1..Len(lines')
  <2>1. CASE n = Len(lines) + 1
    BY <1>1, <1>2, <2>1
  <2>2. CASE n # Len(lines) + 1
    <3>1. n \in 1..Len(lines)
      BY <1>2, <2>2
    <3> QED
      BY <1>1, <1>2, <1>3, <3>1
  <2> QED
    BY <2>1, <2>2
<1> QED
  BY <1>6, <1>7 DEF LinesInv

\* What a request does, with a signature or without.
LEMMA RequestShape ==
  ASSUME NEW c, NEW n, NEW address, NEW code, request(c, n, address, code), seq \in Int
  PROVE  /\ seq' \in 0..(SEQ_MOD - 1) /\ cmd' = c
         /\ \/ /\ pc' = "response" /\ status' = status
               /\ \E e : /\ packets' = Append(packets, e)
                         /\ e.from = "host" /\ e.addr = address /\ e.code = code
            \/ /\ pc' = "exited" /\ status' \in {"success", "failure"}
               /\ packets' = packets
<1>1. seq' \in 0..(SEQ_MOD - 1)
  <2>1. SEQ_MOD \in Nat \ {0}
    BY MaxqAssumption
  <2>2. (seq + 1) % SEQ_MOD \in 0..(SEQ_MOD - 1)
    BY <2>1, Remainder
  <2> QED
    BY <2>2 DEF request, maxq1852_add_seq
<1>2. ASSUME NEW signed, Emit(c, n, address, code, signed)
      PROVE  \E e : /\ packets' = Append(packets, e)
                    /\ e.from = "host" /\ e.addr = address /\ e.code = code
  BY <1>2 DEF Emit
<1> QED
  BY <1>1, <1>2 DEF request, ExitProgram

\* The steps that read the script.
LEMMA ScriptStep ==
  ASSUME TalkInv, FileInv,
         \/ process_script \/ open_script \/ skip_line \/ bad_line \/ simple_line
         \/ file_line \/ end_of_script
  PROVE  FileInv'
<1>1. IsSequence(packets) /\ IsSequence(lines) /\ LinesInv /\ TypeOK
  BY DEF TalkInv, FileInv
<1>2. Len(lines) \in Nat
  BY <1>1 DEF IsSequence
<1>3. CASE process_script \/ open_script \/ bad_line \/ end_of_script
  <2>1. /\ UNCHANGED <<library, lines, file_vars, seq, cmd, i, packets>>
        /\ pc \in {"start", "open", "line"} /\ pc' \in {"open", "line", "exited"}
        /\ pc' = "open" => pc = "start"
        /\ pc' = "line" => pc = "open"
        /\ status' \in {"running", "success", "failure"}
    BY <1>1, <1>3 DEF process_script, open_script, bad_line, end_of_script, ReadLine, Return,
      ExitProgram, TypeOK
  <2>2. LinesInv'
    <3>1. pc \in {"start", "open"} => lines = <<>>
      BY <1>1 DEF LinesInv
    <3> QED
      BY <1>1, <2>1, <3>1, LinesKept
  <2>3. TypeOK'
    BY <1>1, <2>1 DEF TypeOK, file_vars
  <2> QED
    BY <2>1, <2>2, <2>3 DEF FileInv
<1>4. CASE skip_line
  <2> DEFINE l == [cmd |-> "none", file |-> NoFile, first |-> Len(packets) + 1]
  <2>1. /\ lines' = Append(lines, l) /\ pc = "line" /\ pc' = pc
        /\ UNCHANGED <<library, status, file_vars, seq, cmd, i, packets>>
    BY <1>4 DEF skip_line, ReadLine, Line
  <2>2. l.first = Len(packets) + 1 /\ l.file = NoFile
    OBVIOUS
  <2> HIDE DEF l
  <2>3. LinesInv'
    BY <1>1, <2>1, <2>2, LinesRead
  <2>4. TypeOK'
    BY <1>1, <2>1 DEF TypeOK, file_vars
  <2> QED
    BY <2>1, <2>3, <2>4 DEF FileInv
<1>5. CASE simple_line
  <2>1. PICK c \in Simple : \E n : Line(c, NoFile) /\ request(c, n, 0, <<>>)
    BY <1>5 DEF simple_line
  <2>2. PICK n : Line(c, NoFile) /\ request(c, n, 0, <<>>)
    BY <2>1
  <2> DEFINE l == [cmd |-> c, file |-> NoFile, first |-> Len(packets) + 1]
  <2>3. lines' = Append(lines, l) /\ pc = "line" /\ UNCHANGED <<library, file_vars, i>>
    BY <1>5, <2>2 DEF simple_line, ReadLine, Line
  <2>4. l.first = Len(packets) + 1 /\ l.file = NoFile
    OBVIOUS
  <2> HIDE DEF l
  <2>5. seq \in Int
    BY <1>1, MaxqAssumption DEF TypeOK
  <2>6. /\ seq' \in 0..(SEQ_MOD - 1) /\ cmd' = c
        /\ pc' \in {"response", "exited"}
        /\ status' = status \/ status' \in {"success", "failure"}
        /\ packets' = packets \/ \E e : packets' = Append(packets, e)
    BY <2>2, <2>5, RequestShape
  <2>7. LinesInv'
    BY <1>1, <2>3, <2>4, <2>6, LinesRead
  <2>8. TypeOK'
    BY <1>1, <2>3, <2>6 DEF TypeOK, file_vars, Cmds
  <2>9. ~FileOpen'
    <3>1. lines'[Len(lines')] = l
      BY <1>1, <2>3, AppendToSequence
    <3> QED
      BY <2>4, <3>1 DEF FileOpen
  <2> QED
    BY <2>6, <2>7, <2>8, <2>9 DEF FileInv
<1>6. CASE file_line
  <2>1. PICK c \in FileCmds :
          /\ cmd' = c
          /\ \/ /\ Return
                /\ UNCHANGED <<lines, file_vars>>
             \/ \E f \in Files :
                  /\ Line(c, f)
                  /\ pc' = "read"
                  /\ records' = f
                  /\ hex_extended_address' = 0
                  /\ data' = <<>>
                  /\ UNCHANGED <<status, dataloc, last_index>>
    BY <1>6 DEF file_line
  <2>2. pc = "line" /\ UNCHANGED <<library, seq, i, packets>>
    BY <1>6 DEF file_line, ReadLine
  <2>3. CASE Return /\ UNCHANGED <<lines, file_vars>>
    <3>1. pc' = "exited" /\ status' = "success"
      BY <2>3 DEF Return, ExitProgram
    <3>2. LinesInv'
      BY <1>1, <2>2, <2>3, <3>1, LinesKept
    <3>3. TypeOK'
      BY <1>1, <2>1, <2>2, <2>3, <3>1 DEF TypeOK, file_vars, Cmds
    <3> QED
      BY <3>1, <3>2, <3>3 DEF FileInv
  <2>4. ASSUME NEW f \in Files,
               Line(c, f), pc' = "read", records' = f, hex_extended_address' = 0, data' = <<>>,
               UNCHANGED <<status, dataloc, last_index>>
        PROVE  FileInv'
    <3> DEFINE l == [cmd |-> c, file |-> f, first |-> Len(packets) + 1]
    <3>1. lines' = Append(lines, l)
      BY <2>4 DEF Line
    <3>2. l.first = Len(packets) + 1 /\ l.file = f
      OBVIOUS
    <3> HIDE DEF l
    <3>3. LinesInv'
      BY <1>1, <2>2, <2>4, <3>1, <3>2, LinesRead
    <3>4. TypeOK'
      BY <1>1, <2>1, <2>2, <2>4 DEF TypeOK, Cmds
    <3>5. File' = f /\ Read' = 0
      <4>1. lines'[Len(lines')] = l
        BY <1>1, <3>1, AppendToSequence
      <4>2. File' = f
        BY <3>2, <4>1 DEF File
      <4>3. Len(f) \in Nat
        BY FileType
      <4> QED
        BY <2>4, <4>2, <4>3 DEF Read
    <3>6. Pieces(Len(lines))' = {}
      BY <1>1, <2>2, <3>1, <3>2, PiecesNewLine DEF LinesInv
    <3>7. Base(f, 1) = 0 /\ ImageTo(f, 0) = {} /\ f \in Seq(Record) /\ Len(f) \in Nat
      BY BaseStep, ImageParts, FileType
    <3>8. Reading'
      <4>1. <<>> \in Seq(Byte) /\ ElementsOf(<<>>) = {}
        BY DEF ElementsOf
      <4>2. 0 * PAGE = 0 /\ 0 + 1 = 1
        BY MaxqAssumption
      <4>3. \A m \in 1..Len(f) : f[m] = f[0 + m]
        BY <3>7
      <4>4. Len(f) <= Len(f)
        BY <3>7
      <4>5. lines' # <<>>
        <5>1. Len(lines') = Len(lines) + 1
          BY <1>1, <3>1, AppendToSequence
        <5>2. Len(lines') # 0
          BY <1>2, <5>1
        <5> QED
          BY <5>2
      <4> QED
        BY <4>5, <2>4, <3>5, <3>6, <3>7, <4>1, <4>2, <4>3, <4>4 DEF Reading
    <3> QED
      BY <2>4, <3>3, <3>4, <3>8 DEF FileInv
  <2> QED
    BY <2>1, <2>3, <2>4
<1> QED
  BY <1>3, <1>4, <1>5, <1>6

\* One more record that holds no byte leaves the last byte where it was, and one that
\* holds bytes has it.
LEMMA LastStep ==
  ASSUME NEW f \in Files, NEW k \in 0..(Len(f) - 1)
  PROVE  /\ \A a : IsLast(f, k, a) /\ (f[k + 1].type = "00" => f[k + 1].bytes = <<>>)
                     => IsLast(f, k + 1, a)
         /\ f[k + 1].type = "00" /\ f[k + 1].bytes # <<>> =>
              IsLast(f, k + 1, Base(f, k + 1) + f[k + 1].addr + Len(f[k + 1].bytes) - 1)
<1>1. k \in Nat /\ k + 1 \in 1..Len(f) /\ Len(f) \in Nat
  BY FileType
<1>2. \A n : n \in DataRecords(f) <=> n \in 1..Len(f) /\ f[n].type = "00"
  BY DEF DataRecords
<1>3. ASSUME NEW a, IsLast(f, k, a), f[k + 1].type = "00" => f[k + 1].bytes = <<>>
      PROVE  IsLast(f, k + 1, a)
  <2>1. PICK n \in DataRecords(f) :
          /\ n <= k /\ f[n].bytes # <<>>
          /\ a = Base(f, n) + f[n].addr + Len(f[n].bytes) - 1
          /\ \A m \in DataRecords(f) : n < m /\ m <= k => f[m].bytes = <<>>
    BY <1>3 DEF IsLast
  <2>2. n <= k + 1
    BY <1>1, <1>2, <2>1
  <2>3. ASSUME NEW m \in DataRecords(f), n < m, m <= k + 1 PROVE f[m].bytes = <<>>
    <3>1. m <= k \/ m = k + 1
      BY <1>1, <1>2, <2>3
    <3> QED
      BY <1>2, <1>3, <2>1, <2>3, <3>1
  <2> QED
    BY <2>1, <2>2, <2>3, Zenon DEF IsLast
<1>4. ASSUME f[k + 1].type = "00", f[k + 1].bytes # <<>>
      PROVE  IsLast(f, k + 1, Base(f, k + 1) + f[k + 1].addr + Len(f[k + 1].bytes) - 1)
  <2>1. k + 1 \in DataRecords(f)
    BY <1>1, <1>2, <1>4
  <2>2. \A m \in DataRecords(f) : ~ (k + 1 < m /\ m <= k + 1) /\ k + 1 <= k + 1
    BY <1>1, <1>2
  <2> QED
    BY <1>4, <2>1, <2>2, Zenon DEF IsLast
<1> QED
  BY <1>3, <1>4

\* What a data record puts in the buffer is what it holds.
LEMMA LocatedIsBytes ==
  ASSUME NEW f \in Files, NEW n \in DataRecords(f), hex_extended_address * PAGE = Base(f, n)
  PROVE  /\ Located(f[n]) \in Seq(Byte)
         /\ ElementsOf(Located(f[n])) = BytesOf(f, n)
         /\ Len(Located(f[n])) = Len(f[n].bytes)
         /\ f[n].bytes # <<>> =>
              /\ Len(f[n].bytes) > 0
              /\ Located(f[n])[Len(f[n].bytes)].addr
                   = Base(f, n) + f[n].addr + Len(f[n].bytes) - 1
<1>1. /\ Base(f, n) \in Nat /\ f[n].addr \in Nat /\ Len(f[n].bytes) \in Nat
      /\ \A m \in 1..Len(f[n].bytes) : f[n].bytes[m] \in 0..Blank
  BY BytesType
<1> DEFINE N == Len(f[n].bytes)
           b(m) == [addr |-> Base(f, n) + f[n].addr + m - 1, byte |-> f[n].bytes[m]]
<1>2. Located(f[n]) = [m \in 1..N |-> b(m)]
  BY DEF Located
<1>3. \A m \in 1..N : b(m) \in Byte
  BY <1>1 DEF Byte
<1>4. BytesOf(f, n) = {b(m) : m \in 1..N}
  BY DEF BytesOf
<1>5. N \in Nat
  BY <1>1
<1>6. f[n].bytes # <<>> => N > 0
  <2>1. f[n].bytes \in Seq(0..Blank)
    BY FileType DEF DataRecords
  <2> QED
    BY <2>1
<1>7. \A m \in 1..N : b(m).addr = Base(f, n) + f[n].addr + m - 1
  OBVIOUS
<1> HIDE DEF b, N
<1>8. Located(f[n]) \in Seq(Byte) /\ Len(Located(f[n])) = N
  BY <1>2, <1>3, <1>5
<1>9. ElementsOf(Located(f[n])) = BytesOf(f, n)
  BY <1>2, <1>4, <1>8 DEF ElementsOf
<1>10. N > 0 => Located(f[n])[N].addr = Base(f, n) + f[n].addr + N - 1
  BY <1>2, <1>5, <1>7
<1> QED
  BY <1>6, <1>8, <1>9, <1>10 DEF N

LEMMA ConcatElements ==
  ASSUME NEW S, NEW a \in Seq(S), NEW b \in Seq(S)
  PROVE  /\ a \o b \in Seq(S)
         /\ ElementsOf(a \o b) = ElementsOf(a) \cup ElementsOf(b)
         /\ Len(b) > 0 => a \o b # <<>> /\ (a \o b)[Len(a \o b)] = b[Len(b)]
         /\ Len(b) = 0 => a \o b = a
<1>1. /\ a \o b \in Seq(S) /\ Len(a \o b) = Len(a) + Len(b)
      /\ \A n \in 1..(Len(a) + Len(b)) :
           (a \o b)[n] = IF n <= Len(a) THEN a[n] ELSE b[n - Len(a)]
  BY ConcatProperties
<1>2. Len(a) \in Nat /\ Len(b) \in Nat
  OBVIOUS
<1>3. ElementsOf(a \o b) \subseteq ElementsOf(a) \cup ElementsOf(b)
  <2> SUFFICES ASSUME NEW x \in ElementsOf(a \o b)
               PROVE  x \in ElementsOf(a) \cup ElementsOf(b)
    OBVIOUS
  <2>1. PICK n \in 1..(Len(a) + Len(b)) : x = (a \o b)[n]
    BY <1>1 DEF ElementsOf
  <2>2. n <= Len(a) => n \in 1..Len(a)
    BY <1>2
  <2>3. ~ (n <= Len(a)) => n - Len(a) \in 1..Len(b)
    BY <1>2
  <2> QED
    BY <1>1, <2>1, <2>2, <2>3 DEF ElementsOf
<1>4. ElementsOf(a) \subseteq ElementsOf(a \o b)
  BY <1>1, <1>2 DEF ElementsOf
<1>5. ElementsOf(b) \subseteq ElementsOf(a \o b)
  <2> SUFFICES ASSUME NEW x \in ElementsOf(b) PROVE x \in ElementsOf(a \o b)
    OBVIOUS
  <2>1. PICK n \in 1..Len(b) : x = b[n]
    BY DEF ElementsOf
  <2>2. n + Len(a) \in 1..(Len(a) + Len(b)) /\ ~ (n + Len(a) <= Len(a)) /\ n + Len(a) - Len(a) = n
    BY <1>2
  <2>3. (a \o b)[n + Len(a)] = b[n]
    BY <1>1, <2>2
  <2> QED
    BY <1>1, <2>1, <2>2, <2>3 DEF ElementsOf
<1>6. Len(b) > 0 => a \o b # <<>> /\ (a \o b)[Len(a \o b)] = b[Len(b)]
  <2> SUFFICES ASSUME Len(b) > 0 PROVE a \o b # <<>> /\ (a \o b)[Len(a \o b)] = b[Len(b)]
    OBVIOUS
  <2>1. Len(a) + Len(b) \in 1..(Len(a) + Len(b)) /\ ~ (Len(a) + Len(b) <= Len(a))
        /\ Len(a) + Len(b) - Len(a) = Len(b) /\ Len(a) + Len(b) > 0
    BY <1>2
  <2>2. (a \o b)[Len(a \o b)] = b[Len(b)]
    BY <1>1, <2>1
  <2>3. Len(a \o b) # 0
    BY <1>1, <1>2, <2>1
  <2> QED
    BY <2>2, <2>3
<1>7. Len(b) = 0 => a \o b = a
  OBVIOUS
<1> QED
  BY <1>1, <1>3, <1>4, <1>5, <1>6, <1>7

\* Reading a record, and making the image once all are read.
LEMMA ReadHexStep ==
  ASSUME TalkInv, FileInv, read_hex
  PROVE  FileInv'
<1>0. TypeOK /\ LinesInv /\ Reading /\ IsSequence(packets) /\ IsSequence(lines)
  BY DEF read_hex, FileInv, TalkInv
<1> DEFINE f == File
           k == Read
           r == Head(records)
<1>1. /\ pc = "read" /\ records # <<>> /\ records' = Tail(records)
      /\ \/ r.type = "bad" /\ pc' = "exited" /\ status' = "success"
         \/ r.type # "bad" /\ pc' = pc /\ status' = status
      /\ data' = IF r.type = "00" THEN data \o Located(r) ELSE data
      /\ hex_extended_address' = IF r.type = "04" THEN r.bytes[1] ELSE hex_extended_address
      /\ UNCHANGED <<library, lines, dataloc, last_index, seq, cmd, i, packets>>
  BY DEF read_hex, Return, ExitProgram
<1>2. LinesInv'
  BY <1>0, <1>1, LinesKept
<1>3. TypeOK'
  BY <1>0, <1>1 DEF TypeOK
<1>4. ASSUME pc' = "read" PROVE Reading'
  <2>1. /\ f \in Files /\ Len(f) \in Nat /\ records \in Seq(Record) /\ Len(records) <= Len(f)
        /\ \A m \in 1..Len(records) : records[m] = f[k + m]
        /\ k = Len(f) - Len(records)
    BY <1>0, FileType DEF Reading, Read
  <2>2. /\ f' = f /\ Len(records') = Len(records) - 1 /\ records' \in Seq(Record)
        /\ \A m \in 1..Len(records') : records'[m] = records[m + 1]
    BY <1>1, <2>1 DEF File
  <2>3. k' = k + 1 /\ k \in 0..(Len(f) - 1) /\ k + 1 \in 1..Len(f) /\ Len(records') <= Len(f)
        /\ Len(records) > 0
    <3>1. Len(records) \in Nat /\ Len(records) > 0
      BY <1>1, <2>1
    <3>2. k' = Len(f) - Len(records')
      BY <2>2 DEF Read
    <3> QED
      BY <2>1, <2>2, <3>1, <3>2
  <2>4. r = f[k + 1]
    BY <1>1, <2>1, <2>3
  <2>5. \A m \in 1..Len(records') : records'[m] = f'[k' + m]
    <3>1. \A m \in 1..Len(records') : m + 1 \in 1..Len(records) /\ k + (m + 1) = k + 1 + m
      BY <2>1, <2>2, <2>3
    <3> HIDE DEF f, k, r
    <3> QED
      BY <2>1, <2>2, <2>3, <3>1
  <2>6. /\ hex_extended_address \in Nat /\ hex_extended_address * PAGE = Base(f, k + 1)
        /\ data \in Seq(Byte) /\ ElementsOf(data) = ImageTo(f, k)
        /\ data # <<>> => IsLast(f, k, data[Len(data)].addr)
        /\ Pieces(Len(lines)) = {} /\ lines # <<>>
    BY <1>0 DEF Reading
  <2> HIDE DEF f, k, r
  <2>7. hex_extended_address' \in Nat /\ hex_extended_address' * PAGE = Base(f, k + 2)
    <3>1. Base(f, k + 2) = IF r.type = "04" THEN PAGE * r.bytes[1] ELSE Base(f, k + 1)
      BY <2>1, <2>3, <2>4, BaseStep
    <3>2. r.type = "04" => r.bytes[1] \in Nat
      BY <2>1, <2>3, <2>4, FileType
    <3>3. \A x \in Nat : x * PAGE = PAGE * x
      BY MaxqAssumption
    <3> QED
      BY <1>1, <2>6, <3>1, <3>2, <3>3
  <2>8. ImageTo(f, k + 1) = ImageTo(f, k) \cup (IF r.type = "00" THEN BytesOf(f, k + 1) ELSE {})
    BY <2>1, <2>3, <2>4, ImageParts
  <2>9. /\ data' \in Seq(Byte) /\ ElementsOf(data') = ImageTo(f, k + 1)
        /\ data' # <<>> => IsLast(f, k + 1, data'[Len(data')].addr)
    <3>1. CASE r.type # "00"
      <4>1. \A a : IsLast(f, k, a) => IsLast(f, k + 1, a)
        BY <2>1, <2>3, <2>4, <3>1, LastStep
      <4> QED
        BY <1>1, <2>6, <2>8, <3>1, <4>1
    <3>2. CASE r.type = "00"
      <4> DEFINE b == Located(r)
      <4>1. k + 1 \in DataRecords(f)
        BY <2>3, <2>4, <3>2 DEF DataRecords
      <4>2. /\ b \in Seq(Byte) /\ ElementsOf(b) = BytesOf(f, k + 1) /\ Len(b) = Len(r.bytes)
            /\ r.bytes # <<>> => /\ Len(r.bytes) > 0
                                 /\ b[Len(r.bytes)].addr
                                      = Base(f, k + 1) + f[k + 1].addr + Len(f[k + 1].bytes) - 1
        BY <2>1, <2>4, <2>6, <4>1, LocatedIsBytes
      <4>3. data' = data \o b
        BY <1>1, <3>2
      <4> HIDE DEF b
      <4>4. /\ data \o b \in Seq(Byte)
            /\ ElementsOf(data \o b) = ElementsOf(data) \cup ElementsOf(b)
            /\ Len(b) > 0 => data \o b # <<>> /\ (data \o b)[Len(data \o b)] = b[Len(b)]
            /\ Len(b) = 0 => data \o b = data
        BY <2>6, <4>2, ConcatElements, Zenon
      <4>5. ElementsOf(data') = ImageTo(f, k + 1)
        BY <2>6, <2>8, <3>2, <4>2, <4>3, <4>4
      <4>6. CASE r.bytes = <<>>
        <5>1. Len(b) = 0
          BY <4>2, <4>6
        <5>2. \A a : IsLast(f, k, a) => IsLast(f, k + 1, a)
          BY <2>1, <2>3, <2>4, <4>6, LastStep
        <5> QED
          BY <2>6, <4>3, <4>4, <4>5, <5>1, <5>2
      <4>7. CASE r.bytes # <<>>
        <5>1. IsLast(f, k + 1, Base(f, k + 1) + f[k + 1].addr + Len(f[k + 1].bytes) - 1)
          BY <2>1, <2>3, <2>4, <3>2, <4>7, LastStep
        <5>2. data'[Len(data')] = b[Len(r.bytes)]
          BY <4>2, <4>3, <4>4, <4>7
        <5> QED
          BY <4>2, <4>3, <4>4, <4>5, <4>7, <5>1, <5>2
      <4> QED
        BY <4>6, <4>7
    <3> QED
      BY <3>1, <3>2
  <2>10. Pieces(Len(lines))' = {}
    BY <1>1, <2>6 DEF Pieces, PacketsOf
  <2>11. /\ File' = f /\ Read' = k + 1 /\ k + 1 + 1 = k + 2
         /\ \A m \in 1..Len(records') : records'[m] = f[k + 1 + m]
    <3>1. File' = f
      BY <2>2 DEF f
    <3>2. Read' = k + 1
      BY <2>3 DEF k
    <3>3. k + 1 + 1 = k + 2
      BY <2>3
    <3>4. \A m \in 1..Len(records') : records'[m] = f[k + 1 + m]
      BY <2>2, <2>3, <2>5, Zenon
    <3> QED
      BY <3>1, <3>2, <3>3, <3>4, Zenon
  <2> QED
    BY <1>1, <2>1, <2>2, <2>3, <2>6, <2>7, <2>9, <2>10, <2>11 DEF Reading
<1> QED
  BY <1>1, <1>2, <1>3, <1>4 DEF FileInv

LEMMA FileReadStep ==
  ASSUME TalkInv, FileInv, file_read
  PROVE  FileInv'
<1>0. TypeOK /\ LinesInv /\ Reading /\ IsSequence(packets) /\ IsSequence(lines)
  BY DEF file_read, FileInv, TalkInv
<1> DEFINE f == File
<1>1. /\ pc = "read" /\ records = <<>> /\ dataloc' = Placed(cmd, data) /\ i' = 0 /\ pc' = "chunk"
      /\ data = <<>> => last_index' \in {-1, 0, LOC_SIZE}
      /\ data # <<>> => last_index' = data[Len(data)].addr
      /\ UNCHANGED <<library, lines, status, records, data, seq, cmd, packets>>
  BY DEF file_read, line_vars
<1>2. /\ f \in Files /\ Len(f) \in Nat /\ Read = Len(f) /\ data \in Seq(Byte)
      /\ ElementsOf(data) = Image(f)
      /\ data # <<>> => IsLast(f, Len(f), data[Len(data)].addr)
      /\ Pieces(Len(lines)) = {} /\ lines # <<>>
  <2>1. f \in Files /\ Len(f) \in Nat
    BY <1>0, FileType DEF Reading
  <2>2. Read = Len(f)
    BY <1>1, <2>1 DEF Read
  <2>3. Image(f) = ImageTo(f, Len(f))
    BY <2>1, ImageParts
  <2> QED
    BY <1>0, <2>1, <2>2, <2>3 DEF Reading
<1> HIDE DEF f
<1>3. data # <<>> <=> Image(f) # {}
  <2>1. data # <<>> => 1 \in 1..Len(data)
    BY <1>2
  <2>2. data = <<>> => Len(data) = 0
    OBVIOUS
  <2> QED
    <3>1. data # <<>> => data[1] \in ElementsOf(data)
      BY <2>1 DEF ElementsOf
    <3>2. data = <<>> => ElementsOf(data) = {}
      BY <2>2 DEF ElementsOf
    <3> QED
      BY <1>2, <3>1, <3>2
<1>4. data # <<>> => last_index' \in 0..(LOC_SIZE - 1)
  <2> SUFFICES ASSUME data # <<>> PROVE last_index' \in 0..(LOC_SIZE - 1)
    OBVIOUS
  <2>1. PICK b \in ImageTo(f, Len(f)) : b.addr = last_index'
    BY <1>1, <1>2, LastInImage
  <2>2. b \in Image(f)
    BY <1>2, <2>1, ImageParts
  <2> QED
    BY <1>2, <2>1, <2>2, ImageType
<1>5. LinesInv'
  BY <1>0, <1>1, LinesKept
<1>6. /\ \A a \in 0..(LOC_SIZE - 1) : dataloc'[a] \in 0..Blank
      /\ Disjoint(f) => dataloc' = MapOf(f)
  BY <1>1, <1>2, PlacedIsMap
<1>7. TypeOK'
  <2>1. last_index' \in -1..LOC_SIZE /\ i' \in 0..LOC_SIZE
    BY <1>1, <1>4, MaxqAssumption
  <2> QED
    BY <1>0, <1>1, <1>6, <2>1 DEF TypeOK
<1>8. Loading(i)'
  <2>1. 0 % chunk_size = 0
    BY MaxqAssumption
  <2>2. Pieces(Len(lines))' = {}
    BY <1>1, <1>2 DEF Pieces, PacketsOf
  <2>3. PiecesTo(dataloc', last_index', 0) = {}
    BY NoPieces
  <2>4. File' = f
    BY <1>1 DEF f, File
  <2>5. Image(f) # {} => IsLast(f, Len(f), last_index')
    BY <1>1, <1>2, <1>3
  <2> QED
    BY <1>1, <1>2, <1>6, <2>1, <2>2, <2>3, <2>4, <2>5 DEF Loading
<1> QED
  BY <1>1, <1>5, <1>7, <1>8 DEF FileInv

-----------------------------------------------------------------------------
\* Sending the pieces.

\* The loop is within the memory, and so is its next piece.
LEMMA NextPiece ==
  ASSUME TypeOK, InFile, i % chunk_size = 0
  PROVE  /\ i \in Nat /\ i + chunk_size \in 0..LOC_SIZE
         /\ (i + chunk_size) % chunk_size = 0
<1>1. /\ chunk_size \in Nat \ {0} /\ LOC_SIZE \in Nat /\ LOC_SIZE % chunk_size = 0
      /\ i \in 0..LOC_SIZE /\ last_index \in -1..LOC_SIZE
  BY MaxqAssumption DEF TypeOK
<1>2. i \in Int /\ LOC_SIZE \in Int /\ i < LOC_SIZE
  BY <1>1 DEF InFile
<1>3. i + chunk_size <= LOC_SIZE
  BY <1>1, <1>2, MultiplesApart, Zenon
<1>4. (i + chunk_size) % chunk_size = 0
  BY <1>1, <1>2, NextMultiple, Zenon
<1> QED
  BY <1>1, <1>3, <1>4

LEMMA SkipChunkStep ==
  ASSUME TalkInv, FileInv, skip_chunk
  PROVE  FileInv'
<1>0. TypeOK /\ LinesInv /\ Loading(i) /\ IsSequence(packets) /\ IsSequence(lines)
  BY DEF skip_chunk, FileInv, TalkInv
<1>1. /\ pc = "chunk" /\ InFile /\ allff /\ i' = i + chunk_size
      /\ UNCHANGED <<line_vars, file_vars, pc, seq, cmd, packets>>
  BY DEF skip_chunk
<1>2. i \in Nat /\ i % chunk_size = 0 /\ i' \in 0..LOC_SIZE /\ i' % chunk_size = 0
  BY <1>0, <1>1, NextPiece DEF Loading
<1>3. LinesInv'
  BY <1>0, <1>1, LinesKept DEF line_vars
<1>4. TypeOK'
  BY <1>0, <1>1, <1>2 DEF TypeOK, line_vars, file_vars
<1>5. ~IsWritten(dataloc, i)
  BY <1>1 DEF allff, Chunk, IsWritten
<1>6. PiecesTo(dataloc, last_index, i + chunk_size) = PiecesTo(dataloc, last_index, i)
  <2>1. last_index \in Int
    BY <1>0, MaxqAssumption DEF TypeOK
  <2> QED
    <3>1. PiecesTo(dataloc, last_index, i + chunk_size) =
             PiecesTo(dataloc, last_index, i) \cup
               (IF i < last_index /\ IsWritten(dataloc, i) THEN {PieceAt(dataloc, i)} ELSE {})
      BY <1>2, <2>1, PiecesMore
    <3> QED
      BY <1>5, <3>1
<1>7. Loading(i)'
  <2>1. Pieces(Len(lines))' = Pieces(Len(lines)) /\ File' = File
    BY <1>1 DEF Pieces, PacketsOf, File, line_vars
  <2>2. UNCHANGED <<lines, dataloc, last_index>>
    BY <1>1 DEF line_vars, file_vars
  <2>3. Pieces(Len(lines))' = PiecesTo(dataloc', last_index', i')
    BY <1>0, <1>1, <1>6, <2>1, <2>2 DEF Loading
  <2> QED
    BY <1>0, <1>2, <2>1, <2>2, <2>3 DEF Loading
<1> QED
  BY <1>1, <1>3, <1>4, <1>7 DEF FileInv

LEMMA LoadChunkStep ==
  ASSUME TalkInv, FileInv, load_chunk
  PROVE  FileInv'
<1>0. TypeOK /\ LinesInv /\ Loading(i) /\ IsSequence(packets) /\ IsSequence(lines)
  BY DEF load_chunk, FileInv, TalkInv
<1>1. /\ pc = "chunk" /\ InFile /\ ~allff
      /\ request(cmd, ADDRESS_LEN + chunk_size, i, Chunk)
      /\ UNCHANGED <<library, lines, file_vars, i>>
  BY DEF load_chunk
<1>2. seq \in Int
  BY <1>0, MaxqAssumption DEF TypeOK
<1>3. /\ seq' \in 0..(SEQ_MOD - 1) /\ cmd' = cmd
      /\ \/ /\ pc' = "response" /\ status' = status
            /\ \E e : /\ packets' = Append(packets, e)
                      /\ e.from = "host" /\ e.addr = i /\ e.code = Chunk
         \/ /\ pc' = "exited" /\ status' \in {"success", "failure"}
            /\ packets' = packets
  BY <1>1, <1>2, RequestShape
<1>4. LinesInv'
  BY <1>0, <1>1, <1>3, LinesKept
<1>5. TypeOK'
  BY <1>0, <1>1, <1>3 DEF TypeOK, file_vars
<1>6. ASSUME pc' = "response", FileOpen' PROVE InFile' /\ Loading(i + chunk_size)'
  <2>1. PICK e : /\ packets' = Append(packets, e)
                 /\ e.from = "host" /\ e.addr = i /\ e.code = Chunk
    BY <1>3, <1>6
  <2>2. Len(lines) \in Nat /\ lines # <<>>
    BY <1>0 DEF IsSequence, Loading
  <2>3. Pieces(Len(lines))' = Pieces(Len(lines)) \cup {[addr |-> i, code |-> Chunk]}
    <3>1. Len(lines) \in 1..Len(lines)
      BY <1>0, <2>2 DEF IsSequence
    <3>2. \A n \in 1..Len(lines) : lines[n].first \in 1..(Len(packets) + 1)
      BY <1>0 DEF LinesInv
    <3>3. Pieces(Len(lines))' = Pieces(Len(lines)) \cup {[addr |-> e.addr, code |-> e.code]}
      BY <1>0, <1>1, <2>1, <2>2, <3>1, <3>2, PiecesGrow
    <3> QED
      BY <2>1, <3>3
  <2>4. Chunk = [k \in 1..chunk_size |-> dataloc[i + k - 1]] /\ IsWritten(dataloc, i)
    BY <1>1 DEF allff, Chunk, IsWritten
  <2>5. i \in Nat /\ i % chunk_size = 0 /\ last_index \in Int /\ i < last_index
    BY <1>0, <1>1, NextPiece, MaxqAssumption DEF Loading, TypeOK, InFile
  <2>6. PiecesTo(dataloc, last_index, i + chunk_size)
          = PiecesTo(dataloc, last_index, i) \cup {PieceAt(dataloc, i)}
    BY <2>4, <2>5, PiecesMore, Zenon
  <2>7. PieceAt(dataloc, i) = [addr |-> i, code |-> Chunk]
    BY <2>4 DEF PieceAt
  <2>8. Pieces(Len(lines))' = PiecesTo(dataloc, last_index, i + chunk_size)
    BY <1>0, <2>3, <2>6, <2>7 DEF Loading
  <2>9. UNCHANGED <<dataloc, last_index, i, lines>> /\ File' = File
    BY <1>1 DEF file_vars, File
  <2> QED
    BY <1>0, <1>1, <2>8, <2>9 DEF Loading, InFile
<1> QED
  BY <1>3, <1>4, <1>5, <1>6 DEF FileInv

\* What a line of a file has sent when its loop is over.
LEMMA LoopEnds ==
  ASSUME TypeOK, Loading(i), ~InFile, Disjoint(File)
  PROVE  Pieces(Len(lines)) = SentOf(File)
<1> DEFINE f == File
<1>1. /\ f \in Files /\ dataloc = MapOf(f) /\ Len(f) \in Nat
      /\ Image(f) # {} => IsLast(f, Len(f), last_index)
      /\ Pieces(Len(lines)) = PiecesTo(dataloc, last_index, i)
  BY FileType DEF Loading
<1>2. last_index \in Int /\ i \in Nat /\ last_index <= i /\ i <= LOC_SIZE
  BY MaxqAssumption DEF TypeOK, InFile
<1> HIDE DEF f
<1>3. Pieces(Len(lines)) = PiecesTo(MapOf(f), last_index, LOC_SIZE)
  BY <1>1, <1>2, PiecesEnd, Zenon
<1>4. CASE Image(f) # {}
  <2>1. LastOf(f) = CHOOSE a \in 0..(LOC_SIZE - 1) : IsLast(f, Len(f), a)
    BY <1>4 DEF LastOf
  <2>2. last_index \in 0..(LOC_SIZE - 1)
    <3>1. PICK b \in ImageTo(f, Len(f)) : b.addr = last_index
      BY <1>1, <1>4, LastInImage
    <3>2. b \in Image(f)
      BY <1>1, <3>1, ImageParts
    <3> QED
      BY <1>1, <3>1, <3>2, ImageType
  <2>3. IsLast(f, Len(f), LastOf(f))
    BY <1>1, <1>4, <2>1, <2>2
  <2>4. LastOf(f) = last_index
    BY <1>1, <1>4, <2>3, LastIsOne
  <2> QED
    BY <1>3, <2>4 DEF SentOf, f
<1>5. CASE Image(f) = {}
  <2>1. \A a \in 0..(LOC_SIZE - 1) : MapOf(f)[a] = Blank
    BY <1>5 DEF MapOf
  <2>2. ASSUME NEW j \in 0..(LOC_SIZE - 1), j % chunk_size = 0
        PROVE  ~IsWritten(MapOf(f), j)
    <3>1. j + chunk_size <= LOC_SIZE
      <4>1. j \in Int /\ LOC_SIZE \in Int /\ j < LOC_SIZE /\ chunk_size \in Nat \ {0}
            /\ LOC_SIZE % chunk_size = 0
        BY MaxqAssumption
      <4> QED
        BY <2>2, <4>1, MultiplesApart, Zenon
    <3>2. \A k \in 1..chunk_size : j + k - 1 \in 0..(LOC_SIZE - 1)
      BY <3>1, MaxqAssumption
    <3> QED
      BY <2>1, <3>2 DEF IsWritten
  <2>3. \A last : PiecesTo(MapOf(f), last, LOC_SIZE) = {}
    BY <2>2 DEF PiecesTo
  <2> QED
    BY <1>3, <2>3 DEF SentOf, f
<1> QED
  BY <1>4, <1>5

LEMMA FileDoneStep ==
  ASSUME TalkInv, FileInv, file_done
  PROVE  FileInv'
<1>0. TypeOK /\ LinesInv /\ Loading(i) /\ IsSequence(packets) /\ IsSequence(lines)
  BY DEF file_done, FileInv, TalkInv
<1>1. /\ pc = "chunk" /\ ~InFile /\ pc' = "line"
      /\ UNCHANGED <<line_vars, file_vars, seq, cmd, i, packets>>
  BY DEF file_done
<1>2. Carried(Len(lines))'
  <2>1. Disjoint(File) => Pieces(Len(lines)) = SentOf(File)
    BY <1>0, <1>1, LoopEnds
  <2>2. Pieces(Len(lines))' = Pieces(Len(lines)) /\ lines' = lines
    BY <1>1 DEF Pieces, PacketsOf, line_vars
  <2> QED
    BY <2>1, <2>2 DEF Carried, File
<1>3. LinesInv'
  BY <1>0, <1>1, <1>2, LinesKept DEF line_vars
<1>4. TypeOK'
  BY <1>0, <1>1 DEF TypeOK, line_vars, file_vars
<1> QED
  BY <1>1, <1>3, <1>4 DEF FileInv

LEMMA FileResponseStep ==
  ASSUME TalkInv, FileInv, response
  PROVE  FileInv'
<1>0. TypeOK /\ LinesInv /\ IsSequence(packets) /\ IsSequence(lines)
  BY DEF FileInv, TalkInv
<1>1. /\ pc = "response"
      /\ IF FileOpen THEN pc' = "chunk" /\ i' = i + chunk_size ELSE pc' = "line" /\ i' = i
      /\ UNCHANGED <<line_vars, file_vars, seq, cmd>>
  BY DEF response, FileOpen
<1>2. PICK e : packets' = Append(packets, e) /\ e.from = "usip"
  BY DEF response
<1>3. CASE FileOpen
  <2>1. InFile /\ Loading(i + chunk_size) /\ pc' = "chunk" /\ i' = i + chunk_size
    BY <1>1, <1>3 DEF FileInv
  <2>2. i' \in 0..LOC_SIZE /\ i' % chunk_size = 0
    BY <1>0, <2>1, NextPiece DEF Loading
  <2>3. LinesInv'
    BY <1>0, <1>1, <1>2, <2>1, LinesKept DEF line_vars
  <2>4. TypeOK'
    BY <1>0, <1>1, <2>1, <2>2 DEF TypeOK, line_vars, file_vars
  <2>5. Pieces(Len(lines))' = Pieces(Len(lines))
    <3>1. Len(lines) \in Nat /\ Len(lines) \in 1..Len(lines)
      BY <1>0, <2>1 DEF IsSequence, Loading
    <3>2. \A n \in 1..Len(lines) : lines[n].first \in 1..(Len(packets) + 1)
      BY <1>0 DEF LinesInv
    <3>3. lines' = lines /\ e.from # "host"
      BY <1>1, <1>2 DEF line_vars
    <3>4. \A n \in 1..Len(lines) : Pieces(n)' = Pieces(n)
      BY <1>0, <1>2, <3>1, <3>2, <3>3, PiecesGrow
    <3> QED
      BY <3>1, <3>3, <3>4
  <2>6. Loading(i)'
    BY <1>1, <2>1, <2>2, <2>5 DEF Loading, line_vars, file_vars, File
  <2> QED
    BY <2>1, <2>3, <2>4, <2>6 DEF FileInv
<1>4. CASE ~FileOpen
  <2>1. pc' = "line" /\ i' = i /\ lines' = lines
    BY <1>1, <1>4 DEF line_vars
  <2>2. Carried(Len(lines))'
    BY <1>4, <2>1 DEF Carried, FileOpen
  <2>3. LinesInv'
    BY <1>0, <1>2, <2>1, <2>2, LinesKept
  <2>4. TypeOK'
    BY <1>0, <1>1, <2>1 DEF TypeOK, line_vars, file_vars
  <2> QED
    BY <2>1, <2>3, <2>4 DEF FileInv
<1> QED
  BY <1>3, <1>4

LEMMA FileInvAlways == Spec => [](TalkInv /\ FileInv)
<1>1. Init => TalkInv /\ FileInv
  <2> SUFFICES ASSUME Init PROVE TalkInv /\ FileInv
    OBVIOUS
  <2>1. TalkInv
    BY EmptySequence DEF Init, TalkInv, InLoop, Answered
  <2>2. LinesInv
    BY DEF Init, LinesInv, Finished
  <2>3. TypeOK
    <3>1. 1 \in 0..(SEQ_MOD - 1) /\ 0 \in -1..LOC_SIZE /\ 0 \in 0..LOC_SIZE
      BY MaxqAssumption
    <3>2. \A a \in 0..(LOC_SIZE - 1) : dataloc[a] \in 0..Blank
      BY DEF Init, Blank
    <3> QED
      BY <3>1, <3>2 DEF Init, TypeOK
  <2> QED
    BY <2>1, <2>2, <2>3 DEF Init, FileInv
<1>2. TalkInv /\ FileInv /\ [Next]_vars => TalkInv' /\ FileInv'
  <2> SUFFICES ASSUME TalkInv, FileInv, [Next]_vars PROVE TalkInv' /\ FileInv'
    OBVIOUS
  <2>1. TalkInv'
    BY ResponseStep, CommandStep, ReadingStep DEF Next
  <2>2. CASE Terminated \/ UNCHANGED vars
    <3>1. UNCHANGED vars
      BY <2>2 DEF Terminated
    <3>2. UNCHANGED <<Pieces(Len(lines)), File, Read, Finished, InFile, FileOpen>>
      BY <3>1 DEF vars, line_vars, file_vars, Pieces, PacketsOf, File, Read, Finished, InFile,
        FileOpen
    <3>3. TypeOK' /\ (Reading <=> Reading') /\ (Loading(i) <=> Loading(i)')
          /\ (Loading(i + chunk_size) <=> Loading(i + chunk_size)')
      BY <3>1, <3>2 DEF FileInv, TypeOK, Reading, Loading, vars, line_vars, file_vars
    <3>4. LinesInv'
      <4>1. \A n : Carried(n) <=> Carried(n)'
        BY <3>1 DEF vars, line_vars, Carried, Pieces, PacketsOf
      <4> QED
        BY <3>1, <3>2, <4>1 DEF FileInv, LinesInv, vars, line_vars
    <3> QED
      BY <2>1, <3>1, <3>2, <3>3, <3>4 DEF FileInv, vars
  <2>3. FileInv'
    BY <2>2, ScriptStep, ReadHexStep, FileReadStep, SkipChunkStep, LoadChunkStep, FileDoneStep,
      FileResponseStep DEF Next
  <2> QED
    BY <2>1, <2>3
<1> QED
  BY <1>1, <1>2, PTL DEF Spec

\* The sequence number, the index and the image stay in their ranges, and the loop over a
\* file never passes the end of the memory: TypeOK for every instance.
THEOREM TypeCorrect == Spec => []TypeOK
<1>1. TalkInv /\ FileInv => TypeOK
  BY DEF FileInv
<1> QED
  BY <1>1, FileInvAlways, PTL

\* verify-file compares what load-file wrote: VerifyFollowsLoad for every instance.
THEOREM VerifyMatchesLoad == Spec => []VerifyFollowsLoad
<1>1. TalkInv /\ FileInv => VerifyFollowsLoad
  BY DEF FileInv, LinesInv, Carried, VerifyFollowsLoad
<1> QED
  BY <1>1, FileInvAlways, PTL

-----------------------------------------------------------------------------
(* What the pieces of a file in order amount to.                           *)

\* In order, no two records give a value to one place, and the last byte is the highest.
LEMMA RegularFile ==
  ASSUME NEW f \in Files, Regular(f)
  PROVE  /\ Disjoint(f)
         /\ \A a : IsLast(f, Len(f), a) => \A b \in Image(f) : b.addr <= a
<1> DEFINE start(n) == Base(f, n) + f[n].addr
           size(n) == Len(f[n].bytes)
<1>1. \A n \in DataRecords(f) :
        /\ n \in Int /\ n <= Len(f)
        /\ start(n) \in Int /\ size(n) \in Nat
        /\ size(n) # 0 => f[n].bytes # <<>>
  <2> SUFFICES ASSUME NEW n \in DataRecords(f)
               PROVE  /\ n \in Int /\ n <= Len(f)
                      /\ start(n) \in Int /\ size(n) \in Nat
                      /\ size(n) # 0 => f[n].bytes # <<>>
    OBVIOUS
  <2>1. n \in Int /\ n <= Len(f) /\ Base(f, n) \in Nat /\ f[n].addr \in Nat
        /\ Len(f[n].bytes) \in Nat
    BY FileType, BytesType
  <2> QED
    BY <2>1
<1>2. \A n \in DataRecords(f) : \A b \in BytesOf(f, n) :
        \E k \in 1..size(n) : b = [addr |-> start(n) + k - 1, byte |-> f[n].bytes[k]]
  BY DEF BytesOf
<1>3. \A m, n \in DataRecords(f) : m < n => start(m) + size(m) <= start(n)
  BY DEF Regular
<1>4. \A a : IsLast(f, Len(f), a) =>
        \E n \in DataRecords(f) :
          /\ a = start(n) + size(n) - 1
          /\ \A m \in DataRecords(f) : n < m /\ m <= Len(f) => f[m].bytes = <<>>
  BY DEF IsLast
<1> HIDE DEF start, size
<1>5. ASSUME NEW n \in DataRecords(f), NEW b \in BytesOf(f, n)
      PROVE  /\ b.addr \in Int /\ f[n].bytes # <<>>
             /\ start(n) <= b.addr /\ b.addr <= start(n) + size(n) - 1
  <2>1. PICK k \in 1..size(n) : b = [addr |-> start(n) + k - 1, byte |-> f[n].bytes[k]]
    BY <1>2
  <2>2. start(n) \in Int /\ size(n) \in Int /\ (size(n) # 0 => f[n].bytes # <<>>)
    BY <1>1
  <2>3. b.addr = start(n) + k - 1
    BY <2>1
  <2> QED
    BY <2>2, <2>3
<1>6. ASSUME NEW m \in DataRecords(f), NEW n \in DataRecords(f), m < n,
             NEW b \in BytesOf(f, m), NEW c \in BytesOf(f, n)
      PROVE  b.addr < c.addr
  <2>1. start(m) + size(m) <= start(n) /\ start(m) \in Int /\ size(m) \in Int /\ start(n) \in Int
    BY <1>1, <1>3, <1>6
  <2>2. b.addr \in Int /\ b.addr <= start(m) + size(m) - 1 /\ c.addr \in Int /\ start(n) <= c.addr
    BY <1>5
  <2> QED
    BY <2>1, <2>2
<1>7. ASSUME NEW b \in Image(f), NEW c \in Image(f), b.addr = c.addr PROVE b = c
  <2>1. PICK m \in DataRecords(f) : b \in BytesOf(f, m)
    BY ImageParts, Zenon
  <2>2. PICK n \in DataRecords(f) : c \in BytesOf(f, n)
    BY ImageParts, Zenon
  <2>3. m \in Int /\ n \in Int /\ b.addr \in Int /\ c.addr \in Int
    BY <1>1, <1>5, <2>1, <2>2
  <2>4. ~ (m < n) /\ ~ (n < m)
    BY <1>6, <1>7, <2>1, <2>2, <2>3
  <2>5. m = n
    BY <2>3, <2>4
  <2>6. PICK k \in 1..size(n) : b = [addr |-> start(n) + k - 1, byte |-> f[n].bytes[k]]
    BY <1>2, <2>1, <2>5
  <2>7. PICK j \in 1..size(n) : c = [addr |-> start(n) + j - 1, byte |-> f[n].bytes[j]]
    BY <1>2, <2>2
  <2>8. k = j
    <3>1. start(n) + k - 1 = start(n) + j - 1
      BY <1>7, <2>6, <2>7
    <3>2. start(n) \in Int /\ k \in Int /\ j \in Int
      BY <1>1, <2>2, <2>6, <2>7
    <3> QED
      BY <3>1, <3>2
  <2> QED
    BY <2>6, <2>7, <2>8
<1>8. ASSUME NEW a, IsLast(f, Len(f), a), NEW b \in Image(f) PROVE b.addr <= a
  <2>1. PICK n \in DataRecords(f) :
          /\ a = start(n) + size(n) - 1
          /\ \A m \in DataRecords(f) : n < m /\ m <= Len(f) => f[m].bytes = <<>>
    BY <1>4, <1>8
  <2>2. PICK m \in DataRecords(f) : b \in BytesOf(f, m)
    BY ImageParts, Zenon
  <2>3. b.addr \in Int /\ f[m].bytes # <<>> /\ b.addr <= start(m) + size(m) - 1
    BY <1>5, <2>2
  <2>4. /\ m \in Int /\ m <= Len(f) /\ n \in Int
        /\ start(m) \in Int /\ size(m) \in Int /\ start(n) \in Int /\ size(n) \in Nat
    BY <1>1, <2>1, <2>2
  <2>5. ~ (n < m)
    BY <2>1, <2>2, <2>3, <2>4
  <2>6. CASE m = n
    BY <2>1, <2>3, <2>6
  <2>7. CASE m < n
    <3>1. start(m) + size(m) <= start(n)
      BY <1>3, <2>1, <2>2, <2>7
    <3>2. a = start(n) + size(n) - 1 /\ b.addr \in Int /\ b.addr <= start(m) + size(m) - 1
      BY <2>1, <2>3
    <3> QED
      BY <2>4, <3>1, <3>2
  <2> QED
    BY <2>4, <2>5, <2>6, <2>7
<1> QED
  BY <1>7, <1>8 DEF Disjoint

LEMMA LastExists ==
  ASSUME NEW f \in Files, Image(f) # {}
  PROVE  LastOf(f) \in 0..(LOC_SIZE - 1) /\ IsLast(f, Len(f), LastOf(f))
<1> DEFINE T == {n \in DataRecords(f) : f[n].bytes # <<>>}
<1>1. Len(f) \in Nat /\ T \subseteq 1..Len(f)
  BY FileType DEF DataRecords
<1>2. T # {}
  <2>1. PICK n \in DataRecords(f) : \E b : b \in BytesOf(f, n)
    BY ImageParts
  <2>2. PICK k : k \in 1..Len(f[n].bytes)
    BY <2>1 DEF BytesOf
  <2>3. f[n].bytes # <<>>
    <3>1. Len(f[n].bytes) # 0
      BY <2>2, BytesType
    <3> QED
      BY <3>1
  <2> QED
    BY <2>3
<1>3. Max(T) \in T /\ \A y \in T : Max(T) >= y
  BY <1>1, <1>2, Extremes, Zenon
<1> DEFINE n == Max(T)
           a == Base(f, n) + f[n].addr + Len(f[n].bytes) - 1
<1>4. \A m \in DataRecords(f) : n < m /\ m <= Len(f) => f[m].bytes = <<>>
  <2> TAKE m \in DataRecords(f)
  <2>1. m \in T => n >= m
    BY <1>3
  <2>2. n \in Int /\ m \in Int
    BY <1>1, <1>3 DEF DataRecords
  <2> HIDE DEF n
  <2>3. m \in T => ~ (n < m)
    BY <2>1, <2>2
  <2> QED
    BY <2>3
<1>5. IsLast(f, Len(f), a)
  <2>1. n \in DataRecords(f) /\ f[n].bytes # <<>> /\ n <= Len(f)
    BY <1>1, <1>3
  <2> HIDE DEF n
  <2> QED
    BY <1>4, <2>1 DEF IsLast
<1> HIDE DEF a
<1>6. a \in 0..(LOC_SIZE - 1)
  <2>1. PICK b \in ImageTo(f, Len(f)) : b.addr = a
    BY <1>1, <1>5, LastInImage
  <2>2. b \in Image(f)
    BY <2>1, ImageParts
  <2> QED
    BY <2>1, <2>2, ImageType
<1>7. LastOf(f) = CHOOSE x \in 0..(LOC_SIZE - 1) : IsLast(f, Len(f), x)
  BY DEF LastOf
<1> QED
  BY <1>5, <1>6, <1>7

\* The memory that a file describes holds the bytes of the file and is blank elsewhere.
LEMMA MapIsImage ==
  ASSUME NEW f \in Files, Disjoint(f)
  PROVE  /\ \A b \in Image(f) : MapOf(f)[b.addr] = b.byte
         /\ \A a \in 0..(LOC_SIZE - 1) :
              MapOf(f)[a] # Blank => [addr |-> a, byte |-> MapOf(f)[a]] \in Image(f)
<1> DEFINE at(a) == CHOOSE b \in Image(f) : b.addr = a
<1>1. \A a \in 0..(LOC_SIZE - 1) :
        MapOf(f)[a] = IF \E b \in Image(f) : b.addr = a THEN at(a).byte ELSE Blank
  BY DEF MapOf
<1>2. \A a : (\E b \in Image(f) : b.addr = a) => at(a) \in Image(f) /\ at(a).addr = a
  OBVIOUS
<1> HIDE DEF at
<1>3. ASSUME NEW b \in Image(f) PROVE MapOf(f)[b.addr] = b.byte
  <2>1. b.addr \in 0..(LOC_SIZE - 1)
    BY ImageType
  <2>2. at(b.addr) = b
    BY <1>2 DEF Disjoint
  <2> QED
    BY <1>1, <2>1, <2>2
<1>4. ASSUME NEW a \in 0..(LOC_SIZE - 1), MapOf(f)[a] # Blank
      PROVE  [addr |-> a, byte |-> MapOf(f)[a]] \in Image(f)
  <2>1. at(a) \in Image(f) /\ at(a).addr = a /\ MapOf(f)[a] = at(a).byte
    BY <1>1, <1>2, <1>4
  <2>2. at(a) \in Byte
    BY <2>1, ImageType
  <2>3. at(a) = [addr |-> a, byte |-> MapOf(f)[a]]
    BY <2>1, <2>2 DEF Byte
  <2> QED
    BY <2>1, <2>3
<1> QED
  BY <1>3, <1>4

\* The bytes other than Blank in a set of pieces.
BytesIn(pieces) ==
  {b \in UNION {{[addr |-> p.addr + k - 1, byte |-> p.code[k]] : k \in 1..chunk_size}
                  : p \in pieces} : b.byte # Blank}

LEMMA BytesSent ==
  ASSUME NEW f \in Files, NEW b
  PROVE  b \in BytesIn(SentOf(f)) <=>
           \E j \in 0..(LOC_SIZE - 1) :
             /\ j % chunk_size = 0 /\ j < LastOf(f) /\ IsWritten(MapOf(f), j)
             /\ \E k \in 1..chunk_size :
                  /\ b = [addr |-> j + k - 1, byte |-> MapOf(f)[j + k - 1]]
                  /\ MapOf(f)[j + k - 1] # Blank
<1> DEFINE M == MapOf(f)
           J == {j \in 0..(LOC_SIZE - 1) : j % chunk_size = 0 /\ j < LastOf(f) /\ IsWritten(M, j)}
           byte(p, k) == [addr |-> p.addr + k - 1, byte |-> p.code[k]]
<1>1. b \in BytesIn(SentOf(f)) <=>
        /\ \E p \in SentOf(f) : \E k \in 1..chunk_size : b = byte(p, k)
        /\ b.byte # Blank
  BY DEF BytesIn
<1>2. SentOf(f) = {PieceAt(M, j) : j \in J}
  BY DEF SentOf, PiecesTo
<1>3. \A j : \A k \in 1..chunk_size :
        byte(PieceAt(M, j), k) = [addr |-> j + k - 1, byte |-> M[j + k - 1]]
  BY DEF PieceAt
<1>4. b \in BytesIn(SentOf(f)) <=>
        \E j \in J : \E k \in 1..chunk_size :
          /\ b = [addr |-> j + k - 1, byte |-> M[j + k - 1]]
          /\ b.byte # Blank
  <2> HIDE DEF M, J, byte
  <2> QED
    BY <1>1, <1>2, <1>3
<1> QED
  BY <1>4

LEMMA SentIsImage ==
  ASSUME NEW f \in Files, Regular(f)
  PROVE  BytesIn(SentOf(f)) = {b \in Image(f) : b.byte # Blank} \ LastByteLost(f)
<1> DEFINE E == LastOf(f)
           M == MapOf(f)
<1>0. chunk_size \in Nat \ {0} /\ LOC_SIZE \in Nat
  BY MaxqAssumption
<1>1. /\ \A b \in Image(f) : M[b.addr] = b.byte
      /\ \A a \in 0..(LOC_SIZE - 1) : M[a] # Blank => [addr |-> a, byte |-> M[a]] \in Image(f)
  BY RegularFile, MapIsImage
<1>2. Image(f) # {} => /\ E \in 0..(LOC_SIZE - 1)
                       /\ \E b \in Image(f) : b.addr = E
                       /\ \A b \in Image(f) : b.addr <= E
  <2> SUFFICES ASSUME Image(f) # {}
               PROVE  /\ E \in 0..(LOC_SIZE - 1)
                      /\ \E b \in Image(f) : b.addr = E
                      /\ \A b \in Image(f) : b.addr <= E
    OBVIOUS
  <2>1. E \in 0..(LOC_SIZE - 1) /\ IsLast(f, Len(f), E)
    BY LastExists
  <2> HIDE DEF E
  <2>2. \A b \in Image(f) : b.addr <= E
    BY <2>1, RegularFile
  <2>3. \E b \in ImageTo(f, Len(f)) : b.addr = E
    BY <2>1, LastInImage, FileType
  <2>4. Image(f) = ImageTo(f, Len(f))
    BY ImageParts
  <2> QED
    BY <2>1, <2>2, <2>3, <2>4
<1>3. \A b : b \in LastByteLost(f) <=>
        /\ b \in Image(f) /\ b.addr % chunk_size = 0
        /\ \A other \in Image(f) : other.addr <= b.addr
  BY DEF LastByteLost
<1>4. ASSUME NEW b \in BytesIn(SentOf(f))
      PROVE  b \in Image(f) /\ b.byte # Blank /\ b \notin LastByteLost(f)
  <2>1. PICK j \in 0..(LOC_SIZE - 1) :
          /\ j % chunk_size = 0 /\ j < E
          /\ \E k \in 1..chunk_size : /\ b = [addr |-> j + k - 1, byte |-> M[j + k - 1]]
                                      /\ M[j + k - 1] # Blank
    BY BytesSent
  <2>2. PICK k \in 1..chunk_size : /\ b = [addr |-> j + k - 1, byte |-> M[j + k - 1]]
                                   /\ M[j + k - 1] # Blank
    BY <2>1
  <2> HIDE DEF E, M
  <2>3. j + k - 1 \in 0..(LOC_SIZE - 1)
    <3>1. j + chunk_size <= LOC_SIZE
      <4>1. j \in Int /\ LOC_SIZE \in Int /\ j < LOC_SIZE /\ LOC_SIZE % chunk_size = 0
        BY <1>0, MaxqAssumption
      <4> QED
        BY <1>0, <2>1, <4>1, MultiplesApart, Zenon
    <3> QED
      BY <1>0, <3>1
  <2>4. b \in Image(f) /\ b.byte # Blank /\ b.addr = j + k - 1
    BY <1>1, <2>2, <2>3
  <2>5. b \notin LastByteLost(f)
    <3> SUFFICES ASSUME b.addr % chunk_size = 0, \A other \in Image(f) : other.addr <= b.addr
                 PROVE  FALSE
      BY <1>3
    <3>1. b.addr = E
      <4>1. b.addr \in Int /\ E \in Int /\ E <= b.addr /\ b.addr <= E
        BY <1>2, <2>3, <2>4
      <4> QED
        BY <4>1
    <3>2. j \in Int /\ E \in Int /\ E % chunk_size = 0 /\ j < E
      BY <1>2, <2>1, <2>4, <3>1
    <3>3. j + chunk_size <= E
      BY <1>0, <2>1, <3>2, MultiplesApart, Zenon
    <3> QED
      BY <1>0, <2>4, <3>1, <3>3
  <2> QED
    BY <2>4, <2>5
<1>5. ASSUME NEW b \in Image(f), b.byte # Blank, b \notin LastByteLost(f)
      PROVE  b \in BytesIn(SentOf(f))
  <2> DEFINE r == b.addr % chunk_size
             j == b.addr - r
  <2>1. b \in Byte /\ b.addr \in 0..(LOC_SIZE - 1) /\ b.addr \in Int
    BY ImageType
  <2>2. r \in 0..(chunk_size - 1) /\ j % chunk_size = 0
    BY <1>0, <2>1, Remainder
  <2>3. /\ j \in Int /\ j <= b.addr /\ b.addr = j + (r + 1) - 1 /\ r + 1 \in 1..chunk_size
    BY <1>0, <2>1, <2>2
  <2>4. j >= 0
    <3> SUFFICES ASSUME j < 0 PROVE FALSE
      BY <2>3
    <3>1. 0 % chunk_size = 0
      BY <1>0
    <3>2. j + chunk_size <= 0
      <4> HIDE DEF j
      <4> QED
        BY <1>0, <2>2, <2>3, <3>1, MultiplesApart
    <3> QED
      BY <1>0, <2>1, <2>2, <3>2
  <2>5. M[b.addr] = b.byte /\ E \in Int /\ b.addr <= E
    BY <1>1, <1>2
  <2>6. j < E
    <3> SUFFICES ASSUME ~ (j < E) PROVE FALSE
      OBVIOUS
    <3>1. b.addr = E /\ j = b.addr
      <4> HIDE DEF j, E
      <4> QED
        BY <2>1, <2>3, <2>5
    <3>2. b.addr % chunk_size = 0
      BY <2>2, <3>1
    <3>3. \A other \in Image(f) : other.addr <= b.addr
      BY <1>2, <3>1
    <3> QED
      BY <1>3, <1>5, <3>2, <3>3
  <2> HIDE DEF r, j
  <2>7. IsWritten(M, j)
    <3>1. M[j + (r + 1) - 1] # Blank
      BY <1>5, <2>3, <2>5
    <3> QED
      BY <2>3, <3>1, Zenon DEF IsWritten
  <2>8. b = [addr |-> j + (r + 1) - 1, byte |-> M[j + (r + 1) - 1]]
    <3>1. b = [addr |-> b.addr, byte |-> b.byte]
      BY <2>1 DEF Byte
    <3> QED
      BY <2>3, <2>5, <3>1
  <2>9. j \in 0..(LOC_SIZE - 1)
    BY <1>0, <2>1, <2>3, <2>4
  <2>10. M[j + (r + 1) - 1] # Blank
    BY <1>5, <2>3, <2>5
  <2>11. /\ j % chunk_size = 0 /\ j < E /\ IsWritten(M, j)
         /\ \E k \in 1..chunk_size : /\ b = [addr |-> j + k - 1, byte |-> M[j + k - 1]]
                                     /\ M[j + k - 1] # Blank
    BY <2>2, <2>3, <2>6, <2>7, <2>8, <2>10, Zenon
  <2>12. \E x \in 0..(LOC_SIZE - 1) :
           /\ x % chunk_size = 0 /\ x < E /\ IsWritten(M, x)
           /\ \E k \in 1..chunk_size : /\ b = [addr |-> x + k - 1, byte |-> M[x + k - 1]]
                                       /\ M[x + k - 1] # Blank
    BY <2>9, <2>11, Zenon
  <2> QED
    BY <2>12, BytesSent
<1> QED
  BY <1>3, <1>4, <1>5

\* load-file writes every byte of a file in order at its address and none other, except for
\* a last byte that is alone in its piece: LoadFileIsImage for every instance.
THEOREM LoadedIsImage == Spec => []LoadFileIsImage
<1>1. TalkInv /\ FileInv => LoadFileIsImage
  <2> SUFFICES ASSUME TalkInv, FileInv, NEW n \in Finished,
                      lines[n].file # NoFile, Regular(lines[n].file)
               PROVE  Programmed(n) = {b \in Image(lines[n].file) : b.byte # Blank}
                                        \ LastByteLost(lines[n].file)
    BY DEF LoadFileIsImage
  <2>1. n \in 1..Len(lines)
    BY DEF Finished, TalkInv, IsSequence
  <2>2. lines[n].file \in Files
    BY <2>1 DEF FileInv, LinesInv
  <2>3. Pieces(n) = SentOf(lines[n].file)
    BY <2>2, RegularFile DEF FileInv, LinesInv, Carried
  <2>4. Programmed(n) = BytesIn(SentOf(lines[n].file))
    BY <2>3 DEF Programmed, BytesIn
  <2> QED
    BY <2>2, <2>4, SentIsImage
<1> QED
  BY <1>1, FileInvAlways, PTL
=============================================================================
