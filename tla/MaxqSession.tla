---------------------------- MODULE MaxqSession -----------------------------
(***************************************************************************)
(* The second protocol of session_build.c: in mode MSP_MAXQ1852_ECDSA      *)
(* process_script hands the script to process_script_maxq1852_ecdsa, which *)
(* writes one request and one answer per command of the MAXQ1852, and one  *)
(* pair per piece of an Intel HEX file for load-file and verify-file.      *)
(*                                                                         *)
(* A request is abstracted to its command, its sequence number, the address*)
(* and the bytes of the piece that it carries, and the bytes of its packet,*)
(* of which only the lengths and the sequence number have their values.  A *)
(* script is chosen line by line, a file from Files as the sequence of its *)
(* records.                                                                *)
(***************************************************************************)
EXTENDS Integers, Sequences, SequencesExt

CONSTANTS
  Libraries,   \* builds of the program: of "UCL", "MXIM_HSM" and "SAFENET_HSM"
  Simple,      \* bound: the commands of one request that a script may use
  Files,       \* the files that load-file and verify-file may be given
  DataLengths, \* lengths of a code or a datum that a script may give
  chunk_size,  \* bytes of a file in one request
  LOC_SIZE,    \* places of dataloc, 1 MiB in the code
  PAGE,        \* 65536: addresses that a record can express
  SEQ_MOD,     \* 65536
  MaxLines     \* bound: lines of the script

VARIABLES
  library,     \* what the program was built with
  pc,          \* what process_script_maxq1852_ecdsa does next
  seq,         \* the sequence number of the next request
  cmd,         \* the command under way
  lines,       \* the commands read so far, with the first packet of each
  records,     \* the records of the file that are still to be read
  hex_extended_address,
  data,        \* the bytes read, with their addresses
  dataloc,     \* the memory image made of them
  last_index,  \* the address of the last byte read
  i,           \* the address of the piece under way
  packets,     \* the packets emitted
  status       \* "running", or how the process exited

line_vars == <<library, lines, status>>
file_vars == <<records, hex_extended_address, data, dataloc, last_index>>
vars == <<line_vars, file_vars, pc, seq, cmd, i, packets>>

Blank == 255             \* the value of an erased byte
NoFile == <<>>
FileCmds == {"load_code", "verify_code"}
Cmds == Simple \cup FileCmds

ECDSA_MODULUS_LEN == 32
ECDSA_SIGNATURE_LEN == 64
ADDRESS_LEN == 4

\* What can be given by two digits a byte in less than 20000 characters.
MAX_BYTES == 9999

(* A record is its type, its address and its bytes.  The bytes of a record *)
(* of type "04" are one number, the high half of the addresses after it.   *)
(* "bad" stands for a line with a wrong character or a wrong length.       *)
RecordTypes == {"00", "01", "02", "04", "bad"}

\* A record of type "04" of another length than two bytes is an error, "bad".
IsHexFile(f) ==
  /\ f \in Seq([type : RecordTypes, addr : 0..(PAGE - 1), bytes : Seq(Nat)])
  /\ \A n \in 1..Len(f) :
       /\ f[n].type = "00" => f[n].bytes \in Seq(0..Blank)
       /\ f[n].type = "04" => f[n].bytes # <<>>

-----------------------------------------------------------------------------
(* The bytes that the parameters of a command put in its packet.  A wrong  *)
(* hexadecimal digit stops the copy of a parameter.  The *_payload function*)
(* says so and its caller does not listen: the request is made of the bytes*)
(* copied so far.  Only the two keys are copied at once, when they are     *)
(* right.  A code or a datum is as long as the script makes it.            *)
AddressAndData == (0..ADDRESS_LEN) \cup {ADDRESS_LEN + n : n \in DataLengths}

engage_pllo == {4}
load_customer_key == {0, ECDSA_SIGNATURE_LEN}
verify_customer_key == {0, ECDSA_SIGNATURE_LEN}
activate_customer_key == {0}
generate_application_startup_signature == {0}
verify_application_startup_signature == {0}
write_register == 0..(ADDRESS_LEN + 4)
read_register == 0..ADDRESS_LEN
load_code == AddressAndData
verify_code == AddressAndData
load_data == AddressAndData
verify_maxq1852_data == AddressAndData
erase_code_flash_area == {0}
erase_all_flash_areas == {0}

SimpleCmds == [
  engage_pllo |-> engage_pllo,
  load_customer_key |-> load_customer_key,
  verify_customer_key |-> verify_customer_key,
  activate_customer_key |-> activate_customer_key,
  generate_application_startup_signature |-> generate_application_startup_signature,
  verify_application_startup_signature |-> verify_application_startup_signature,
  write_register |-> write_register,
  read_register |-> read_register,
  load_code |-> load_code,
  verify_code |-> verify_code,
  load_data |-> load_data,
  verify_maxq1852_data |-> verify_maxq1852_data,
  erase_code_flash_area |-> erase_code_flash_area,
  erase_all_flash_areas |-> erase_all_flash_areas]

ASSUME MaxqAssumption ==
  /\ Libraries \subseteq {"UCL", "MXIM_HSM", "SAFENET_HSM"}
  /\ DataLengths \subseteq 0..MAX_BYTES
  /\ chunk_size \in 1..MAX_BYTES
  /\ LOC_SIZE \in Nat \ {0} /\ LOC_SIZE % chunk_size = 0
  /\ PAGE \in Nat \ {0}
  /\ SEQ_MOD \in Nat \ {0, 1}
  /\ MaxLines \in Nat
  /\ Simple \subseteq DOMAIN SimpleCmds
  /\ NoFile \notin Files /\ \A f \in Files : IsHexFile(f)

ExitProgram(s) == pc' = "exited" /\ status' = s

\* n bytes of which only the number counts.
Bytes(n) == [k \in 1..n |-> 0]

\* The designator, and two bytes "for length, computed later".
SYNCHRO_LEN == 3
maxq1852_synchro == Bytes(SYNCHRO_LEN)
maxq1852_add_trid(payload) == payload \o Bytes(4)
SeqAdded(payload) == payload \o <<seq % 256, seq \div 256>>

\* "now, we can update the 2 length bytes", of one byte each, low byte first: from
\* the bytes made so far and those that the signature will add, without the header.
length(ipayload) == ipayload + ECDSA_SIGNATURE_LEN - 3
LengthSet(payload) ==
  [payload EXCEPT ![2] = length(Len(payload)) % 256,
                  ![3] = (length(Len(payload)) \div 256) % 256]

\* The code of a command and its parameters, in the frame that every command builds.
Opened(n) == maxq1852_add_trid((maxq1852_synchro \o Bytes(1)) \o Bytes(n))

MutLengthTooEarly(n) == SeqAdded(LengthSet(Opened(n)))

Built(n) == LengthSet(SeqAdded(Opened(n)))

\* r, then s.
ecdsa_sign_payload(payload) ==
  (payload \o Bytes(ECDSA_MODULUS_LEN)) \o Bytes(ECDSA_MODULUS_LEN)

MutSeqKept == seq
MutSeqUnbounded == seq + 1

maxq1852_add_seq == (seq + 1) % SEQ_MOD

\* The packet of n parameter bytes, with or without its signature.
Emit(c, n, address, code, signed) ==
  packets' = Append(packets,
    [from |-> "host", cmd |-> c, seq |-> seq, addr |-> address, code |-> code,
     signed |-> signed,
     bytes |-> IF signed THEN ecdsa_sign_payload(Built(n)) ELSE Built(n)])

(* The request is numbered, signed and sent.  Nobody looks at what         *)
(* ecdsa_sign_payload returns: with Maxim's HSM a signature that fails     *)
(* leaves a request without signature; with the UCL library it ends the    *)
(* program by exit(0), with SafeNet's by exit(EXIT_FAILURE), or by exit(0) *)
(* when the signature made cannot be verified.                             *)
request(c, n, address, code) ==
  /\ seq' = maxq1852_add_seq
  /\ cmd' = c
  /\ \/ Emit(c, n, address, code, TRUE) /\ pc' = "response" /\ UNCHANGED status
     \/ /\ library = "MXIM_HSM"
        /\ Emit(c, n, address, code, FALSE)
        /\ pc' = "response"
        /\ UNCHANGED status
     \/ library = "UCL" /\ ExitProgram("success") /\ UNCHANGED packets
     \/ /\ library = "SAFENET_HSM"
        /\ \E s \in {"success", "failure"} : ExitProgram(s)
        /\ UNCHANGED packets

\* usip(), the answer "AGP" of eight bytes, host(); the loop over a file goes on.
response ==
  /\ pc = "response"
  /\ packets' = Append(packets, [from |-> "usip", cmd |-> cmd])
  /\ IF lines[Len(lines)].file = NoFile
       THEN pc' = "line" /\ i' = i
       ELSE pc' = "chunk" /\ i' = i + chunk_size
  /\ UNCHANGED <<line_vars, file_vars, seq, cmd>>

-----------------------------------------------------------------------------
\* The flash size is checked and the buffers are allocated.
process_script ==
  /\ pc = "start"
  /\ \/ pc' = "open" /\ UNCHANGED status
     \/ ExitProgram("failure")
  /\ UNCHANGED <<library, lines, file_vars, seq, cmd, i, packets>>

(* process_script calls process_script_maxq1852_ecdsa and does not look at *)
(* what it returns: the process exits with EXIT_SUCCESS either way.        *)
Return == ExitProgram("success")

open_script ==
  /\ pc = "open"
  /\ \/ pc' = "line" /\ UNCHANGED status
     \/ Return
  /\ UNCHANGED <<library, lines, file_vars, seq, cmd, i, packets>>

ReadLine == pc = "line" /\ Len(lines) < MaxLines

Line(c, f) == lines' = Append(lines, [cmd |-> c, file |-> f, first |-> Len(packets) + 1])

\* A comment, or "help".
skip_line ==
  /\ ReadLine
  /\ Line("none", NoFile)
  /\ UNCHANGED <<library, status, file_vars, pc, seq, cmd, i, packets>>

\* An unknown command, one of the other protocol, or a wrong number of parameters.
bad_line ==
  /\ ReadLine
  /\ Return
  /\ UNCHANGED <<library, lines, file_vars, seq, cmd, i, packets>>

simple_line ==
  /\ ReadLine
  /\ \E c \in Simple : \E n \in SimpleCmds[c] :
       /\ Line(c, NoFile)
       /\ request(c, n, 0, <<>>)
  /\ UNCHANGED <<library, file_vars, i>>

\* load-file and verify-file: the name must hold ".hex", and the file must open.
file_line ==
  /\ ReadLine
  /\ \E c \in FileCmds :
       /\ cmd' = c
       /\ \/ /\ Return
             /\ UNCHANGED <<lines, file_vars>>
          \/ \E f \in Files :
               /\ Line(c, f)
               /\ pc' = "read"
               /\ records' = f
               /\ hex_extended_address' = 0
               /\ data' = <<>>
               /\ UNCHANGED <<status, dataloc, last_index>>
  /\ UNCHANGED <<library, seq, i, packets>>

end_of_script ==
  /\ pc = "line"
  /\ Return
  /\ UNCHANGED <<library, lines, file_vars, seq, cmd, i, packets>>

-----------------------------------------------------------------------------
(* The bytes of a data record follow one another from its address, which   *)
(* is combined with the extended address.                                  *)
MutAddressForgotten(r) == [n \in 1..Len(r.bytes) |->
  [addr |-> r.addr + n - 1, byte |-> r.bytes[n]]]

Located(r) == [n \in 1..Len(r.bytes) |->
  [addr |-> hex_extended_address * PAGE + r.addr + n - 1, byte |-> r.bytes[n]]]

\* Only the types "00" and "04" are looked at.
read_hex ==
  /\ pc = "read"
  /\ records # <<>>
  /\ LET r == Head(records)
     IN  /\ IF r.type = "bad" THEN Return ELSE UNCHANGED <<pc, status>>
         /\ data' = IF r.type = "00" THEN data \o Located(r) ELSE data
         /\ hex_extended_address' = IF r.type = "04" THEN r.bytes[1]
                                    ELSE hex_extended_address
  /\ records' = Tail(records)
  /\ UNCHANGED <<library, lines, dataloc, last_index, seq, cmd, i, packets>>

\* The bytes of the buffer that belong at address a, in the order of the file.
At(bytes, a) == {n \in 1..Len(bytes) : bytes[n].addr = a}

\* load-file announces an error and keeps the first of two values of a place ...
KeepFirst(bytes, a) ==
  LET written == {n \in At(bytes, a) : bytes[n].byte # Blank}
  IN  IF written = {} THEN Blank ELSE bytes[Min(written)].byte

\* ... and verify-file keeps the last.
KeepLast(bytes, a) ==
  IF At(bytes, a) = {} THEN Blank ELSE bytes[Max(At(bytes, a))].byte

Placed(c, bytes) ==
  [a \in 0..(LOC_SIZE - 1) |-> IF c = "load_code" THEN KeepFirst(bytes, a)
                                                  ELSE KeepLast(bytes, a)]

\* With no byte at all, last_index is read one place before the buffer.
file_read ==
  /\ pc = "read"
  /\ records = <<>>
  /\ dataloc' = Placed(cmd, data)
  /\ last_index' \in IF data = <<>> THEN {-1, 0, LOC_SIZE} ELSE {data[Len(data)].addr}
  /\ i' = 0
  /\ pc' = "chunk"
  /\ UNCHANGED <<line_vars, records, hex_extended_address, data, seq, cmd, packets>>

Chunk == [k \in 1..chunk_size |-> dataloc[i + k - 1]]

MutOnlyLoadSkips == cmd = "load_code" /\ \A k \in 1..chunk_size : Chunk[k] = Blank

allff == \A k \in 1..chunk_size : Chunk[k] = Blank

InFile == i < last_index

skip_chunk ==
  /\ pc = "chunk"
  /\ InFile
  /\ allff
  /\ i' = i + chunk_size
  /\ UNCHANGED <<line_vars, file_vars, pc, seq, cmd, packets>>

load_chunk ==
  /\ pc = "chunk"
  /\ InFile
  /\ ~allff
  /\ request(cmd, ADDRESS_LEN + chunk_size, i, Chunk)
  /\ UNCHANGED <<library, lines, file_vars, i>>

file_done ==
  /\ pc = "chunk"
  /\ ~InFile
  /\ pc' = "line"
  /\ UNCHANGED <<line_vars, file_vars, seq, cmd, i, packets>>

Terminated == pc = "exited" /\ UNCHANGED vars

Init ==
  /\ library \in Libraries
  /\ pc = "start"
  /\ seq = 1
  /\ cmd = "none"
  /\ lines = <<>>
  /\ records = <<>>
  /\ hex_extended_address = 0
  /\ data = <<>>
  /\ dataloc = [a \in 0..(LOC_SIZE - 1) |-> Blank]
  /\ last_index = 0
  /\ i = 0
  /\ packets = <<>>
  /\ status = "running"

Next ==
  \/ process_script \/ open_script
  \/ skip_line \/ bad_line \/ simple_line \/ file_line \/ end_of_script
  \/ read_hex \/ file_read \/ skip_chunk \/ load_chunk \/ file_done
  \/ response \/ Terminated

Spec == Init /\ [][Next]_vars

-----------------------------------------------------------------------------
(* Properties.                                                             *)

TypeOK ==
  /\ library \in Libraries
  /\ pc \in {"start", "open", "line", "read", "chunk", "response", "exited"}
  /\ seq \in 0..(SEQ_MOD - 1)
  /\ cmd \in Cmds \cup {"none"}
  /\ last_index \in -1..LOC_SIZE
  /\ i \in 0..LOC_SIZE
  /\ \A a \in 0..(LOC_SIZE - 1) : dataloc[a] \in 0..Blank
  /\ status \in {"running", "success", "failure"}

(* Whatever the script, and whatever fails, the packets are a conversation *)
(* of the protocol: an answer to each request, and requests numbered one   *)
(* after the other, those of the pieces of a file among those of commands. *)
Said == [n \in 1..Len(packets) |->
  [from |-> packets[n].from, cmd |-> packets[n].cmd,
   seq |-> IF packets[n].from = "host" THEN packets[n].seq ELSE 0]]

Conv == INSTANCE MaxqConversation WITH log <- Said

IsMaxqConversation == Conv!Spec

(* The two length bytes of a signed request, filled in while the request is*)
(* being built and cut to a byte each, give the number of the bytes that in*)
(* the end follow its header: those added before, those that the signature *)
(* adds later, and parameters that a wrong digit has cut short.            *)
AnnouncedIsSent ==
  \A n \in 1..Len(packets) :
    packets[n].from = "host" /\ packets[n].signed =>
      packets[n].bytes[2] + 256 * packets[n].bytes[3]
        = Len(packets[n].bytes) - SYNCHRO_LEN

-----------------------------------------------------------------------------
\* The lines of the script that have been carried out to their end.
Finished == IF pc = "line" THEN 1..Len(lines) ELSE 1..(Len(lines) - 1)

PacketsOf(n) ==
  lines[n].first .. (IF n < Len(lines) THEN lines[n + 1].first - 1 ELSE Len(packets))

\* The pieces of a file that line n sends.
Pieces(n) == {[addr |-> packets[k].addr, code |-> packets[k].code] :
                k \in {k \in PacketsOf(n) : packets[k].from = "host"}}

Programmed(n) ==
  {b \in UNION {{[addr |-> p.addr + k - 1, byte |-> p.code[k]] : k \in 1..chunk_size}
                  : p \in Pieces(n)} : b.byte # Blank}

\* What a file holds by the definition of the format: the base of a data record is
\* given by the extended address record that precedes it most closely.
Base(f, n) ==
  LET bases == {m \in 1..(n - 1) : f[m].type = "04"}
  IN  IF bases = {} THEN 0
      ELSE PAGE * f[CHOOSE m \in bases : \A other \in bases : other <= m].bytes[1]

DataRecords(f) == {n \in 1..Len(f) : f[n].type = "00"}

Image(f) == UNION {{[addr |-> Base(f, n) + f[n].addr + k - 1, byte |-> f[n].bytes[k]]
                      : k \in 1..Len(f[n].bytes)} : n \in DataRecords(f)}

\* dataloc has room for every byte: the code does not compare an address with its size.
ASSUME FilesFit == \A f \in Files : \A b \in Image(f) : b.addr < LOC_SIZE

\* One record after the other in memory, and no segment address, which is not read.
Regular(f) ==
  /\ \A n \in 1..Len(f) : f[n].type # "02"
  /\ \A m, n \in DataRecords(f) :
       m < n => Base(f, m) + f[m].addr + Len(f[m].bytes) <= Base(f, n) + f[n].addr

\* The loop stops before last_index: a last byte that begins a piece is not sent.
LastByteLost(f) ==
  {b \in Image(f) : b.addr % chunk_size = 0 /\ \A other \in Image(f) : other.addr <= b.addr}

(* For a file in order, load-file writes every byte at its address and none*)
(* other, across blanks, records and extended addresses, except for a last *)
(* byte that is alone in its piece.                                        *)
LoadFileIsImage ==
  \A n \in Finished :
    lines[n].cmd = "load_code" /\ lines[n].file # NoFile /\ Regular(lines[n].file) =>
      Programmed(n) = {b \in Image(lines[n].file) : b.byte # Blank}
                        \ LastByteLost(lines[n].file)

(* verify-file of a file compares exactly the pieces that load-file of the *)
(* same file wrote, whichever line comes first, although two functions make*)
(* the pieces; unless two records give a value to the same place.          *)
Disjoint(f) == \A b, other \in Image(f) : b.addr = other.addr => b = other

VerifyFollowsLoad ==
  \A m, n \in Finished :
    /\ lines[m].cmd = "load_code" /\ lines[m].file # NoFile
    /\ lines[n].cmd = "verify_code" /\ lines[n].file = lines[m].file
    /\ Disjoint(lines[m].file)
    => Pieces(n) = Pieces(m)
=============================================================================
