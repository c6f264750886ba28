---------------------------- MODULE ScpWriteFile ----------------------------
(***************************************************************************)
(* The script lines of session_build.c that erase, write and compare       *)
(* memory: write-file, write-only, verify-file and erase-data.             *)
(*                                                                         *)
(* For write-file the area to erase is computed in a first reading of the  *)
(* S-record file (get_start_addr_and_length_s19 or _s20).  The bytes and   *)
(* their addresses are loaded by another reading (read_s19 or read_s20) and*)
(* the loaded bytes are cut into chunks of consecutive addresses, one      *)
(* write-data (or compare-data) packet each.                               *)
(*                                                                         *)
(* start_addr, end_addr, addr and data_len are global variables of the     *)
(* program: they keep, from one line of the script to the next, what the   *)
(* last one left in them.                                                  *)
(*                                                                         *)
(* A byte of data is identified with its place in the file.  A line is     *)
(* [cmd, found, recs]: the command, whether its file can be opened, and    *)
(* the S3 records [at, len] of the file.  erase-data has no file: its two  *)
(* parameters stand as the only record.                                    *)
(***************************************************************************)
EXTENDS Naturals, Integers, Sequences

CONSTANTS
  Scripts,        \* the scripts considered: sequences of lines
  Format,         \* "s19", or "s20" whose records have a two-byte length
  session_mode,
  chunk_size,     \* length that a whole write-data packet should not exceed
  max_data_size,  \* bytes that the data and addr arrays can hold
  WORD,           \* addresses are sent modulo WORD (2^32 on the wire)
  Relocate(_)     \* an address of the file, exclusive-or address_offset

VARIABLES
  pc,          \* "next", "scan", "erase", "open", "load", "chunk", "collect", "failed"
  lines,       \* the lines of the script still to be processed
  line,        \* the line being processed
  l,           \* the next record to read
  start_addr,  \* first address found by the first reading, -1 if none
  end_addr,    \* end address found by the first reading
  addr,        \* the address of every byte loaded; Len(addr) is data_len
  i,           \* the next byte to put in a chunk (1 for the code's 0)
  chunk,       \* the chunk being collected: [at, from, len]
  erased,      \* the erasure last sent: [at, len]
  writes       \* the packets of data of this line: [at, from, len]

vars == <<pc, lines, line, l, start_addr, end_addr, addr, i, chunk, erased, writes>>

HEADER_LEN    == 8
CRC_LEN       == 4
COMMAND_LEN   == 4
SIGNATURE_LEN == 256     \* RSA
ADDRESS_LEN   == 4
S_CRC_LEN     == 1

ASSUME WriteFileAssumption ==
  /\ Format \in {"s19", "s20"}
  /\ chunk_size \in Int
  /\ max_data_size \in Nat
  /\ WORD \in Nat \ {0}

-----------------------------------------------------------------------------
(* The arithmetic of the two readings.                                     *)

\* The length field of a record with n bytes of data.
Count(n) == n + ADDRESS_LEN + S_CRC_LEN

\* What get_start_addr_and_length takes for that length: the two hexadecimal
\* digits at columns 2 and 3, all of it in an s19 file, its high byte in an s20.
ScannedCount(n) == IF Format = "s19" THEN Count(n) ELSE Count(n) \div 256

EndOfRecord(rec) == Relocate(rec.at + ScannedCount(rec.len) - 1)

\* Division of C, which truncates towards zero.
DivBy16(n) == IF n >= 0 THEN n \div 16 ELSE -((-n) \div 16)

\* "need to be multiple of 16": the length sent in the erasure.
MutRoundDown(n) == DivBy16(n) * 16
EraseRange(n) == IF n = 0 THEN 0 ELSE (DivBy16(n) + 1) * 16

\* The addresses of the bytes of a record, once loaded.
BytesOf(rec) == [k \in 1..rec.len |-> Relocate(rec.at) + k - 1]

\* Only FLORA's signature is taken into account.
MutNoSignature == chunk_size - HEADER_LEN - CRC_LEN - COMMAND_LEN - 10
new_chunk_size ==
  chunk_size - HEADER_LEN - CRC_LEN - COMMAND_LEN - 10
    - (IF session_mode = "SCP_FLORA_RSA" THEN SIGNATURE_LEN ELSE 0)

\* The bytes that protect a payload: an RSA or ECDSA signature, or a CMAC.
ProtectionLen ==
  CASE session_mode \in {"SCP_RSA", "SCP_FLORA_RSA"} -> SIGNATURE_LEN
    [] session_mode = "SCP_ANGELA_ECDSA"             -> 64
    [] OTHER                                         -> 16

\* The whole write-data packet of n bytes of data.
PacketLen(n) == HEADER_LEN + COMMAND_LEN + 10 + n + ProtectionLen + CRC_LEN

-----------------------------------------------------------------------------
Goto(from, to) == pc = from /\ pc' = to

MutNoReset ==
  /\ line'.cmd = "write-file"
  /\ pc' = IF line'.found THEN "scan" ELSE "erase"
  /\ UNCHANGED <<start_addr, end_addr>>

\* write_file: the first reading sets start_addr to -1 when it opens the file; a
\* file that is not found leaves start_addr and end_addr as they were, and del_mem
\* does not look at what the first reading returns.
write_file ==
  /\ line'.cmd = "write-file"
  /\ IF line'.found
       THEN pc' = "scan" /\ start_addr' = -1
       ELSE pc' = "erase" /\ UNCHANGED start_addr
  /\ UNCHANGED end_addr

write_only_or_verify ==
  /\ line'.cmd \in {"write-only", "verify-file"}
  /\ pc' = "open"
  /\ UNCHANGED <<start_addr, end_addr>>

del_data ==
  /\ line'.cmd = "erase-data"
  /\ pc' = "erase"
  /\ start_addr' = line'.recs[1].at
  /\ end_addr' = start_addr' + line'.recs[1].len

process_line ==
  /\ pc = "next"
  /\ lines # <<>>
  /\ line' = Head(lines)
  /\ lines' = Tail(lines)
  /\ l' = 1
  /\ writes' = <<>>
  /\ write_file \/ write_only_or_verify \/ del_data
  /\ UNCHANGED <<addr, i, chunk, erased>>

get_start_addr_and_length ==
  /\ IF l > Len(line.recs)
       THEN /\ Goto("scan", "erase")
            /\ UNCHANGED <<l, start_addr, end_addr>>
       ELSE /\ Goto("scan", "scan")
            /\ l' = l + 1
            /\ start_addr' = IF start_addr = -1 THEN Relocate(line.recs[l].at)
                                                ELSE start_addr
            /\ end_addr' = EndOfRecord(line.recs[l])
  /\ UNCHANGED <<lines, line, addr, i, chunk, erased, writes>>

del_mem ==
  /\ Goto("erase", IF line.cmd = "erase-data" THEN "next" ELSE "open")
  /\ erased' = [at  |-> start_addr % WORD,
                len |-> EraseRange(end_addr - start_addr) % WORD]
  /\ UNCHANGED <<lines, line, l, start_addr, end_addr, addr, i, chunk, writes>>

\* read_s19 and read_s20 forget what was loaded before only once the file is open.
open_file ==
  /\ Goto("open", IF line.found THEN "load" ELSE "failed")
  /\ l' = 1
  /\ addr' = IF line.found THEN <<>> ELSE addr
  /\ UNCHANGED <<lines, line, start_addr, end_addr, i, chunk, erased, writes>>

\* Loads one record.  The bound on the number of bytes is tested for each one.
read_record ==
  /\ l <= Len(line.recs)
  /\ IF Len(addr) + line.recs[l].len > max_data_size
       THEN /\ Goto("load", "failed")
            /\ UNCHANGED <<l, addr>>
       ELSE /\ Goto("load", "load")
            /\ l' = l + 1
            /\ addr' = addr \o BytesOf(line.recs[l])
  /\ UNCHANGED <<lines, line, start_addr, end_addr, i, chunk, erased, writes>>

MutFromZero ==
  /\ l > Len(line.recs)
  /\ Goto("load", "chunk")
  /\ i' = 0
  /\ UNCHANGED <<lines, line, l, start_addr, end_addr, addr, chunk, erased, writes>>

file_loaded ==
  /\ l > Len(line.recs)
  /\ Goto("load", "chunk")
  /\ i' = 1
  /\ UNCHANGED <<lines, line, l, start_addr, end_addr, addr, chunk, erased, writes>>

\* The outer loop of write_file: a new chunk takes the next byte.
start_chunk ==
  /\ pc = "chunk"
  /\ IF i <= Len(addr)
       THEN /\ pc' = "collect"
            /\ chunk' = [at |-> addr[i], from |-> i, len |-> 1]
            /\ i' = i + 1
       ELSE /\ pc' = "next"
            /\ UNCHANGED <<chunk, i>>
  /\ UNCHANGED <<lines, line, l, start_addr, end_addr, addr, erased, writes>>

MutContiguous ==
  /\ i <= Len(addr)
  /\ chunk.len < new_chunk_size

\* The inner loop: the next byte follows the last one and there is room for it.
Contiguous ==
  /\ i <= Len(addr)
  /\ addr[i] = addr[i - 1] + 1
  /\ chunk.len < new_chunk_size

collect_byte ==
  /\ Goto("collect", "collect")
  /\ Contiguous
  /\ chunk' = [chunk EXCEPT !.len = @ + 1]
  /\ i' = i + 1
  /\ UNCHANGED <<lines, line, l, start_addr, end_addr, addr, erased, writes>>

\* write_mem, or verify_data for verify-file.
write_mem ==
  /\ Goto("collect", "chunk")
  /\ ~Contiguous
  /\ writes' = Append(writes, chunk)
  /\ UNCHANGED <<lines, line, l, start_addr, end_addr, addr, i, chunk, erased>>

Done ==
  /\ pc = "failed" \/ (pc = "next" /\ lines = <<>>)
  /\ UNCHANGED vars

NoLine == [cmd |-> "none", found |-> TRUE, recs |-> <<>>]

Init ==
  /\ pc = "next"
  /\ lines \in Scripts
  /\ line = NoLine
  /\ l = 1
  /\ start_addr = 0
  /\ end_addr = 0
  /\ addr = <<>>
  /\ i = 1
  /\ chunk = [at |-> 0, from |-> 1, len |-> 0]
  /\ erased = [at |-> 0, len |-> 0]
  /\ writes = <<>>

Next == \/ process_line \/ get_start_addr_and_length \/ del_mem
        \/ open_file \/ read_record \/ file_loaded
        \/ start_chunk \/ collect_byte \/ write_mem \/ Done

Spec == Init /\ [][Next]_vars

-----------------------------------------------------------------------------
(* Properties.                                                             *)

Records == [at : Nat, len : Nat]

Lines == [cmd   : {"write-file", "write-only", "verify-file", "erase-data", "none"},
          found : BOOLEAN,
          recs  : Seq(Records)]

Chunks == [at : Int, from : Nat \ {0}, len : Nat]

TypeOK ==
  /\ pc \in {"next", "scan", "erase", "open", "load", "chunk", "collect", "failed"}
  /\ lines \in Seq(Lines)
  /\ line \in Lines
  /\ l \in Nat \ {0}
  /\ start_addr \in Int
  /\ end_addr \in Int
  /\ addr \in Seq(Int)
  /\ i \in Nat \ {0}
  /\ chunk \in Chunks
  /\ erased \in [at : 0..(WORD - 1), len : 0..(WORD - 1)]
  /\ writes \in Seq(Chunks)

\* The packets of data of a line are the bytes that were loaded, each one in
\* exactly one packet, in order, and at the address that its record gives it.  The
\* cutting loop reads addr[i] before it compares i with data_len, and where a
\* record ends is known from the addresses alone; the changelog (1180, 2361) has
\* four errors in these loops.
WritesAreImage ==
  /\ \A k \in 1..Len(writes) :
       /\ writes[k].from = IF k = 1 THEN 1 ELSE writes[k - 1].from + writes[k - 1].len
       /\ \A j \in 0..(writes[k].len - 1) : addr[writes[k].from + j] = writes[k].at + j
  /\ pc = "next" /\ writes # <<>> =>
       writes[Len(writes)].from + writes[Len(writes)].len = Len(addr) + 1

\* "write-file includes automatic erasure of concerned area": every byte that a
\* write-file writes lies in the area that it erased before.  The area comes from
\* the first reading, whose arithmetic has nothing in common with the second's.
Covers(e, w) == e.at <= w.at /\ w.at + w.len <= e.at + e.len

ErasureCoversWrites ==
  line.cmd = "write-file" => \A k \in 1..Len(writes) : Covers(erased, writes[k])

\* And it erases little more: from the first byte of the file to at most 20 bytes
\* after the last one (16 to round, 4 because the count of a record includes its
\* address).  Whatever lies further, like what another line wrote, survives.
ERASE_MARGIN == 20

LastRec == line.recs[Len(line.recs)]

ErasesItsFileOnly ==
  pc = "open" /\ line.cmd = "write-file" /\ line.found =>
    \/ erased.len = 0
    \/ /\ line.recs # <<>>
       /\ erased.at = Relocate(line.recs[1].at)
       /\ erased.at + erased.len <= Relocate(LastRec.at) + LastRec.len + ERASE_MARGIN

\* Changelog 2371: "the chunk_size for write-data corresponds to the whole packet
\* length and not the data payload only".
PacketFits == \A k \in 1..Len(writes) : PacketLen(writes[k].len) <= chunk_size
=============================================================================
