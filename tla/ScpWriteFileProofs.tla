------------------------- MODULE ScpWriteFileProofs -------------------------
(***************************************************************************)
(* Proofs about ScpWriteFile, for every script, record length, chunk size  *)
(* and size of the data array.                                             *)
(***************************************************************************)
EXTENDS ScpWriteFile, TLAPS

\* What the scripts are and what address_offset does to an address: an integer.
WellFormed ==
  /\ Scripts \subseteq Seq(Lines)
  /\ \A s \in Scripts : \A n \in 1..Len(s) :
       s[n].cmd = "erase-data" => s[n].recs # <<>>
  /\ \A a \in Int : Relocate(a) \in Int

GoodLines == {x \in Lines : x.cmd = "erase-data" => x.recs # <<>>}

TypeInv == TypeOK /\ lines \in Seq(GoodLines) /\ line \in GoodLines

-----------------------------------------------------------------------------
(* Type correctness.                                                       *)

LEMMA RangeType == \A n \in Int : EraseRange(n) \in Int
BY DEF EraseRange, DivBy16

LEMMA NewChunkSizeType == new_chunk_size \in Int
BY WriteFileAssumption
DEF new_chunk_size, HEADER_LEN, CRC_LEN, COMMAND_LEN, SIGNATURE_LEN

LEMMA Relocated ==
  ASSUME WellFormed, NEW a, a \in Nat
  PROVE  Relocate(a) \in Int
<1>1. a \in Int
  OBVIOUS
<1> QED
  BY <1>1 DEF WellFormed

LEMMA RelocatedEnd ==
  ASSUME WellFormed, NEW rec, rec.at \in Nat, rec.len \in Nat
  PROVE  EndOfRecord(rec) \in Int
<1>1. ScannedCount(rec.len) \in Int
  BY DEF ScannedCount, Count, ADDRESS_LEN, S_CRC_LEN
<1>2. rec.at + ScannedCount(rec.len) - 1 \in Int
  BY <1>1
<1> QED
  BY <1>2 DEF EndOfRecord, WellFormed

LEMMA FunctionIsSeq ==
  ASSUME NEW S, NEW n \in Nat, NEW f \in [1..n -> S]
  PROVE  f \in Seq(S) /\ Len(f) = n
OBVIOUS

LEMMA BytesType ==
  ASSUME WellFormed, NEW rec, rec.at \in Nat, rec.len \in Nat
  PROVE  /\ BytesOf(rec) \in Seq(Int)
         /\ Len(BytesOf(rec)) = rec.len
         /\ \A k \in 1..rec.len : BytesOf(rec)[k] = Relocate(rec.at) + k - 1
<1>1. Relocate(rec.at) \in Int
  BY Relocated
<1>2. BytesOf(rec) \in [1..rec.len -> Int]
  BY <1>1 DEF BytesOf
<1>3. BytesOf(rec) \in Seq(Int) /\ Len(BytesOf(rec)) = rec.len
  BY <1>2, FunctionIsSeq
<1>4. \A k \in 1..rec.len : BytesOf(rec)[k] = Relocate(rec.at) + k - 1
  BY DEF BytesOf
<1> QED
  BY <1>3, <1>4

LEMMA Appended ==
  ASSUME NEW S, NEW s \in Seq(S), NEW t \in Seq(S)
  PROVE  s \o t \in Seq(S)
OBVIOUS

LEMMA AppendedElement ==
  ASSUME NEW S, NEW s \in Seq(S), NEW t \in Seq(S), NEW k \in 1..Len(s \o t),
         ~(k <= Len(s))
  PROVE  k - Len(s) \in 1..Len(t) /\ (s \o t)[k] = t[k - Len(s)]
OBVIOUS

LEMMA ElementOf ==
  ASSUME NEW S, NEW s \in Seq(S), NEW n \in 1..Len(s)
  PROVE  s[n] \in S
OBVIOUS

LEMMA RecordType ==
  ASSUME NEW recs \in Seq(Records), NEW n \in 1..Len(recs)
  PROVE  recs[n] \in Records /\ recs[n].at \in Nat /\ recs[n].len \in Nat
<1>1. recs[n] \in Records
  BY ElementOf
<1> QED
  BY <1>1 DEF Records

LEMMA HeadAndTail ==
  ASSUME NEW S, NEW s \in Seq(S), s # <<>>
  PROVE  Head(s) \in S /\ Tail(s) \in Seq(S)
OBVIOUS

LEMMA InitType == ASSUME WellFormed PROVE Init => TypeInv
<1> SUFFICES ASSUME Init PROVE TypeInv
  OBVIOUS
<1>1. lines \in Seq(Lines) /\ \A n \in 1..Len(lines) : lines[n] \in GoodLines
  BY SMTT(30) DEF Init, WellFormed, GoodLines
<1>2. lines \in Seq(GoodLines)
  BY <1>1
<1>3. <<>> \in Seq(Records)
  OBVIOUS
<1>4. line \in GoodLines /\ line \in Lines
  BY <1>3 DEF Init, NoLine, GoodLines, Lines
<1>5. chunk \in Chunks /\ erased \in [at : 0..(WORD - 1), len : 0..(WORD - 1)]
  BY WriteFileAssumption DEF Init, Chunks
<1> QED
  BY <1>1, <1>2, <1>4, <1>5 DEF Init, TypeInv, TypeOK

LEMMA StepType == ASSUME WellFormed PROVE TypeInv /\ [Next]_vars => TypeInv'
<1> SUFFICES ASSUME TypeInv, [Next]_vars PROVE TypeInv'
  OBVIOUS
<1> USE DEF TypeInv, TypeOK
<1>0. line.recs \in Seq(Records)
  BY DEF Lines
<1>1. CASE process_line
  <2>1. lines \in Seq(GoodLines) /\ lines # <<>> /\ line' = Head(lines) /\ lines' = Tail(lines)
    BY <1>1 DEF process_line
  <2>2. line' \in GoodLines /\ lines' \in Seq(GoodLines)
    BY <2>1, HeadAndTail
  <2>3. line' \in Lines /\ lines' \in Seq(Lines)
    BY <2>1, HeadAndTail
  <2>4. line'.cmd = "erase-data" => line'.recs[1].at \in Nat /\ line'.recs[1].len \in Nat
    <3>1. line'.cmd = "erase-data" => line'.recs # <<>>
      BY <2>2 DEF GoodLines
    <3>2. line'.recs \in Seq(Records)
      BY <2>3 DEF Lines
    <3> QED
      BY <3>1, <3>2, RecordType, SMTT(30)
  <2>5. start_addr' \in Int /\ end_addr' \in Int /\ pc' \in {"scan", "erase", "open"}
    <3>1. CASE write_file
      BY <1>1, <3>1 DEF process_line, write_file
    <3>2. CASE write_only_or_verify
      BY <1>1, <3>2 DEF process_line, write_only_or_verify
    <3>3. CASE del_data
      BY <1>1, <2>4, <3>3 DEF process_line, del_data
    <3> QED
      BY <1>1, <3>1, <3>2, <3>3 DEF process_line
  <2>6. l' = 1 /\ writes' = <<>> /\ UNCHANGED <<addr, i, chunk, erased>>
    BY <1>1 DEF process_line
  <2> QED
    BY <2>2, <2>3, <2>5, <2>6
<1>2. CASE get_start_addr_and_length
  <2>1. l <= Len(line.recs) => line.recs[l].at \in Nat /\ line.recs[l].len \in Nat
    BY <1>0, RecordType
  <2>2. l <= Len(line.recs) => Relocate(line.recs[l].at) \in Int /\ EndOfRecord(line.recs[l]) \in Int
    BY <2>1, Relocated, RelocatedEnd
  <2> QED
    BY <1>2, <2>2, SMTT(30) DEF get_start_addr_and_length, Goto
<1>3. CASE del_mem
  <2>1. \A n \in Int : n % WORD \in 0..(WORD - 1)
    BY WriteFileAssumption
  <2>2. EraseRange(end_addr - start_addr) \in Int
    BY RangeType
  <2>3. erased' \in [at : 0..(WORD - 1), len : 0..(WORD - 1)]
    BY <1>3, <2>1, <2>2 DEF del_mem
  <2> QED
    BY <1>3, <2>3 DEF del_mem, Goto
<1>4. CASE open_file
  BY <1>4 DEF open_file, Goto
<1>5. CASE read_record
  <2>1. line.recs[l].at \in Nat /\ line.recs[l].len \in Nat
    <3>1. l \in 1..Len(line.recs)
      BY <1>0, <1>5 DEF read_record
    <3> QED
      BY <1>0, <3>1, RecordType
  <2>2. addr' \in Seq(Int)
    <3>1. BytesOf(line.recs[l]) \in Seq(Int)
      BY <2>1, BytesType
    <3>2. addr \o BytesOf(line.recs[l]) \in Seq(Int)
      BY <3>1, Appended
    <3> QED
      BY <1>5, <3>2 DEF read_record
  <2>3. pc' \in {"load", "failed"} /\ l' \in Nat \ {0}
    BY <1>5 DEF read_record, Goto
  <2> QED
    BY <1>5, <2>2, <2>3 DEF read_record
<1>6. CASE file_loaded
  BY <1>6 DEF file_loaded, Goto
<1>7. CASE start_chunk
  BY <1>7, SMTT(30) DEF start_chunk, Chunks
<1>8. CASE collect_byte
  <2>1. chunk' \in Chunks
    <3>1. chunk.len + 1 \in Nat /\ chunk.at \in Int /\ chunk.from \in Nat \ {0}
      BY DEF Chunks
    <3>2. chunk' = [at |-> chunk.at, from |-> chunk.from, len |-> chunk.len + 1]
      BY <1>8 DEF collect_byte, Chunks
    <3> QED
      BY <3>1, <3>2 DEF Chunks
  <2> QED
    BY <1>8, <2>1 DEF collect_byte, Goto
<1>9. CASE write_mem
  BY <1>9 DEF write_mem, Goto
<1>10. CASE Done \/ UNCHANGED vars
  BY <1>10 DEF Done, vars
<1> QED
  BY <1>1, <1>2, <1>3, <1>4, <1>5, <1>6, <1>7, <1>8, <1>9, <1>10 DEF Next

\* Every reachable state of ScpWriteFile has its type.
THEOREM TypeCorrect == ASSUME WellFormed PROVE Spec => []TypeInv
<1>1. Init => TypeInv
  BY InitType
<1>2. TypeInv /\ [Next]_vars => TypeInv'
  BY StepType
<1> QED
  BY <1>1, <1>2, PTL DEF Spec

\* The types alone, as the run states them.
THEOREM TypesHold == ASSUME WellFormed PROVE Spec => []TypeOK
<1>1. TypeInv => TypeOK
  BY DEF TypeInv
<1> QED
  BY <1>1, TypeCorrect, PTL

-----------------------------------------------------------------------------
(* The packets of data are the bytes loaded.                               *)

\* The place of the byte that follows the packets w.
NextFrom(w) == IF w = <<>> THEN 1 ELSE w[Len(w)].from + w[Len(w)].len

\* c is not empty and its bytes are loaded, at its addresses.
Holds(c) ==
  /\ c.len >= 1
  /\ c.from + c.len <= Len(addr) + 1
  /\ \A j \in 0..(c.len - 1) : addr[c.from + j] = c.at + j

Follows(w, k) == w[k].from = IF k = 1 THEN 1 ELSE w[k - 1].from + w[k - 1].len

PacketsInv ==
  /\ \A k \in 1..Len(writes) : Follows(writes, k) /\ Holds(writes[k])
  /\ pc \in {"scan", "erase", "open", "load", "failed"} => writes = <<>>
  /\ pc = "chunk" => i = NextFrom(writes) /\ i <= Len(addr) + 1
  /\ pc = "collect" => /\ Holds(chunk)
                       /\ chunk.from = NextFrom(writes)
                       /\ i = chunk.from + chunk.len
  /\ pc = "next" /\ writes # <<>> => NextFrom(writes) = Len(addr) + 1

LEMMA AppendedChunk ==
  ASSUME NEW w \in Seq(Chunks), NEW c \in Chunks, c.from = NextFrom(w),
         \A k \in 1..Len(w) : Follows(w, k)
  PROVE  /\ \A k \in 1..Len(Append(w, c)) :
              /\ Follows(Append(w, c), k)
              /\ Append(w, c)[k] = IF k <= Len(w) THEN w[k] ELSE c
         /\ NextFrom(Append(w, c)) = c.from + c.len
         /\ Append(w, c) # <<>>
<1> DEFINE v == Append(w, c)
<1>1. /\ Len(v) = Len(w) + 1 /\ Len(w) \in Nat
      /\ \A k \in 1..Len(w) : v[k] = w[k]
      /\ v[Len(w) + 1] = c
  OBVIOUS
<1>2. ASSUME NEW k \in 1..Len(v) PROVE Follows(v, k)
  <2>1. CASE k <= Len(w)
    <3>1. k \in 1..Len(w) /\ (k # 1 => k - 1 \in 1..Len(w))
      BY <1>1, <2>1
    <3>2. v[k] = w[k] /\ (k # 1 => v[k - 1] = w[k - 1])
      BY <1>1, <3>1
    <3> QED
      BY <3>1, <3>2 DEF Follows
  <2>2. CASE k = Len(w) + 1
    <3>1. CASE w = <<>>
      BY <1>1, <2>2, <3>1 DEF Follows, NextFrom
    <3>2. CASE w # <<>>
      <4>1. Len(w) \in 1..Len(w) /\ k # 1 /\ k - 1 = Len(w)
        BY <1>1, <2>2, <3>2
      <4> QED
        BY <1>1, <2>2, <3>2, <4>1 DEF Follows, NextFrom
    <3> QED
      BY <3>1, <3>2
  <2> QED
    BY <1>1, <2>1, <2>2
<1>3. NextFrom(v) = c.from + c.len /\ v # <<>>
  BY <1>1 DEF NextFrom
<1> QED
  BY <1>1, <1>2, <1>3

LEMMA PacketsStep ==
  ASSUME WellFormed PROVE TypeInv /\ PacketsInv /\ [Next]_vars => PacketsInv'
<1> SUFFICES ASSUME TypeInv, PacketsInv, [Next]_vars PROVE PacketsInv'
  OBVIOUS
<1>0. /\ addr \in Seq(Int) /\ Len(addr) \in Nat /\ chunk \in Chunks
      /\ chunk.at \in Int /\ chunk.from \in Nat \ {0} /\ chunk.len \in Nat
      /\ i \in Nat \ {0} /\ writes \in Seq(Chunks)
  BY DEF TypeInv, TypeOK, Chunks
\* Nothing is asked of writes as long as it is empty.
<1>e. ASSUME writes' = <<>>, pc' \in {"next", "scan", "erase", "open", "load", "failed"}
      PROVE  PacketsInv'
  BY <1>e DEF PacketsInv
<1>1. CASE process_line
  <2>1. writes' = <<>> /\ pc' \in {"scan", "erase", "open"}
    BY <1>1 DEF process_line, write_file, write_only_or_verify, del_data
  <2> QED
    BY <1>e, <2>1
<1>2. CASE get_start_addr_and_length
  BY <1>2, <1>e DEF get_start_addr_and_length, Goto, PacketsInv
<1>3. CASE del_mem
  BY <1>3, <1>e DEF del_mem, Goto, PacketsInv
<1>4. CASE open_file
  BY <1>4, <1>e DEF open_file, Goto, PacketsInv
<1>5. CASE read_record
  BY <1>5, <1>e DEF read_record, Goto, PacketsInv
<1>6. CASE file_loaded
  <2>1. writes = <<>> /\ writes' = <<>> /\ pc' = "chunk" /\ i' = 1 /\ addr' = addr
    BY <1>6 DEF file_loaded, Goto, PacketsInv
  <2> QED
    BY <1>0, <2>1 DEF PacketsInv, NextFrom
<1>7. CASE start_chunk
  <2>1. pc = "chunk" /\ UNCHANGED <<writes, addr>> /\ i = NextFrom(writes) /\ i <= Len(addr) + 1
    BY <1>7 DEF start_chunk, PacketsInv
  <2>2. \A k \in 1..Len(writes') : Follows(writes', k) /\ Holds(writes[k])'
    BY <2>1 DEF PacketsInv, Holds
  <2>3. CASE i <= Len(addr)
    <3>1. /\ pc' = "collect" /\ i' = i + 1
          /\ chunk' = [at |-> addr[i], from |-> i, len |-> 1]
      BY <1>7, <2>3 DEF start_chunk
    <3>2. Holds(chunk)' /\ chunk'.from = i /\ i' = chunk'.from + chunk'.len
      <4>1. i \in 1..Len(addr) /\ addr[i] \in Int
        BY <1>0, <2>3, ElementOf
      <4> QED
        BY <1>0, <2>1, <3>1, <4>1 DEF Holds
    <3> QED
      BY <2>1, <2>2, <3>1, <3>2 DEF PacketsInv
  <2>4. CASE ~(i <= Len(addr))
    <3>1. pc' = "next" /\ i = Len(addr) + 1
      BY <1>0, <1>7, <2>1, <2>4 DEF start_chunk
    <3> QED
      BY <2>1, <2>2, <3>1 DEF PacketsInv
  <2> QED
    BY <2>3, <2>4
<1>8. CASE collect_byte
  <2>1. /\ pc = "collect" /\ pc' = "collect" /\ i' = i + 1 /\ UNCHANGED <<writes, addr>>
        /\ Holds(chunk) /\ chunk.from = NextFrom(writes) /\ i = chunk.from + chunk.len
        /\ i <= Len(addr) /\ addr[i] = addr[i - 1] + 1
    BY <1>8 DEF collect_byte, Contiguous, Goto, PacketsInv
  <2>2. \A k \in 1..Len(writes') : Follows(writes', k) /\ Holds(writes[k])'
    BY <2>1 DEF PacketsInv, Holds
  <2>3. chunk' = [at |-> chunk.at, from |-> chunk.from, len |-> chunk.len + 1]
    BY <1>0, <1>8 DEF collect_byte, Chunks
  <2>4. addr[i] = chunk.at + chunk.len
    <3>0. chunk.len - 1 \in 0..(chunk.len - 1)
      <4>1. chunk.len >= 1
        BY <2>1 DEF Holds
      <4> QED
        BY <1>0, <4>1
    <3>1. addr[chunk.from + (chunk.len - 1)] = chunk.at + (chunk.len - 1)
      BY <2>1, <3>0 DEF Holds
    <3>2. chunk.from + (chunk.len - 1) = i - 1
      BY <1>0, <2>1, SMTT(30)
    <3>3. addr[i] = chunk.at + (chunk.len - 1) + 1
      BY <2>1, <3>1, <3>2
    <3> QED
      BY <1>0, <3>3
  <2>5. Holds(chunk)'
    <3>1. chunk'.len >= 1 /\ chunk'.from + chunk'.len <= Len(addr') + 1
      <4>1. chunk'.from = chunk.from /\ chunk'.len = chunk.len + 1 /\ addr' = addr
        BY <2>1, <2>3
      <4>2. chunk.len + 1 >= 1 /\ chunk.from + (chunk.len + 1) <= Len(addr) + 1
        <5>1. i <= Len(addr) /\ i = chunk.from + chunk.len
          BY <2>1
        <5> QED
          BY <1>0, <5>1
      <4> QED
        BY <4>1, <4>2
    <3>2. ASSUME NEW j \in 0..(chunk'.len - 1) PROVE addr'[chunk'.from + j] = chunk'.at + j
      <4>1. CASE j = chunk.len
        BY <2>1, <2>3, <2>4, <4>1
      <4>2. CASE j # chunk.len
        <5>1. j \in 0..(chunk.len - 1)
          BY <1>0, <2>3, <4>2
        <5> QED
          BY <2>1, <2>3, <5>1 DEF Holds
      <4> QED
        BY <4>1, <4>2
    <3> QED
      BY <3>1, <3>2 DEF Holds
  <2> QED
    BY <1>0, <2>1, <2>2, <2>3, <2>5 DEF PacketsInv
<1>9. CASE write_mem
  <2>1. /\ pc = "collect" /\ pc' = "chunk" /\ UNCHANGED <<addr, i>>
        /\ writes' = Append(writes, chunk)
        /\ Holds(chunk) /\ chunk.from = NextFrom(writes) /\ i = chunk.from + chunk.len
        /\ \A k \in 1..Len(writes) : Follows(writes, k) /\ Holds(writes[k])
    BY <1>9 DEF write_mem, Goto, PacketsInv
  <2>2. /\ \A k \in 1..Len(writes') :
             /\ Follows(writes', k)
             /\ writes'[k] = IF k <= Len(writes) THEN writes[k] ELSE chunk
        /\ NextFrom(writes') = chunk.from + chunk.len
    BY <1>0, <2>1, AppendedChunk
  <2>3. \A k \in 1..Len(writes') : Holds(writes[k])'
    <3>1. SUFFICES ASSUME NEW k \in 1..Len(writes') PROVE Holds(writes'[k])
      BY <2>1 DEF Holds
    <3>2. k \in 1..Len(writes) \/ ~(k <= Len(writes))
      BY <1>0, <2>1
    <3> QED
      BY <2>1, <2>2, <3>2
  <2>4. i <= Len(addr) + 1
    BY <2>1 DEF Holds
  <2> QED
    BY <2>1, <2>2, <2>3, <2>4 DEF PacketsInv
<1>10. CASE Done \/ UNCHANGED vars
  BY <1>10 DEF Done, vars, PacketsInv, Holds
<1> QED
  BY <1>1, <1>2, <1>3, <1>4, <1>5, <1>6, <1>7, <1>8, <1>9, <1>10 DEF Next

LEMMA PacketsSafe == ASSUME TypeInv, PacketsInv PROVE WritesAreImage
<1>1. writes # <<>> => NextFrom(writes) = writes[Len(writes)].from + writes[Len(writes)].len
  BY DEF NextFrom
<1> QED
  BY <1>1 DEF PacketsInv, WritesAreImage, Follows, Holds

\* Whatever the file and the size of the chunks, the packets of data of a line carry
\* every byte that was loaded once, in order, at its address.
THEOREM PacketsCarryImage == ASSUME WellFormed PROVE Spec => []WritesAreImage
<1>1. Init => TypeInv /\ PacketsInv
  <2>1. Init => PacketsInv
    BY DEF Init, PacketsInv
  <2> QED
    BY <2>1, InitType
<1>2. TypeInv /\ PacketsInv /\ [Next]_vars => (TypeInv /\ PacketsInv)'
  BY StepType, PacketsStep
<1>3. TypeInv /\ PacketsInv => WritesAreImage
  BY PacketsSafe
<1> QED
  BY <1>1, <1>2, <1>3, PTL DEF Spec

-----------------------------------------------------------------------------
(* The length of the packets.                                              *)

SizeInv ==
  /\ pc = "collect" => chunk.len <= new_chunk_size
  /\ \A k \in 1..Len(writes) : writes[k].len <= new_chunk_size

LEMMA SizeStep ==
  ASSUME WellFormed, new_chunk_size >= 1
  PROVE  TypeInv /\ SizeInv /\ [Next]_vars => SizeInv'
<1> SUFFICES ASSUME TypeInv, SizeInv, [Next]_vars PROVE SizeInv'
  OBVIOUS
<1> new_chunk_size \in Int
  BY NewChunkSizeType
<1>0. chunk \in Chunks /\ chunk.len \in Nat /\ writes \in Seq(Chunks)
  BY DEF TypeInv, TypeOK, Chunks
<1>u. ASSUME UNCHANGED writes, pc' # "collect" PROVE SizeInv'
  BY <1>u DEF SizeInv
<1>1. CASE process_line
  <2>1. writes' = <<>> /\ pc' # "collect"
    BY <1>1 DEF process_line, write_file, write_only_or_verify, del_data
  <2> QED
    BY <2>1 DEF SizeInv
<1>2. CASE start_chunk
  BY <1>2 DEF start_chunk, SizeInv
<1>3. CASE collect_byte
  <2>1. chunk'.len = chunk.len + 1 /\ chunk.len < new_chunk_size /\ UNCHANGED writes
    BY <1>0, <1>3 DEF collect_byte, Contiguous, Chunks
  <2>2. chunk'.len <= new_chunk_size
    BY <1>0, <2>1
  <2> QED
    BY <2>1, <2>2 DEF SizeInv
<1>4. CASE write_mem
  <2>1. writes' = Append(writes, chunk) /\ chunk.len <= new_chunk_size /\ pc' = "chunk"
    BY <1>4 DEF write_mem, Goto, SizeInv
  <2>2. \A k \in 1..Len(writes') : writes'[k] = chunk \/ (k \in 1..Len(writes) /\ writes'[k] = writes[k])
    BY <1>0, <2>1
  <2> QED
    BY <2>1, <2>2 DEF SizeInv
<1>5. CASE get_start_addr_and_length \/ del_mem \/ open_file \/ read_record \/ file_loaded
  BY <1>5, <1>u DEF get_start_addr_and_length, del_mem, open_file, read_record, file_loaded, Goto
<1>6. CASE Done \/ UNCHANGED vars
  BY <1>6 DEF Done, vars, SizeInv
<1> QED
  BY <1>1, <1>2, <1>3, <1>4, <1>5, <1>6 DEF Next

\* In mode SCP_FLORA_RSA, and with a chunk_size that leaves room for one byte, no
\* packet of data is longer than chunk_size.
THEOREM PacketsFit ==
  ASSUME WellFormed, session_mode = "SCP_FLORA_RSA", chunk_size >= 283
  PROVE  Spec => []PacketFits
<1>1. new_chunk_size = chunk_size - 282
  BY WriteFileAssumption
  DEF new_chunk_size, HEADER_LEN, CRC_LEN, COMMAND_LEN, SIGNATURE_LEN
<1>2. new_chunk_size >= 1
  BY <1>1, WriteFileAssumption
<1>3. Init => TypeInv /\ SizeInv
  <2>1. Init => SizeInv
    BY DEF Init, SizeInv
  <2> QED
    BY <2>1, InitType
<1>4. TypeInv /\ SizeInv /\ [Next]_vars => (TypeInv /\ SizeInv)'
  BY <1>2, StepType, SizeStep
<1>5. TypeInv /\ SizeInv => PacketFits
  <2> SUFFICES ASSUME TypeInv, SizeInv, NEW k \in 1..Len(writes)
               PROVE  PacketLen(writes[k].len) <= chunk_size
    BY DEF PacketFits
  <2>1. writes[k] \in Chunks
    BY ElementOf DEF TypeInv, TypeOK
  <2>2. writes[k].len \in Nat /\ writes[k].len <= chunk_size - 282
    BY <1>1, <2>1 DEF SizeInv, Chunks
  <2>3. PacketLen(writes[k].len) = writes[k].len + 282
    BY <2>2 DEF PacketLen, ProtectionLen, HEADER_LEN, CRC_LEN, COMMAND_LEN, SIGNATURE_LEN
  <2> QED
    BY <2>2, <2>3, WriteFileAssumption
<1> QED
  BY <1>3, <1>4, <1>5, PTL DEF Spec

-----------------------------------------------------------------------------
(* The area erased.                                                        *)

\* address_offset moves every address up to Limit by the same amount (its bits are
\* all above, or all in common with, those of the image), and no length of an
\* erasure wraps.
Translates(Limit, offset) ==
  /\ Limit + 20 < WORD
  /\ \A a \in 0..Limit : Relocate(a) = a + offset /\ a + offset \in 0..(WORD - 1)

Sorted(recs) ==
  \A j, k \in 1..Len(recs) : j < k => recs[j].at + recs[j].len <= recs[k].at

\* The files that write-file is given: at least one record, records sorted by
\* address and disjoint, all of it below Limit.
GoodFile(x, Limit) ==
  x.cmd = "write-file" /\ x.found =>
    /\ x.recs # <<>>
    /\ Sorted(x.recs)
    /\ \A k \in 1..Len(x.recs) : x.recs[k].at + x.recs[k].len + 4 <= Limit

GoodScripts(Limit) ==
  \A s \in Scripts : \A n \in 1..Len(s) : GoodFile(s[n], Limit)

LinesInv(Limit) ==
  /\ GoodFile(line, Limit)
  /\ \A n \in 1..Len(lines) : GoodFile(lines[n], Limit)

Writing == line.cmd = "write-file" /\ line.found

Low(offset)  == line.recs[1].at + offset             \* the first byte of the file
High(offset) == LastRec.at + LastRec.len + offset    \* what follows the last one

Scanned(offset) ==
  /\ start_addr = Low(offset)
  /\ l - 1 \in 1..Len(line.recs)
  /\ end_addr = line.recs[l - 1].at + line.recs[l - 1].len + 4 + offset

ErasedWell(offset) ==
  /\ erased.at = Low(offset)
  /\ erased.at + erased.len > High(offset) + 4
  /\ erased.at + erased.len <= High(offset) + ERASE_MARGIN

AreaInv(offset) ==
  /\ Writing =>
       /\ pc = "scan" => \/ l = 1 /\ start_addr = -1
                         \/ Scanned(offset)
       /\ pc = "erase" => start_addr = Low(offset) /\ end_addr = High(offset) + 4
       /\ pc \in {"open", "load", "chunk", "collect", "next"} => ErasedWell(offset)
       /\ pc \in {"load", "chunk", "collect", "next"} =>
            \A k \in 1..Len(addr) : Low(offset) <= addr[k] /\ addr[k] < High(offset)
  /\ line.cmd = "write-file" /\ ~line.found => pc \in {"erase", "open", "failed"}

\* Facts of arithmetic, stated apart from the records they are used for.
LEMMA Remainder == ASSUME NEW w \in Nat \ {0}, NEW x \in 0..(w - 1) PROVE x % w = x
OBVIOUS

LEMMA PlacesWithin ==
  ASSUME NEW f \in Nat \ {0}, NEW n \in Nat, n >= 1, NEW m \in Nat, f + n <= m + 1
  PROVE  f + 0 \in 1..m /\ f + (n - 1) \in 1..m
OBVIOUS

LEMMA AddressWithin ==
  ASSUME NEW at \in Nat, NEW len \in Nat, NEW m \in Nat, at + len + 4 <= m
  PROVE  at \in 0..m /\ at + len + 4 \in 0..m
OBVIOUS

LEMMA Translated ==
  ASSUME NEW a \in Nat, NEW b \in Nat, NEW m \in Nat, NEW c \in Nat, NEW n \in Nat,
         NEW d \in Int, a <= b, b + m <= c + n
  PROVE  a + d \in Int /\ a + d <= b + d /\ b + m + d <= c + n + d
OBVIOUS

LEMMA ByteWithin ==
  ASSUME NEW low \in Int, NEW high \in Int, NEW at \in Nat, NEW n \in Nat, NEW d \in Int,
         low <= at + d, at + n + d <= high, NEW j \in 1..n
  PROVE  low <= at + d + j - 1 /\ at + d + j - 1 < high
OBVIOUS

\* Two facts of arithmetic, on variables rather than on fields of records.
LEMMA WithinErased ==
  ASSUME NEW at \in Int, NEW n \in Int, NEW high \in Int, NEW start \in Int,
         NEW m \in Int, at + (n - 1) < high, start + m > high + 4
  PROVE  at + n <= start + m
OBVIOUS

LEMMA EndByCount ==
  ASSUME NEW at \in Nat, NEW n \in Nat, NEW count \in Nat, count = n + 5
  PROVE  at + count - 1 = at + n + 4
OBVIOUS

LEMMA RangeBounds ==
  ASSUME NEW n \in Nat, n # 0
  PROVE  n < EraseRange(n) /\ EraseRange(n) <= n + 16
<1>1. EraseRange(n) = (n \div 16 + 1) * 16
  BY DEF EraseRange, DivBy16
<1>2. n \div 16 \in Nat /\ 16 * (n \div 16) <= n /\ n < 16 * (n \div 16) + 16
  OBVIOUS
<1> QED
  BY <1>1, <1>2

LEMMA RecordBounds ==
  ASSUME NEW recs \in Seq(Records), recs # <<>>, Sorted(recs), NEW k \in 1..Len(recs)
  PROVE  /\ recs[1].at <= recs[k].at
         /\ recs[k].at + recs[k].len <= recs[Len(recs)].at + recs[Len(recs)].len
<1>1. /\ recs[1].at \in Nat /\ recs[1].len \in Nat
      /\ recs[k].at \in Nat /\ recs[k].len \in Nat
      /\ recs[Len(recs)].at \in Nat /\ recs[Len(recs)].len \in Nat
      /\ 1 \in 1..Len(recs) /\ Len(recs) \in 1..Len(recs)
  <2>1. 1 \in 1..Len(recs) /\ Len(recs) \in 1..Len(recs)
    OBVIOUS
  <2> QED
    BY <2>1, RecordType
<1>2. recs[1].at <= recs[k].at
  <2>1. CASE k = 1
    BY <1>1, <2>1
  <2>2. CASE k # 1
    <3>1. recs[1].at + recs[1].len <= recs[k].at
      BY <1>1, <2>2 DEF Sorted
    <3> QED
      BY <1>1, <3>1
  <2> QED
    BY <2>1, <2>2
<1>3. recs[k].at + recs[k].len <= recs[Len(recs)].at + recs[Len(recs)].len
  <2>1. CASE k = Len(recs)
    BY <1>1, <2>1
  <2>2. CASE k # Len(recs)
    <3>1. recs[k].at + recs[k].len <= recs[Len(recs)].at
      BY <1>1, <2>2 DEF Sorted
    <3> QED
      BY <1>1, <3>1
  <2> QED
    BY <2>1, <2>2
<1> QED
  BY <1>2, <1>3

LEMMA LinesStep ==
  ASSUME WellFormed, NEW Limit \in Nat, GoodScripts(Limit)
  PROVE  /\ Init => LinesInv(Limit)
         /\ TypeInv /\ LinesInv(Limit) /\ [Next]_vars => LinesInv(Limit)'
<1>1. Init => LinesInv(Limit)
  BY DEF Init, NoLine, LinesInv, GoodFile, GoodScripts
<1>2. ASSUME TypeInv, LinesInv(Limit), [Next]_vars PROVE LinesInv(Limit)'
  <2>1. CASE process_line
    <3>1. lines \in Seq(Lines) /\ lines # <<>> /\ line' = lines[1] /\ lines' = Tail(lines)
      BY <1>2, <2>1 DEF process_line, TypeInv, TypeOK
    <3>2. 1 \in 1..Len(lines) /\ \A n \in 1..Len(Tail(lines)) :
            n + 1 \in 1..Len(lines) /\ Tail(lines)[n] = lines[n + 1]
      BY <3>1
    <3> QED
      BY <1>2, <3>1, <3>2 DEF LinesInv
  <2>2. CASE ~process_line
    <3>1. UNCHANGED <<line, lines>>
      BY <1>2, <2>2 DEF Next, get_start_addr_and_length, del_mem, open_file, read_record,
        file_loaded, start_chunk, collect_byte, write_mem, Done, vars
    <3> QED
      BY <1>2, <3>1 DEF LinesInv
  <2> QED
    BY <2>1, <2>2
<1> QED
  BY <1>1, <1>2

\* Where a record of the file being written is, and what the two readings make of it.
LEMMA RecordFacts ==
  ASSUME Format = "s19", NEW Limit \in Nat, NEW offset \in Int, Translates(Limit, offset),
         TypeInv, LinesInv(Limit), Writing, NEW k \in 1..Len(line.recs)
  PROVE  /\ line.recs[k].at \in Nat /\ line.recs[k].len \in Nat
         /\ Relocate(line.recs[k].at) = line.recs[k].at + offset
         /\ line.recs[k].at + offset \in 0..(WORD - 1)
         /\ EndOfRecord(line.recs[k]) = line.recs[k].at + line.recs[k].len + 4 + offset
         /\ Low(offset) <= line.recs[k].at + offset
         /\ line.recs[k].at + line.recs[k].len + offset <= High(offset)
<1>1. /\ line.recs \in Seq(Records) /\ line.recs # <<>> /\ Sorted(line.recs)
      /\ line.recs[k].at + line.recs[k].len + 4 <= Limit
  BY DEF TypeInv, TypeOK, Lines, LinesInv, GoodFile, Writing
<1>2. line.recs[k].at \in Nat /\ line.recs[k].len \in Nat
  BY <1>1, RecordType
<1>3. line.recs[k].at \in 0..Limit /\ line.recs[k].at + line.recs[k].len + 4 \in 0..Limit
  BY <1>1, <1>2, AddressWithin
<1>4. EndOfRecord(line.recs[k]) = Relocate(line.recs[k].at + line.recs[k].len + 4)
  <2>1. ScannedCount(line.recs[k].len) = line.recs[k].len + 5
    BY <1>2 DEF ScannedCount, Count, ADDRESS_LEN, S_CRC_LEN
  <2>2. line.recs[k].at + ScannedCount(line.recs[k].len) - 1
          = line.recs[k].at + line.recs[k].len + 4
    <3>1. ScannedCount(line.recs[k].len) \in Nat
      BY <1>2, <2>1
    <3> QED
      BY <1>2, <2>1, <3>1, EndByCount
  <2> QED
    BY <2>2 DEF EndOfRecord
<1>5. /\ Low(offset) \in Int /\ Low(offset) <= line.recs[k].at + offset
      /\ line.recs[k].at + line.recs[k].len + offset <= High(offset)
  <2>1. /\ line.recs[1].at <= line.recs[k].at
        /\ line.recs[k].at + line.recs[k].len <= LastRec.at + LastRec.len
    BY <1>1, RecordBounds DEF LastRec
  <2>2. 1 \in 1..Len(line.recs) /\ Len(line.recs) \in 1..Len(line.recs)
    BY <1>1
  <2>3. line.recs[1].at \in Nat /\ LastRec.at \in Nat /\ LastRec.len \in Nat
    BY <1>1, <2>2, RecordType DEF LastRec
  <2> QED
    BY <1>2, <2>1, <2>3, Translated DEF Low, High
<1> QED
  BY <1>2, <1>3, <1>4, <1>5 DEF Translates

LEMMA AreaStep ==
  ASSUME WellFormed, Format = "s19", NEW Limit \in Nat, NEW offset \in Int,
         Translates(Limit, offset)
  PROVE  TypeInv /\ LinesInv(Limit) /\ AreaInv(offset) /\ [Next]_vars => AreaInv(offset)'
<1> SUFFICES ASSUME TypeInv, LinesInv(Limit), AreaInv(offset), [Next]_vars
             PROVE  AreaInv(offset)'
  OBVIOUS
<1>0. /\ l \in Nat \ {0} /\ start_addr \in Int /\ end_addr \in Int /\ addr \in Seq(Int)
      /\ line.recs \in Seq(Records) /\ WORD \in Nat \ {0} /\ Limit + 20 < WORD
  BY WriteFileAssumption DEF TypeInv, TypeOK, Lines, Translates
<1>f. Writing => 1 \in 1..Len(line.recs) /\ Len(line.recs) \in 1..Len(line.recs)
  BY <1>0 DEF LinesInv, GoodFile, Writing
<1>b. Writing => /\ Low(offset) \in 0..(WORD - 1) /\ High(offset) \in Int
                 /\ Low(offset) <= High(offset) /\ High(offset) + 4 - Low(offset) <= Limit
  <2> SUFFICES ASSUME Writing
               PROVE  /\ Low(offset) \in 0..(WORD - 1) /\ High(offset) \in Int
                      /\ Low(offset) <= High(offset) /\ High(offset) + 4 - Low(offset) <= Limit
    OBVIOUS
  <2>1. /\ line.recs[1].at \in Nat /\ line.recs[1].len \in Nat
        /\ line.recs[1].at + offset \in 0..(WORD - 1)
        /\ line.recs[1].at + line.recs[1].len + offset <= High(offset)
    BY <1>f, RecordFacts
  <2>2. LastRec.at \in Nat /\ LastRec.len \in Nat /\ LastRec.at + LastRec.len + 4 <= Limit
    BY <1>f, RecordFacts DEF LastRec, LinesInv, GoodFile, Writing
  <2> QED
    BY <2>1, <2>2 DEF Low, High
<1>1. CASE process_line
  <2>1. \/ line'.cmd # "write-file"
        \/ line'.found /\ pc' = "scan" /\ start_addr' = -1 /\ l' = 1
        \/ ~line'.found /\ pc' = "erase"
    BY <1>1 DEF process_line, write_file, write_only_or_verify, del_data
  <2> QED
    BY <2>1 DEF AreaInv, Writing
<1>2. CASE get_start_addr_and_length
  <2>1. line' = line /\ pc = "scan"
    BY <1>2 DEF get_start_addr_and_length, Goto
  <2>2. CASE ~Writing
    BY <2>1, <2>2 DEF AreaInv, Writing
  <2>3. CASE Writing /\ l > Len(line.recs)
    <3>1. pc' = "erase" /\ UNCHANGED <<start_addr, end_addr>>
      BY <1>2, <2>3 DEF get_start_addr_and_length, Goto
    <3>2. Scanned(offset) /\ l - 1 = Len(line.recs)
      BY <1>0, <1>f, <2>1, <2>3 DEF AreaInv, Scanned
    <3>3. start_addr = Low(offset) /\ end_addr = High(offset) + 4
      <4>1. end_addr = LastRec.at + LastRec.len + 4 + offset
        BY <3>2 DEF Scanned, LastRec
      <4>2. LastRec.at \in Nat /\ LastRec.len \in Nat
        BY <1>f, <2>3, RecordFacts DEF LastRec
      <4> QED
        BY <3>2, <4>1, <4>2 DEF Scanned, High
    <3> QED
      BY <2>1, <2>3, <3>1, <3>3 DEF AreaInv, Writing, Low, High, LastRec
  <2>4. CASE Writing /\ ~(l > Len(line.recs))
    <3>1. /\ pc' = "scan" /\ l' = l + 1 /\ end_addr' = EndOfRecord(line.recs[l])
          /\ start_addr' = IF start_addr = -1 THEN Relocate(line.recs[l].at) ELSE start_addr
      BY <1>2, <2>4 DEF get_start_addr_and_length, Goto
    <3>2. l \in 1..Len(line.recs) /\ l' - 1 = l
      BY <1>0, <2>4, <3>1
    <3>3. end_addr' = line.recs[l].at + line.recs[l].len + 4 + offset
      BY <2>4, <3>1, <3>2, RecordFacts
    <3>4. start_addr' = Low(offset)
      <4>1. CASE l = 1 /\ start_addr = -1
        BY <2>4, <3>1, <3>2, <4>1, RecordFacts DEF Low
      <4>2. CASE Scanned(offset)
        BY <1>b, <2>4, <3>1, <4>2 DEF Scanned
      <4> QED
        BY <2>1, <2>4, <4>1, <4>2 DEF AreaInv
    <3> QED
      BY <2>1, <2>4, <3>1, <3>2, <3>3, <3>4 DEF AreaInv, Writing, Scanned, Low
  <2> QED
    BY <2>2, <2>3, <2>4
<1>3. CASE del_mem
  <2>1. /\ line' = line /\ pc = "erase" /\ pc' = IF line.cmd = "erase-data" THEN "next" ELSE "open"
        /\ erased' = [at  |-> start_addr % WORD,
                      len |-> EraseRange(end_addr - start_addr) % WORD]
    BY <1>3 DEF del_mem, Goto
  <2>2. CASE ~Writing
    BY <2>1, <2>2 DEF AreaInv, Writing
  <2>3. CASE Writing
    <3>1. start_addr = Low(offset) /\ end_addr = High(offset) + 4
      BY <2>1, <2>3 DEF AreaInv
    <3> DEFINE n == High(offset) + 4 - Low(offset)
    <3>2. n \in Nat /\ n # 0 /\ n <= Limit
      BY <1>b, <2>3
    <3>3. EraseRange(n) \in Int /\ n < EraseRange(n) /\ EraseRange(n) <= n + 16
      BY <3>2, RangeBounds, RangeType
    <3>4. EraseRange(n) \in 0..(WORD - 1)
      BY <1>0, <3>2, <3>3
    <3>5. EraseRange(n) % WORD = EraseRange(n)
      BY <1>0, <3>4, Remainder
    <3>6. Low(offset) % WORD = Low(offset)
      BY <1>0, <1>b, <2>3, Remainder
    <3>7. end_addr - start_addr = n
      BY <1>b, <2>3, <3>1
    <3>8. erased'.at = Low(offset) /\ erased'.len = EraseRange(n)
      BY <2>1, <3>1, <3>5, <3>6, <3>7
    <3>9. /\ Low(offset) + EraseRange(n) > High(offset) + 4
          /\ Low(offset) + EraseRange(n) <= High(offset) + 20
      BY <1>b, <2>3, <3>3
    <3>10. ErasedWell(offset)'
      BY <2>1, <3>8, <3>9 DEF ErasedWell, ERASE_MARGIN, Low, High, LastRec
    <3> QED
      BY <2>1, <2>3, <3>10 DEF AreaInv, Writing
  <2> QED
    BY <2>2, <2>3
<1>4. CASE open_file
  <2>1. /\ line' = line /\ pc = "open" /\ erased' = erased
        /\ pc' = IF line.found THEN "load" ELSE "failed"
        /\ line.found => addr' = <<>>
    BY <1>4 DEF open_file, Goto
  <2> QED
    BY <2>1 DEF AreaInv, Writing, ErasedWell, Low, High, LastRec
<1>5. CASE read_record
  <2>1. /\ line' = line /\ pc = "load" /\ erased' = erased /\ l <= Len(line.recs)
        /\ \/ pc' = "failed"
           \/ pc' = "load" /\ addr' = addr \o BytesOf(line.recs[l])
    BY <1>5 DEF read_record, Goto
  <2>2. CASE ~Writing
    BY <2>1, <2>2 DEF AreaInv, Writing
  <2>3. CASE Writing /\ pc' = "failed"
    BY <2>1, <2>3 DEF AreaInv, Writing
  <2>4. CASE Writing /\ pc' # "failed"
    <3>1. l \in 1..Len(line.recs)
      BY <1>0, <2>1
    <3>2. /\ line.recs[l].at \in Nat /\ line.recs[l].len \in Nat
          /\ Relocate(line.recs[l].at) = line.recs[l].at + offset
          /\ Low(offset) <= line.recs[l].at + offset
          /\ line.recs[l].at + line.recs[l].len + offset <= High(offset)
      BY <2>4, <3>1, RecordFacts
    <3>3. /\ BytesOf(line.recs[l]) \in Seq(Int)
          /\ Len(BytesOf(line.recs[l])) = line.recs[l].len
          /\ \A k \in 1..line.recs[l].len :
               BytesOf(line.recs[l])[k] = line.recs[l].at + offset + k - 1
      BY <3>2, BytesType
    <3>4. ASSUME NEW k \in 1..Len(addr') PROVE Low(offset) <= addr'[k] /\ addr'[k] < High(offset)
      <4>1. addr' = addr \o BytesOf(line.recs[l])
        BY <2>1, <2>4
      <4>2. CASE k <= Len(addr)
        <5>1. k \in 1..Len(addr) /\ addr'[k] = addr[k]
          BY <1>0, <3>3, <4>1, <4>2
        <5> QED
          BY <2>1, <2>4, <5>1 DEF AreaInv
      <4>3. CASE ~(k <= Len(addr))
        <5> DEFINE j == k - Len(addr)
        <5>1. j \in 1..line.recs[l].len /\ addr'[k] = BytesOf(line.recs[l])[j]
          <6>1. addr \in Seq(Int) /\ k \in 1..Len(addr \o BytesOf(line.recs[l]))
            BY <1>0, <4>1
          <6> QED
            BY <3>3, <4>1, <4>3, <6>1, AppendedElement
        <5> HIDE DEF j
        <5>2. addr'[k] = line.recs[l].at + offset + j - 1
          BY <3>3, <5>1
        <5>3. Low(offset) \in Int /\ High(offset) \in Int
          BY <1>b, <2>4
        <5>4. /\ Low(offset) <= line.recs[l].at + offset + j - 1
              /\ line.recs[l].at + offset + j - 1 < High(offset)
          BY <3>2, <5>1, <5>3, ByteWithin
        <5> QED
          BY <5>2, <5>4
      <4> QED
        BY <4>2, <4>3
    <3> QED
      BY <2>1, <2>4, <3>4 DEF AreaInv, Writing, ErasedWell, Low, High, LastRec
  <2> QED
    BY <2>2, <2>3, <2>4
<1>6. CASE file_loaded \/ start_chunk \/ collect_byte \/ write_mem
  <2>1. /\ UNCHANGED <<line, addr, erased>>
        /\ pc \in {"load", "chunk", "collect"} /\ pc' \in {"chunk", "collect", "next"}
    BY <1>6 DEF file_loaded, start_chunk, collect_byte, write_mem, Goto
  <2> QED
    BY <2>1 DEF AreaInv, Writing, ErasedWell, Low, High, LastRec
<1>7. CASE Done \/ UNCHANGED vars
  BY <1>7 DEF Done, vars, AreaInv, Writing, Scanned, ErasedWell, Low, High, LastRec
<1> QED
  BY <1>1, <1>2, <1>3, <1>4, <1>5, <1>6, <1>7 DEF Next

LEMMA AreaSafe ==
  ASSUME WellFormed, Format = "s19", NEW Limit \in Nat, NEW offset \in Int,
         Translates(Limit, offset), TypeInv, PacketsInv, LinesInv(Limit), AreaInv(offset)
  PROVE  ErasureCoversWrites /\ ErasesItsFileOnly
<1>1. ASSUME line.cmd = "write-file", NEW k \in 1..Len(writes)
      PROVE  Covers(erased, writes[k])
  <2>1. /\ writes[k] \in Chunks /\ Holds(writes[k])
        /\ pc \in {"chunk", "collect", "next"}
    <3>1. writes \in Seq(Chunks) /\ writes # <<>>
      BY <1>1 DEF TypeInv, TypeOK
    <3> QED
      BY <3>1, ElementOf DEF TypeInv, TypeOK, PacketsInv
  <2>2. Writing /\ ErasedWell(offset)
        /\ \A j \in 1..Len(addr) : Low(offset) <= addr[j] /\ addr[j] < High(offset)
    BY <1>1, <2>1 DEF AreaInv, Writing
  <2> DEFINE w == writes[k]
  <2>3. w.at \in Int /\ w.from \in Nat \ {0} /\ w.len \in Nat /\ w.len >= 1
        /\ w.from + w.len <= Len(addr) + 1 /\ addr \in Seq(Int)
    BY <2>1 DEF Chunks, Holds, TypeInv, TypeOK
  <2>4. addr[w.from + 0] = w.at + 0 /\ addr[w.from + (w.len - 1)] = w.at + (w.len - 1)
    <3>1. 0 \in 0..(w.len - 1) /\ w.len - 1 \in 0..(w.len - 1)
      BY <2>3
    <3> QED
      BY <2>1, <3>1 DEF Holds
  <2>5. w.from + 0 \in 1..Len(addr) /\ w.from + (w.len - 1) \in 1..Len(addr)
    <3>1. Len(addr) \in Nat
      BY <2>3
    <3> QED
      BY <2>3, <3>1, PlacesWithin
  <2>6. Low(offset) <= w.at + 0 /\ w.at + (w.len - 1) < High(offset)
    BY <2>2, <2>4, <2>5
  <2>7. /\ erased.at = Low(offset) /\ erased.at + erased.len > High(offset) + 4
        /\ erased.at \in Int /\ erased.len \in Int
    BY <2>2, WriteFileAssumption DEF ErasedWell, TypeInv, TypeOK
  <2>8. High(offset) \in Int
    <3>1. Len(line.recs) \in 1..Len(line.recs)
      BY <2>2 DEF LinesInv, GoodFile, Writing, TypeInv, TypeOK, Lines
    <3>2. LastRec.at \in Nat /\ LastRec.len \in Nat
      BY <2>2, <3>1, RecordFacts DEF LastRec
    <3> QED
      BY <3>2 DEF High
  <2> HIDE DEF w
  <2>9. Covers(erased, w)
    <3>1. erased.at <= w.at
      BY <2>3, <2>6, <2>7
    <3>2. /\ w.at \in Int /\ w.len \in Int
          /\ erased.at \in Int /\ erased.len \in Int
      BY <2>3, <2>7
    <3>3. w.at + (w.len - 1) < High(offset) /\ erased.at + erased.len > High(offset) + 4
      BY <2>6, <2>7
    <3>4. w.at + w.len <= erased.at + erased.len
      BY <2>8, <3>2, <3>3, WithinErased
    <3> QED
      BY <3>1, <3>4 DEF Covers
  <2> QED
    BY <2>9 DEF w
<1>2. ErasesItsFileOnly
  <2> SUFFICES ASSUME pc = "open", Writing
               PROVE  /\ line.recs # <<>> /\ erased.at = Relocate(line.recs[1].at)
                      /\ erased.at + erased.len
                           <= Relocate(LastRec.at) + LastRec.len + ERASE_MARGIN
    BY DEF ErasesItsFileOnly, Writing
  <2>1. ErasedWell(offset) /\ line.recs # <<>>
    BY DEF AreaInv, LinesInv, GoodFile, Writing
  <2>2. 1 \in 1..Len(line.recs) /\ Len(line.recs) \in 1..Len(line.recs)
    BY <2>1 DEF TypeInv, TypeOK, Lines
  <2>3. Relocate(line.recs[1].at) = Low(offset)
    BY <2>2, RecordFacts DEF Low
  <2>4. /\ Relocate(LastRec.at) = LastRec.at + offset
        /\ LastRec.at \in Nat /\ LastRec.len \in Nat
    BY <2>2, RecordFacts DEF LastRec
  <2>5. Relocate(LastRec.at) + LastRec.len = High(offset)
    BY <2>4 DEF High
  <2> QED
    BY <2>1, <2>3, <2>5 DEF ErasedWell
<1> QED
  BY <1>1, <1>2 DEF ErasureCoversWrites

LEMMA AreaInvariant ==
  ASSUME WellFormed, Format = "s19", NEW Limit \in Nat, NEW offset \in Int,
         Translates(Limit, offset), GoodScripts(Limit)
  PROVE  Spec => [](ErasureCoversWrites /\ ErasesItsFileOnly)
<1> DEFINE IInv == TypeInv /\ PacketsInv /\ LinesInv(Limit) /\ AreaInv(offset)
<1>1. Init => IInv
  <2>1. Init => PacketsInv /\ AreaInv(offset)
    BY DEF Init, NoLine, PacketsInv, AreaInv, Writing
  <2> QED
    BY <2>1, InitType, LinesStep
<1>2. IInv /\ [Next]_vars => IInv'
  BY StepType, PacketsStep, LinesStep, AreaStep
<1>3. IInv => ErasureCoversWrites /\ ErasesItsFileOnly
  BY AreaSafe
<1> QED
  BY <1>1, <1>2, <1>3, PTL DEF Spec

\* Every byte that write-file writes from an s19 file lies in the area it erased
\* before: for every sorted file and every address_offset that translates it.
THEOREM ErasureCovers ==
  ASSUME WellFormed, Format = "s19", NEW Limit \in Nat, NEW offset \in Int,
         Translates(Limit, offset), GoodScripts(Limit)
  PROVE  Spec => []ErasureCoversWrites
<1>1. Spec => [](ErasureCoversWrites /\ ErasesItsFileOnly)
  BY AreaInvariant
<1> QED
  BY <1>1, PTL

\* And that area starts with the file and ends at most 20 bytes after it.
THEOREM ErasureIsTight ==
  ASSUME WellFormed, Format = "s19", NEW Limit \in Nat, NEW offset \in Int,
         Translates(Limit, offset), GoodScripts(Limit)
  PROVE  Spec => []ErasesItsFileOnly
<1>1. Spec => [](ErasureCoversWrites /\ ErasesItsFileOnly)
  BY AreaInvariant
<1> QED
  BY <1>1, PTL
=============================================================================
