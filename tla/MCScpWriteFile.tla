--------------------------- MODULE MCScpWriteFile ---------------------------
(* Instances of ScpWriteFile for TLC: scripts of one or two lines, files of *)
(* at most two records, sorted by address and disjoint, that are adjacent, *)
(* a few bytes apart or far from each other.                               *)
EXTENDS ScpWriteFile, Bitwise

Rec(a, n) == [at |-> a, len |-> n]

Firsts  == {Rec(a, n) : a \in {0, 3}, n \in {0, 1, 8, 12, 17}}
Seconds == {Rec(a, n) : a \in {20, 21, 64}, n \in {0, 3, 16}}

SortedFiles ==
  {<<r>> : r \in Firsts} \cup {<<r, s>> : r \in Firsts, s \in Seconds}

Line(c, recs)  == [cmd |-> c, found |-> TRUE, recs |-> recs]
Missing(c)     == [cmd |-> c, found |-> FALSE, recs |-> <<>>]
EraseData(n)   == Line("erase-data", <<Rec(32, n)>>)

FileLines == {Line(c, f) : c \in {"write-file", "write-only", "verify-file"},
                           f \in SortedFiles}
Followers == {Line("write-file", <<Rec(20, 3)>>), Line("write-only", <<Rec(40, 4)>>),
              Missing("write-file"), Missing("verify-file"), EraseData(20)}

MCScripts ==
  {<<x>> : x \in FileLines} \cup {<<x, y>> : x \in FileLines, y \in Followers}
    \cup {<<y, x>> : x \in {Line("write-file", f) : f \in SortedFiles}, y \in Followers}

MCLongRecord == {<<Line("write-file", <<Rec(64, 300)>>)>>}

\* address_offset = 0, and an offset whose bits are above those of the image.
MCIdentity(a) == a
MCOffset(a)   == a ^^ 512
=============================================================================
