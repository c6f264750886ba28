-------------------------- MODULE SerialSenderProofs --------------------------
(***************************************************************************)
(* What holds of every run of serial_sender, on a chip that was reset, over*)
(* a line that loses, damages and delays packets, for any sessions, command*)
(* lines and number of packets lost: the lemmas that the theorems about the*)
(* programs that start such runs rest on, and at the end the theorems about*)
(* the player itself, with the detection of its device: it is never more   *)
(* than one command ahead of what it has seen confirmed, it reports success*)
(* only of the bootloader, and each run is a replay in the sense of module *)
(* ScpReplay.                                                              *)
(*                                                                         *)
(* The invariant, SenderInv, relates where the program is in the list of   *)
(* packets, where the bootloader is in the conversation, and what is in    *)
(* flight between them.  Until the connection is accepted the host may have*)
(* asked for it any number of times (Unconnected).  From then on each side *)
(* has processed a prefix of the conversation, and the channels hold what  *)
(* the other has not, less what was lost and with what was said too often  *)
(* before it (Following).  After a refusal the host waits for a response   *)
(* that never comes (GivenUp).                                             *)
(***************************************************************************)
EXTENDS UsbDetect, WellFoundedInduction, SequenceTheorems, FiniteSetTheorems, TLAPS

-----------------------------------------------------------------------------
(* Induction over the natural numbers, stated on sets.                     *)

NatLess == OpToRel(<, Nat)

\* Every non-empty set of natural numbers has a least element.
LEMMA LeastNatural ==
  ASSUME NEW T, T \subseteq Nat, T # {}
  PROVE  \E x \in T : \A y \in T : x <= y
<1>1. \A x, y \in Nat : <<x, y>> \in NatLess <=> x < y
  BY DEF NatLess, OpToRel
<1>2. IsWellFoundedOn(NatLess, Nat)
  BY NatLessThanWellFounded, Zenon DEF NatLess
<1>3. PICK x \in T : \A y \in T : ~ (<<y, x>> \in NatLess)
  BY <1>2, WFMin, Zenon
<1>4. ASSUME NEW y \in T PROVE x <= y
  <2>1. x \in Nat /\ y \in Nat /\ ~ (y < x)
    BY <1>1, <1>3, Zenon
  <2> QED
    BY <2>1
<1> QED
  BY <1>4

\* A set that contains 0 and every successor of its elements up to N contains 0..N.
LEMMA IntervalInduction ==
  ASSUME NEW N \in Nat, NEW T, 0 \in T,
         \A n \in 0..(N - 1) : n \in T => n + 1 \in T
  PROVE  \A n \in 0..N : n \in T
<1> DEFINE Missing == {n \in 0..N : n \notin T}
<1> SUFFICES ASSUME Missing # {} PROVE FALSE
  OBVIOUS
<1>1. PICK m \in Missing : \A y \in Missing : m <= y
  <2>1. Missing \subseteq Nat
    OBVIOUS
  <2> QED
    BY <2>1, LeastNatural
<1>2. m # 0 /\ m - 1 \in 0..(N - 1) /\ m - 1 \notin Missing
  BY <1>1
<1> QED
  BY <1>1, <1>2

-----------------------------------------------------------------------------
(* The commands of a conversation.                                         *)

\* One step of RequestsUpTo, from those of the first n - 1 packets.
WithPacket(l, g, n) ==
  IF l[n].name = "request" THEN Append(g[n - 1], l[n].cmd) ELSE g[n - 1]

\* g is RequestsUpTo(l) as far as m.
Approximates(l, g, m) ==
  g = [n \in 0..m |-> IF n = 0 THEN <<>> ELSE WithPacket(l, g, n)]

\* A function that obeys the recursion up to m can be continued to m + 1.
LEMMA ApproximationGrows ==
  ASSUME NEW l, NEW m \in Nat, NEW g, Approximates(l, g, m)
  PROVE  \E h : Approximates(l, h, m + 1)
<1> DEFINE h == [n \in 0..(m + 1) |-> IF n \in 0..m THEN g[n] ELSE WithPacket(l, g, n)]
<1>1. \A n \in 0..m : g[n] = IF n = 0 THEN <<>> ELSE WithPacket(l, g, n)
  BY Zenon DEF Approximates
<1>2. \A n \in 1..(m + 1) : WithPacket(l, h, n) = WithPacket(l, g, n)
  <2> TAKE n \in 1..(m + 1)
  <2>1. n - 1 \in 0..m /\ n - 1 \in 0..(m + 1)
    OBVIOUS
  <2>2. h[n - 1] = g[n - 1]
    BY <2>1
  <2> QED
    BY <2>2 DEF WithPacket
<1>3. \A n \in 0..(m + 1) : h[n] = IF n = 0 THEN <<>> ELSE WithPacket(l, h, n)
  <2> TAKE n \in 0..(m + 1)
  <2>1. CASE n = 0
    BY <2>1, <1>1
  <2>2. CASE n # 0
    <3>1. n \in 1..(m + 1)
      BY <2>2
    <3>2. h[n] = WithPacket(l, g, n)
      BY <3>1, <1>1
    <3> QED
      BY <3>1, <3>2, <1>2, <2>2, Zenon
  <2> QED
    BY <2>1, <2>2
<1>4. h = [n \in 0..(m + 1) |-> h[n]]
  BY Zenon
<1>5. Approximates(l, h, m + 1)
  <2> HIDE DEF h
  <2> QED
    BY <1>3, <1>4, Zenon DEF Approximates
<1> QED
  BY <1>5, Zenon

\* RequestsUpTo is the function that its recursive definition describes.
LEMMA RequestsUnfold ==
  ASSUME NEW l, Len(l) \in Nat
  PROVE  /\ Conv!RequestsUpTo(l)[0] = <<>>
         /\ \A n \in 1..Len(l) :
              Conv!RequestsUpTo(l)[n] = WithPacket(l, Conv!RequestsUpTo(l), n)
<1> DEFINE T == {m \in Nat : \E g : Approximates(l, g, m)}
<1>1. 0 \in T
  <2> DEFINE g == [n \in 0..0 |-> <<>>]
  <2>1. Approximates(l, g, 0)
    BY DEF Approximates
  <2> QED
    BY <2>1
<1>2. \A n \in 0..(Len(l) - 1) : n \in T => n + 1 \in T
  BY ApproximationGrows
<1>3. Len(l) \in T
  <2> HIDE DEF T
  <2>1. \A n \in 0..Len(l) : n \in T
    BY <1>1, <1>2, IntervalInduction, Zenon
  <2> QED
    BY <2>1
<1>4. \E g : Approximates(l, g, Len(l))
  BY <1>3
<1>5. Approximates(l, Conv!RequestsUpTo(l), Len(l))
  BY <1>4, Zenon DEF Conv!RequestsUpTo, Approximates, WithPacket
<1> QED
  <2> DEFINE R == Conv!RequestsUpTo(l)
  <2>1. \A n \in 0..Len(l) : R[n] = IF n = 0 THEN <<>> ELSE WithPacket(l, R, n)
    BY <1>5, Zenon DEF Approximates
  <2> HIDE DEF R
  <2>2. R[0] = <<>> /\ \A n \in 1..Len(l) : R[n] = WithPacket(l, R, n)
    BY <2>1
  <2> QED
    BY <2>2 DEF R

\* The commands that the packets of l carry, those that are none included.
CmdsOf(l) == {l[k].cmd : k \in 1..Len(l)}

\* The commands asked for so far are a sequence of commands.
LEMMA RequestsType ==
  ASSUME NEW l, Len(l) \in Nat
  PROVE  \A n \in 0..Len(l) : Conv!RequestsUpTo(l)[n] \in Seq(CmdsOf(l))
<1> DEFINE R == Conv!RequestsUpTo(l)
           T == {n \in 0..Len(l) : R[n] \in Seq(CmdsOf(l))}
<1>1. R[0] = <<>> /\ \A n \in 1..Len(l) : R[n] = WithPacket(l, R, n)
  BY RequestsUnfold
<1> HIDE DEF R
<1>2. 0 \in T
  <2>1. <<>> \in Seq(CmdsOf(l))
    OBVIOUS
  <2>2. R[0] \in Seq(CmdsOf(l))
    BY <1>1, <2>1, Zenon
  <2> QED
    BY <2>2
<1>3. ASSUME NEW n \in 0..(Len(l) - 1), n \in T
      PROVE  n + 1 \in T
  <2>1. n + 1 \in 1..Len(l) /\ (n + 1) - 1 = n /\ n + 1 \in 0..Len(l)
    OBVIOUS
  <2>0. R[n] \in Seq(CmdsOf(l))
    BY <1>3
  <2>2. l[n + 1].cmd \in CmdsOf(l)
    BY <2>1 DEF CmdsOf
  <2>3. R[n + 1] = IF l[n + 1].name = "request" THEN Append(R[n], l[n + 1].cmd) ELSE R[n]
    BY <1>1, <2>1, Zenon DEF WithPacket
  <2>4. R[n + 1] \in Seq(CmdsOf(l))
    BY <2>0, <2>2, <2>3, AppendProperties
  <2> QED
    BY <2>1, <2>4
<1>4. \A n \in 0..Len(l) : n \in T
  <2> HIDE DEF T
  <2> QED
    BY <1>2, <1>3, IntervalInduction
<1> QED
  BY <1>4 DEF R

\* s is a prefix of t.
Extends(t, s) == Len(s) <= Len(t) /\ \A i \in 1..Len(s) : t[i] = s[i]

\* The commands among the first packets begin those among more packets.
LEMMA RequestsGrow ==
  ASSUME NEW l, Len(l) \in Nat, NEW m \in 0..Len(l), NEW n \in m..Len(l)
  PROVE  Extends(Conv!RequestsUpTo(l)[n], Conv!RequestsUpTo(l)[m])
<1> DEFINE R == Conv!RequestsUpTo(l)
           T == {k \in 0..(Len(l) - m) : Extends(R[m + k], R[m])}
<1>1. \A k \in 1..Len(l) : R[k] = WithPacket(l, R, k)
  BY RequestsUnfold
<1>2. \A k \in 0..Len(l) : R[k] \in Seq(CmdsOf(l))
  BY RequestsType
<1> HIDE DEF R
<1>3. 0 \in T
  BY DEF Extends
<1>4. ASSUME NEW k \in 0..((Len(l) - m) - 1), k \in T
      PROVE  k + 1 \in T
  <2>1. /\ m + k \in 0..Len(l) /\ m + k + 1 \in 1..Len(l)
        /\ m + (k + 1) = m + k + 1 /\ (m + k + 1) - 1 = m + k
        /\ k + 1 \in 0..(Len(l) - m)
    OBVIOUS
  <2>2. R[m + k + 1] = IF l[m + k + 1].name = "request"
                         THEN Append(R[m + k], l[m + k + 1].cmd) ELSE R[m + k]
    BY <1>1, <2>1, Zenon DEF WithPacket
  <2>3. l[m + k + 1].cmd \in CmdsOf(l)
    BY <2>1 DEF CmdsOf
  <2>4. R[m + k] \in Seq(CmdsOf(l)) /\ R[m] \in Seq(CmdsOf(l))
    BY <1>2, <2>1
  <2>5. Extends(R[m + k], R[m])
    BY <1>4
  <2>6. Extends(R[m + k + 1], R[m])
    BY <2>2, <2>3, <2>4, <2>5 DEF Extends
  <2> QED
    BY <2>1, <2>6
<1>5. \A k \in 0..(Len(l) - m) : k \in T
  <2> HIDE DEF T
  <2>1. Len(l) - m \in Nat
    OBVIOUS
  <2> QED
    BY <1>3, <1>4, <2>1, IntervalInduction
<1>6. n - m \in 0..(Len(l) - m) /\ m + (n - m) = n
  OBVIOUS
<1>7. Extends(R[m + (n - m)], R[m])
  BY <1>5, <1>6
<1> QED
  BY <1>6, <1>7 DEF R

-----------------------------------------------------------------------------
(* The session being replayed.                                             *)

\* Who speaks when, in a conversation that was closed.
LEMMA Turns ==
  ASSUME NEW l, Conv!Complete(l)
  PROVE  /\ Len(l) \in Nat /\ Len(l) > 4 /\ l # <<>>
         /\ l[1].from = "host" /\ l[2].from = "bl" /\ l[3].from = "host"
         /\ \A n \in 1..Len(l) : l[n].from \in {"host", "bl"}
         /\ \A n \in 1..(Len(l) - 1) :
              l[n + 1].from = l[n].from <=> l[n].name = "ack"
         /\ \A n \in 1..(Len(l) - 1) : l[n].name = "ack" => l[n + 1].name # "ack"
         /\ \A n \in 1..Len(l) : l[n].name \notin {"junk", "error"}
<1>1. l \in Seq({l[n] : n \in DOMAIN l})
  BY DEF Conv!Complete
<1>2. Len(l) \in Nat /\ Len(l) > 4 /\ l # <<>>
  BY <1>1 DEF Conv!Complete
<1>3. \A n \in 1..Len(l) : l[n].from \in {"host", "bl"} /\ l[n].name \in Conv!Names
  BY DEF Conv!Complete, Conv!Sides
<1>4. \A n \in 1..(Len(l) - 1) : Conv!MayFollow(l[n + 1], l[n])
  BY DEF Conv!Complete
<1>5. \A n \in 1..(Len(l) - 1) :
        /\ l[n].name = "ack" => l[n + 1].from = l[n].from /\ l[n + 1].name # "ack"
        /\ l[n].name # "ack" => l[n + 1].from # l[n].from
  <2> TAKE n \in 1..(Len(l) - 1)
  <2>1. n \in 1..Len(l) /\ n + 1 \in 1..Len(l)
    BY <1>2
  <2> QED
    BY <1>3, <1>4, <2>1 DEF Conv!MayFollow, Conv!Other
<1>6. l[1].from = "host" /\ l[1].name # "ack" /\ l[2].name # "ack"
  BY DEF Conv!Complete
<1>7. l[2].from = "bl" /\ l[3].from = "host"
  <2>1. 1 \in 1..(Len(l) - 1) /\ 2 \in 1..(Len(l) - 1)
        /\ 1 + 1 = 2 /\ 2 + 1 = 3 /\ 2 \in 1..Len(l) /\ 3 \in 1..Len(l)
    BY <1>2
  <2> QED
    BY <1>3, <1>5, <1>6, <2>1
<1>8. \A n \in 1..Len(l) : l[n].name \notin {"junk", "error"}
  BY <1>3 DEF Conv!Names
<1> QED
  BY <1>2, <1>3, <1>5, <1>6, <1>7, <1>8

\* A side says at most two packets in a row, of which only the first acknowledges.
ShortRuns(l, side) ==
  \A m \in 1..Len(l) : \A n \in m..Len(l) :
    (\A k \in m..n : l[k].from = side)
      => /\ n <= m + 1
         /\ n = m + 1 => l[m].name = "ack" /\ l[n].name # "ack"

LEMMA Runs ==
  ASSUME NEW l, Conv!Complete(l), NEW side
  PROVE  ShortRuns(l, side)
<1> USE DEF ShortRuns
<1> TAKE m \in 1..Len(l)
<1> TAKE n \in m..Len(l)
<1> HAVE \A k \in m..n : l[k].from = side
<1>1. Len(l) \in Nat /\ m \in Nat /\ n \in Nat /\ m <= n /\ n <= Len(l) /\ 1 <= m
  BY Turns
<1>2. \A k \in 1..(Len(l) - 1) : l[k + 1].from = l[k].from <=> l[k].name = "ack"
  BY Turns
<1>3. \A k \in 1..(Len(l) - 1) : l[k].name = "ack" => l[k + 1].name # "ack"
  BY Turns
<1>4. CASE n = m
  BY <1>1, <1>4
<1>5. CASE n > m
  <2>1. m \in m..n /\ m + 1 \in m..n /\ m \in 1..(Len(l) - 1)
    BY <1>1, <1>5
  <2>2. l[m].from = side /\ l[m + 1].from = side
    BY <2>1
  <2>3. l[m].name = "ack" /\ l[m + 1].name # "ack"
    BY <1>2, <1>3, <2>1, <2>2, Zenon
  <2>4. ~ (n > m + 1)
    <3> SUFFICES ASSUME n > m + 1 PROVE FALSE
      OBVIOUS
    <3>1. m + 1 + 1 \in m..n /\ m + 1 \in 1..(Len(l) - 1)
      BY <1>1
    <3>2. l[m + 1 + 1].from = side
      BY <3>1
    <3> QED
      BY <1>2, <2>2, <2>3, <3>1, <3>2, Zenon
  <2> QED
    BY <1>1, <2>3, <2>4, <1>5
<1> QED
  BY <1>1, <1>4, <1>5

\* The bootloader answers until it is the host's turn, or the session is over.
Silent(l, m) == m = Len(l) \/ l[m + 1].from = "host"

\* What the bootloader says after the first n packets ends where the host speaks.
LEMMA AnswersEnd ==
  ASSUME Conv!Complete(session), NEW n \in 1..Len(session)
  PROVE  \E m \in n..Len(session) :
           /\ AnswersAfter(n) = SubSeq(session, n + 1, m)
           /\ Silent(session, m)
           /\ \A k \in (n + 1)..m : session[k].from = "bl"
<1> DEFINE T == {m \in n..Len(session) : Silent(session, m)}
           P(m) == Silent(session, m) /\ \A k \in n..(m - 1) : ~Silent(session, k)
           last == CHOOSE m \in n..Len(session) : P(m)
<1>1. Len(session) \in Nat /\ \A k \in 1..Len(session) : session[k].from \in {"host", "bl"}
  BY Turns
<1>2. PICK m \in T : \A y \in T : m <= y
  <2>1. T \subseteq Nat /\ Len(session) \in T
    BY <1>1 DEF Silent
  <2> HIDE DEF T
  <2> QED
    BY <2>1, LeastNatural
<1>3. m \in n..Len(session) /\ P(m)
  <2>1. \A k \in n..(m - 1) : k \in n..Len(session) /\ ~ (m <= k)
    BY <1>1, <1>2
  <2>2. \A k \in n..(m - 1) : ~Silent(session, k)
    BY <1>2, <2>1, Zenon
  <2> QED
    BY <1>2, <2>2
<1>4. last \in n..Len(session) /\ P(last)
  <2> HIDE DEF P
  <2> QED
    BY <1>3, Zenon
<1>5. AnswersAfter(n) = SubSeq(session, n + 1, last)
  BY DEF AnswersAfter, Silent
<1> HIDE DEF last
<1>6. \A k \in (n + 1)..last : session[k].from = "bl"
  <2> TAKE k \in (n + 1)..last
  <2>1. k - 1 \in n..(last - 1) /\ (k - 1) + 1 = k /\ k \in 1..Len(session)
    BY <1>1, <1>4
  <2>2. ~Silent(session, k - 1)
    BY <1>4, <2>1
  <2> QED
    BY <1>1, <2>1, <2>2 DEF Silent
<1> QED
  BY <1>4, <1>5, <1>6

\* Every request is acknowledged and then answered, by the bootloader.
LEMMA RequestAnswered ==
  ASSUME NEW l, Conv!Complete(l), NEW r \in 1..Len(l), l[r].name = "request"
  PROVE  /\ r \in 3..(Len(l) - 2)
         /\ l[r].from = "host"
         /\ l[r + 1].name = "ack" /\ l[r + 1].from = "bl"
         /\ l[r + 2].name = "response" /\ l[r + 2].from = "bl"
<1>1. Len(l) \in Nat /\ r \in Nat /\ 1 <= r /\ r <= Len(l)
  BY Turns
<1>2. r \in 3..Len(l)
  <2>1. r # 1 /\ r # 2
    BY DEF Conv!Complete
  <2> QED
    BY <1>1, <2>1
<1>3. l[r].from = "host" /\ r + 1 < Len(l) /\ l[r + 1].name = "ack"
  BY <1>2 DEF Conv!Complete
<1>4. /\ r \in 1..(Len(l) - 1) /\ r + 1 \in 1..(Len(l) - 1) /\ r + 2 \in 3..Len(l)
      /\ (r + 1) + 1 = r + 2 /\ (r + 2) - 2 = r
      /\ r + 1 \in 1..Len(l) /\ r + 2 \in 1..Len(l)
  BY <1>1, <1>2, <1>3
<1>5. l[r + 2].name = "response"
  <2>1. \A n \in 3..Len(l) : l[n].name = "response" <=> l[n - 2].name = "request"
    BY DEF Conv!Complete
  <2> QED
    BY <1>4, <2>1
<1>6. l[r + 1].from # l[r].from /\ l[r + 2].from = l[r + 1].from
  <2>1. \A n \in 1..(Len(l) - 1) : l[n + 1].from = l[n].from <=> l[n].name = "ack"
    BY Turns
  <2>2. l[r + 1].from = l[r].from <=> l[r].name = "ack"
    BY <1>4, <2>1
  <2>3. l[(r + 1) + 1].from = l[r + 1].from <=> l[r + 1].name = "ack"
    BY <1>4, <2>1, Zenon
  <2> QED
    BY <1>3, <1>4, <2>2, <2>3
<1>7. l[r + 1].from \in {"host", "bl"}
  BY <1>4, Turns
<1> QED
  BY <1>1, <1>2, <1>3, <1>4, <1>5, <1>6, <1>7

-----------------------------------------------------------------------------
(* Packets in flight.                                                      *)

\* What is left of c once its first n packets were taken.
After(c, n) == SubSeq(c, n + 1, Len(c))

\* d is what is left of c once packets were taken, lost or damaged.
Thinned(d, c) ==
  \E e \in [1..Len(d) -> 1..Len(c)] :
    /\ \A i, j \in 1..Len(d) : i < j => e[i] < e[j]
    /\ \A i \in 1..Len(d) : d[i] = c[e[i]] \/ d[i] = Junk

\* What loses nothing is still what it was.
LEMMA ThinnedSame ==
  ASSUME NEW P, NEW c \in Seq(P)
  PROVE  Thinned(c, c)
<1> DEFINE e == [i \in 1..Len(c) |-> i]
<1>1. e \in [1..Len(c) -> 1..Len(c)]
  OBVIOUS
<1>2. /\ \A i, j \in 1..Len(c) : i < j => e[i] < e[j]
      /\ \A i \in 1..Len(c) : c[i] = c[e[i]] \/ c[i] = Junk
  OBVIOUS
<1> QED
  BY <1>1, <1>2, Zenon DEF Thinned

\* Taking the first n packets.
LEMMA ThinnedSuffix ==
  ASSUME NEW P, NEW c \in Seq(P), NEW n \in 0..Len(c)
  PROVE  /\ After(c, n) \in Seq(P)
         /\ Thinned(After(c, n), c)
<1> DEFINE d == After(c, n)
           e == [i \in 1..Len(d) |-> i + n]
<1>1. Len(c) \in Nat /\ n \in Nat /\ n <= Len(c)
  OBVIOUS
<1>2. d \in Seq(P) /\ Len(d) = Len(c) - n /\ \A i \in 1..Len(d) : d[i] = c[i + n]
  BY DEF After
<1> HIDE DEF d
<1>3. e \in [1..Len(d) -> 1..Len(c)]
  BY <1>1, <1>2
<1>4. /\ \A i, j \in 1..Len(d) : i < j => e[i] < e[j]
      /\ \A i \in 1..Len(d) : d[i] = c[e[i]] \/ d[i] = Junk
  BY <1>1, <1>2
<1>5. Thinned(d, c)
  <2> HIDE DEF e
  <2> QED
    BY <1>3, <1>4, Zenon DEF Thinned
<1> QED
  BY <1>2, <1>5 DEF d

\* Losing the head of the second part of a channel, or damaging it.
LEMMA ThinnedMiddle ==
  ASSUME NEW P, NEW a \in Seq(P), NEW b \in Seq(P), b # <<>>
  PROVE  Thinned(a \o Tail(b), a \o b)
<1> DEFINE c == a \o b
           d == a \o Tail(b)
           e == [i \in 1..Len(d) |-> IF i <= Len(a) THEN i ELSE i + 1]
<1>1. /\ Len(a) \in Nat /\ Len(b) \in Nat /\ Len(b) > 0
      /\ Len(c) = Len(a) + Len(b) /\ Len(d) = Len(a) + Len(b) - 1
  OBVIOUS
<1>2. \A i \in 1..Len(d) : d[i] = IF i <= Len(a) THEN c[i] ELSE c[i + 1]
  OBVIOUS
<1> HIDE DEF c, d
<1>3. e \in [1..Len(d) -> 1..Len(c)]
  BY <1>1
<1>4. /\ \A i, j \in 1..Len(d) : i < j => e[i] < e[j]
      /\ \A i \in 1..Len(d) : d[i] = c[e[i]] \/ d[i] = Junk
  BY <1>1, <1>2
<1>5. Thinned(d, c)
  <2> HIDE DEF e
  <2> QED
    BY <1>3, <1>4, Zenon DEF Thinned
<1> QED
  BY <1>5 DEF c, d

\* A channel of which a packet turned into Junk is thinned.
LEMMA ThinnedDamaged ==
  ASSUME NEW P, Junk \in P, NEW a \in Seq(P), NEW b \in Seq(P), b # <<>>
  PROVE  Thinned(a \o (<<Junk>> \o Tail(b)), a \o b)
<1> DEFINE c == a \o b
           d == a \o (<<Junk>> \o Tail(b))
           e == [i \in 1..Len(d) |-> i]
<1> HIDE DEF Junk
<1>1. /\ Len(a) \in Nat /\ Len(b) \in Nat /\ Len(b) > 0
      /\ Len(c) = Len(a) + Len(b) /\ Len(d) = Len(a) + Len(b)
  OBVIOUS
<1>2. \A i \in 1..Len(d) : d[i] = c[i] \/ d[i] = Junk
  OBVIOUS
<1> HIDE DEF c, d
<1>3. e \in [1..Len(d) -> 1..Len(c)]
  BY <1>1
<1>4. /\ \A i, j \in 1..Len(d) : i < j => e[i] < e[j]
      /\ \A i \in 1..Len(d) : d[i] = c[e[i]] \/ d[i] = Junk
  BY <1>1, <1>2
<1>5. Thinned(d, c)
  <2> HIDE DEF e
  <2> QED
    BY <1>3, <1>4, Zenon DEF Thinned
<1> QED
  BY <1>5 DEF c, d

\* The packets of c are stale, or some of those from lo to hi of the conversation l: at
\* most two, an acknowledgement and what comes after it.
InFlight(l, c, stale, lo, hi) ==
  /\ \A i \in 1..Len(c) :
       c[i].name \in stale \/ \E k \in lo..hi : c[i] = l[k]
  /\ \A i, j \in 1..Len(c) :
       i < j /\ c[i].name \notin stale /\ c[j].name \notin stale
         => c[i].name = "ack" /\ c[j].name # "ack"

\* Losing or damaging what is in flight leaves it in flight.
LEMMA InFlightThinned ==
  ASSUME NEW l, NEW P, NEW c \in Seq(P), NEW d \in Seq(P), Thinned(d, c),
         NEW stale, "junk" \in stale, NEW lo, NEW hi, InFlight(l, c, stale, lo, hi)
  PROVE  InFlight(l, d, stale, lo, hi)
<1>1. PICK e \in [1..Len(d) -> 1..Len(c)] :
        /\ \A i, j \in 1..Len(d) : i < j => e[i] < e[j]
        /\ \A i \in 1..Len(d) : d[i] = c[e[i]] \/ d[i] = Junk
  BY DEF Thinned
<1>2. \A i \in 1..Len(d) : e[i] \in 1..Len(c)
  OBVIOUS
<1>3. Junk.name \in stale
  BY DEF Junk, Conv!Packet
<1> HIDE DEF Junk
<1>4. \A i \in 1..Len(d) : d[i].name \notin stale => d[i] = c[e[i]]
  BY <1>1, <1>3
<1>5. \A i \in 1..Len(d) : d[i].name \in stale \/ \E k \in lo..hi : d[i] = l[k]
  BY <1>2, <1>4 DEF InFlight
<1>6. \A i, j \in 1..Len(d) :
        i < j /\ d[i].name \notin stale /\ d[j].name \notin stale
          => d[i].name = "ack" /\ d[j].name # "ack"
  <2> TAKE i, j \in 1..Len(d)
  <2> HAVE i < j /\ d[i].name \notin stale /\ d[j].name \notin stale
  <2>1. /\ e[i] \in 1..Len(c) /\ e[j] \in 1..Len(c) /\ e[i] < e[j]
        /\ d[i] = c[e[i]] /\ d[j] = c[e[j]]
    BY <1>1, <1>2, <1>4
  <2> QED
    BY <2>1 DEF InFlight
<1> QED
  BY <1>5, <1>6 DEF InFlight

\* A stale packet may join what is in flight.
LEMMA InFlightAppend ==
  ASSUME NEW l, NEW P, NEW c \in Seq(P), NEW p \in P, NEW stale, p.name \in stale,
         NEW lo, NEW hi, InFlight(l, c, stale, lo, hi)
  PROVE  InFlight(l, Append(c, p), stale, lo, hi)
<1>1. /\ Len(c) \in Nat /\ Len(Append(c, p)) = Len(c) + 1
      /\ \A i \in 1..(Len(c) + 1) :
           Append(c, p)[i] = IF i <= Len(c) THEN c[i] ELSE p
  OBVIOUS
<1>2. /\ \A i \in 1..(Len(c) + 1) : i # Len(c) + 1 => i \in 1..Len(c)
      /\ \A i \in 1..Len(c) : i <= Len(c) /\ i \in 1..(Len(c) + 1)
  BY <1>1
<1>3. \A i \in 1..(Len(c) + 1) : i \notin 1..Len(c) => Append(c, p)[i].name \in stale
  BY <1>1
<1>4. \A i \in 1..Len(c) : Append(c, p)[i] = c[i]
  BY <1>1
<1> QED
  BY <1>1, <1>2, <1>3, <1>4 DEF InFlight

\* Once the next packet of the session is taken, the others in flight follow it.
LEMMA InFlightTaken ==
  ASSUME NEW l, NEW P, NEW c \in Seq(P), NEW stale, NEW lo \in Int, NEW hi \in Int,
         InFlight(l, c, stale, lo, hi),
         NEW n \in 1..Len(c), c[1].name \notin stale, c[1] = l[lo]
  PROVE  InFlight(l, After(c, n), stale, lo + 1, hi)
<1> DEFINE d == After(c, n)
<1>1. Len(c) \in Nat /\ n \in Nat /\ 1 <= n /\ n <= Len(c)
  OBVIOUS
<1>2. Len(d) = Len(c) - n /\ \A i \in 1..Len(d) : d[i] = c[i + n]
  BY DEF After
<1> HIDE DEF d
<1>3. \A i \in 1..Len(d) : i + n \in 1..Len(c) /\ 1 < i + n /\ 1 \in 1..Len(c)
  BY <1>1, <1>2
<1>4. \A i \in 1..Len(d) : d[i].name \notin stale => d[i].name # "ack" /\ l[lo].name = "ack"
  <2> TAKE i \in 1..Len(d)
  <2> HAVE d[i].name \notin stale
  <2>1. i + n \in 1..Len(c) /\ 1 < i + n /\ 1 \in 1..Len(c) /\ d[i] = c[i + n]
    BY <1>2, <1>3
  <2>2. c[1].name = "ack" /\ c[i + n].name # "ack"
    BY <2>1, Zenon DEF InFlight
  <2> QED
    BY <2>1, <2>2
<1>5. \A i \in 1..Len(d) : d[i].name \in stale \/ \E k \in (lo + 1)..hi : d[i] = l[k]
  <2> TAKE i \in 1..Len(d)
  <2> SUFFICES ASSUME d[i].name \notin stale PROVE \E k \in (lo + 1)..hi : d[i] = l[k]
    OBVIOUS
  <2>1. i + n \in 1..Len(c) /\ d[i] = c[i + n]
    BY <1>2, <1>3
  <2>2. PICK k \in lo..hi : d[i] = l[k]
    BY <2>1, Zenon DEF InFlight
  <2>3. k # lo
    BY <1>4, <2>2
  <2> QED
    BY <2>2, <2>3
<1>6. \A i, j \in 1..Len(d) :
        i < j /\ d[i].name \notin stale /\ d[j].name \notin stale
          => d[i].name = "ack" /\ d[j].name # "ack"
  <2> TAKE i, j \in 1..Len(d)
  <2> HAVE i < j /\ d[i].name \notin stale /\ d[j].name \notin stale
  <2>1. /\ i + n \in 1..Len(c) /\ j + n \in 1..Len(c) /\ i + n < j + n
        /\ d[i] = c[i + n] /\ d[j] = c[j + n]
    BY <1>1, <1>2, <1>3
  <2> QED
    BY <2>1, Zenon DEF InFlight
<1> QED
  BY <1>5, <1>6 DEF InFlight, d

\* The next packet of the session is said after acknowledgements only.
LEMMA InFlightSaid ==
  ASSUME NEW l, NEW P, NEW c \in Seq(P), NEW stale, NEW lo \in Int, NEW hi \in Int,
         InFlight(l, c, stale, lo, hi), lo <= hi + 1, l[hi + 1] \in P,
         \A k \in lo..hi : l[k].name = "ack" /\ l[hi + 1].name # "ack"
  PROVE  InFlight(l, Append(c, l[hi + 1]), stale, lo, hi + 1)
<1> DEFINE d == Append(c, l[hi + 1])
<1>1. /\ Len(c) \in Nat /\ Len(d) = Len(c) + 1
      /\ \A i \in 1..Len(d) : d[i] = IF i <= Len(c) THEN c[i] ELSE l[hi + 1]
  OBVIOUS
<1> HIDE DEF d
<1>2. \A i \in 1..Len(d) : i = Len(c) + 1 \/ i \in 1..Len(c)
  BY <1>1
<1>3. \A i \in 1..Len(c) : i \in 1..Len(d) /\ d[i] = c[i]
  BY <1>1
<1>4. d[Len(c) + 1] = l[hi + 1] /\ hi + 1 \in lo..(hi + 1)
  BY <1>1
<1>5. \A i \in 1..Len(c) : c[i].name \notin stale => \E k \in lo..hi : c[i] = l[k]
  BY Zenon DEF InFlight
<1>6. \A k \in lo..hi : k \in lo..(hi + 1)
  OBVIOUS
<1>7. \A i \in 1..Len(d) : d[i].name \in stale \/ \E k \in lo..(hi + 1) : d[i] = l[k]
  BY <1>2, <1>3, <1>4, <1>5, <1>6, Zenon
<1>8. \A i, j \in 1..Len(d) :
        i < j /\ d[i].name \notin stale /\ d[j].name \notin stale
          => d[i].name = "ack" /\ d[j].name # "ack"
  <2> TAKE i, j \in 1..Len(d)
  <2> HAVE i < j /\ d[i].name \notin stale /\ d[j].name \notin stale
  <2>1. i \in 1..Len(c)
    BY <1>1
  <2>2. CASE j \in 1..Len(c)
    BY <1>3, <2>1, <2>2, Zenon DEF InFlight
  <2>3. CASE j = Len(c) + 1
    <3>1. PICK k \in lo..hi : d[i] = l[k]
      BY <1>3, <1>5, <2>1
    <3> QED
      BY <1>4, <2>3, <3>1
  <2> QED
    BY <1>2, <2>2, <2>3
<1> QED
  BY <1>7, <1>8, Zenon DEF InFlight, d

\* What the bootloader answers follows packets that are all stale.
LEMMA InFlightAnswers ==
  ASSUME Conv!Complete(session), NEW P, NEW c \in Seq(P), NEW stale,
         \A i \in 1..Len(c) : c[i].name \in stale,
         NEW n \in 1..Len(session), NEW m \in n..Len(session),
         \A k \in (n + 1)..m : session[k].from = "bl",
         SubSeq(session, n + 1, m) \in Seq(P)
  PROVE  InFlight(session, c \o SubSeq(session, n + 1, m), stale, n + 1, m)
<1> DEFINE a == SubSeq(session, n + 1, m)
           d == c \o a
<1>0. \A x \in 1..Len(session) : \A y \in x..Len(session) :
        (\A k \in x..y : session[k].from = "bl")
          => /\ y <= x + 1
             /\ y = x + 1 => session[x].name = "ack" /\ session[y].name # "ack"
  <2>1. ShortRuns(session, "bl")
    BY Runs, Zenon
  <2> QED
    BY <2>1, Zenon DEF ShortRuns
<1>1. Len(session) \in Nat /\ n \in Nat /\ m \in Nat /\ 1 <= n /\ n <= m /\ m <= Len(session)
  BY Turns
<1>2. Len(a) = m - n /\ \A i \in 1..(m - n) : a[i] = session[n + i]
  BY <1>1
<1> HIDE DEF a
<1>3. /\ Len(c) \in Nat /\ Len(d) = Len(c) + (m - n)
      /\ \A i \in 1..Len(c) : d[i] = c[i]
      /\ \A i \in 1..Len(d) : i > Len(c) => d[i] = a[i - Len(c)]
  BY <1>1, <1>2 DEF a
<1> HIDE DEF d
<1>4. \A i \in 1..Len(d) : d[i].name \notin stale =>
        i > Len(c) /\ (n + i) - Len(c) \in (n + 1)..m /\ d[i] = session[(n + i) - Len(c)]
  <2> TAKE i \in 1..Len(d)
  <2> HAVE d[i].name \notin stale
  <2>1. i > Len(c)
    BY <1>3
  <2>2. i - Len(c) \in 1..(m - n) /\ n + (i - Len(c)) = (n + i) - Len(c)
        /\ (n + i) - Len(c) \in (n + 1)..m
    BY <1>1, <1>3, <2>1
  <2> QED
    BY <1>2, <1>3, <2>1, <2>2
<1>5. \A i, j \in 1..Len(d) :
        i < j /\ d[i].name \notin stale /\ d[j].name \notin stale
          => d[i].name = "ack" /\ d[j].name # "ack"
  <2> TAKE i, j \in 1..Len(d)
  <2> HAVE i < j /\ d[i].name \notin stale /\ d[j].name \notin stale
  <2> DEFINE x == (n + i) - Len(c)
             y == (n + j) - Len(c)
  <2>1. x \in (n + 1)..m /\ y \in (n + 1)..m /\ d[i] = session[x] /\ d[j] = session[y]
    BY <1>4
  <2>2. x < y
    BY <1>1, <1>3
  <2> HIDE DEF x, y
  <2>3. /\ x \in 1..Len(session) /\ y \in x..Len(session)
        /\ \A k \in x..y : k \in (n + 1)..m
    BY <1>1, <2>1, <2>2
  <2>4. \A k \in x..y : session[k].from = "bl"
    BY <2>3
  <2>5. y <= x + 1 /\ (y = x + 1 => session[x].name = "ack" /\ session[y].name # "ack")
    BY <2>3, <2>4, <1>0, Zenon
  <2>6. x \in Int /\ y \in Int
    BY <1>1, <2>1
  <2> QED
    BY <2>1, <2>2, <2>5, <2>6
<1>6. InFlight(session, d, stale, n + 1, m)
  BY <1>4, <1>5 DEF InFlight
<1> QED
  BY <1>6 DEF d, a

-----------------------------------------------------------------------------
(* The invariant of a run.                                                 *)

\* What the bootloader said and the host has not read, in either buffer.
Answers == to_host \o bl_out

\* All that can travel in a session.
OnTheLine == {session[n] : n \in 1..Len(session)} \cup {Junk, Error}

\* What the host may find in its input buffer without waiting for it.
StaleAnswers == {"junk", "error", "connection_reply", "hello_reply"}

\* What the bootloader may find before what it waits for.
StaleCommands == {"junk", "connection_request"}

\* There is nothing to replay.
Nothing ==
  /\ session = <<>>
  /\ pos = 1 /\ bl_pos = 0
  /\ executed = <<>>
  /\ to_bl = <<>> /\ Answers = <<>>

\* The connection has been requested, any number of times, and not yet accepted.
Unconnected ==
  /\ pos = 1
  /\ bl_pos \in {0, 2}
  /\ ~refused
  /\ executed = <<>>
  /\ Answers # <<>> => bl_pos = 2
  /\ InFlight(session, to_bl, StaleCommands, 1, 0)
  /\ InFlight(session, Answers, {"junk", "connection_reply"}, 1, 0)

\* Each side is where the other is in the conversation, but for what is in flight:
\* what only one of them has processed was all said by the other.
Following ==
  /\ pos > 2 /\ bl_pos > 1
  /\ ~refused
  /\ Silent(session, bl_pos)
  /\ \A k \in (bl_pos + 1)..(pos - 1) : session[k].from = "host"
  /\ \A k \in pos..bl_pos : session[k].from = "bl"
  /\ executed = Conv!RequestsUpTo(session)[bl_pos]
  /\ InFlight(session, to_bl, StaleCommands, bl_pos + 1, pos - 1)
  /\ InFlight(session, Answers, StaleAnswers, pos, bl_pos)

\* The request r was refused: the host waits in vain for its response.
RefusedAt(r) ==
  /\ session[r].name = "request"
  /\ pos \in {r + 1, r + 2}
  /\ executed = Conv!RequestsUpTo(session)[r - 1]
  /\ InFlight(session, Answers, StaleAnswers, r + 1, r + 1)

\* The session ended at a command that the bootloader refused.
GivenUp ==
  /\ refused
  /\ bl_pos = Len(session)
  /\ \E r \in 1..Len(session) : RefusedAt(r)

\* A session is being replayed, in one of the three situations.
Replaying == Conv!Complete(session) /\ (Unconnected \/ Following \/ GivenUp)

\* Where the program is, by the packet it is at.
Control ==
  /\ pc \in {"open_port", "parse"} => pos = 1
  /\ pc \in {"first_try", "con_reply"} => listed > 2 /\ pos = 1
  /\ pc = "packets" => listed > 2 /\ pos > 2
  /\ pc = "exited" /\ return_code = 0 => listed > 5 /\ pos = listed + 1

\* What the channels hold.
LineType == to_bl \in Seq(OnTheLine) /\ bl_out \in Seq(OnTheLine) /\ to_host \in Seq(OnTheLine)

\* The invariant.
SenderInv ==
  /\ options \in Options
  /\ TypeOK
  /\ LineType
  /\ Nothing \/ Replaying
  /\ Control
-----------------------------------------------------------------------------
(* What happens to the channels.                                           *)

\* Only packets of the session and those that stand for damage or refusal travel.
LEMMA AnswersType ==
  ASSUME LineType
  PROVE  /\ Answers \in Seq(OnTheLine)
         /\ Len(Answers) = Len(to_host) + Len(bl_out)
         /\ to_host # <<>> => Answers # <<>> /\ Head(to_host) = Answers[1]
  BY DEF LineType, Answers

\* Damage and refusal may travel in any session.
LEMMA JunkOnTheLine == Junk \in OnTheLine /\ Error \in OnTheLine
  BY DEF OnTheLine

\* A suffix of the first channel, followed by the second, is a suffix of the two.
LEMMA SuffixOfBoth ==
  \A P : \A a, b \in Seq(P) : \A n \in 1..Len(a) :
    /\ n \in 1..Len(a \o b)
    /\ After(a, n) \in Seq(P)
    /\ After(a, n) \o b = After(a \o b, n)
<1> TAKE P
<1> TAKE a, b \in Seq(P)
<1> TAKE n \in 1..Len(a)
<1> DEFINE d == After(a, n)
           c == a \o b
           e == After(c, n)
<1>1. /\ Len(a) \in Nat /\ Len(b) \in Nat /\ n \in Nat /\ 1 <= n /\ n <= Len(a)
      /\ c \in Seq(P) /\ Len(c) = Len(a) + Len(b)
      /\ \A i \in 1..Len(c) : c[i] = IF i <= Len(a) THEN a[i] ELSE b[i - Len(a)]
  OBVIOUS
<1>2. d \in Seq(P) /\ Len(d) = Len(a) - n /\ \A i \in 1..Len(d) : d[i] = a[i + n]
  BY DEF After
<1> HIDE DEF c, d
<1>3. e \in Seq(P) /\ Len(e) = Len(c) - n /\ \A i \in 1..Len(e) : e[i] = c[i + n]
  BY <1>1 DEF After
<1>4. /\ d \o b \in Seq(P) /\ Len(d \o b) = Len(d) + Len(b)
      /\ \A i \in 1..(Len(d) + Len(b)) :
           (d \o b)[i] = IF i <= Len(d) THEN d[i] ELSE b[i - Len(d)]
  BY <1>2, ConcatProperties
<1>5. Len(d \o b) = Len(e) /\ Len(d) + Len(b) = Len(e)
  BY <1>1, <1>2, <1>3, <1>4
<1>6. \A i \in 1..Len(e) : (d \o b)[i] = e[i]
  <2> TAKE i \in 1..Len(e)
  <2>1. i \in Nat /\ i + n \in 1..Len(c) /\ i \in 1..(Len(d) + Len(b))
    BY <1>1, <1>3, <1>5
  <2>2. e[i] = IF i + n <= Len(a) THEN a[i + n] ELSE b[i + n - Len(a)]
    BY <1>1, <1>3, <2>1
  <2>3. (d \o b)[i] = IF i <= Len(d) THEN d[i] ELSE b[i - Len(d)]
    BY <1>4, <2>1
  <2>4. CASE i <= Len(d)
    <3>1. i \in 1..Len(d) /\ i + n <= Len(a)
      BY <1>1, <1>2, <2>1, <2>4
    <3>2. d[i] = a[i + n]
      BY <1>2, <3>1
    <3> QED
      BY <2>2, <2>3, <2>4, <3>1, <3>2
  <2>5. CASE i > Len(d)
    <3>1. ~ (i <= Len(d)) /\ ~ (i + n <= Len(a)) /\ i - Len(d) = i + n - Len(a)
      BY <1>1, <1>2, <2>1, <2>5
    <3> QED
      BY <2>2, <2>3, <3>1
  <2>6. i <= Len(d) \/ i > Len(d)
    BY <1>1, <1>2, <2>1
  <2> QED
    BY <2>4, <2>5, <2>6, Zenon
<1>7. d \o b = e
  <2> HIDE DEF e
  <2> QED
    BY <1>3, <1>4, <1>5, <1>6, SeqEqual
<1>8. n \in 1..Len(c)
  BY <1>1
<1> QED
  BY <1>2, <1>7, <1>8 DEF c, d

\* Reading takes the first packets of what is on its way to the host.
LEMMA ReadTakes ==
  ASSUME LineType, to_host # <<>>, readPacket
  PROVE  /\ to_host' \in Seq(OnTheLine) /\ bl_out' \in Seq(OnTheLine)
         /\ \E n \in 1..Len(Answers) : Answers' = After(Answers, n)
<1>1. \E n \in 1..Len(to_host) : to_host' = After(to_host, n)
  <2>1. CASE to_host' = Tail(to_host)
    <3>1. 1 \in 1..Len(to_host) /\ Tail(to_host) = SubSeq(to_host, 1 + 1, Len(to_host))
      BY DEF LineType
    <3> QED
      BY <2>1, <3>1 DEF After
  <2> QED
    BY <2>1 DEF readPacket, After
<1>2. bl_out' = bl_out
  BY DEF readPacket
<1>3. PICK n \in 1..Len(to_host) : to_host' = After(to_host, n)
  BY <1>1
<1> HIDE DEF OnTheLine
<1>4. /\ to_host \in Seq(OnTheLine) /\ bl_out \in Seq(OnTheLine)
  BY DEF LineType
<1> HIDE DEF LineType
<1>5. /\ n \in 1..Len(to_host \o bl_out)
      /\ After(to_host, n) \in Seq(OnTheLine)
      /\ After(to_host, n) \o bl_out = After(to_host \o bl_out, n)
  <2>1. n \in 1..Len(to_host) /\ to_host \in Seq(OnTheLine) /\ bl_out \in Seq(OnTheLine)
    BY <1>3, <1>4
  <2>2. n \in 1..Len(to_host \o bl_out)
    BY <2>1, SuffixOfBoth, Zenon
  <2>3. After(to_host, n) \in Seq(OnTheLine)
    BY <2>1, SuffixOfBoth, Zenon
  <2>4. After(to_host, n) \o bl_out = After(to_host \o bl_out, n)
    BY <2>1, SuffixOfBoth
  <2> QED
    BY <2>2, <2>3, <2>4
<1>6. n \in 1..Len(Answers) /\ Answers' = After(Answers, n)
  BY <1>2, <1>3, <1>5 DEF Answers
<1> QED
  BY <1>2, <1>3, <1>4, <1>5, <1>6

\* A read that times out, the delivery and the loss of a packet thin what is in flight.
LEMMA TimeoutThins ==
  ASSUME LineType, ReadTimeout
  PROVE  /\ to_host' \in Seq(OnTheLine) /\ bl_out' \in Seq(OnTheLine)
         /\ Thinned(Answers', Answers)
<1>1. to_host = <<>> /\ to_host' = <<>>
  BY DEF ReadTimeout
<1>2. Junk \in OnTheLine /\ to_host \in Seq(OnTheLine) /\ bl_out \in Seq(OnTheLine)
  BY JunkOnTheLine DEF LineType
<1> HIDE DEF OnTheLine, Junk
<1>3. CASE bl_out' = bl_out
  <2>1. Answers' = Answers /\ Answers \in Seq(OnTheLine)
    BY <1>1, <1>2, <1>3 DEF Answers
  <2> QED
    BY <1>1, <1>2, <1>3, <2>1, ThinnedSame
<1>4. CASE bl_out # <<>> /\ bl_out' = <<Junk>> \o Tail(bl_out)
  <2>1. Thinned(to_host \o (<<Junk>> \o Tail(bl_out)), to_host \o bl_out)
    BY <1>2, <1>4, ThinnedDamaged
  <2>2. bl_out' \in Seq(OnTheLine) /\ to_host' = to_host
    BY <1>1, <1>2, <1>4
  <2> QED
    BY <1>2, <1>4, <2>1, <2>2 DEF Answers
<1> QED
  BY <1>3, <1>4 DEF ReadTimeout

\* Delivery moves an answer from one buffer to the next.
LEMMA DeliverKeeps ==
  ASSUME LineType, Deliver
  PROVE  /\ to_host' \in Seq(OnTheLine) /\ bl_out' \in Seq(OnTheLine)
         /\ Answers' = Answers
<1> HIDE DEF OnTheLine
<1>1. /\ to_host \in Seq(OnTheLine) /\ bl_out \in Seq(OnTheLine) /\ bl_out # <<>>
      /\ to_host' = Append(to_host, Head(bl_out)) /\ bl_out' = Tail(bl_out)
  BY DEF LineType, Deliver
<1>2. /\ Append(to_host, Head(bl_out)) \in Seq(OnTheLine) /\ Tail(bl_out) \in Seq(OnTheLine)
      /\ Append(to_host, Head(bl_out)) \o Tail(bl_out) = to_host \o bl_out
  BY <1>1
<1> QED
  BY <1>1, <1>2 DEF Answers

\* A loss thins one channel and leaves the other.
LEMMA LoseThins ==
  ASSUME LineType, Lose
  PROVE  /\ LineType'
         /\ Thinned(to_bl', to_bl) /\ Thinned(Answers', Answers)
<1>1. /\ to_bl \in Seq(OnTheLine) /\ to_host \in Seq(OnTheLine)
      /\ bl_out \in Seq(OnTheLine) /\ Answers \in Seq(OnTheLine) /\ Junk \in OnTheLine
  BY JunkOnTheLine, AnswersType DEF LineType
<1>2. OnTheLine' = OnTheLine /\ to_host' = to_host
  BY DEF OnTheLine, Lose
<1> HIDE DEF OnTheLine, Junk
<1>3. CASE to_bl # <<>> /\ to_bl' = Tail(to_bl) /\ bl_out' = bl_out
  <2>1. Tail(to_bl) \in Seq(OnTheLine) /\ <<>> \o to_bl = to_bl
        /\ <<>> \o Tail(to_bl) = Tail(to_bl) /\ <<>> \in Seq(OnTheLine)
    BY <1>1, <1>3
  <2>2. Thinned(<<>> \o Tail(to_bl), <<>> \o to_bl)
    BY <1>1, <1>3, <2>1, ThinnedMiddle
  <2>3. Answers' = Answers
    BY <1>2, <1>3 DEF Answers
  <2> QED
    BY <1>1, <1>2, <1>3, <2>1, <2>2, <2>3, ThinnedSame DEF LineType
<1>4. CASE bl_out # <<>> /\ bl_out' = Tail(bl_out) /\ to_bl' = to_bl
  <2>1. Thinned(to_host \o Tail(bl_out), to_host \o bl_out)
    BY <1>1, <1>4, ThinnedMiddle
  <2>2. Tail(bl_out) \in Seq(OnTheLine)
    BY <1>1, <1>4
  <2> QED
    BY <1>1, <1>2, <1>4, <2>1, <2>2, ThinnedSame DEF LineType, Answers
<1>5. CASE bl_out # <<>> /\ bl_out' = <<Junk>> \o Tail(bl_out) /\ to_bl' = to_bl
  <2>1. Thinned(to_host \o (<<Junk>> \o Tail(bl_out)), to_host \o bl_out)
    BY <1>1, <1>5, ThinnedDamaged
  <2>2. <<Junk>> \o Tail(bl_out) \in Seq(OnTheLine)
    BY <1>1, <1>5
  <2> QED
    BY <1>1, <1>2, <1>5, <2>1, <2>2, ThinnedSame DEF LineType, Answers
<1> QED
  BY <1>3, <1>4, <1>5 DEF Lose

\* Whatever thins what is in flight, and moves nobody, keeps the two sides in step.
LEMMA ThinStep ==
  ASSUME LineType, LineType', Replaying,
         Thinned(to_bl', to_bl), Thinned(Answers', Answers),
         UNCHANGED <<session, bl_pos, executed, refused, pos>>
  PROVE  Replaying'
<1>1. /\ Answers \in Seq(OnTheLine) /\ to_bl \in Seq(OnTheLine)
  BY AnswersType DEF LineType
<1>2. /\ Answers' \in Seq(OnTheLine) /\ to_bl' \in Seq(OnTheLine)
  <2>1. OnTheLine' = OnTheLine
    BY DEF OnTheLine
  <2> HIDE DEF OnTheLine
  <2> QED
    BY <2>1 DEF LineType, Answers
<1>3. Answers = <<>> => Answers' = <<>>
  <2>1. PICK e \in [1..Len(Answers') -> 1..Len(Answers)] : TRUE
    BY DEF Thinned
  <2> HIDE DEF OnTheLine
  <2>2. Answers = <<>> => Len(Answers) = 0 /\ 1..Len(Answers) = {}
    OBVIOUS
  <2>3. Len(Answers') \in Nat /\ (Answers' # <<>> => 1 \in 1..Len(Answers'))
    <3> DEFINE d == Answers'
    <3>1. d \in Seq(OnTheLine)
      BY <1>2
    <3> HIDE DEF d
    <3>2. Len(d) \in Nat /\ (d # <<>> => 1 \in 1..Len(d))
      BY <3>1
    <3> QED
      BY <3>2 DEF d
  <2> QED
    BY <2>1, <2>2, <2>3
<1>4. ASSUME NEW stale, "junk" \in stale, NEW lo, NEW hi
      PROVE  /\ InFlight(session, to_bl, stale, lo, hi)
                  => InFlight(session, to_bl', stale, lo, hi)
             /\ InFlight(session, Answers, stale, lo, hi)
                  => InFlight(session, Answers', stale, lo, hi)
  <2>1. ASSUME InFlight(session, to_bl, stale, lo, hi)
        PROVE  InFlight(session, to_bl', stale, lo, hi)
    BY <1>1, <1>2, <1>4, <2>1, InFlightThinned
  <2>2. ASSUME InFlight(session, Answers, stale, lo, hi)
        PROVE  InFlight(session, Answers', stale, lo, hi)
    BY <1>1, <1>2, <1>4, <2>2, InFlightThinned
  <2> QED
    BY <2>1, <2>2
<1>5. Conv!Complete(session)'
  BY DEF Replaying, Conv!Complete
<1>6. CASE Unconnected
  BY <1>3, <1>4, <1>5, <1>6 DEF Unconnected, Replaying, StaleCommands
<1>7. CASE Following
  BY <1>4, <1>5, <1>7 DEF Following, Replaying, StaleCommands, StaleAnswers
<1>8. CASE GivenUp
  BY <1>4, <1>5, <1>8 DEF GivenUp, RefusedAt, Replaying, StaleAnswers
<1> QED
  BY <1>6, <1>7, <1>8 DEF Replaying

-----------------------------------------------------------------------------
(* The steps of the bootloader.                                            *)

\* Packets that are no requests ask for no command.
LEMMA NoRequests ==
  ASSUME NEW l, Len(l) \in Nat, NEW n \in 0..Len(l), NEW m \in n..Len(l),
         \A k \in (n + 1)..m : l[k].name # "request"
  PROVE  Conv!RequestsUpTo(l)[m] = Conv!RequestsUpTo(l)[n]
<1> DEFINE R == Conv!RequestsUpTo(l)
           T == {k \in 0..(m - n) : R[n + k] = R[n]}
<1>1. \A k \in 1..Len(l) : R[k] = WithPacket(l, R, k)
  BY RequestsUnfold
<1> HIDE DEF R
<1>2. n \in Nat /\ m \in Nat /\ n <= m /\ m <= Len(l) /\ m - n \in Nat
  OBVIOUS
<1>3. 0 \in T
  BY <1>2
<1>4. ASSUME NEW k \in 0..((m - n) - 1), k \in T
      PROVE  k + 1 \in T
  <2>1. /\ n + k + 1 \in 1..Len(l) /\ n + k + 1 \in (n + 1)..m /\ k + 1 \in 0..(m - n)
        /\ (n + k + 1) - 1 = n + k /\ n + (k + 1) = n + k + 1
    BY <1>2
  <2>2. R[n + k + 1] = R[n + k]
    BY <1>1, <2>1, Zenon DEF WithPacket
  <2> QED
    BY <1>4, <2>1, <2>2
<1>5. \A k \in 0..(m - n) : k \in T
  <2> HIDE DEF T
  <2> QED
    BY <1>2, <1>3, <1>4, IntervalInduction
<1>6. m - n \in 0..(m - n) /\ n + (m - n) = m
  BY <1>2
<1>7. R[n + (m - n)] = R[n]
  BY <1>5, <1>6
<1> QED
  BY <1>6, <1>7 DEF R

\* The bootloader takes the first of the packets on their way to it.
LEMMA Taken ==
  ASSUME LineType, to_bl # <<>>
  PROVE  /\ 1 \in 1..Len(to_bl) /\ Head(to_bl) = to_bl[1]
         /\ Tail(to_bl) = After(to_bl, 1)
         /\ Tail(to_bl) \in Seq(OnTheLine) /\ Thinned(Tail(to_bl), to_bl)
<1>1. to_bl \in Seq(OnTheLine)
  BY DEF LineType
<1> HIDE DEF OnTheLine
<1>2. /\ 1 \in 1..Len(to_bl) /\ 1 \in 0..Len(to_bl) /\ Head(to_bl) = to_bl[1]
  BY <1>1
<1>3. Tail(to_bl) = After(to_bl, 1)
  BY <1>1, TailIsSubSeq DEF After
<1>4. After(to_bl, 1) \in Seq(OnTheLine) /\ Thinned(After(to_bl, 1), to_bl)
  BY <1>1, <1>2, ThinnedSuffix
<1> QED
  BY <1>2, <1>3, <1>4

\* The packet that the bootloader expects was the next that the host said.
LEMMA ExpectedIsNext ==
  ASSUME LineType, Conv!Complete(session), Following, to_bl # <<>>, Expected,
         bl_pos \in Nat, pos \in Nat
  PROVE  /\ bl_pos + 1 \in 3..Len(session) /\ bl_pos + 1 <= pos - 1
         /\ session[bl_pos + 1].from = "host"
         /\ InFlight(session, Tail(to_bl), StaleCommands, bl_pos + 2, pos - 1)
         /\ \A i \in 1..Len(Answers) : Answers[i].name \in StaleAnswers
<1>1. Len(session) \in Nat /\ bl_pos + 1 \in 3..Len(session)
  BY Turns DEF Expected
<1>2. /\ 1 \in 1..Len(to_bl) /\ to_bl[1] = session[bl_pos + 1] /\ to_bl \in Seq(OnTheLine)
      /\ Tail(to_bl) = After(to_bl, 1)
  BY Taken DEF Expected, LineType
<1>3. session[bl_pos + 1].name \notin StaleCommands
  <2>1. bl_pos + 1 \in 1..Len(session)
    BY <1>1
  <2>2. session[bl_pos + 1].name # "connection_request"
    BY <1>1 DEF Conv!Complete
  <2>3. session[bl_pos + 1].name # "junk"
    BY <2>1, Turns
  <2> QED
    BY <2>2, <2>3 DEF StaleCommands
<1>4. \E k \in (bl_pos + 1)..(pos - 1) : to_bl[1] = session[k]
  BY <1>2, <1>3 DEF Following, InFlight
<1>5. bl_pos + 1 <= pos - 1 /\ bl_pos + 1 \in (bl_pos + 1)..(pos - 1)
  BY <1>4
<1>6. session[bl_pos + 1].from = "host"
  BY <1>5 DEF Following
<1>7. InFlight(session, After(to_bl, 1), StaleCommands, (bl_pos + 1) + 1, pos - 1)
  <2>1. InFlight(session, to_bl, StaleCommands, bl_pos + 1, pos - 1)
    BY DEF Following
  <2>2. /\ bl_pos + 1 \in Int /\ pos - 1 \in Int
        /\ to_bl[1].name \notin StaleCommands
    BY <1>2, <1>3
  <2> QED
    BY <1>2, <2>1, <2>2, InFlightTaken
<1>8. (bl_pos + 1) + 1 = bl_pos + 2
  OBVIOUS
<1>9. \A i \in 1..Len(Answers) : Answers[i].name \in StaleAnswers
  <2>1. pos > bl_pos
    BY <1>5
  <2>2. InFlight(session, Answers, StaleAnswers, pos, bl_pos)
    BY DEF Following
  <2> QED
    BY <2>1, <2>2 DEF InFlight
<1> QED
  <2> HIDE DEF OnTheLine, StaleAnswers, StaleCommands
  <2>1. InFlight(session, Tail(to_bl), StaleCommands, bl_pos + 2, pos - 1)
    BY <1>2, <1>7, <1>8
  <2> QED
    BY <1>1, <1>5, <1>6, <1>9, <2>1

\* The bootloader executes the next packet and says what the conversation has it say.
LEMMA FollowStep ==
  ASSUME LineType, Conv!Complete(session), Following, bl_pos \in Nat, pos \in Nat,
         BlReceive, BlFollow, UNCHANGED pos
  PROVE  /\ bl_pos' \in 0..Len(session) /\ bl_out' \in Seq(OnTheLine)
         /\ Following'
<1> DEFINE n == bl_pos + 1
           R == Conv!RequestsUpTo(session)
<1>0. /\ Expected /\ to_bl # <<>> /\ to_bl' = Tail(to_bl)
      /\ session' = session /\ to_host' = to_host
  BY DEF BlFollow, BlReceive
<1>1. /\ n \in 3..Len(session) /\ n <= pos - 1 /\ session[n].from = "host"
      /\ InFlight(session, to_bl', StaleCommands, n + 1, pos - 1)
      /\ \A i \in 1..Len(Answers) : Answers[i].name \in StaleAnswers
  <2>1. bl_pos + 2 = n + 1
    OBVIOUS
  <2> QED
    BY <1>0, <2>1, ExpectedIsNext
<1>2. Len(session) \in Nat /\ n \in 1..Len(session)
  BY <1>1, Turns
<1> HIDE DEF n
<1>3. PICK m \in n..Len(session) :
        /\ AnswersAfter(n) = SubSeq(session, n + 1, m)
        /\ Silent(session, m)
        /\ \A k \in (n + 1)..m : session[k].from = "bl"
  BY <1>2, AnswersEnd
<1>4. m \in Nat /\ n <= m /\ m <= Len(session) /\ n \in Nat /\ 3 <= n
  BY <1>1, <1>2, <1>3
<1>5. /\ SubSeq(session, n + 1, m) \in Seq(OnTheLine)
      /\ Len(SubSeq(session, n + 1, m)) = m - n
  <2>1. \A i \in (n + 1)..m : session[i] \in OnTheLine
    BY <1>2, <1>4 DEF OnTheLine
  <2>2. n + 1 \in Int /\ m \in Int /\ (IF n + 1 <= m THEN m - (n + 1) + 1 ELSE 0) = m - n
    BY <1>4
  <2> QED
    BY <2>1, <2>2, SubSeqProperties
<1>6. /\ bl_pos' = m
      /\ bl_out' = bl_out \o SubSeq(session, n + 1, m)
      /\ executed' = IF session[n].name = "request"
                       THEN Append(executed, session[n].cmd) ELSE executed
      /\ refused' = refused
  <2>1. bl_pos' = n + Len(AnswersAfter(n))
    BY DEF BlFollow, n
  <2>2. n + (m - n) = m
    BY <1>4
  <2>3. bl_pos' = m
    BY <1>3, <1>5, <2>1, <2>2
  <2> QED
    BY <1>0, <1>3, <2>3 DEF BlFollow, Expected, n
<1>7. /\ to_host \in Seq(OnTheLine) /\ bl_out \in Seq(OnTheLine) /\ Answers \in Seq(OnTheLine)
  BY AnswersType DEF LineType
<1>8. bl_out' \in Seq(OnTheLine) /\ Answers' = Answers \o SubSeq(session, n + 1, m)
  <2> DEFINE a == SubSeq(session, n + 1, m)
  <2>1. a \in Seq(OnTheLine)
    BY <1>5
  <2> HIDE DEF a, OnTheLine
  <2>2. bl_out \o a \in Seq(OnTheLine)
    BY <1>7, <2>1, ConcatProperties, Zenon
  <2>3. to_host \o (bl_out \o a) = (to_host \o bl_out) \o a
    BY <1>7, <2>1, ConcatAssociative, SMTT(30)
  <2> QED
    BY <1>0, <1>6, <2>2, <2>3 DEF a, Answers
<1>9. InFlight(session, Answers', StaleAnswers, n + 1, m)
  BY <1>1, <1>2, <1>3, <1>5, <1>7, <1>8, InFlightAnswers
<1>10. /\ \A k \in (n + 1)..(pos - 1) : session[k].from = "host"
       /\ \A k \in pos..bl_pos : session[k].from = "bl"
       /\ executed = R[bl_pos]
       /\ pos > 2 /\ ~refused
  BY <1>2 DEF Following, n
<1>11. m = n \/ pos = n + 1
  <2> SUFFICES ASSUME m # n, pos # n + 1 PROVE FALSE
    OBVIOUS
  <2>1. n + 1 \in (n + 1)..m /\ n + 1 \in (n + 1)..(pos - 1)
    BY <1>1, <1>4
  <2> QED
    BY <1>3, <1>10, <2>1
<1>12. /\ \A k \in (m + 1)..(pos - 1) : session[k].from = "host"
       /\ \A k \in pos..m : session[k].from = "bl"
       /\ InFlight(session, to_bl', StaleCommands, m + 1, pos - 1)
       /\ InFlight(session, Answers', StaleAnswers, pos, m)
  <2>1. CASE m = n
    <3>1. pos > m /\ n + 1 > m
      BY <1>1, <1>4, <2>1
    <3>2. InFlight(session, Answers', StaleAnswers, pos, m)
      BY <1>4, <1>9, <3>1 DEF InFlight
    <3> QED
      BY <1>1, <1>10, <2>1, <3>1, <3>2
  <2>2. CASE pos = n + 1
    <3>1. InFlight(session, to_bl', StaleCommands, m + 1, pos - 1)
      <4>1. n + 1 > pos - 1
        BY <1>4, <2>2
      <4>2. \A i \in 1..Len(to_bl') : to_bl'[i].name \in StaleCommands
        BY <1>1, <1>4, <4>1 DEF InFlight
      <4> QED
        BY <4>2 DEF InFlight
    <3>2. \A k \in (m + 1)..(pos - 1) : FALSE
      BY <1>4, <2>2
    <3> QED
      BY <1>3, <1>9, <2>2, <3>1, <3>2
  <2> QED
    BY <1>11, <2>1, <2>2
<1>13. executed' = R[m]
  <2>1. R[n] = WithPacket(session, R, n) /\ n - 1 = bl_pos
    BY <1>2, RequestsUnfold DEF n
  <2>2. executed' = R[n]
    BY <1>6, <1>10, <2>1, Zenon DEF WithPacket
  <2>3. \A k \in (n + 1)..m : session[k].name # "request"
    <3> SUFFICES ASSUME NEW k \in (n + 1)..m, session[k].name = "request" PROVE FALSE
      OBVIOUS
    <3>1. k \in 1..Len(session)
      BY <1>2, <1>4
    <3>2. session[k].from = "host"
      BY <3>1, RequestAnswered
    <3> QED
      BY <1>3, <3>2
  <2>4. R[m] = R[n]
    <3>1. n \in 0..Len(session) /\ m \in n..Len(session)
      BY <1>4
    <3> QED
      BY <1>2, <2>3, <3>1, NoRequests
  <2> QED
    BY <2>2, <2>4
<1>14. Following'
  <2>1. session' = session /\ pos' = pos /\ bl_pos' = m /\ m > 1 /\ refused' = FALSE
    BY <1>0, <1>4, <1>6, <1>10
  <2> QED
    BY <1>3, <1>10, <1>12, <1>13, <2>1 DEF Following, R
<1> QED
  BY <1>4, <1>6, <1>8, <1>14

\* A session that stays the same stays complete.
LEMMA CompleteKept ==
  ASSUME session' = session
  PROVE  Conv!Complete(session)' <=> Conv!Complete(session)
OBVIOUS

\* A request of a command that must not be executed again is the last one followed.
LEMMA RefuseStep ==
  ASSUME LineType, Conv!Complete(session), Following, bl_pos \in Nat, pos \in Nat,
         BlReceive, BlRefuse, UNCHANGED pos
  PROVE  /\ bl_pos' \in 0..Len(session) /\ bl_out' \in Seq(OnTheLine)
         /\ GivenUp'
<1> DEFINE R == Conv!RequestsUpTo(session)
<1>13. PICK r \in Int : r = bl_pos + 1
  OBVIOUS
<1>0. /\ Expected /\ to_bl # <<>> /\ to_bl' = Tail(to_bl)
      /\ session' = session /\ to_host' = to_host /\ pos' = pos
      /\ refused' = TRUE /\ bl_pos' = Len(session) /\ executed' = executed
      /\ session[r].name = "request"
      /\ bl_out' = bl_out \o <<session[r + 1], Error>>
  <2>1. bl_pos + 2 = r + 1 /\ bl_pos + 1 = r
    BY <1>13
  <2> QED
    BY <2>1 DEF BlRefuse, BlReceive, Expected, IsRefused
<1>1. /\ r \in 3..Len(session) /\ r <= pos - 1
      /\ \A i \in 1..Len(Answers) : Answers[i].name \in StaleAnswers
  BY <1>0, <1>13, ExpectedIsNext
<1>2. Len(session) \in Nat /\ r \in 1..Len(session) /\ r - 1 = bl_pos
  BY <1>1, <1>13, Turns
<1>3. /\ \A k \in r..(pos - 1) : session[k].from = "host"
      /\ executed = R[r - 1]
  BY <1>2, <1>13 DEF Following
<1>4. /\ r \in 3..(Len(session) - 2)
      /\ session[r + 1].from = "bl" /\ session[r + 1].name = "ack"
  BY <1>0, <1>2, RequestAnswered
<1>5. pos = r + 1
  <2>1. ~ (r + 1 \in r..(pos - 1))
    BY <1>3, <1>4
  <2> QED
    BY <1>1, <1>2, <2>1
<1>6. /\ session[r + 1] \in OnTheLine /\ Error \in OnTheLine
      /\ <<session[r + 1], Error>> = SubSeq(<<session[r + 1], Error>>, 1, 2)
  <2>1. r + 1 \in 1..Len(session)
    BY <1>2, <1>4
  <2> QED
    BY <2>1, JunkOnTheLine DEF OnTheLine
<1>7. /\ to_host \in Seq(OnTheLine) /\ bl_out \in Seq(OnTheLine) /\ Answers \in Seq(OnTheLine)
  BY AnswersType DEF LineType
<1>8. Error.name \in StaleAnswers
  BY DEF Error, Conv!Packet, StaleAnswers
<1>9. /\ bl_out' \in Seq(OnTheLine)
      /\ Len(Answers') = Len(Answers) + 2
      /\ \A i \in 1..Len(Answers) : Answers'[i] = Answers[i]
      /\ Answers'[Len(Answers) + 1] = session[r + 1]
      /\ Answers'[Len(Answers) + 2] = Error
  <2> DEFINE a == <<session[r + 1], Error>>
  <2>1. a \in Seq(OnTheLine) /\ Len(a) = 2 /\ a[1] = session[r + 1] /\ a[2] = Error
    <3> HIDE DEF OnTheLine, Error
    <3> QED
      BY <1>6
  <2> HIDE DEF a, OnTheLine, Error
  <2>2. /\ bl_out \o a \in Seq(OnTheLine) /\ to_host \o (bl_out \o a) = (to_host \o bl_out) \o a
    <3>1. to_host \in Seq(OnTheLine) /\ bl_out \in Seq(OnTheLine) /\ a \in Seq(OnTheLine)
      BY <1>7, <2>1
    <3> QED
      BY <3>1
  <2>3. Answers' = Answers \o a
    BY <1>0, <2>2 DEF a, Answers
  <2>4. /\ Len(Answers \o a) = Len(Answers) + 2
        /\ \A i \in 1..(Len(Answers) + 2) :
             (Answers \o a)[i] = IF i <= Len(Answers) THEN Answers[i] ELSE a[i - Len(Answers)]
    <3> HIDE DEF Answers
    <3>1. Answers \in Seq(OnTheLine) /\ a \in Seq(OnTheLine)
      BY <1>7, <2>1
    <3>2. /\ Len(Answers \o a) = Len(Answers) + Len(a)
          /\ \A i \in 1..(Len(Answers) + Len(a)) :
               (Answers \o a)[i] = IF i <= Len(Answers) THEN Answers[i] ELSE a[i - Len(Answers)]
      BY <3>1, ConcatProperties
    <3> QED
      BY <2>1, <3>2
  <2> HIDE DEF Answers
  <2>5. Len(Answers) \in Nat
    BY <1>7
  <2> QED
    BY <1>0, <2>1, <2>2, <2>3, <2>4, <2>5 DEF a
<1>10. InFlight(session, Answers', StaleAnswers, r + 1, r + 1)
  <2> DEFINE d == Answers'
             x == Len(Answers)
  <2>1. x \in Nat /\ Len(d) = x + 2
    BY <1>7, <1>9
  <2>2. /\ \A i \in 1..x : d[i].name \in StaleAnswers
        /\ d[x + 1] = session[r + 1] /\ d[x + 2].name \in StaleAnswers
    BY <1>1, <1>8, <1>9
  <2> HIDE DEF d, x
  <2>3. \A i \in 1..Len(d) : d[i].name \notin StaleAnswers => i = x + 1
    <3>1. \A i \in 1..Len(d) : i \in 1..x \/ i = x + 1 \/ i = x + 2
      BY <2>1
    <3> QED
      BY <2>2, <3>1
  <2>4. r + 1 \in (r + 1)..(r + 1)
    BY <1>2
  <2>5. \A i \in 1..Len(d) : d[i].name \in StaleAnswers \/ \E k \in (r + 1)..(r + 1) : d[i] = session[k]
    BY <2>2, <2>3, <2>4
  <2>6. \A i, j \in 1..Len(d) :
          i < j /\ d[i].name \notin StaleAnswers /\ d[j].name \notin StaleAnswers => FALSE
    BY <2>1, <2>3
  <2> QED
    BY <2>5, <2>6, Zenon DEF d, InFlight
<1>11. RefusedAt(r)'
  BY <1>0, <1>3, <1>5, <1>10 DEF RefusedAt, R
<1>12. GivenUp'
  BY <1>0, <1>2, <1>11 DEF GivenUp
<1> QED
  BY <1>0, <1>2, <1>9, <1>12

\* The bootloader answers a connection request for as long as it is not connected.
LEMMA ConnectStep ==
  ASSUME LineType, Conv!Complete(session), Unconnected \/ Following,
         BlReceive, BlConnect, UNCHANGED pos
  PROVE  /\ bl_pos' \in 0..Len(session) /\ bl_out' \in Seq(OnTheLine)
         /\ Replaying'
<1>0. /\ to_bl # <<>> /\ to_bl' = Tail(to_bl) /\ bl_pos \in {0, 2}
      /\ session' = session /\ to_host' = to_host /\ pos' = pos
      /\ refused' = refused /\ bl_pos' = 2 /\ executed' = executed
      /\ bl_out' = Append(bl_out, session[2])
  BY DEF BlConnect, BlReceive, Listening
<1>1. /\ Len(session) \in Nat /\ 2 \in 0..Len(session) /\ 2 \in 1..Len(session)
  BY Turns
<1>2. session[2] \in OnTheLine /\ session[2].name = "connection_reply"
  BY <1>1 DEF OnTheLine, Conv!Complete
<1>3. /\ to_host \in Seq(OnTheLine) /\ bl_out \in Seq(OnTheLine) /\ Answers \in Seq(OnTheLine)
      /\ to_bl \in Seq(OnTheLine)
  BY AnswersType DEF LineType
<1>4. bl_out' \in Seq(OnTheLine) /\ Answers' = Append(Answers, session[2])
  <2> HIDE DEF OnTheLine
  <2>1. Append(bl_out, session[2]) \in Seq(OnTheLine)
        /\ to_host \o Append(bl_out, session[2]) = Append(to_host \o bl_out, session[2])
    BY <1>2, <1>3
  <2> QED
    BY <1>0, <2>1 DEF Answers
<1>5. ASSUME NEW lo, NEW hi, NEW stale, "connection_reply" \in stale,
             InFlight(session, Answers, stale, lo, hi)
      PROVE  InFlight(session, Answers', stale, lo, hi)
  BY <1>2, <1>3, <1>4, <1>5, InFlightAppend
<1>6. ASSUME NEW lo, NEW hi, InFlight(session, to_bl, StaleCommands, lo, hi)
      PROVE  InFlight(session, to_bl', StaleCommands, lo, hi)
  <2>1. Thinned(to_bl', to_bl) /\ to_bl' \in Seq(OnTheLine)
    BY <1>0, Taken
  <2>2. "junk" \in StaleCommands
    BY DEF StaleCommands
  <2> QED
    BY <1>3, <1>6, <2>1, <2>2, InFlightThinned
<1>7. Conv!Complete(session)'
  BY <1>0, CompleteKept
<1>8. CASE Unconnected
  <2>1. /\ InFlight(session, to_bl', StaleCommands, 1, 0)
        /\ InFlight(session, Answers', {"junk", "connection_reply"}, 1, 0)
    <3>1. /\ InFlight(session, to_bl, StaleCommands, 1, 0)
          /\ InFlight(session, Answers, {"junk", "connection_reply"}, 1, 0)
      BY <1>8 DEF Unconnected
    <3> QED
      BY <1>5, <1>6, <3>1
  <2> QED
    <3>1. Unconnected'
      BY <1>0, <1>8, <2>1 DEF Unconnected
    <3> QED
      BY <1>0, <1>1, <1>4, <1>7, <3>1 DEF Replaying
<1>9. CASE Following
  <2>1. bl_pos = 2
    BY <1>0, <1>9 DEF Following
  <2>2. /\ InFlight(session, to_bl', StaleCommands, bl_pos + 1, pos - 1)
        /\ InFlight(session, Answers', StaleAnswers, pos, bl_pos)
    <3>1. /\ InFlight(session, to_bl, StaleCommands, bl_pos + 1, pos - 1)
          /\ InFlight(session, Answers, StaleAnswers, pos, bl_pos)
      BY <1>9 DEF Following
    <3>2. "connection_reply" \in StaleAnswers
      BY DEF StaleAnswers
    <3> QED
      BY <1>5, <1>6, <3>1, <3>2
  <2>3. bl_pos' = bl_pos
    BY <1>0, <2>1
  <2> QED
    <3>1. Following'
      BY <1>0, <1>9, <2>2, <2>3 DEF Following
    <3> QED
      BY <1>0, <1>1, <1>4, <1>7, <3>1 DEF Replaying
<1> QED
  BY <1>0, <1>1, <1>4, <1>8, <1>9

\* Whatever the bootloader receives, the two sides stay in step.
LEMMA BlReceiveStep ==
  ASSUME LineType, Replaying, bl_pos \in 0..Len(session), pos \in Nat,
         BlReceive, UNCHANGED pos
  PROVE  /\ bl_pos' \in 0..Len(session) /\ LineType'
         /\ Replaying'
<1>0. /\ to_bl # <<>> /\ to_bl' = Tail(to_bl) /\ session' = session /\ to_host' = to_host
      /\ OnTheLine' = OnTheLine
  BY DEF BlReceive, OnTheLine
<1>1. Conv!Complete(session) /\ Conv!Complete(session)' /\ Len(session) \in Nat /\ Len(session) > 4
      /\ bl_pos \in Nat
  <2>1. Conv!Complete(session) /\ Conv!Complete(session)'
    BY <1>0 DEF Replaying, Conv!Complete
  <2> QED
    BY <2>1, Turns
<1>2. /\ 1 \in 1..Len(to_bl) /\ Head(to_bl) = to_bl[1]
      /\ to_bl' \in Seq(OnTheLine) /\ Thinned(to_bl', to_bl) /\ to_host \in Seq(OnTheLine)
  BY <1>0, Taken DEF LineType
<1>3. CASE BlIgnore
  <2>1. UNCHANGED <<session, bl_pos, executed, refused, pos>> /\ Answers' = Answers
        /\ bl_out' = bl_out
    BY <1>0, <1>3 DEF BlIgnore, Answers
  <2>2. LineType' /\ Answers \in Seq(OnTheLine)
    BY <1>0, <1>2, <2>1, AnswersType DEF LineType
  <2>3. Thinned(Answers', Answers)
    BY <2>1, <2>2, ThinnedSame
  <2>4. Replaying'
    BY <1>2, <2>1, <2>2, <2>3, ThinStep
  <2> QED
    BY <2>1, <2>2, <2>4
<1>4. CASE ~BlIgnore
  <2>1. bl_pos < Len(session)
    BY <1>1, <1>4 DEF BlReceive, BlConnect, BlFollow, BlRefuse, Listening, Expected
  <2>2. ~GivenUp
    BY <1>1, <2>1 DEF GivenUp
  <2>3. CASE BlConnect
    <3>1. Unconnected \/ Following
      BY <2>2 DEF Replaying
    <3>2. bl_pos' \in 0..Len(session) /\ bl_out' \in Seq(OnTheLine) /\ Replaying'
      BY <1>1, <2>3, <3>1, ConnectStep
    <3> QED
      BY <1>0, <1>2, <3>2 DEF LineType
  <2>4. CASE BlFollow \/ BlRefuse
    <3>1. Expected
      BY <2>4 DEF BlFollow, BlRefuse
    <3>2. ~Unconnected
      <4> SUFFICES ASSUME Unconnected PROVE FALSE
        OBVIOUS
      <4>1. bl_pos = 2 /\ to_bl[1] = session[3]
        BY <1>2, <3>1 DEF Unconnected, Expected
      <4>2. to_bl[1].name \in StaleCommands
        BY <1>2 DEF Unconnected, InFlight
      <4> QED
        BY <1>1, <4>1, <4>2 DEF StaleCommands, Conv!Complete
    <3>3. Following
      BY <2>2, <3>2 DEF Replaying
    <3>4. CASE BlFollow
      <4>1. bl_pos' \in 0..Len(session) /\ bl_out' \in Seq(OnTheLine) /\ Following'
        BY <1>1, <3>3, <3>4, FollowStep
      <4> QED
        BY <1>0, <1>1, <1>2, <4>1 DEF LineType, Replaying
    <3>5. CASE BlRefuse
      <4>1. bl_pos' \in 0..Len(session) /\ bl_out' \in Seq(OnTheLine) /\ GivenUp'
        BY <1>1, <3>3, <3>5, RefuseStep
      <4> QED
        BY <1>0, <1>1, <1>2, <4>1 DEF LineType, Replaying
    <3> QED
      BY <2>4, <3>4, <3>5
  <2> QED
    BY <1>4, <2>3, <2>4 DEF BlReceive
<1> QED
  BY <1>3, <1>4

-----------------------------------------------------------------------------
(* The steps of the sender.                                                *)

\* Requesting the connection once more puts a packet on the line that may be ignored.
LEMMA RequestStep ==
  ASSUME LineType, Replaying, pos = 1, connection_request
  PROVE  LineType' /\ Replaying'
<1>0. /\ to_bl' = Append(to_bl, session[1])
      /\ UNCHANGED <<session, bl_out, to_host, bl_pos, executed, refused, pos>>
      /\ OnTheLine' = OnTheLine
  BY DEF connection_request, OnTheLine
<1>1. Conv!Complete(session) /\ Conv!Complete(session)' /\ Len(session) \in Nat /\ Len(session) > 4
  <2>1. Conv!Complete(session) /\ Conv!Complete(session)'
    BY <1>0, CompleteKept DEF Replaying
  <2> QED
    BY <2>1, Turns
<1>2. session[1] \in OnTheLine /\ session[1].name \in StaleCommands
  <2>1. 1 \in 1..Len(session)
    BY <1>1
  <2> QED
    <3>1. session[1].name = "connection_request"
      BY <1>1 DEF Conv!Complete
    <3> QED
      BY <2>1, <3>1 DEF OnTheLine, StaleCommands
<1>3. Unconnected
  <2>1. ~GivenUp
    <3> SUFFICES ASSUME NEW r \in 1..Len(session), RefusedAt(r) PROVE FALSE
      BY DEF GivenUp
    <3>1. pos \in {r + 1, r + 2}
      BY DEF RefusedAt
    <3> QED
      BY <1>1, <3>1
  <2> QED
    BY <2>1 DEF Replaying, Following
<1>4. to_bl \in Seq(OnTheLine) /\ to_bl' \in Seq(OnTheLine)
  <2> HIDE DEF OnTheLine
  <2> QED
    BY <1>0, <1>2 DEF LineType
<1>5. InFlight(session, to_bl', StaleCommands, 1, 0)
  <2>1. InFlight(session, to_bl, StaleCommands, 1, 0)
    BY <1>3 DEF Unconnected
  <2> QED
    BY <1>0, <1>2, <1>4, <2>1, InFlightAppend
<1>6. Answers' = Answers
  BY <1>0 DEF Answers
<1>7. Unconnected'
  BY <1>0, <1>3, <1>5, <1>6 DEF Unconnected
<1>8. LineType'
  BY <1>0, <1>4 DEF LineType
<1> QED
  BY <1>1, <1>7, <1>8 DEF Replaying

\* A run reads from packets that are on their way to it.
LEMMA ReceivedIsFirst ==
  ASSUME LineType, NEW p, Received(p)
  PROVE  /\ 1 \in 1..Len(Answers) /\ Accepts(Answers[1], p) /\ Answers \in Seq(OnTheLine)
         /\ to_host' \in Seq(OnTheLine) /\ bl_out' \in Seq(OnTheLine)
         /\ Answers' \in Seq(OnTheLine) /\ Thinned(Answers', Answers)
         /\ \E n \in 1..Len(Answers) : Answers' = After(Answers, n)
<1>1. /\ to_host # <<>> /\ Accepts(Head(to_host), p) /\ readPacket
  BY DEF Received
<1>2. /\ Answers \in Seq(OnTheLine) /\ Answers # <<>> /\ Head(to_host) = Answers[1]
  BY <1>1, AnswersType
<1>3. 1 \in 1..Len(Answers)
  <2> HIDE DEF Answers, OnTheLine
  <2> QED
    BY <1>2
<1>4. /\ to_host' \in Seq(OnTheLine) /\ bl_out' \in Seq(OnTheLine)
      /\ \E n \in 1..Len(Answers) : Answers' = After(Answers, n)
  BY <1>1, ReadTakes
<1>5. PICK n \in 1..Len(Answers) : Answers' = After(Answers, n)
  BY <1>4
<1>6. n \in 0..Len(Answers)
  <2>1. Len(Answers) \in Nat
    <3> HIDE DEF Answers, OnTheLine
    <3> QED
      BY <1>2
  <2> QED
    BY <1>5, <2>1
<1>7. After(Answers, n) \in Seq(OnTheLine) /\ Thinned(After(Answers, n), Answers)
  BY <1>2, <1>6, ThinnedSuffix
<1> QED
  BY <1>1, <1>2, <1>3, <1>4, <1>5, <1>7

\* The connection reply comes from a bootloader that waits for its acknowledgement.
LEMMA AcceptStep ==
  ASSUME LineType, Replaying, pos = 1, Received(session[2]), pos' = 3,
         UNCHANGED <<session, to_bl, bl_pos, executed, refused>>
  PROVE  LineType' /\ Replaying'
<1>0. OnTheLine' = OnTheLine
  BY DEF OnTheLine
<1>1. Conv!Complete(session) /\ Conv!Complete(session)' /\ Len(session) \in Nat /\ Len(session) > 4
  <2>1. Conv!Complete(session) /\ Conv!Complete(session)'
    BY CompleteKept DEF Replaying
  <2> QED
    BY <2>1, Turns
<1>2. Unconnected
  <2>1. ~GivenUp
    <3> SUFFICES ASSUME NEW r \in 1..Len(session), RefusedAt(r) PROVE FALSE
      BY DEF GivenUp
    <3>1. pos \in {r + 1, r + 2}
      BY DEF RefusedAt
    <3> QED
      BY <1>1, <3>1
  <2> QED
    BY <2>1 DEF Replaying, Following
<1>3. /\ 1 \in 1..Len(Answers) /\ Answers \in Seq(OnTheLine)
      /\ to_host' \in Seq(OnTheLine) /\ bl_out' \in Seq(OnTheLine)
      /\ Answers' \in Seq(OnTheLine) /\ Thinned(Answers', Answers)
  BY ReceivedIsFirst
<1>4. bl_pos = 2
  <2>1. Answers # <<>>
    <3> HIDE DEF Answers
    <3> QED
      BY <1>3
  <2> QED
    BY <1>2, <2>1 DEF Unconnected
<1>5. InFlight(session, Answers', StaleAnswers, 3, 2)
  <2>1. InFlight(session, Answers, {"junk", "connection_reply"}, 1, 0)
    BY <1>2 DEF Unconnected
  <2>2. \A i \in 1..Len(Answers) : Answers[i].name \in StaleAnswers
    BY <2>1 DEF InFlight, StaleAnswers
  <2>3. InFlight(session, Answers, StaleAnswers, 3, 2)
    BY <2>2 DEF InFlight
  <2>4. "junk" \in StaleAnswers
    BY DEF StaleAnswers
  <2> QED
    BY <1>3, <2>3, <2>4, InFlightThinned
<1>6. InFlight(session, to_bl, StaleCommands, 3, 2)
  <2>1. InFlight(session, to_bl, StaleCommands, 1, 0)
    BY <1>2 DEF Unconnected
  <2> QED
    BY <2>1 DEF InFlight
<1>7. executed = Conv!RequestsUpTo(session)[2]
  <2>1. \A k \in (0 + 1)..2 : session[k].name # "request"
    <3>1. session[1].name # "request" /\ session[2].name # "request"
      BY <1>1 DEF Conv!Complete
    <3>2. \A k \in (0 + 1)..2 : k = 1 \/ k = 2
      OBVIOUS
    <3> QED
      BY <3>1, <3>2
  <2>2. 0 \in 0..Len(session) /\ 2 \in 0..Len(session)
    BY <1>1
  <2>3. Conv!RequestsUpTo(session)[2] = Conv!RequestsUpTo(session)[0]
    BY <1>1, <2>1, <2>2, NoRequests
  <2> QED
    BY <1>1, <1>2, <2>3, RequestsUnfold DEF Unconnected
<1>8. Silent(session, 2)
  BY <1>1, Turns DEF Silent
<1>9. Following'
  <2>1. /\ \A k \in 3..2 : FALSE
        /\ bl_pos + 1 = 3 /\ pos' - 1 = 2 /\ bl_pos' = 2 /\ pos' = 3
    BY <1>4
  <2> QED
    BY <1>2, <1>5, <1>6, <1>7, <1>8, <2>1 DEF Following, Unconnected
<1> QED
  BY <1>0, <1>1, <1>3, <1>9 DEF LineType, Replaying

\* The host speaks only when the bootloader has nothing more to say.
LEMMA SendStep ==
  ASSUME LineType, Replaying, pos \in 3..Len(session), bl_pos \in Nat,
         session[pos].from = "host",
         to_bl' = Append(to_bl, session[pos]), pos' = pos + 1,
         UNCHANGED <<session, bl_out, to_host, bl_pos, executed, refused>>
  PROVE  LineType' /\ Replaying'
<1>0. OnTheLine' = OnTheLine /\ Answers' = Answers
  BY DEF OnTheLine, Answers
<1>1. Conv!Complete(session) /\ Conv!Complete(session)' /\ Len(session) \in Nat /\ Len(session) > 4
  <2>1. Conv!Complete(session) /\ Conv!Complete(session)'
    BY CompleteKept DEF Replaying
  <2> QED
    BY <2>1, Turns
<1>2. session[pos] \in OnTheLine /\ pos \in 1..Len(session) /\ pos \in Nat /\ pos > 2
  BY <1>1 DEF OnTheLine
<1>3. to_bl \in Seq(OnTheLine) /\ to_bl' \in Seq(OnTheLine)
  <2> HIDE DEF OnTheLine
  <2> QED
    BY <1>2 DEF LineType
<1>4. Following
  <2>1. ~GivenUp
    <3> SUFFICES ASSUME NEW r \in 1..Len(session), RefusedAt(r) PROVE FALSE
      BY DEF GivenUp
    <3>1. pos \in {r + 1, r + 2} /\ session[r].name = "request"
      BY DEF RefusedAt
    <3>2. session[r + 1].from = "bl" /\ session[r + 2].from = "bl"
      BY <1>1, <3>1, RequestAnswered
    <3> QED
      BY <3>1, <3>2
  <2> QED
    BY <1>2, <2>1 DEF Replaying, Unconnected
<1>5. pos > bl_pos
  <2> SUFFICES ASSUME ~ (pos > bl_pos) PROVE FALSE
    OBVIOUS
  <2>1. pos \in pos..bl_pos
    BY <1>2
  <2> QED
    BY <1>4, <2>1 DEF Following
<1>6. \A k \in (bl_pos + 1)..pos : session[k].from = "host"
  <2> TAKE k \in (bl_pos + 1)..pos
  <2>1. k = pos \/ k \in (bl_pos + 1)..(pos - 1)
    BY <1>2
  <2> QED
    BY <1>4, <2>1 DEF Following
<1>7. \A k \in (bl_pos + 1)..(pos - 1) : session[k].name = "ack" /\ session[pos].name # "ack"
  <2> TAKE k \in (bl_pos + 1)..(pos - 1)
  <2>0. bl_pos \in Nat /\ pos \in 1..Len(session) /\ Len(session) \in Nat
    BY <1>1, <1>2
  <2>1. k \in 1..Len(session) /\ pos \in k..Len(session) /\ k < pos /\ k \in Nat
    BY <2>0
  <2>2. \A i \in k..pos : session[i].from = "host"
    <3>1. \A i \in k..pos : i \in (bl_pos + 1)..pos
      BY <2>1
    <3> QED
      BY <1>6, <3>1
  <2>3. \A x \in 1..Len(session) : \A y \in x..Len(session) :
          (\A i \in x..y : session[i].from = "host")
            => /\ y <= x + 1
               /\ y = x + 1 => session[x].name = "ack" /\ session[y].name # "ack"
    <3>1. ShortRuns(session, "host")
      BY <1>1, Runs, Zenon
    <3> QED
      BY <3>1, Zenon DEF ShortRuns
  <2>4. pos <= k + 1 /\ (pos = k + 1 => session[k].name = "ack" /\ session[pos].name # "ack")
    BY <2>1, <2>2, <2>3, Zenon
  <2> QED
    BY <1>2, <2>1, <2>4
<1>8. InFlight(session, to_bl', StaleCommands, bl_pos + 1, pos)
  <2>1. InFlight(session, to_bl, StaleCommands, bl_pos + 1, pos - 1)
    BY <1>4 DEF Following
  <2>2. /\ bl_pos + 1 \in Int /\ pos - 1 \in Int /\ (pos - 1) + 1 = pos
        /\ bl_pos + 1 <= (pos - 1) + 1
    BY <1>2, <1>5
  <2>3. to_bl' = Append(to_bl, session[(pos - 1) + 1])
    BY <2>2
  <2>4. InFlight(session, Append(to_bl, session[(pos - 1) + 1]), StaleCommands,
                 bl_pos + 1, (pos - 1) + 1)
    <3>1. /\ session[(pos - 1) + 1] \in OnTheLine
          /\ \A k \in (bl_pos + 1)..(pos - 1) :
               session[k].name = "ack" /\ session[(pos - 1) + 1].name # "ack"
      BY <1>2, <1>7, <2>2
    <3> QED
      BY <1>3, <2>1, <2>2, <3>1, InFlightSaid
  <2> QED
    BY <2>2, <2>3, <2>4
<1>9. InFlight(session, Answers, StaleAnswers, pos + 1, bl_pos)
  BY <1>2, <1>4, <1>5 DEF Following, InFlight
<1>10. Following'
  <2>1. /\ pos' = pos + 1 /\ pos' - 1 = pos /\ pos' > 2
        /\ \A k \in (pos + 1)..bl_pos : FALSE
    BY <1>2, <1>5
  <2> QED
    BY <1>0, <1>4, <1>6, <1>8, <1>9, <2>1 DEF Following
<1> QED
  BY <1>0, <1>1, <1>3, <1>10 DEF LineType, Replaying

\* The packet that the host accepts is the next one that the bootloader said, unless it
\* is a hello reply, which it cannot tell from what is stale.
LEMMA ReceiveStep ==
  ASSUME LineType, Replaying, pos \in 3..Len(session), bl_pos \in Nat,
         session[pos].from = "bl", Received(session[pos]), pos' = pos + 1,
         UNCHANGED <<session, to_bl, bl_pos, executed, refused>>
  PROVE  LineType' /\ Replaying'
<1>0. OnTheLine' = OnTheLine
  BY DEF OnTheLine
<1>1. Conv!Complete(session) /\ Conv!Complete(session)' /\ Len(session) \in Nat /\ Len(session) > 4
  <2>1. Conv!Complete(session) /\ Conv!Complete(session)'
    BY CompleteKept DEF Replaying
  <2> QED
    BY <2>1, Turns
<1>2. pos \in 1..Len(session) /\ pos \in Nat /\ pos > 2
  BY <1>1
<1>3. /\ 1 \in 1..Len(Answers) /\ Accepts(Answers[1], session[pos])
      /\ Answers \in Seq(OnTheLine) /\ Answers' \in Seq(OnTheLine)
      /\ to_host' \in Seq(OnTheLine) /\ bl_out' \in Seq(OnTheLine)
      /\ Thinned(Answers', Answers)
      /\ \E n \in 1..Len(Answers) : Answers' = After(Answers, n)
  BY ReceivedIsFirst
<1>4. "junk" \in StaleAnswers
  BY DEF StaleAnswers
<1>5. session[pos].name # "hello_reply" =>
        Answers[1] = session[pos] /\ session[pos].name \notin StaleAnswers
  <2>1. session[pos].name \notin {"junk", "error"}
    BY <1>1, <1>2, Turns
  <2>2. session[pos].name # "connection_reply"
    BY <1>1 DEF Conv!Complete
  <2> QED
    BY <1>3, <2>1, <2>2 DEF Accepts, StaleAnswers
<1>6. CASE Following
  <2>0. /\ \A k \in (bl_pos + 1)..(pos - 1) : session[k].from = "host"
        /\ \A k \in pos..bl_pos : session[k].from = "bl"
        /\ InFlight(session, to_bl, StaleCommands, bl_pos + 1, pos - 1)
        /\ InFlight(session, Answers, StaleAnswers, pos, bl_pos)
        /\ Silent(session, bl_pos)
    BY <1>6 DEF Following
  <2>1. pos <= bl_pos /\ InFlight(session, Answers', StaleAnswers, pos + 1, bl_pos)
    <3>1. CASE session[pos].name # "hello_reply"
      <4>1. Answers[1] = session[pos] /\ Answers[1].name \notin StaleAnswers
        BY <1>5, <3>1
      <4>2. \E k \in pos..bl_pos : Answers[1] = session[k]
        BY <1>3, <2>0, <4>1 DEF InFlight
      <4>3. PICK n \in 1..Len(Answers) : Answers' = After(Answers, n)
        BY <1>3
      <4>4. InFlight(session, After(Answers, n), StaleAnswers, pos + 1, bl_pos)
        BY <1>2, <1>3, <2>0, <4>1, <4>3, InFlightTaken
      <4> QED
        BY <1>2, <4>2, <4>3, <4>4
    <3>2. CASE session[pos].name = "hello_reply"
      <4>1. session[pos - 1].name = "ack"
        BY <1>1, <3>2 DEF Conv!Complete
      <4>2. /\ pos - 1 \in 1..(Len(session) - 1) /\ (pos - 1) + 1 = pos
            /\ pos - 1 \in 1..Len(session)
        BY <1>1, <1>2
      <4>3. session[pos - 1].from = "bl"
        <5>1. session[(pos - 1) + 1].from = session[pos - 1].from <=> session[pos - 1].name = "ack"
          BY <1>1, <4>2, Turns
        <5> QED
          BY <4>1, <4>2, <5>1
      <4>4. pos - 1 <= bl_pos
        <5> SUFFICES ASSUME ~ (pos - 1 <= bl_pos) PROVE FALSE
          OBVIOUS
        <5>1. pos - 1 \in (bl_pos + 1)..(pos - 1)
          BY <1>2
        <5> QED
          BY <2>0, <4>3, <5>1
      <4>5. bl_pos # pos - 1
        <5> SUFFICES ASSUME bl_pos = pos - 1 PROVE FALSE
          OBVIOUS
        <5>1. bl_pos + 1 = pos /\ bl_pos # Len(session)
          BY <1>1, <1>2, <4>2
        <5> QED
          BY <2>0, <5>1 DEF Silent
      <4>6. InFlight(session, Answers', StaleAnswers, pos, bl_pos)
        BY <1>3, <1>4, <2>0, InFlightThinned
      <4>7. session[pos].name \in StaleAnswers
        BY <3>2 DEF StaleAnswers
      <4>8. \A k \in pos..bl_pos : k = pos \/ k \in (pos + 1)..bl_pos
        BY <1>2
      <4>9. \A i \in 1..Len(Answers') : Answers'[i].name \in StaleAnswers
              \/ \E k \in (pos + 1)..bl_pos : Answers'[i] = session[k]
        <5> TAKE i \in 1..Len(Answers')
        <5> SUFFICES ASSUME Answers'[i].name \notin StaleAnswers
                     PROVE  \E k \in (pos + 1)..bl_pos : Answers'[i] = session[k]
          OBVIOUS
        <5>1. PICK k \in pos..bl_pos : Answers'[i] = session[k]
          BY <4>6, Zenon DEF InFlight
        <5>2. k # pos
          BY <4>7, <5>1
        <5> QED
          BY <4>8, <5>1, <5>2
      <4>10. InFlight(session, Answers', StaleAnswers, pos + 1, bl_pos)
        BY <4>6, <4>9, Zenon DEF InFlight
      <4> QED
        BY <1>2, <4>4, <4>5, <4>10
    <3> QED
      BY <3>1, <3>2
  <2>2. InFlight(session, to_bl, StaleCommands, bl_pos + 1, pos)
    BY <1>2, <2>0, <2>1 DEF InFlight
  <2>3. /\ \A k \in (bl_pos + 1)..pos : FALSE
        /\ \A k \in (pos + 1)..bl_pos : session[k].from = "bl"
        /\ pos' - 1 = pos /\ pos' > 2
    BY <1>2, <2>0, <2>1
  <2>4. Following'
    BY <1>6, <2>0, <2>1, <2>2, <2>3 DEF Following
  <2> QED
    BY <1>0, <1>1, <1>3, <2>4 DEF LineType, Replaying
<1>7. CASE GivenUp
  <2>1. PICK r \in 1..Len(session) : RefusedAt(r)
    BY <1>7 DEF GivenUp
  <2>2. /\ pos \in {r + 1, r + 2}
        /\ executed = Conv!RequestsUpTo(session)[r - 1]
        /\ InFlight(session, Answers, StaleAnswers, r + 1, r + 1)
        /\ session[r].name = "request"
    BY <2>1 DEF RefusedAt
  <2>3. session[r + 1].name = "ack" /\ session[r + 2].name = "response"
    BY <1>1, <2>2, RequestAnswered
  <2>4. pos # r + 2
    <3> SUFFICES ASSUME pos = r + 2 PROVE FALSE
      OBVIOUS
    <3>1. Answers[1].name = "response" /\ Answers[1].name \notin StaleAnswers
      BY <1>5, <2>3
    <3>2. \E k \in (r + 1)..(r + 1) : Answers[1] = session[k]
      BY <1>3, <2>2, <3>1 DEF InFlight
    <3>3. Answers[1] = session[r + 1]
      BY <3>2
    <3> QED
      BY <2>3, <3>1, <3>3
  <2>5. InFlight(session, Answers', StaleAnswers, r + 1, r + 1)
    BY <1>3, <1>4, <2>2, InFlightThinned
  <2>6. RefusedAt(r)'
    BY <2>2, <2>4, <2>5 DEF RefusedAt
  <2>7. GivenUp'
    BY <1>7, <2>6 DEF GivenUp
  <2> QED
    BY <1>0, <1>1, <1>3, <2>7 DEF LineType, Replaying
<1> QED
  BY <1>2, <1>6, <1>7 DEF Replaying, Unconnected

\* The two sides are in step after a read that fails.
LEMMA ReadFails ==
  ASSUME LineType, Replaying, NEW p, ReceiveFails(p),
         UNCHANGED <<session, to_bl, bl_pos, executed, refused, pos>>
  PROVE  LineType' /\ Replaying'
<1>1. /\ to_host' \in Seq(OnTheLine) /\ bl_out' \in Seq(OnTheLine)
      /\ Thinned(Answers', Answers)
  <2>1. CASE ReadTimeout
    BY <2>1, TimeoutThins
  <2>2. CASE to_host # <<>> /\ readPacket
    <3>1. Answers \in Seq(OnTheLine)
      BY AnswersType
    <3>2. /\ to_host' \in Seq(OnTheLine) /\ bl_out' \in Seq(OnTheLine)
          /\ \E n \in 1..Len(Answers) : Answers' = After(Answers, n)
      BY <2>2, ReadTakes
    <3>3. PICK n \in 1..Len(Answers) : Answers' = After(Answers, n)
      BY <3>2
    <3>4. n \in 0..Len(Answers)
      <4>1. Len(Answers) \in Nat
        <5> HIDE DEF Answers, OnTheLine
        <5> QED
          BY <3>1
      <4> QED
        BY <3>3, <4>1
    <3>5. Thinned(After(Answers, n), Answers)
      BY <3>1, <3>4, ThinnedSuffix
    <3> QED
      BY <3>2, <3>3, <3>5
  <2> QED
    BY <2>1, <2>2 DEF ReceiveFails
<1>2. LineType'
  <2>1. OnTheLine' = OnTheLine
    BY DEF OnTheLine
  <2> QED
    BY <1>1, <2>1 DEF LineType
<1>3. Thinned(to_bl', to_bl)
  <2>1. to_bl \in Seq(OnTheLine)
    BY DEF LineType
  <2> QED
    BY <2>1, ThinnedSame
<1> QED
  BY <1>1, <1>2, <1>3, ThinStep

\* Where neither the link nor the place in the list changes, nothing does.
LEMMA Unmoved ==
  ASSUME LineType, Nothing \/ Replaying, UNCHANGED <<session, link_vars, pos>>
  PROVE  LineType' /\ (Nothing \/ Replaying)'
<1>1. /\ LineType' /\ Answers' = Answers
  BY DEF LineType, OnTheLine, Answers, link_vars
<1>2. CASE Nothing
  BY <1>1, <1>2 DEF Nothing, link_vars
<1>3. CASE Replaying
  <2>1. Thinned(to_bl', to_bl) /\ Thinned(Answers', Answers)
    <3>1. to_bl \in Seq(OnTheLine) /\ Answers \in Seq(OnTheLine)
      BY AnswersType DEF LineType
    <3> QED
      BY <1>1, <3>1, ThinnedSame DEF link_vars
  <2> QED
    BY <1>1, <1>3, <2>1, ThinStep DEF link_vars
<1> QED
  BY <1>2, <1>3

\* What is outside the program keeps the two sides in step.
LEMMA LinkStepKeeps ==
  ASSUME LineType, Nothing \/ Replaying, bl_pos \in 0..Len(session), pos \in Nat,
         LinkStep, UNCHANGED pos
  PROVE  /\ LineType' /\ (Nothing \/ Replaying)'
         /\ session' = session /\ bl_pos' \in 0..Len(session)
<1>0. session' = session
  BY DEF LinkStep, BlReceive, Deliver, Lose
<1>1. CASE Nothing
  <2>1. to_bl = <<>> /\ bl_out = <<>>
    <3>1. /\ to_bl = <<>> /\ to_host \o bl_out = <<>>
          /\ to_host \in Seq(OnTheLine) /\ bl_out \in Seq(OnTheLine)
      BY <1>1 DEF Nothing, LineType, Answers
    <3> HIDE DEF OnTheLine
    <3> QED
      BY <3>1
  <2> QED
    BY <2>1 DEF LinkStep, BlReceive, Deliver, Lose
<1>2. CASE Replaying /\ BlReceive
  BY <1>0, <1>2, BlReceiveStep
<1>3. CASE Replaying /\ (Deliver \/ Lose)
  <2>1. LineType' /\ Thinned(to_bl', to_bl) /\ Thinned(Answers', Answers)
    <3>1. CASE Deliver
      <4>1. OnTheLine' = OnTheLine /\ to_bl' = to_bl
        BY <3>1 DEF Deliver, OnTheLine
      <4>2. /\ to_host' \in Seq(OnTheLine) /\ bl_out' \in Seq(OnTheLine)
            /\ Answers' = Answers
        BY <3>1, DeliverKeeps
      <4>3. to_bl \in Seq(OnTheLine) /\ Answers \in Seq(OnTheLine)
        BY AnswersType DEF LineType
      <4> QED
        BY <4>1, <4>2, <4>3, ThinnedSame DEF LineType
    <3>2. CASE Lose
      BY <3>2, LoseThins
    <3> QED
      BY <1>3, <3>1, <3>2
  <2>2. UNCHANGED <<session, bl_pos, executed, refused, pos>>
    BY <1>3 DEF Deliver, Lose
  <2> QED
    BY <1>0, <1>3, <2>1, <2>2, ThinStep
<1> QED
  BY <1>1, <1>2, <1>3 DEF LinkStep

\* A run keeps its session, its list and its options.
LEMMA SameList ==
  ASSUME RunStep
  PROVE  UNCHANGED <<session, options, listed>>
  BY DEF RunStep, SenderStep, LinkStep, BlReceive, Deliver, Lose, sender_vars, run_vars,
         open_port, parse_scpcmd_file, connection_request, connection_failed,
         connection_reply, short_list, send, receive, receive_failed, disconnected

\* Every step of a run, or of what is outside the program, preserves the invariant.
LEMMA SenderInvStep ==
  ASSUME SenderInv, RunStep
  PROVE  SenderInv'
<1>0. /\ options \in Options /\ options' = options /\ session' = session /\ listed' = listed
      /\ options.first_retry_nb \in Nat /\ MaxLost \in Nat
  BY SameList, LinkAssumption DEF SenderInv, Options
<1>1. /\ LineType /\ (Nothing \/ Replaying) /\ Control
      /\ listed \in 0..Len(session) /\ pos \in 1..(listed + 1)
      /\ bl_pos \in 0..Len(session) /\ Len(session) \in Nat
      /\ attempt \in 0..options.first_retry_nb /\ lost \in 0..MaxLost /\ loaded \subseteq OneTime
      /\ pc \in PCS /\ return_code \in RETURN_CODES
  <2>1. Len(session) \in Nat
    <3>1. CASE Nothing
      BY <3>1 DEF Nothing
    <3>2. CASE Replaying
      BY <3>2, Turns DEF Replaying
    <3> QED
      BY <3>1, <3>2 DEF SenderInv
  <2> QED
    BY <2>1 DEF SenderInv, TypeOK
<1>2. pos \in Nat /\ bl_pos \in Nat /\ listed \in Nat /\ pos > 0
  BY <1>1
<1>3. listed > 2 => session # <<>> /\ Replaying
  BY <1>1 DEF Nothing
<1>4. ASSUME LinkStep, UNCHANGED sender_vars
      PROVE  SenderInv'
  <2>1. /\ LineType' /\ (Nothing \/ Replaying)' /\ bl_pos' \in 0..Len(session)
    BY <1>1, <1>2, <1>4, LinkStepKeeps DEF sender_vars
  <2>2. lost' \in 0..MaxLost
    BY <1>0, <1>1, <1>4 DEF LinkStep, BlReceive, Deliver, Lose
  <2>3. loaded' \subseteq OneTime
    BY <1>1, <1>4 DEF LinkStep, BlReceive, Deliver, Lose, BlConnect, BlFollow, BlRefuse, BlIgnore
  <2>4. TypeOK'
    BY <1>0, <1>1, <1>4, <2>1, <2>2, <2>3 DEF TypeOK, sender_vars
  <2>5. Control'
    BY <1>0, <1>1, <1>4 DEF Control, sender_vars
  <2> QED
    BY <1>0, <2>1, <2>4, <2>5 DEF SenderInv
<1>5. ASSUME open_port \/ parse_scpcmd_file \/ connection_failed \/ short_list \/ disconnected
      PROVE  SenderInv'
  <2>1. UNCHANGED <<session, link_vars, pos, attempt>>
    BY <1>5 DEF open_port, parse_scpcmd_file, connection_failed, short_list, disconnected
  <2>2. LineType' /\ (Nothing \/ Replaying)'
    BY <1>1, <2>1, Unmoved
  <2>3. pc' \in PCS /\ return_code' \in RETURN_CODES
    BY <1>1, <1>5 DEF open_port, parse_scpcmd_file, connection_failed, short_list, disconnected, Exit,
                      PCS, RETURN_CODES, FAILED, RESTRICTED, NOT_CONNECTED
  <2>4. TypeOK'
    BY <1>0, <1>1, <2>1, <2>3 DEF TypeOK, link_vars
  <2>5. Control'
    BY <1>0, <1>1, <1>5, <2>1 DEF HasMiddle, Control, open_port, parse_scpcmd_file, connection_failed,
                            short_list, disconnected, Exit, FAILED, RESTRICTED, NOT_CONNECTED
  <2> QED
    BY <1>0, <2>2, <2>4, <2>5 DEF SenderInv
<1>6. ASSUME connection_request
      PROVE  SenderInv'
  <2>1. session # <<>> /\ listed > 2 /\ pos = 1 /\ Replaying
    BY <1>1, <1>3, <1>6 DEF connection_request, Control
  <2>2. LineType' /\ Replaying'
    BY <1>1, <1>6, <2>1, RequestStep
  <2>3. attempt' \in 0..options.first_retry_nb
    BY <1>0, <1>1, <1>6 DEF connection_request, OutOfRange
  <2>4. TypeOK'
    BY <1>0, <1>1, <1>6, <2>3 DEF TypeOK, connection_request, PCS
  <2>5. Control'
    BY <1>6, <2>1 DEF run_vars, Control, connection_request
  <2> QED
    BY <1>0, <2>2, <2>4, <2>5 DEF SenderInv
<1>7. ASSUME connection_reply
      PROVE  SenderInv'
  <2>1. session # <<>> /\ listed > 2 /\ pos = 1 /\ Replaying
    BY <1>1, <1>3, <1>7 DEF connection_reply, Control
  <2>2. Len(session) > 4
    BY <2>1, Turns DEF Replaying
  <2>3. LineType' /\ Replaying' /\ pos' \in 1..(listed + 1)
    <3>1. CASE Received(session[2]) /\ pos' = 3
      <4>1. LineType' /\ Replaying'
        BY <1>1, <1>7, <2>1, <3>1, AcceptStep DEF connection_reply
      <4> QED
        BY <1>2, <2>1, <3>1, <4>1
    <3>2. CASE ReceiveFails(session[2]) /\ pos' = pos
      <4>1. LineType' /\ Replaying'
        BY <1>1, <1>7, <2>1, <3>2, ReadFails DEF connection_reply
      <4> QED
        BY <1>1, <3>2, <4>1
    <3> QED
      BY <1>7, <3>1, <3>2 DEF connection_reply
  <2>4. TypeOK'
    BY <1>0, <1>1, <1>7, <2>3 DEF TypeOK, connection_reply, PCS
  <2>5. Control'
    BY <1>7, <2>1 DEF run_vars, Control, connection_reply
  <2> QED
    BY <1>0, <2>3, <2>4, <2>5 DEF SenderInv
<1>8. ASSUME send \/ receive \/ receive_failed
      PROVE  SenderInv'
  <2>1. session # <<>> /\ listed > 2 /\ Replaying /\ pos \in 3..listed /\ pos \in 3..Len(session)
    BY <1>1, <1>2, <1>3, <1>8 DEF send, receive, receive_failed, InList, Control
  <2>2. LineType' /\ Replaying' /\ pos' \in 3..(listed + 1)
    <3>1. CASE send
      <4>1. LineType' /\ Replaying'
        BY <1>1, <1>2, <2>1, <3>1, SendStep DEF send
      <4> QED
        BY <1>1, <2>1, <3>1, <4>1 DEF send
    <3>2. CASE receive
      <4>1. LineType' /\ Replaying'
        BY <1>1, <1>2, <2>1, <3>2, ReceiveStep DEF receive
      <4> QED
        BY <1>1, <2>1, <3>2, <4>1 DEF receive
    <3>3. CASE receive_failed
      <4>1. LineType' /\ Replaying'
        BY <1>1, <2>1, <3>3, ReadFails DEF receive_failed, OnFailure
      <4> QED
        BY <1>1, <2>1, <3>3, <4>1 DEF receive_failed, OnFailure
    <3> QED
      BY <1>8, <3>1, <3>2, <3>3
  <2>3. /\ pc' \in PCS /\ return_code' \in RETURN_CODES
        /\ UNCHANGED <<attempt, bl_pos, loaded, lost>>
    BY <1>1, <1>8 DEF send, receive, receive_failed, OnFailure, Exit, PCS, RETURN_CODES,
                      FAILED, RESTRICTED
  <2>4. TypeOK'
    BY <1>0, <1>1, <2>2, <2>3 DEF TypeOK
  <2>5. Control'
    BY <1>0, <1>1, <1>8, <2>1, <2>2 DEF Control, send, receive, receive_failed, OnFailure, Exit,
                            FAILED, RESTRICTED, InList
  <2> QED
    BY <1>0, <2>2, <2>4, <2>5 DEF SenderInv
<1> QED
  BY <1>4, <1>5, <1>6, <1>7, <1>8 DEF RunStep, SenderStep

-----------------------------------------------------------------------------
(* What the invariant says of a run.                                       *)

\* What a run can be started on: nothing, or a whole session.
Playable(s) == s = <<>> \/ Conv!Complete(s)

\* An empty link is that of a session that has not begun.
LEMMA NotBegun ==
  ASSUME Playable(session), to_bl = <<>>, bl_out = <<>>, to_host = <<>>,
         pos = 1, bl_pos = 0, executed = <<>>, ~refused
  PROVE  LineType /\ (Nothing \/ Replaying)
<1>1. LineType
  <2>1. <<>> \in Seq(OnTheLine)
    OBVIOUS
  <2> QED
    BY <2>1 DEF LineType
<1>2. Answers = <<>> /\ Len(<<>>) = 0
  BY DEF Answers
<1>3. CASE session = <<>>
  BY <1>1, <1>2, <1>3 DEF Nothing
<1>4. CASE Conv!Complete(session)
  <2>1. \A i \in 1..0 : FALSE
    OBVIOUS
  <2>2. /\ InFlight(session, to_bl, StaleCommands, 1, 0)
        /\ InFlight(session, Answers, {"junk", "connection_reply"}, 1, 0)
    BY <1>2, <2>1 DEF InFlight
  <2> QED
    BY <1>1, <1>2, <1>4, <2>2 DEF Unconnected, Replaying
<1> QED
  BY <1>3, <1>4 DEF Playable

\* A run that has not begun satisfies the invariant.
LEMMA SenderInvInit ==
  ASSUME NEW s, Playable(s), NEW opts \in Options, SenderInit(s, opts),
         pc \in {"not_started", "open_port"}
  PROVE  SenderInv
<1>1. /\ session = s /\ to_bl = <<>> /\ bl_out = <<>> /\ to_host = <<>> /\ bl_pos = 0
      /\ executed = <<>> /\ loaded \subseteq OneTime /\ refused = FALSE /\ lost = 0
      /\ options = opts /\ listed = Len(s) /\ attempt = 0 /\ pos = 1 /\ return_code = 0
  BY DEF SenderInit, LinkInit
<1>2. LineType /\ (Nothing \/ Replaying)
  BY <1>1, NotBegun
<1>3. Len(session) \in Nat
  <2>1. CASE session = <<>>
    BY <2>1
  <2>2. CASE Conv!Complete(session)
    BY <2>2, Turns
  <2> QED
    BY <1>1, <2>1, <2>2 DEF Playable
<1>4. MaxLost \in Nat /\ options.first_retry_nb \in Nat
  BY <1>1, LinkAssumption DEF Options
<1>5. TypeOK
  BY <1>1, <1>3, <1>4 DEF TypeOK, PCS, RETURN_CODES
<1>6. Control
  BY <1>1 DEF Control
<1> QED
  BY <1>1, <1>2, <1>5, <1>6 DEF SenderInv

\* Neither does it matter what the run before did to the link.
LEMMA SenderInvStart ==
  ASSUME SenderInv, NEW s, Playable(s), NEW n \in 0..Len(s), NEW opts \in Options,
         start(s, n, opts)
  PROVE  SenderInv'
<1>1. /\ session' = s /\ to_bl' = <<>> /\ bl_out' = <<>> /\ to_host' = <<>> /\ bl_pos' = 0
      /\ executed' = <<>> /\ loaded' = loaded /\ refused' = FALSE /\ lost' = lost
      /\ options' = opts /\ listed' = n /\ attempt' = 0 /\ pos' = 1 /\ return_code' = 0
      /\ pc' = "open_port"
  BY DEF start, NewSession
<1>2. LineType'
  <2>1. <<>> \in Seq(OnTheLine')
    OBVIOUS
  <2> QED
    BY <1>1, <2>1 DEF LineType
<1>3. Answers' = <<>> /\ Len(<<>>) = 0
  BY <1>1 DEF Answers
<1>4. (Nothing \/ Replaying)' /\ Len(session') \in Nat
  <2>1. CASE s = <<>>
    BY <1>1, <1>3, <2>1 DEF Nothing
  <2>2. CASE Conv!Complete(s)
    <3>1. \A i \in 1..0 : FALSE
      OBVIOUS
    <3>2. /\ InFlight(s, <<>>, StaleCommands, 1, 0)
          /\ InFlight(s, <<>>, {"junk", "connection_reply"}, 1, 0)
      BY <1>3, <3>1 DEF InFlight
    <3>3. Unconnected'
      BY <1>1, <1>3, <3>2 DEF Unconnected
    <3>4. Len(s) \in Nat
      BY <2>2, Turns
    <3>5. Conv!Complete(session)'
      BY <1>1, <2>2
    <3> QED
      BY <1>1, <3>3, <3>4, <3>5 DEF Replaying
  <2> QED
    BY <2>1, <2>2 DEF Playable
<1>5. lost \in 0..MaxLost /\ loaded \subseteq OneTime /\ opts.first_retry_nb \in Nat
  BY DEF SenderInv, TypeOK, Options
<1>6. TypeOK'
  BY <1>1, <1>4, <1>5 DEF TypeOK, PCS, RETURN_CODES
<1>7. Control'
  BY <1>1 DEF Control
<1> QED
  BY <1>1, <1>2, <1>4, <1>6, <1>7 DEF SenderInv

\* A run that has processed its whole list was followed to the end of the session.
LEMMA WholeList ==
  ASSUME SenderInv, session # <<>>, pos = Len(session) + 1
  PROVE  /\ Conv!Complete(session) /\ bl_pos = Len(session)
         /\ executed = Conv!Requested(session)
<1>1. Conv!Complete(session) /\ Len(session) \in Nat /\ Len(session) > 4
  <2>1. Conv!Complete(session)
    BY DEF SenderInv, Nothing, Replaying
  <2> QED
    BY <2>1, Turns
<1>2. Following
  <2>1. ~Unconnected
    BY <1>1 DEF Unconnected
  <2>2. ~GivenUp
    <3> SUFFICES ASSUME NEW r \in 1..Len(session), RefusedAt(r) PROVE FALSE
      BY DEF GivenUp
    <3>1. pos \in {r + 1, r + 2} /\ session[r].name = "request"
      BY DEF RefusedAt
    <3>2. r \in 3..(Len(session) - 2)
      BY <1>1, <3>1, RequestAnswered
    <3> QED
      BY <1>1, <3>1, <3>2
  <2> QED
    BY <2>1, <2>2 DEF SenderInv, Nothing, Replaying
<1>3. bl_pos = Len(session)
  <2> SUFFICES ASSUME bl_pos # Len(session) PROVE FALSE
    OBVIOUS
  <2>1. bl_pos \in 0..Len(session)
    BY DEF SenderInv, TypeOK
  <2>2. Len(session) \in (bl_pos + 1)..(pos - 1)
    BY <1>1, <2>1
  <2>3. session[Len(session)].from = "host"
    BY <1>2, <2>2 DEF Following
  <2> QED
    BY <1>1, <2>3 DEF Conv!Complete
<1>4. executed = Conv!Requested(session)
  BY <1>2, <1>3 DEF Following, Conv!Requested
<1> QED
  BY <1>1, <1>3, <1>4

\* Status 0 is that of a session whose commands were all executed, if all were listed.
LEMMA ZeroIsSuccess ==
  ASSUME SenderInv, pc = "exited", return_code = 0, listed = Len(session)
  PROVE  /\ Conv!Complete(session) /\ bl_pos = Len(session)
         /\ executed = Conv!Requested(session)
<1>1. pos = Len(session) + 1 /\ session # <<>>
  BY DEF SenderInv, Control, TypeOK
<1> QED
  BY <1>1, WholeList

\* What was executed begins what the session requests.
LEMMA ExecutedIsPrefix ==
  ASSUME SenderInv
  PROVE  IsPrefix(executed, Conv!Requested(session))
<1> DEFINE R == Conv!RequestsUpTo(session)
<1>1. Len(session) \in Nat /\ bl_pos \in 0..Len(session)
  <2>1. Len(session) \in Nat
    BY Turns DEF SenderInv, Nothing, Replaying
  <2> QED
    BY <2>1 DEF SenderInv, TypeOK
<1>2. \E m \in 0..Len(session) : executed = R[m]
  <2>1. R[0] = <<>>
    BY <1>1, RequestsUnfold
  <2>2. CASE executed = <<>>
    BY <1>1, <2>1, <2>2
  <2>3. CASE Following
    BY <1>1, <2>3 DEF Following
  <2>4. CASE GivenUp
    <3>1. PICK r \in 1..Len(session) : RefusedAt(r)
      BY <2>4 DEF GivenUp
    <3> QED
      BY <1>1, <3>1 DEF RefusedAt
  <2> QED
    BY <2>2, <2>3, <2>4 DEF SenderInv, Nothing, Replaying, Unconnected
<1>3. PICK m \in 0..Len(session) : executed = R[m]
  BY <1>2
<1>4. /\ Extends(R[Len(session)], R[m])
      /\ R[m] \in Seq(CmdsOf(session)) /\ R[Len(session)] \in Seq(CmdsOf(session))
  BY <1>1, RequestsGrow, RequestsType
<1>5. Conv!Requested(session) = R[Len(session)]
  BY DEF Conv!Requested
<1> HIDE DEF R
<1>6. SubSeq(R[m], 1, Len(R[m])) = SubSeq(R[Len(session)], 1, Len(R[m]))
  BY <1>4 DEF Extends
<1> QED
  BY <1>3, <1>4, <1>5, <1>6 DEF IsPrefix, Extends

\* What the bootloader executes next is the next command of the session.
LEMMA ExecutesNext ==
  ASSUME SenderInv, RunStep
  PROVE  \/ executed' = executed
         \/ /\ bl_pos < Len(session)
            /\ Len(executed) < Len(Conv!Requested(session))
            /\ executed' = Append(executed, Conv!Requested(session)[Len(executed) + 1])
            /\ UNCHANGED sender_vars
<1> SUFFICES ASSUME executed' # executed
             PROVE  /\ bl_pos < Len(session)
                    /\ Len(executed) < Len(Conv!Requested(session))
                    /\ executed' = Append(executed, Conv!Requested(session)[Len(executed) + 1])
                    /\ UNCHANGED sender_vars
  OBVIOUS
<1> DEFINE R == Conv!RequestsUpTo(session)
           n == bl_pos + 1
<1>1. BlReceive /\ BlFollow /\ UNCHANGED sender_vars
  BY DEF RunStep, SenderStep, LinkStep, BlReceive, BlConnect, BlRefuse, BlIgnore, Deliver, Lose,
         open_port, parse_scpcmd_file, connection_request, connection_failed, connection_reply,
         send, receive, receive_failed, short_list, disconnected, link_vars
<1>2. /\ Expected /\ Head(to_bl) = session[n] /\ session[n].name = "request"
      /\ executed' = Append(executed, session[n].cmd)
      /\ bl_pos \in 2..(Len(session) - 1) /\ to_bl # <<>>
  BY <1>1 DEF BlFollow, BlReceive, Expected
<1>3. Conv!Complete(session) /\ Len(session) \in Nat /\ session # <<>>
  <2>1. Conv!Complete(session)
    BY <1>2 DEF SenderInv, Nothing, Replaying
  <2> QED
    BY <2>1, Turns
<1>4. Following
  <2>1. ~GivenUp
    BY <1>2, <1>3 DEF GivenUp
  <2>2. ~Unconnected
    <3> SUFFICES ASSUME Unconnected PROVE FALSE
      OBVIOUS
    <3>1. 1 \in 1..Len(to_bl) /\ to_bl[1] = session[n]
      BY <1>2, Taken DEF SenderInv
    <3>2. to_bl[1].name \in StaleCommands
      BY <3>1 DEF Unconnected, InFlight
    <3> QED
      BY <1>2, <3>1, <3>2 DEF StaleCommands
  <2> QED
    BY <1>3, <2>1, <2>2 DEF SenderInv, Nothing, Replaying
<1>5. executed = R[n - 1] /\ n \in 1..Len(session) /\ n - 1 \in 0..Len(session)
  BY <1>2, <1>3, <1>4 DEF Following
<1> HIDE DEF n
<1>6. R[n] = Append(R[n - 1], session[n].cmd)
  BY <1>2, <1>3, <1>5, RequestsUnfold DEF WithPacket
<1>7. Extends(R[Len(session)], R[n])
  <2>1. n \in 0..Len(session) /\ Len(session) \in n..Len(session)
    BY <1>3, <1>5
  <2> QED
    BY <1>3, <2>1, RequestsGrow
<1>8. /\ R[n - 1] \in Seq(CmdsOf(session))
      /\ session[n].cmd \in CmdsOf(session)
  BY <1>3, <1>5, RequestsType DEF CmdsOf
<1> HIDE DEF R
<1>9. /\ Len(R[n - 1]) \in Nat /\ Len(R[n]) = Len(R[n - 1]) + 1
      /\ R[n][Len(R[n - 1]) + 1] = session[n].cmd
      /\ Len(R[n - 1]) + 1 \in 1..Len(R[n])
  BY <1>6, <1>8, AppendProperties
<1>10. /\ R[Len(session)][Len(R[n - 1]) + 1] = session[n].cmd
       /\ Len(R[n - 1]) < Len(R[Len(session)])
  <2>1. Len(R[Len(session)]) \in Nat
    <3>1. R[Len(session)] \in Seq(CmdsOf(session))
      BY <1>3, RequestsType DEF R
    <3> QED
      BY <3>1
  <2> QED
    BY <1>7, <1>9, <2>1 DEF Extends
<1>11. Conv!Requested(session) = R[Len(session)]
  BY DEF Conv!Requested, R
<1> QED
  BY <1>1, <1>2, <1>3, <1>5, <1>10, <1>11

\* A run is a replay of its session: the step of the refinement.
LEMMA ReplaySimulation ==
  ASSUME SenderInv, RunStep, listed = Len(session)
  PROVE  [Replay!Next]_<<Conv!Requested(session), executed,
           IF pc # "exited" THEN "none" ELSE IF return_code = 0 THEN "success" ELSE "failure">>
<1> DEFINE wanted == Conv!Requested(session)
           outcome == IF pc # "exited" THEN "none"
                      ELSE IF return_code = 0 THEN "success" ELSE "failure"
<1>1. wanted' = wanted
  <2>1. session' = session
    BY SameList
  <2> QED
    BY <2>1 DEF Conv!Requested, Conv!RequestsUpTo
<1> HIDE DEF wanted
<1>2. CASE executed' # executed
  <2>1. /\ bl_pos < Len(session) /\ Len(executed) < Len(wanted)
        /\ executed' = Append(executed, wanted[Len(executed) + 1])
        /\ UNCHANGED sender_vars
    BY <1>2, ExecutesNext DEF wanted
  <2>2. outcome' = outcome
    BY <2>1 DEF sender_vars
  <2>3. outcome # "success"
    <3>1. ~ (pc = "exited" /\ return_code = 0)
      <4> SUFFICES ASSUME pc = "exited", return_code = 0 PROVE FALSE
        OBVIOUS
      <4>1. bl_pos = Len(session) /\ Len(session) \in Nat
        BY ZeroIsSuccess, Turns
      <4> QED
        BY <2>1, <4>1
    <3> QED
      BY <3>1
  <2>4. Replay!Execute
    BY <1>1, <2>1, <2>2, <2>3 DEF Replay!Execute, wanted
  <2> QED
    BY <2>4 DEF Replay!Next
<1>3. CASE executed' = executed
  <2>1. CASE outcome' = outcome
    BY <1>1, <1>3, <2>1 DEF wanted
  <2>2. CASE outcome' # outcome
    <3>1. pc # "exited" /\ pc' = "exited"
      <4>1. pc = "exited" => pc' = pc /\ return_code' = return_code
        BY DEF RunStep, SenderStep, sender_vars, open_port, parse_scpcmd_file,
           connection_request, connection_failed, connection_reply, InList, send, receive,
           receive_failed, short_list, disconnected
      <4> QED
        BY <2>2, <4>1
    <3>2. SenderInv'
      BY SenderInvStep
    <3>3. CASE return_code' = 0
      <4>1. disconnected
        BY <3>1, <3>3 DEF RunStep, SenderStep, sender_vars, open_port, parse_scpcmd_file,
           connection_request, connection_failed, connection_reply, short_list,
           send, receive, receive_failed, OnFailure, Exit, FAILED, NOT_CONNECTED, RESTRICTED
      <4>2. pos = Len(session) + 1 /\ session # <<>>
        BY <4>1 DEF disconnected, SenderInv, Control
      <4>3. executed = wanted
        BY <4>2, WholeList DEF wanted
      <4>4. Replay!Succeed
        BY <1>1, <1>3, <3>1, <3>3, <4>3 DEF Replay!Succeed, wanted
      <4> QED
        BY <4>4 DEF Replay!Next
    <3>4. CASE return_code' # 0
      <4>1. Replay!Fail
        BY <1>1, <1>3, <3>1, <3>4 DEF Replay!Fail, wanted
      <4> QED
        BY <4>1 DEF Replay!Next
    <3> QED
      BY <3>3, <3>4
  <2> QED
    BY <2>1, <2>2
<1> QED
  BY <1>2, <1>3

-----------------------------------------------------------------------------
(* How far ahead the bootloader may be.                                    *)

\* The responses among the first m packets.
Responses(l, m) == {k \in 1..m : l[k].name = "response"}

\* A response is two packets after its request.
Before(m) == IF m < 2 THEN 0 ELSE m - 2

\* There is a response for each request, two packets later.
LEMMA ResponseCount ==
  ASSUME NEW l, Conv!Complete(l)
  PROVE  \A m \in 0..Len(l) :
           Cardinality(Responses(l, m)) = Len(Conv!RequestsUpTo(l)[Before(m)])
<1> DEFINE R == Conv!RequestsUpTo(l)
           T == {m \in 0..Len(l) : /\ IsFiniteSet(Responses(l, m))
                                   /\ Cardinality(Responses(l, m)) = Len(R[Before(m)])}
<1>1. Len(l) \in Nat /\ Len(l) > 4
  BY Turns
<1>2. R[0] = <<>> /\ \A k \in 1..Len(l) : R[k] = WithPacket(l, R, k)
  BY <1>1, RequestsUnfold
<1>3. \A k \in 0..Len(l) : R[k] \in Seq(CmdsOf(l))
  BY <1>1, RequestsType
<1>4. l[1].name # "response" /\ l[2].name # "response"
  BY DEF Conv!Complete
<1>5. \A k \in 3..Len(l) : l[k].name = "response" <=> l[k - 2].name = "request"
  BY DEF Conv!Complete
<1> HIDE DEF R
<1>6. 0 \in T
  <2>1. Responses(l, 0) = {} /\ Before(0) = 0
    BY DEF Responses, Before
  <2>2. IsFiniteSet(Responses(l, 0)) /\ Cardinality(Responses(l, 0)) = 0
    BY <2>1, FS_EmptySet
  <2>3. Len(R[Before(0)]) = 0
    BY <1>2, <2>1
  <2>4. 0 \in 0..Len(l)
    BY <1>1
  <2> QED
    BY <2>2, <2>3, <2>4
<1>7. ASSUME NEW m \in 0..(Len(l) - 1), m \in T
      PROVE  m + 1 \in T
  <2>0. /\ IsFiniteSet(Responses(l, m)) /\ Cardinality(Responses(l, m)) = Len(R[Before(m)])
        /\ m + 1 \in 0..Len(l) /\ m \in Nat
    BY <1>1, <1>7
  <2>1. CASE m < 2
    <3>1. m + 1 = 1 \/ m + 1 = 2
      BY <2>0, <2>1
    <3>2. \A k \in 1..(m + 1) : k = 1 \/ k = 2
      BY <3>1
    <3>3. Responses(l, m + 1) = {} /\ Responses(l, m) = {}
      BY <1>4, <3>1, <3>2 DEF Responses
    <3>4. Before(m + 1) = 0 /\ Before(m) = 0
      BY <2>0, <2>1 DEF Before
    <3> QED
      BY <2>0, <3>3, <3>4
  <2>2. CASE m >= 2
    <3>1. /\ m + 1 \in 3..Len(l) /\ (m + 1) - 2 = m - 1 /\ m - 1 \in 1..Len(l)
          /\ Before(m + 1) = m - 1 /\ Before(m) = m - 2 /\ (m - 1) - 1 = m - 2
          /\ m - 2 \in 0..Len(l)
      BY <2>0, <2>2 DEF Before
    <3>2. R[m - 1] = IF l[m - 1].name = "request" THEN Append(R[m - 2], l[m - 1].cmd) ELSE R[m - 2]
      BY <1>2, <3>1, Zenon DEF WithPacket
    <3>3. l[m + 1].name = "response" <=> l[m - 1].name = "request"
      <4>1. l[m + 1].name = "response" <=> l[(m + 1) - 2].name = "request"
        BY <1>5, <3>1, Zenon
      <4> QED
        BY <3>1, <4>1
    <3>4. \A k \in 1..(m + 1) : k \in 1..m \/ k = m + 1
      BY <2>0
    <3>5. \A k \in 1..m : k \in 1..(m + 1) /\ k # m + 1
      BY <2>0
    <3>6. m + 1 \in 1..(m + 1)
      BY <2>0
    <3>7. CASE l[m + 1].name = "response"
      <4>1. Responses(l, m + 1) = Responses(l, m) \cup {m + 1} /\ m + 1 \notin Responses(l, m)
        BY <3>4, <3>5, <3>6, <3>7 DEF Responses
      <4>2. /\ IsFiniteSet(Responses(l, m + 1))
            /\ Cardinality(Responses(l, m + 1)) = Cardinality(Responses(l, m)) + 1
        <5>1. /\ IsFiniteSet(Responses(l, m) \cup {m + 1})
              /\ Cardinality(Responses(l, m) \cup {m + 1})
                   = IF m + 1 \in Responses(l, m) THEN Cardinality(Responses(l, m))
                     ELSE Cardinality(Responses(l, m)) + 1
          BY <2>0, FS_AddElement, Zenon
        <5> QED
          BY <4>1, <5>1
      <4>3. /\ R[m - 2] \in Seq(CmdsOf(l)) /\ l[m - 1].cmd \in CmdsOf(l)
        BY <1>3, <3>1 DEF CmdsOf
      <4>4. Len(R[m - 1]) = Len(R[m - 2]) + 1
        BY <3>2, <3>3, <3>7, <4>3, AppendProperties
      <4> QED
        BY <2>0, <3>1, <4>2, <4>4
    <3>8. CASE l[m + 1].name # "response"
      <4>1. Responses(l, m + 1) = Responses(l, m)
        BY <3>4, <3>5, <3>8 DEF Responses
      <4> QED
        BY <2>0, <3>1, <3>2, <3>3, <3>8, <4>1
    <3> QED
      BY <3>7, <3>8
  <2> QED
    BY <2>0, <2>1, <2>2
<1>8. \A m \in 0..Len(l) : m \in T
  <2> HIDE DEF T
  <2> QED
    BY <1>1, <1>6, <1>7, IntervalInduction
<1> QED
  BY <1>8 DEF R

\* One more packet asks for at most one more command, and two requests are never adjacent.
LEMMA RequestsOfTwo ==
  ASSUME NEW l, Conv!Complete(l), NEW m \in 2..Len(l)
  PROVE  LET R == Conv!RequestsUpTo(l)
         IN  /\ Len(R[m - 2]) \in Nat
             /\ Len(R[m - 1]) \in {Len(R[m - 2]), Len(R[m - 2]) + 1}
             /\ Len(R[m]) \in {Len(R[m - 1]), Len(R[m - 1]) + 1}
             /\ Len(R[m]) \in {Len(R[m - 2]), Len(R[m - 2]) + 1}
<1> DEFINE R == Conv!RequestsUpTo(l)
<1>1. Len(l) \in Nat /\ Len(l) > 4
  BY Turns
<1>2. \A k \in 1..Len(l) : R[k] = WithPacket(l, R, k)
  BY <1>1, RequestsUnfold
<1>3. \A k \in 0..Len(l) : R[k] \in Seq(CmdsOf(l))
  BY <1>1, RequestsType
<1> HIDE DEF R
<1>4. ASSUME NEW k \in 1..Len(l)
      PROVE  /\ Len(R[k - 1]) \in Nat
             /\ Len(R[k]) = IF l[k].name = "request" THEN Len(R[k - 1]) + 1 ELSE Len(R[k - 1])
  <2>1. k - 1 \in 0..Len(l) /\ l[k].cmd \in CmdsOf(l)
    BY <1>1 DEF CmdsOf
  <2>2. R[k - 1] \in Seq(CmdsOf(l))
    BY <1>3, <2>1
  <2>3. R[k] = IF l[k].name = "request" THEN Append(R[k - 1], l[k].cmd) ELSE R[k - 1]
    BY <1>2, Zenon DEF WithPacket
  <2>4. Len(R[k - 1]) \in Nat /\ Len(Append(R[k - 1], l[k].cmd)) = Len(R[k - 1]) + 1
    BY <2>1, <2>2, AppendProperties
  <2> QED
    BY <2>3, <2>4
<1>5. m \in 1..Len(l) /\ m - 1 \in 1..Len(l) /\ (m - 1) - 1 = m - 2 /\ (m - 1) + 1 = m
  BY <1>1
<1>6. ~ (l[m - 1].name = "request" /\ l[m].name = "request")
  <2>1. l[m - 1].name = "request" => l[(m - 1) + 1].name = "ack"
    BY <1>5, RequestAnswered, Zenon
  <2> QED
    BY <1>5, <2>1
<1>7. /\ Len(R[m - 2]) \in Nat
      /\ Len(R[m - 1]) = IF l[m - 1].name = "request" THEN Len(R[m - 2]) + 1 ELSE Len(R[m - 2])
      /\ Len(R[m]) = IF l[m].name = "request" THEN Len(R[m - 1]) + 1 ELSE Len(R[m - 1])
  <2>1. /\ Len(R[(m - 1) - 1]) \in Nat
        /\ Len(R[m - 1]) = IF l[m - 1].name = "request"
                             THEN Len(R[(m - 1) - 1]) + 1 ELSE Len(R[(m - 1) - 1])
    BY <1>4, <1>5, Zenon
  <2>2. Len(R[m]) = IF l[m].name = "request" THEN Len(R[m - 1]) + 1 ELSE Len(R[m - 1])
    BY <1>4, <1>5, Zenon
  <2> QED
    BY <1>5, <2>1, <2>2
<1> QED
  BY <1>6, <1>7 DEF R

\* What was executed is what is requested up to one of the last three packets processed.
LEMMA ExecutedNear ==
  ASSUME SenderInv, NEW m \in 2..Len(session), pos = m + 1
  PROVE  LET R == Conv!RequestsUpTo(session)
         IN  Conv!Complete(session) /\ executed \in {R[m - 2], R[m - 1], R[m]}
<1> DEFINE R == Conv!RequestsUpTo(session)
<1>1. /\ Conv!Complete(session) /\ (Following \/ GivenUp)
      /\ bl_pos \in 0..Len(session) /\ pos = m + 1 /\ m \in 2..Len(session)
      /\ Len(session) \in Nat /\ Len(session) > 4
  <2>1. Conv!Complete(session) /\ (Following \/ GivenUp)
    BY DEF SenderInv, Nothing, Replaying, Unconnected
  <2> QED
    BY <2>1, Turns DEF SenderInv, TypeOK
<1> SUFFICES executed \in {R[m - 2], R[m - 1], R[m]}
  BY <1>1
<1>2. CASE Following
  <2>1. /\ executed = R[bl_pos]
        /\ \A k \in (bl_pos + 1)..m : session[k].from = "host"
        /\ \A k \in (m + 1)..bl_pos : session[k].from = "bl"
    BY <1>1, <1>2 DEF Following
  <2>2. CASE bl_pos >= m
    <3>1. \A k \in (m + 1)..bl_pos : session[k].name # "request"
      <4> SUFFICES ASSUME NEW k \in (m + 1)..bl_pos, session[k].name = "request" PROVE FALSE
        OBVIOUS
      <4>1. k \in 1..Len(session)
        BY <1>1
      <4>2. session[k].from = "host"
        BY <1>1, <4>1, RequestAnswered
      <4> QED
        BY <2>1, <4>2
    <3>2. m \in 0..Len(session) /\ bl_pos \in m..Len(session)
      BY <1>1, <2>2
    <3>3. R[bl_pos] = R[m]
      BY <1>1, <3>1, <3>2, NoRequests
    <3> QED
      BY <2>1, <3>3
  <2>3. CASE bl_pos < m
    <3>1. /\ bl_pos + 1 \in 1..Len(session) /\ m \in (bl_pos + 1)..Len(session)
          /\ m \in Nat /\ bl_pos \in Nat
      BY <1>1, <2>3
    <3>2. \A x \in 1..Len(session) : \A y \in x..Len(session) :
            (\A i \in x..y : session[i].from = "host")
              => /\ y <= x + 1
                 /\ y = x + 1 => session[x].name = "ack" /\ session[y].name # "ack"
      <4>1. ShortRuns(session, "host")
        BY <1>1, Runs, Zenon
      <4> QED
        BY <4>1, Zenon DEF ShortRuns
    <3>3. m <= (bl_pos + 1) + 1
      BY <2>1, <3>1, <3>2, Zenon
    <3>4. bl_pos = m - 1 \/ bl_pos = m - 2
      BY <2>3, <3>1, <3>3
    <3> QED
      BY <2>1, <3>4
  <2> QED
    BY <1>1, <2>2, <2>3
<1>3. CASE GivenUp
  <2>1. PICK r \in 1..Len(session) : RefusedAt(r)
    BY <1>3 DEF GivenUp
  <2>2. executed = R[r - 1] /\ pos \in {r + 1, r + 2}
    BY <2>1 DEF RefusedAt
  <2>3. r - 1 = m - 1 \/ r - 1 = m - 2
    BY <1>1, <2>2
  <2> QED
    BY <2>2, <2>3
<1> QED
  BY <1>1, <1>2, <1>3

\* Before the first command of a session, and once the last is answered, there is no part
\* of it that is executed without the others.
LEMMA NothingOrAll ==
  ASSUME SenderInv, pos <= 3 \/ pos >= Len(session) - 1
  PROVE  executed \in {<<>>, Conv!Requested(session)}
<1> DEFINE R == Conv!RequestsUpTo(session)
<1>1. CASE ~ (Following \/ GivenUp)
  BY <1>1 DEF SenderInv, Nothing, Replaying, Unconnected
<1>2. CASE Following \/ GivenUp
  <2>1. Conv!Complete(session) /\ Len(session) \in Nat /\ Len(session) > 4
    <3>1. ~Nothing
      <4> SUFFICES ASSUME Nothing PROVE FALSE
        OBVIOUS
      <4>1. session = <<>> /\ Len(<<>>) = 0 /\ pos = 1
        BY DEF Nothing
      <4> QED
        BY <1>2, <4>1 DEF Following, GivenUp
    <3> QED
      BY <3>1, Turns DEF SenderInv, Replaying
  <2>2. \A r \in 1..Len(session) :
          session[r].name = "request" => r \in 3..(Len(session) - 4)
    <3> SUFFICES ASSUME NEW r \in 1..Len(session), session[r].name = "request"
                 PROVE  r \in 3..(Len(session) - 4)
      OBVIOUS
    <3>1. /\ r \in 3..(Len(session) - 2)
          /\ session[r + 2].name = "response" /\ session[r + 2].from = "bl"
      BY <2>1, RequestAnswered
    <3>2. session[Len(session)].name = "disconnection_reply" /\ session[Len(session)].from = "bl"
      BY <2>1 DEF Conv!Complete
    <3>3. r # Len(session) - 2
      BY <2>1, <3>1, <3>2
    <3>4. r # Len(session) - 3
      <4> SUFFICES ASSUME r = Len(session) - 3 PROVE FALSE
        OBVIOUS
      <4>1. r + 2 \in 1..(Len(session) - 1) /\ (r + 2) + 1 = Len(session)
        BY <2>1, <3>1
      <4>2. session[(r + 2) + 1].from = session[r + 2].from <=> session[r + 2].name = "ack"
        BY <2>1, <4>1, Turns
      <4> QED
        BY <3>1, <3>2, <4>1, <4>2
    <3> QED
      BY <2>1, <3>1, <3>3, <3>4
  <2>3. R[0] = <<>>
    BY <2>1, RequestsUnfold
  <2>4. \A k \in 0..2 : R[k] = R[0]
    <3> TAKE k \in 0..2
    <3>1. 0 \in 0..Len(session) /\ k \in 0..Len(session)
          /\ \A i \in (0 + 1)..k : session[i].name # "request"
      BY <2>1, <2>2
    <3> QED
      BY <2>1, <3>1, NoRequests
  <2>5. \A k \in (Len(session) - 4)..Len(session) : R[Len(session)] = R[k]
    <3> TAKE k \in (Len(session) - 4)..Len(session)
    <3>1. k \in 0..Len(session) /\ Len(session) \in k..Len(session)
          /\ \A i \in (k + 1)..Len(session) : session[i].name # "request"
      BY <2>1, <2>2
    <3> QED
      BY <2>1, <3>1, NoRequests
  <2>6. pos \in 3..(Len(session) + 1)
    <3>1. ASSUME NEW r \in 1..Len(session), RefusedAt(r) PROVE pos > 2
      BY <2>1, <2>2, <3>1 DEF RefusedAt
    <3>2. pos \in 1..(Len(session) + 1)
      BY <2>1 DEF SenderInv, TypeOK
    <3> QED
      BY <1>2, <2>1, <3>1, <3>2 DEF Following, GivenUp
  <2>7. PICK m \in 2..Len(session) : pos = m + 1
    <3>1. pos - 1 \in 2..Len(session) /\ pos = (pos - 1) + 1
      BY <2>1, <2>6
    <3> QED
      BY <3>1
  <2>8. executed \in {R[m - 2], R[m - 1], R[m]}
    BY <2>7, ExecutedNear
  <2>9. Conv!Requested(session) = R[Len(session)]
    BY DEF Conv!Requested
  <2> HIDE DEF R
  <2>10. CASE pos <= 3
    BY <2>1, <2>3, <2>4, <2>7, <2>8, <2>10
  <2>11. CASE pos >= Len(session) - 1
    BY <2>1, <2>5, <2>7, <2>8, <2>9, <2>11
  <2> QED
    BY <2>10, <2>11
<1> QED
  BY <1>1, <1>2

\* The sender is in step, whatever was lost, refused or is in flight.
LEMMA InvLockStep ==
  ASSUME SenderInv
  PROVE  LockStep
<1> DEFINE R == Conv!RequestsUpTo(session)
<1>0. pos \in 1..(Len(session) + 1) /\ bl_pos \in 0..Len(session)
  BY DEF SenderInv, TypeOK
<1>1. CASE pos = 1
  <2>1. executed = <<>>
    <3>1. ASSUME NEW r \in 1..Len(session), RefusedAt(r) PROVE FALSE
      BY <1>1, <3>1 DEF RefusedAt
    <3> QED
      BY <1>1, <3>1 DEF SenderInv, Nothing, Replaying, Unconnected, Following, GivenUp
  <2>2. {k \in 1..(pos - 1) : session[k].name = "response"} = {}
    BY <1>1
  <2>3. Confirmed = 0 /\ Len(executed) = 0
    BY <2>1, <2>2, FS_EmptySet DEF Confirmed
  <2> QED
    BY <2>3 DEF LockStep
<1>2. CASE pos # 1
  <2>1. Conv!Complete(session) /\ (Following \/ GivenUp)
    BY <1>2 DEF SenderInv, Nothing, Replaying, Unconnected
  <2>2. Len(session) \in Nat /\ Len(session) > 4
    BY <2>1, Turns
  <2>3. pos > 2
    <3>1. ASSUME NEW r \in 1..Len(session), RefusedAt(r) PROVE pos > 2
      <4>1. pos \in {r + 1, r + 2} /\ session[r].name = "request"
        BY <3>1 DEF RefusedAt
      <4>2. r \in 3..(Len(session) - 2)
        BY <2>1, <4>1, RequestAnswered
      <4> QED
        BY <4>1, <4>2
    <3> QED
      BY <2>1, <3>1 DEF Following, GivenUp
  <2>4. PICK m \in 2..Len(session) : pos = m + 1
    <3>1. pos - 1 \in 2..Len(session) /\ pos = (pos - 1) + 1
      BY <1>0, <2>2, <2>3
    <3> QED
      BY <3>1
  <2>5. Confirmed = Len(R[m - 2])
    <3>1. m \in 0..Len(session) /\ Before(m) = m - 2 /\ pos - 1 = m
      BY <2>2, <2>4 DEF Before
    <3>2. Cardinality(Responses(session, m)) = Len(R[m - 2])
      BY <2>1, <3>1, ResponseCount
    <3> QED
      BY <3>1, <3>2 DEF Confirmed, Responses
  <2>6. /\ Len(R[m - 2]) \in Nat
        /\ Len(R[m - 1]) \in {Len(R[m - 2]), Len(R[m - 2]) + 1}
        /\ Len(R[m]) \in {Len(R[m - 1]), Len(R[m - 1]) + 1}
        /\ Len(R[m]) \in {Len(R[m - 2]), Len(R[m - 2]) + 1}
    BY <2>1, <2>4, RequestsOfTwo
  <2>7. executed \in {R[m - 2], R[m - 1], R[m]}
    BY <2>4, ExecutedNear
  <2> HIDE DEF R
  <2> QED
    BY <2>5, <2>6, <2>7 DEF LockStep
<1> QED
  BY <1>1, <1>2

-----------------------------------------------------------------------------
(* serial_sender --auto-usb-detect.  With the bootloader on the port, the  *)
(* invariant is SenderInv.  With another device, which only swallows,      *)
(* returns or garbles what it is sent, the run does not get past the       *)
(* connection (Foreign).                                                   *)

\* The port is not open, and nothing has been sent.
Unopened == pc = "open_port" /\ to_bl = <<>> /\ to_host = <<>>

\* What there is before the connection is requested, and all that another device sees.
Foreign ==
  /\ Conv!Complete(session)
  /\ pos = 1 /\ bl_pos = 0 /\ executed = <<>> /\ ~refused /\ lost = 0
  /\ bl_out = <<>>
  /\ to_bl \in Seq({Junk, session[1]})
  /\ to_host \in Seq({Junk, session[1]})
  /\ options \in Options
  /\ TypeOK
  /\ pc # "packets"
  /\ pc = "exited" => return_code # 0

DetectInv ==
  /\ DetectTypeOK
  /\ listed = Len(session)
  /\ pc # "not_started"
  /\ det_pc # "opened" => Unopened /\ Foreign
  /\ det_pc = "opened" =>
       /\ pc # "open_port"
       /\ IF maxim_device = Bootloader THEN SenderInv ELSE Foreign

-----------------------------------------------------------------------------
\* A run that has not begun is one that the bootloader can follow.
LEMMA UnopenedIsSender ==
  ASSUME Foreign, Unopened
  PROVE  SenderInv
<1>1. LineType /\ (Nothing \/ Replaying)
  BY NotBegun DEF Foreign, Playable, Unopened
<1>2. Control
  BY DEF Foreign, Control, Unopened
<1> QED
  BY <1>1, <1>2 DEF Foreign, SenderInv

\* A run is started on a session that session_build wrote to its end.
LEMMA DetectInvInit ==
  ASSUME DetectInit
  PROVE  DetectInv
<1>1. PICK s \in Sessions, opts \in CommandLines : SenderInit(s, opts)
  BY DEF DetectInit, RunInit
<1>2. Conv!Complete(s) /\ opts \in Options /\ opts.first_retry_nb \in Nat
  BY SessionsAssumption DEF Options
<1>3. /\ session = s /\ to_bl = <<>> /\ bl_out = <<>> /\ to_host = <<>> /\ bl_pos = 0
      /\ executed = <<>> /\ loaded \subseteq OneTime /\ refused = FALSE /\ lost = 0
      /\ options = opts /\ listed = Len(s) /\ attempt = 0 /\ pos = 1
      /\ return_code = 0 /\ pc = "open_port"
  BY <1>1 DEF SenderInit, LinkInit, DetectInit, RunInit
<1>4. Len(session) \in Nat /\ MaxLost \in Nat
  BY <1>2, <1>3, Turns, LinkAssumption
<1>5. TypeOK
  BY <1>2, <1>3, <1>4 DEF TypeOK, PCS, RETURN_CODES
<1>6. Foreign
  <2>1. <<>> \in Seq({Junk, session[1]})
    OBVIOUS
  <2>2. Conv!Complete(session)
    BY <1>2, <1>3
  <2> QED
    BY <1>2, <1>3, <1>5, <2>1, <2>2 DEF Foreign
<1>7. DetectTypeOK
  BY <1>5, DetectAssumption DEF DetectInit, DetectTypeOK, Devices
<1> QED
  BY <1>3, <1>6, <1>7 DEF DetectInv, Unopened, DetectInit

\* A device that is not the bootloader sends nothing that it was not sent, but for junk.
LEMMA OtherDeviceKeeps ==
  ASSUME Foreign, OtherDevice, UNCHANGED sender_vars
  PROVE  Foreign'
<1> DEFINE P == {Junk, session[1]}
<1>1. /\ to_bl \in Seq(P) /\ to_host \in Seq(P) /\ to_bl # <<>> /\ Junk \in P
      /\ to_bl' = Tail(to_bl)
      /\ to_host' \in {to_host, Append(to_host, Head(to_bl)), Append(to_host, Junk)}
      /\ UNCHANGED <<session, bl_out, bl_pos, executed, loaded, refused, lost>>
  BY DEF Foreign, OtherDevice
<1>2. P' = P
  BY <1>1 DEF Junk, Conv!Packet
<1> HIDE DEF P, Junk
<1>3. to_bl' \in Seq(P) /\ to_host' \in Seq(P)
  <2>1. Head(to_bl) \in P /\ Tail(to_bl) \in Seq(P)
    BY <1>1
  <2>2. Append(to_host, Head(to_bl)) \in Seq(P) /\ Append(to_host, Junk) \in Seq(P)
    BY <1>1, <2>1
  <2> QED
    BY <1>1, <2>1, <2>2
<1>4. Conv!Complete(session)'
  BY <1>1, CompleteKept DEF Foreign
<1>5. TypeOK'
  BY <1>1 DEF Foreign, TypeOK, sender_vars, run_vars
<1> QED
  BY <1>1, <1>2, <1>3, <1>4, <1>5 DEF Foreign, P, sender_vars, run_vars

\* The sender does not take what another device answers for a connection reply.
LEMMA SenderStepKeeps ==
  ASSUME Foreign, SenderStep, pc # "open_port"
  PROVE  Foreign'
<1> DEFINE P == {Junk, session[1]}
<1>1. /\ to_bl \in Seq(P) /\ to_host \in Seq(P) /\ bl_out = <<>>
      /\ Len(session) \in Nat /\ Len(session) > 4 /\ pc # "packets"
      /\ options.first_retry_nb \in Nat /\ attempt \in 0..options.first_retry_nb
  BY Turns DEF Foreign, TypeOK, Options
<1>2. \A p \in P : p.name \in {"junk", "connection_request"}
  BY DEF Junk, Conv!Packet, Foreign, Conv!Complete
<1>3. session[2].name = "connection_reply"
  BY DEF Foreign, Conv!Complete
<1>4. ~Received(session[2])
  <2> SUFFICES ASSUME to_host # <<>>, Accepts(Head(to_host), session[2]) PROVE FALSE
    BY DEF Received
  <2>1. Head(to_host) \in P
    <3> HIDE DEF P
    <3> QED
      BY <1>1
  <2> QED
    BY <1>2, <1>3, <2>1 DEF Accepts
<1>5. /\ UNCHANGED <<session, bl_pos, executed, loaded, refused, lost, options, listed>>
      /\ bl_out' = <<>> /\ pos' = pos
      /\ attempt' \in 0..options.first_retry_nb
      /\ pc' \in {"parse", "first_try", "con_reply"} \/ (pc' = "exited" /\ return_code' # 0)
      /\ pc' \in PCS /\ return_code' \in RETURN_CODES
  <2>1. CASE parse_scpcmd_file \/ connection_failed
    BY <1>1, <2>1 DEF run_vars, parse_scpcmd_file, connection_failed, Exit, FAILED, NOT_CONNECTED,
       RETURN_CODES, PCS, link_vars, Foreign, TypeOK
  <2>2. CASE connection_request
    BY <1>1, <2>2 DEF run_vars, connection_request, OutOfRange, PCS, Foreign, TypeOK
  <2>3. CASE connection_reply
    <3>1. ReceiveFails(session[2]) /\ pc' = "first_try" /\ UNCHANGED pos
      BY <1>4, <2>3 DEF connection_reply
    <3>2. bl_out' = <<>>
      BY <1>1, <3>1 DEF ReceiveFails, ReadTimeout, readPacket
    <3> QED
      BY <1>1, <2>3, <3>1, <3>2 DEF run_vars, connection_reply, PCS, Foreign, TypeOK
  <2> QED
    BY <1>1, <2>1, <2>2, <2>3 DEF SenderStep, open_port, send, receive, receive_failed, InList,
       short_list, disconnected, Foreign
<1>6. P' = P
  BY <1>5 DEF Junk, Conv!Packet
<1>7. to_bl' \in Seq(P) /\ to_host' \in Seq(P)
  <2>1. to_bl' = to_bl \/ to_bl' = Append(to_bl, session[1])
    BY <1>1 DEF SenderStep, open_port, parse_scpcmd_file, connection_request,
       connection_failed, connection_reply, send, receive, receive_failed, InList,
       short_list, disconnected, link_vars
  <2>2. to_host' = to_host \/ (to_host # <<>> /\ readPacket)
    BY <1>1 DEF SenderStep, open_port, parse_scpcmd_file, connection_request,
       connection_failed, connection_reply, send, receive, receive_failed, InList,
       short_list, disconnected, link_vars, Received, ReceiveFails, ReadTimeout
  <2>3. session[1] \in P
    OBVIOUS
  <2> HIDE DEF P, Junk
  <2>4. to_bl' \in Seq(P)
    BY <1>1, <2>1, <2>3, SMTT(30)
  <2>5. to_host' \in Seq(P)
    <3>1. CASE to_host # <<>> /\ to_host' = Tail(to_host)
      BY <1>1, <3>1
    <3>2. ASSUME NEW n \in 1..Len(to_host), to_host' = SubSeq(to_host, n + 1, Len(to_host))
          PROVE  to_host' \in Seq(P)
      BY <1>1, <3>2
    <3> QED
      BY <1>1, <2>2, <3>1, <3>2 DEF readPacket
  <2> QED
    BY <2>4, <2>5
<1>8. Conv!Complete(session)'
  BY <1>5, CompleteKept DEF Foreign
<1>9. TypeOK'
  BY <1>1, <1>5 DEF Foreign, TypeOK
<1> QED
  BY <1>5, <1>6, <1>7, <1>8, <1>9 DEF Foreign

\* Every step of the detection and of the run preserves the invariant.
LEMMA DetectInvStep ==
  ASSUME DetectInv, [DetectNext]_detect_all_vars
  PROVE  DetectInv'
<1>1. ASSUME DetectStep \/ BusEvent, ~OpenPort
      PROVE  DetectInv'
  <2>1. /\ UNCHANGED vars /\ pc = "open_port" /\ det_pc # "opened" /\ det_pc' # "opened"
    BY <1>1 DEF DetectStep, BusEvent, observer_start, poll, loop_ended, observer_stop, Waiting,
       DetectInv
  <2>2. DetectTypeOK'
    <3>1. TypeOK'
      BY <2>1 DEF DetectInv, DetectTypeOK, TypeOK, vars, link_vars, sender_vars, run_vars
    <3>2. CASE DetectStep
      BY <1>1, <3>1, <3>2, DetectAssumption DEF DetectInv, DetectTypeOK, DetectStep,
         observer_start, poll, loop_ended, observer_stop, Waiting, Tick
    <3>3. CASE BusEvent
      BY <3>1, <3>3 DEF DetectInv, DetectTypeOK, BusEvent, device_event
    <3> QED
      BY <1>1, <3>2, <3>3
  <2>3. Unopened' /\ Foreign'
    <3>1. Unopened /\ Foreign
      BY <2>1 DEF DetectInv
    <3>2. Conv!Complete(session)' /\ TypeOK'
      BY <2>1, <2>2, <3>1, CompleteKept DEF Foreign, DetectTypeOK, vars
    <3> QED
      BY <2>1, <3>1, <3>2 DEF Unopened, Foreign, vars, link_vars, sender_vars, run_vars, Junk, Conv!Packet
  <2>4. listed' = Len(session')
    BY <2>1 DEF DetectInv, vars, sender_vars, run_vars
  <2> QED
    BY <2>1, <2>2, <2>3, <2>4 DEF DetectInv, Unopened
<1>2. ASSUME OpenPort
      PROVE  DetectInv'
  <2>1. /\ det_pc' = "opened" /\ Unopened /\ Foreign /\ DetectTypeOK
        /\ UNCHANGED <<session, link_vars, options, listed, attempt, pos, maxim_device>>
        /\ pc' = "parse" \/ (pc' = "exited" /\ return_code' # 0)
        /\ pc' \in PCS /\ return_code' \in RETURN_CODES
    <3>1. det_pc = "open" /\ det_pc' = "opened" /\ pc = "open_port"
      BY <1>2 DEF OpenPort, Waiting
    <3>2. Unopened /\ Foreign /\ DetectTypeOK
      BY <3>1 DEF DetectInv
    <3>3. return_code \in RETURN_CODES
      BY <3>2 DEF DetectTypeOK, TypeOK
    <3>4. UNCHANGED <<session, link_vars, options, listed, attempt, pos, maxim_device>>
      BY <1>2 DEF run_vars, OpenPort
    <3>5. \/ pc' = "parse" /\ return_code' = return_code
          \/ pc' = "exited" /\ return_code' \in {FAILED, 1}
      BY <1>2 DEF OpenPort, Exit
    <3> QED
      BY <3>1, <3>2, <3>3, <3>4, <3>5 DEF FAILED, RESTRICTED, PCS, RETURN_CODES
  <2>2. TypeOK'
    BY <2>1 DEF Foreign, TypeOK, link_vars
  <2>3. DetectTypeOK'
    BY <1>2, <2>1, <2>2 DEF DetectTypeOK, OpenPort, Waiting
  <2>4. Conv!Complete(session)'
    BY <2>1, CompleteKept DEF Foreign
  <2>5. Foreign' /\ to_bl' = <<>> /\ to_host' = <<>>
    BY <2>1, <2>2, <2>4 DEF Unopened, Foreign, link_vars, Junk, Conv!Packet
  <2>6. SenderInv'
    <3>1. SenderInv
      BY <2>1, UnopenedIsSender
    <3>2. LineType' /\ (Nothing \/ Replaying)'
      BY <2>1, <3>1, Unmoved DEF SenderInv
    <3>3. Control'
      BY <2>1 DEF Control, Foreign
    <3> QED
      BY <2>1, <2>2, <3>1, <3>2, <3>3 DEF SenderInv
  <2> QED
    BY <2>1, <2>3, <2>5, <2>6 DEF DetectInv
<1>3. ASSUME ReplayStep
      PROVE  DetectInv'
  <2>1. /\ det_pc = "opened" /\ pc # "open_port" /\ SenderStep /\ UNCHANGED det_vars
        /\ DetectTypeOK
    BY <1>3 DEF ReplayStep, DetectInv, Unopened
  <2>2. pc' # "open_port" /\ pc' # "not_started"
    BY <2>1 DEF SenderStep, open_port, parse_scpcmd_file, connection_request,
       connection_failed, connection_reply, send, receive, receive_failed, OnFailure, Exit, InList,
       short_list, disconnected, DetectInv
  <2>3. listed' = Len(session')
    BY <2>1, SameList DEF DetectInv, RunStep
  <2>4. CASE maxim_device = Bootloader
    <3>1. SenderInv'
      BY <2>1, <2>4, SenderInvStep DEF DetectInv, RunStep
    <3>2. DetectTypeOK'
      BY <2>1, <3>1 DEF DetectTypeOK, SenderInv, det_vars
    <3> QED
      BY <2>1, <2>2, <2>3, <2>4, <3>1, <3>2 DEF DetectInv, det_vars
  <2>5. CASE maxim_device # Bootloader
    <3>1. Foreign'
      BY <2>1, <2>5, SenderStepKeeps DEF DetectInv
    <3>2. DetectTypeOK'
      BY <2>1, <3>1 DEF DetectTypeOK, Foreign, det_vars
    <3> QED
      BY <2>1, <2>2, <2>3, <2>5, <3>1, <3>2 DEF DetectInv, det_vars
  <2> QED
    BY <2>4, <2>5
<1>4. ASSUME DeviceStep
      PROVE  DetectInv'
  <2>1. /\ det_pc = "opened" /\ pc # "open_port" /\ UNCHANGED sender_vars /\ UNCHANGED det_vars
        /\ DetectTypeOK
    BY <1>4 DEF DeviceStep, DetectInv, Unopened
  <2>2. listed' = Len(session')
    BY <1>4, <2>1 DEF DeviceStep, LinkStep, BlReceive, Deliver, Lose, OtherDevice, DetectInv,
       sender_vars, run_vars
  <2>3. CASE maxim_device = Bootloader
    <3>1. SenderInv'
      BY <1>4, <2>1, <2>3, SenderInvStep DEF DetectInv, RunStep, DeviceStep
    <3>2. DetectTypeOK'
      BY <2>1, <3>1 DEF DetectTypeOK, SenderInv, det_vars
    <3> QED
      BY <2>1, <2>2, <2>3, <3>1, <3>2 DEF DetectInv, det_vars, sender_vars
  <2>4. CASE maxim_device # Bootloader
    <3>1. Foreign'
      BY <1>4, <2>1, <2>4, OtherDeviceKeeps DEF DetectInv, DeviceStep
    <3>2. DetectTypeOK'
      BY <2>1, <3>1 DEF DetectTypeOK, Foreign, det_vars
    <3> QED
      BY <2>1, <2>2, <2>4, <3>1, <3>2 DEF DetectInv, det_vars, sender_vars
  <2> QED
    BY <2>3, <2>4
<1>5. ASSUME UNCHANGED detect_all_vars
      PROVE  DetectInv'
  <2>1. Conv!Complete(session)' <=> Conv!Complete(session)
    BY <1>5, CompleteKept DEF detect_all_vars, vars
  <2>2. TypeOK' <=> TypeOK
    BY <1>5 DEF detect_all_vars, vars, link_vars, sender_vars, run_vars, TypeOK
  <2>3. Foreign => Foreign'
    BY <1>5, <2>1, <2>2 DEF detect_all_vars, vars, link_vars, sender_vars, run_vars, Foreign, Junk, Conv!Packet
  <2>4. SenderInv => SenderInv'
    <3> SUFFICES ASSUME SenderInv PROVE SenderInv'
      OBVIOUS
    <3>1. LineType' /\ (Nothing \/ Replaying)'
      BY <1>5, Unmoved DEF SenderInv, detect_all_vars, vars, link_vars, sender_vars
    <3>2. Control'
      BY <1>5 DEF SenderInv, Control, detect_all_vars, vars, link_vars, sender_vars, run_vars
    <3> QED
      BY <1>5, <2>2, <3>1, <3>2 DEF SenderInv, detect_all_vars, vars, sender_vars, run_vars
  <2>5. DetectTypeOK'
    BY <1>5, <2>2 DEF DetectInv, DetectTypeOK, detect_all_vars, det_vars
  <2> QED
    BY <1>5, <2>3, <2>4, <2>5 DEF DetectInv, Unopened, detect_all_vars, vars, link_vars, sender_vars, run_vars,
       det_vars
<1> QED
  BY <1>1, <1>2, <1>3, <1>4, <1>5 DEF DetectNext

\* The invariant holds of every behavior.
THEOREM DetectInvariance == DetectSpec => []DetectInv
<1>1. DetectInit => DetectInv
  BY DetectInvInit
<1>2. DetectInv /\ [DetectNext]_detect_all_vars => DetectInv'
  BY DetectInvStep
<1> QED
  BY <1>1, <1>2, PTL DEF DetectSpec

\* DetectTypeCorrect: the state of the detection, of the sender and of the link is well formed.
THEOREM DetectTypeCorrect == DetectSpec => []DetectTypeOK
<1>1. DetectInv => DetectTypeOK
  BY DEF DetectInv
<1> QED
  BY <1>1, DetectInvariance, PTL

(* SuccessOnlyOfBootloader: whether the detection settles on the           *)
(* bootloader or on a device that does not speak its protocol, and only    *)
(* swallows, echoes or garbles what it is sent, a session is reported to   *)
(* have succeeded only when it was replayed to the bootloader.             *)
THEOREM SuccessOnlyOfBootloader == DetectSpec => []SuccessIsBootloader
<1>1. DetectInv => SuccessIsBootloader
  BY DEF DetectInv, SuccessIsBootloader, Foreign, Unopened
<1> QED
  BY <1>1, DetectInvariance, PTL

(* OneCommandAhead: between the bootloader and the responses that the      *)
(* sender has accepted there is at most one command, at every moment and   *)
(* whatever the line does, so that a run that fails leaves at most one     *)
(* command in doubt.                                                       *)
THEOREM OneCommandAhead == DetectSpec => []LockStep
<1>1. ASSUME DetectInv
      PROVE  LockStep
  <2>1. CASE SenderInv
    BY <2>1, InvLockStep
  <2>2. CASE Foreign
    <3>1. {k \in 1..(pos - 1) : session[k].name = "response"} = {} /\ executed = <<>>
      BY <2>2 DEF Foreign
    <3>2. Confirmed = 0 /\ Len(executed) = 0
      BY <3>1, FS_EmptySet DEF Confirmed
    <3> QED
      BY <3>2 DEF LockStep
  <2> QED
    BY <1>1, <2>1, <2>2 DEF DetectInv
<1> QED
  BY <1>1, DetectInvariance, PTL

(* RunsAreReplays: serial_sender implements module ScpReplay.  Only the    *)
(* bootloader executes a command, the next of the session, never after     *)
(* success was reported; and success is reported only once all of them     *)
(* were executed.                                                          *)
THEOREM RunsAreReplays == DetectSpec => IsReplay
<1> DEFINE outcome == IF pc # "exited" THEN "none"
                      ELSE IF return_code = 0 THEN "success" ELSE "failure"
           replay == <<Conv!Requested(session), executed, outcome>>
<1>1. DetectInit => Replay!Init
  BY DEF DetectInit, RunInit, SenderInit, LinkInit, Replay!Init
<1>2. ASSUME DetectInv, DetectInv', [DetectNext]_detect_all_vars
      PROVE  [Replay!Next]_replay
  <2>1. CASE RunStep /\ SenderInv
    BY <1>2, <2>1, ReplaySimulation DEF DetectInv
  <2>2. CASE UNCHANGED <<session, executed, pc, return_code>>
    BY <2>2 DEF Conv!Requested, Conv!RequestsUpTo
  <2>3. CASE /\ UNCHANGED <<session, executed>>
             /\ pc # "exited"
             /\ pc' # "exited" \/ return_code' # 0
    <3>1. Conv!Requested(session)' = Conv!Requested(session)
      BY <2>3 DEF Conv!Requested, Conv!RequestsUpTo
    <3>2. CASE pc' # "exited"
      BY <2>3, <3>1, <3>2
    <3>3. CASE pc' = "exited"
      <4>1. Replay!Fail
        BY <2>3, <3>1, <3>3 DEF Replay!Fail
      <4> QED
        BY <4>1 DEF Replay!Next
    <3> QED
      BY <3>2, <3>3
  <2>4. CASE DetectStep \/ BusEvent \/ UNCHANGED detect_all_vars
    <3>1. CASE OpenPort
      BY <2>3, <3>1 DEF OpenPort, Waiting, Exit, FAILED, link_vars
    <3>2. CASE ~OpenPort
      BY <2>2, <2>4, <3>2 DEF DetectStep, BusEvent, observer_start, poll, loop_ended,
         observer_stop, detect_all_vars, vars, link_vars, sender_vars
    <3> QED
      BY <3>1, <3>2
  <2>5. CASE ReplayStep \/ DeviceStep
    <3>1. det_pc = "opened" /\ pc # "open_port"
      BY <1>2, <2>5 DEF ReplayStep, DeviceStep, DetectInv, Unopened
    <3>2. CASE maxim_device = Bootloader
      BY <1>2, <2>1, <2>5, <3>1, <3>2 DEF ReplayStep, DeviceStep, RunStep, DetectInv
    <3>3. CASE maxim_device # Bootloader
      <4>1. Foreign /\ maxim_device' = maxim_device /\ det_pc' = det_pc
        BY <1>2, <2>5, <3>1, <3>3 DEF DetectInv, ReplayStep, DeviceStep, det_vars
      <4>2. Foreign'
        BY <1>2, <3>1, <3>3, <4>1 DEF DetectInv
      <4>3. CASE DeviceStep
        BY <2>2, <3>3, <4>3 DEF DeviceStep, OtherDevice, sender_vars
      <4>4. CASE ReplayStep
        <5>1. UNCHANGED session /\ pc # "exited"
          BY <4>4 DEF ReplayStep, SenderStep, open_port, parse_scpcmd_file,
             connection_request, connection_failed, connection_reply, send, receive,
             receive_failed, InList, short_list, disconnected
        <5> QED
          BY <2>3, <4>1, <4>2, <5>1 DEF Foreign
      <4> QED
        BY <2>5, <4>3, <4>4
    <3> QED
      BY <3>2, <3>3
  <2> QED
    BY <1>2, <2>4, <2>5 DEF DetectNext
<1> HIDE DEF replay
<1>3. DetectSpec => Replay!Init /\ [][Replay!Next]_replay
  BY <1>1, <1>2, DetectInvariance, PTL DEF DetectSpec
<1> QED
  BY <1>3 DEF IsReplay, Replay!Spec, replay
=============================================================================
