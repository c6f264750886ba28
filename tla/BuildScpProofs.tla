---------------------------- MODULE BuildScpProofs ----------------------------
(***************************************************************************)
(* Of the signer, its parser and the script that runs the signer, for any  *)
(* binaries, configurations and keys, and whatever command fails.          *)
(*                                                                         *)
(* Bytes of a signature stand only where the signer put them: where the    *)
(* parser finds a signature, it is the one of the image, and all that was  *)
(* signed precedes it.  The rest is an invariant of the builds, BuildInv,  *)
(* that says what each file and directory holds at each step of a script.  *)
(***************************************************************************)
EXTENDS BuildScp, SequenceTheorems, TLAPS

-----------------------------------------------------------------------------
(* Bytes, files and fields.                                                *)

ByteCells == {Byte(v) : v \in Octet}

\* The longest binary.
IntMax == 2147483647

LEMMA BytesAreCells ==
  ASSUME NEW s \in Seq(Octet)
  PROVE  Bytes(s) \in Seq(ByteCells) /\ Len(Bytes(s)) = Len(s)
  BY DEF Bytes, ByteCells

LEMMA ByteTag ==
  /\ \A b \in ByteCells : b[1] = "byte" /\ b[2] \in Octet
  /\ Behind[1] = "behind"
  BY DEF ByteCells, Byte, Behind

LEMMA SignatureCells ==
  ASSUME NEW algo, algo \in {"rsa", "ecdsa"}, NEW key, NEW p
  PROVE  /\ SIGNATURE_LEN[algo] \in Nat
         /\ SIGNATURE_LEN[algo] # 0
         /\ Len(Signature(algo, key, p)) = SIGNATURE_LEN[algo]
         /\ \E S : Signature(algo, key, p) \in Seq(S)
         /\ \A k \in 1..SIGNATURE_LEN[algo] :
              Signature(algo, key, p)[k] = <<"signature", k, algo, key, p>>
<1>1. SIGNATURE_LEN[algo] \in Nat /\ SIGNATURE_LEN[algo] # 0
  BY CaSignAssumption
<1> DEFINE n == SIGNATURE_LEN[algo]
           f == [k \in 1..n |-> <<"signature", k, algo, key, p>>]
           T == {f[k] : k \in 1..n}
<1>2. \A k \in 1..n : f[k] = <<"signature", k, algo, key, p>>
  OBVIOUS
<1>3. f \in [1..n -> T]
  <2>1. \A k \in 1..n : f[k] \in T
    OBVIOUS
  <2>2. f = [k \in 1..n |-> f[k]]
    OBVIOUS
  <2> HIDE DEF f, T
  <2> QED
    BY <2>1, <2>2
<1>4. Signature(algo, key, p) = f
  BY DEF Signature
<1>5. n \in Nat /\ n # 0
  BY <1>1
<1> HIDE DEF f, T, n
<1>6. f \in Seq(T) /\ Len(f) = n
  BY <1>3, <1>5
<1> QED
  BY <1>2, <1>4, <1>5, <1>6, Zenon DEF n

LEMMA NumberOf ==
  ASSUME NEW v \in Nat
  PROVE  /\ BigEndian(v) \in Seq(ByteCells)
         /\ Len(BigEndian(v)) = 4
         /\ Number(BigEndian(v)) \in Nat
         /\ Number(BigEndian(v)) <= v
         /\ v <= IntMax => Number(BigEndian(v)) = v
<1>1. /\ BigEndian(v)[1] = <<"byte", (v \div 16777216) % 256>>
      /\ BigEndian(v)[2] = <<"byte", (v \div 65536) % 256>>
      /\ BigEndian(v)[3] = <<"byte", (v \div 256) % 256>>
      /\ BigEndian(v)[4] = <<"byte", (v \div 1) % 256>>
  BY DEF BigEndian, Weight, Byte
<1>2. Number(BigEndian(v)) = ((((v \div 16777216) % 256) * 256 + ((v \div 65536) % 256)) * 256
                                + ((v \div 256) % 256)) * 256 + (v % 256)
  BY <1>1 DEF Number
<1> DEFINE q1 == v \div 256
           q2 == q1 \div 256
           q3 == q2 \div 256
<1>3. /\ q1 \in Nat /\ v = 256 * q1 + (v % 256) /\ v % 256 \in Octet
      /\ q2 \in Nat /\ q1 = 256 * q2 + (q1 % 256) /\ q1 % 256 \in Octet
      /\ q3 \in Nat /\ q2 = 256 * q3 + (q2 % 256) /\ q2 % 256 \in Octet
  BY DEF Octet
<1>4. v \div 65536 = q2 /\ v \div 16777216 = q3
  BY Z3
<1>5. q3 % 256 \in Octet /\ q3 % 256 <= q3 /\ (q3 < 256 => q3 % 256 = q3)
  BY <1>3 DEF Octet
<1>6. BigEndian(v) \in Seq(ByteCells) /\ Len(BigEndian(v)) = 4
  <2>1. \A k \in 1..4 : (v \div Weight[k]) % 256 \in Octet
    BY <1>3, <1>4, <1>5 DEF Weight
  <2> QED
    BY <2>1 DEF BigEndian, ByteCells
<1> QED
  BY SMT, <1>2, <1>3, <1>4, <1>5, <1>6 DEF Octet, IntMax

-----------------------------------------------------------------------------
(* What the parser accepts.                                                *)

\* p signed with c.
Image(p, c) == p \o Signature(c.algo, c.key, p)

LEMMA ImageCells ==
  ASSUME NEW p \in Seq(ByteCells), NEW c \in Configs
  PROVE  /\ c.algo \in {"rsa", "ecdsa"} /\ Len(p) \in Nat
         /\ SIGNATURE_LEN[c.algo] \in Nat \ {0}
         /\ Len(Image(p, c)) = Len(p) + SIGNATURE_LEN[c.algo]
         /\ \E S : Image(p, c) \in Seq(S)
         /\ \A i \in 1..Len(p) : Image(p, c)[i] = p[i] /\ p[i] \in ByteCells
         /\ \A i \in (Len(p) + 1)..Len(Image(p, c)) :
              Image(p, c)[i] = <<"signature", i - Len(p), c.algo, c.key, p>>
<1> DEFINE sig == Signature(c.algo, c.key, p)
<1>1. c.algo \in {"rsa", "ecdsa"}
  BY CaSignAssumption
<1>2. /\ SIGNATURE_LEN[c.algo] \in Nat
      /\ SIGNATURE_LEN[c.algo] # 0
      /\ Len(sig) = SIGNATURE_LEN[c.algo]
      /\ \E T : sig \in Seq(T)
      /\ \A k \in 1..SIGNATURE_LEN[c.algo] : sig[k] = <<"signature", k, c.algo, c.key, p>>
  <2> DEFINE a == c.algo
             q == c.key
  <2>1. a \in {"rsa", "ecdsa"}
    BY <1>1
  <2> HIDE DEF a, q
  <2>2. /\ SIGNATURE_LEN[a] \in Nat
        /\ SIGNATURE_LEN[a] # 0
        /\ Len(Signature(a, q, p)) = SIGNATURE_LEN[a]
        /\ \E T : Signature(a, q, p) \in Seq(T)
        /\ \A k \in 1..SIGNATURE_LEN[a] : Signature(a, q, p)[k] = <<"signature", k, a, q, p>>
    BY <2>1, SignatureCells, ZenonT(40)
  <2> QED
    BY <2>2 DEF a, q
<1> HIDE DEF sig
<1>b. PICK T : sig \in Seq(T)
  BY <1>2
<1> DEFINE S == ByteCells \cup T
<1>3. p \in Seq(S) /\ sig \in Seq(S) /\ Len(p) \in Nat
  BY <1>b
<1> HIDE DEF S
<1>4. /\ p \o sig \in Seq(S)
      /\ Len(p \o sig) = Len(p) + Len(sig)
      /\ \A i \in 1..Len(p) + Len(sig) :
           (p \o sig)[i] = IF i <= Len(p) THEN p[i] ELSE sig[i - Len(p)]
  BY <1>3, ConcatProperties
<1>5. Image(p, c) = p \o sig
  BY DEF Image, sig
<1>6. \A i \in 1..Len(p) : p[i] \in ByteCells
  OBVIOUS
<1>7. ASSUME NEW i \in (Len(p) + 1)..Len(Image(p, c))
      PROVE  Image(p, c)[i] = <<"signature", i - Len(p), c.algo, c.key, p>>
  <2>1. i \in (Len(p) + 1)..(Len(p) + Len(sig)) /\ Len(p) \in Nat /\ Len(sig) \in Nat
    BY <1>2, <1>3, <1>4, <1>5
  <2>2. i - Len(p) \in 1..Len(sig) /\ ~(i <= Len(p)) /\ i \in 1..Len(p) + Len(sig)
    BY <2>1
  <2> QED
    BY <1>2, <1>4, <1>5, <2>2
<1>8. \A i \in 1..Len(p) : Image(p, c)[i] = p[i]
  <2>1. \A i \in 1..Len(p) : i \in 1..Len(p) + Len(sig) /\ i <= Len(p)
    BY <1>2, <1>3
  <2> QED
    BY <1>4, <1>5, <2>1
<1> QED
  BY <1>1, <1>2, <1>3, <1>4, <1>5, <1>6, <1>7, <1>8

LEMMA HeaderLength ==
  /\ header_len("rsa") = 56 /\ header_len("ecdsa") = 32
  /\ TailLen("rsa") = 28 /\ TailLen("ecdsa") = 4
  /\ LengthOffset = 16
  BY DEF header_len, FixedLen, TailLen, LengthOffset, HEADER_VERSION_LEN,
     HEADER_LOAD_ADDRESS_LEN, HEADER_BINARY_LEN, HEADER_JUMP_ADDRESS_LEN, HEADER_ARGV_LEN,
     HEADER_SLOTS_LEN, HEADER_APPLICATION_VERSION_LEN

\* The beginning of what was signed is accepted only if it is all of it, and only with
\* the algorithm and the key it was signed with: the signature is found where the length
\* in the image says, and bytes of it are only where the signer put them.
LEMMA AcceptedIsWhole ==
  ASSUME NEW p \in Seq(ByteCells), NEW c \in Configs, NEW n \in 0..Len(Image(p, c)),
         NEW algo \in {"rsa", "ecdsa"}, NEW key,
         Accepted(SubSeq(Image(p, c), 1, n), algo, key)
  PROVE  /\ n = Len(Image(p, c))
         /\ algo = c.algo /\ key = c.key
         /\ header_len(algo) + binary_len(SubSeq(Image(p, c), 1, n)) = Len(p)
<1> DEFINE w == Image(p, c)
           image == SubSeq(w, 1, n)
<1>1. /\ c.algo \in {"rsa", "ecdsa"} /\ Len(p) \in Nat
      /\ SIGNATURE_LEN[c.algo] \in Nat \ {0}
      /\ Len(w) = Len(p) + SIGNATURE_LEN[c.algo]
      /\ \A i \in 1..Len(p) : w[i] = p[i] /\ p[i] \in ByteCells
      /\ \A i \in (Len(p) + 1)..Len(w) : w[i] = <<"signature", i - Len(p), c.algo, c.key, p>>
  BY ImageCells
<1>2. PICK S : w \in Seq(S)
  BY ImageCells
<1> HIDE DEF w
<1>n. n \in 0..Len(w) /\ Len(w) \in Nat
  BY <1>1 DEF w
<1>3. Len(image) = n /\ \A i \in 1..n : image[i] = w[i]
  <2>1. \A i \in 1..n : w[i] \in S
    BY <1>2, <1>n
  <2> QED
    BY <1>n, <2>1, SubSeqProperties
<1>4. Synchronised(image, algo) /\ Accepted(image, algo, key)
  BY DEF Accepted, w
<1> HIDE DEF image
<1>6. binary_len(image) \in Nat
  <2> DEFINE f == Field(image, LengthOffset, HEADER_BINARY_LEN)
  <2>1. \A k \in 1..4 : f[k] = IF 16 + k <= n THEN w[16 + k] ELSE Behind
    BY <1>3, <1>n, HeaderLength DEF Field, HEADER_BINARY_LEN
  <2>2. \A i \in 1..Len(w) : w[i][2] \in Nat
    <3> TAKE i \in 1..Len(w)
    <3>1. CASE i \in 1..Len(p)
      <4>1. w[i] \in ByteCells
        BY <1>1, <3>1
      <4>2. w[i][2] \in Octet
        BY <4>1, ByteTag
      <4>3. \A v \in Octet : v \in Nat
        BY DEF Octet
      <4> QED
        BY <4>2, <4>3, Zenon
    <3>2. CASE i \in (Len(p) + 1)..Len(w)
      <4>1. w[i] = <<"signature", i - Len(p), c.algo, c.key, p>>
        BY <1>1, <3>2
      <4>2. w[i][2] = i - Len(p)
        BY <4>1
      <4> QED
        BY <1>1, <3>2, <4>2
    <3> QED
      BY <1>1, <3>1, <3>2
  <2> HIDE DEF f
  <2>3. \A k \in 1..4 : f[k][2] \in Nat
    <3> TAKE k \in 1..4
    <3>1. CASE 16 + k <= n
      <4>1. 16 + k \in 1..Len(w)
        BY <1>n, <3>1
      <4> QED
        BY <2>1, <2>2, <3>1, <4>1
    <3>2. CASE ~(16 + k <= n)
      <4>1. Behind[2] \in Nat
        BY DEF Behind
      <4> QED
        BY <2>1, <3>2, <4>1
    <3> QED
      BY <3>1, <3>2
  <2> DEFINE b(k) == f[k][2]
  <2>4. b(1) \in Nat /\ b(2) \in Nat /\ b(3) \in Nat /\ b(4) \in Nat
    BY <2>3
  <2>5. Number(f) = ((b(1) * 256 + b(2)) * 256 + b(3)) * 256 + b(4)
    BY DEF Number
  <2> HIDE DEF b
  <2>6. Number(f) \in Nat
    BY <2>4, <2>5
  <2> QED
    BY <2>6 DEF binary_len, f
<1> DEFINE len == header_len(algo) + binary_len(image)
           over == Field(image, 0, len)
<1>7. len \in Nat
  BY <1>6, HeaderLength
<1>8. Field(image, len, SIGNATURE_LEN[algo]) = Signature(algo, key, over)
  BY <1>4 DEF Accepted
<1> HIDE DEF len, over
<1>9. /\ SIGNATURE_LEN[algo] \in Nat \ {0}
      /\ \A k \in 1..SIGNATURE_LEN[algo] :
           Signature(algo, key, over)[k] = <<"signature", k, algo, key, over>>
  BY SignatureCells, ZenonT(40)
<1>10. ASSUME NEW k \in 1..SIGNATURE_LEN[algo]
       PROVE  /\ len + k <= Len(w) /\ len + k <= n
              /\ len + k > Len(p)
              /\ k = (len + k) - Len(p) /\ algo = c.algo /\ key = c.key
  <2>1. Field(image, len, SIGNATURE_LEN[algo])[k]
          = IF len + k <= Len(image) THEN image[len + k] ELSE Behind
    BY DEF Field
  <2>2. (IF len + k <= Len(image) THEN image[len + k] ELSE Behind)
          = <<"signature", k, algo, key, over>>
    BY <1>8, <1>9, <2>1
  <2>3. len + k <= Len(image)
    <3> SUFFICES ASSUME ~(len + k <= Len(image)) PROVE FALSE
      OBVIOUS
    <3>1. Behind = <<"signature", k, algo, key, over>>
      BY <2>2
    <3>2. Behind[1] = "signature"
      BY <3>1
    <3> QED
      BY <3>2, ByteTag
  <2>4. len + k <= n /\ len + k \in 1..Len(w) /\ k \in Nat
    BY <1>3, <1>7, <1>9, <1>n, <2>3
  <2>5. w[len + k] = <<"signature", k, algo, key, over>>
    BY <1>3, <1>7, <1>9, <2>2, <2>3, <2>4
  <2>6. len + k \notin 1..Len(p)
    <3> SUFFICES ASSUME len + k \in 1..Len(p) PROVE FALSE
      OBVIOUS
    <3>1. w[len + k] \in ByteCells
      BY <1>1
    <3>2. w[len + k][1] = "byte" /\ w[len + k][1] = "signature"
      BY <2>5, <3>1, ByteTag
    <3> QED
      BY <3>2
  <2>7. len + k \in (Len(p) + 1)..Len(w)
    BY <1>1, <1>n, <2>4, <2>6
  <2>8. k = (len + k) - Len(p) /\ algo = c.algo /\ key = c.key
    <3> DEFINE j == len + k
    <3>0. j \in (Len(p) + 1)..Len(w)
      BY <2>7
    <3> HIDE DEF j
    <3>1. w[j] = <<"signature", j - Len(p), c.algo, c.key, p>>
      BY <1>1, <3>0
    <3>2. w[j] = <<"signature", k, algo, key, over>>
      BY <2>5 DEF j
    <3>3. <<"signature", k, algo, key, over>> = <<"signature", j - Len(p), c.algo, c.key, p>>
      BY <3>1, <3>2
    <3>4. k = j - Len(p) /\ algo = c.algo /\ key = c.key
      BY <3>3
    <3> QED
      BY <3>4 DEF j
  <2> QED
    BY <1>1, <1>n, <2>4, <2>7, <2>8
<1>11. 1 \in 1..SIGNATURE_LEN[algo] /\ SIGNATURE_LEN[algo] \in 1..SIGNATURE_LEN[algo]
  BY <1>9
<1>12. algo = c.algo /\ key = c.key /\ len = Len(p)
  BY <1>1, <1>7, <1>10, <1>11
<1>13. n = Len(w)
  BY <1>1, <1>10, <1>11, <1>12, <1>n
<1> QED
  BY <1>12, <1>13 DEF w, len, image

LEMMA AcceptedImage ==
  ASSUME NEW p \in Seq(ByteCells), NEW c \in Configs, NEW image, image = Image(p, c),
         NEW algo \in {"rsa", "ecdsa"}, NEW key, Accepted(image, algo, key)
  PROVE  /\ algo = c.algo /\ key = c.key
         /\ header_len(algo) + binary_len(image) = Len(p)
<1> DEFINE n == Len(Image(p, c))
<1>1. PICK S : Image(p, c) \in Seq(S)
  BY ImageCells
<1>2. n \in Nat /\ n \in 0..n
  BY <1>1
<1>3. SubSeq(Image(p, c), 1, n) = image
  BY <1>1, SubSeqFull
<1> HIDE DEF n
<1>4. n \in 0..Len(Image(p, c)) /\ Accepted(SubSeq(Image(p, c), 1, n), algo, key)
  BY <1>2, <1>3 DEF n
<1>5. /\ algo = c.algo /\ key = c.key
      /\ header_len(algo) + binary_len(SubSeq(Image(p, c), 1, n)) = Len(p)
  BY <1>4, AcceptedIsWhole
<1> QED
  BY <1>3, <1>5

-----------------------------------------------------------------------------
(* What the signer puts before a binary.                                   *)

\* s \o t, under a name that the provers do not rewrite.
Join(s, t) == s \o t

LEMMA Joined ==
  ASSUME NEW s \in Seq(ByteCells), NEW t \in Seq(ByteCells)
  PROVE  /\ Join(s, t) \in Seq(ByteCells)
         /\ Len(s) \in Nat /\ Len(t) \in Nat
         /\ Len(Join(s, t)) = Len(s) + Len(t)
         /\ \A i \in 1..Len(s) : Join(s, t)[i] = s[i]
         /\ \A i \in 1..Len(t) : Join(s, t)[Len(s) + i] = t[i]
<1>1. /\ s \o t \in Seq(ByteCells)
      /\ Len(s \o t) = Len(s) + Len(t)
      /\ \A i \in 1..Len(s) + Len(t) : (s \o t)[i] = IF i <= Len(s) THEN s[i] ELSE t[i - Len(s)]
  BY ConcatProperties
<1>2. Len(s) \in Nat /\ Len(t) \in Nat
  OBVIOUS
<1> DEFINE m == Len(s)
           n == Len(t)
           u == Join(s, t)
<1> HIDE DEF m, n, u
<1>3. m \in Nat /\ n \in Nat /\ \A i \in 1..m + n : u[i] = IF i <= m THEN s[i] ELSE t[i - m]
  BY <1>1, <1>2 DEF m, n, u, Join
<1>4. \A i \in 1..m : u[i] = s[i]
  BY <1>3
<1>5. \A i \in 1..n : u[m + i] = t[i]
  <2> TAKE i \in 1..n
  <2>1. m + i \in 1..m + n /\ ~(m + i <= m) /\ (m + i) - m = i
    BY <1>3
  <2> QED
    BY <1>3, <2>1
<1>6. u \in Seq(ByteCells) /\ Len(u) = Len(s) + Len(t)
  BY <1>1 DEF u, Join
<1> QED
  BY <1>2, <1>4, <1>5, <1>6 DEF m, n, u

\* u holds s behind its first off cells.
Part(u, off, s) == \A i \in 1..Len(s) : u[off + i] = s[i]

LEMMA PartRight ==
  ASSUME NEW s \in Seq(ByteCells), NEW t \in Seq(ByteCells)
  PROVE  Part(Join(s, t), Len(s), t)
  BY Joined DEF Part

LEMMA PartLeft ==
  ASSUME NEW s \in Seq(ByteCells), NEW t \in Seq(ByteCells), NEW r \in Seq(ByteCells),
         NEW off \in Nat, off + Len(r) <= Len(s), Part(s, off, r)
  PROVE  Part(Join(s, t), off, r)
<1> DEFINE m == Len(s)
           n == Len(r)
           u == Join(s, t)
<1>1. m \in Nat /\ n \in Nat /\ off + n <= m
  OBVIOUS
<1>2. \A i \in 1..m : u[i] = s[i]
  BY Joined
<1>3. \A i \in 1..n : s[off + i] = r[i]
  BY DEF Part
<1> HIDE DEF m, n, u
<1>4. \A i \in 1..n : u[off + i] = r[i]
  <2> TAKE i \in 1..n
  <2>1. off + i \in 1..m
    BY <1>1
  <2> QED
    BY <1>2, <1>3, <2>1
<1> QED
  BY <1>4 DEF Part, n, u

Addressed(c) ==
  /\ Len(c.load_address) = HEADER_LOAD_ADDRESS_LEN
  /\ Len(c.jump_address) = HEADER_JUMP_ADDRESS_LEN

LEMMA SynchroCells ==
  ASSUME NEW algo \in {"rsa", "ecdsa"}
  PROVE  Synchro(algo) \in Seq(ByteCells) /\ Len(Synchro(algo)) = 8
<1>1. /\ <<89, 69, 83, 87, 69, 67, 65, 78>> \in Seq(Octet)
      /\ <<72, 73, 83, 87, 69, 68, 71, 68>> \in Seq(Octet)
  BY DEF Octet
<1> QED
  BY <1>1, BytesAreCells DEF Synchro

LEMMA HeaderCells ==
  ASSUME NEW c \in Configs, Addressed(c), NEW l \in Nat
  PROVE  /\ Header(c, l) \in Seq(ByteCells)
         /\ Len(Header(c, l)) = header_len(c.algo)
         /\ \A k \in 1..8 : Header(c, l)[k] = Synchro(c.algo)[k]
         /\ \A k \in 1..4 : Header(c, l)[16 + k] = BigEndian(l)[k]
<1> DEFINE syn  == Synchro(c.algo)
           ver  == BigEndian(c.version)
           load == Bytes(c.load_address)
           len  == BigEndian(l)
           jump == Bytes(c.jump_address)
           argv == BigEndian(Len(c.arguments))
           tail == [k \in 1..TailLen(c.algo) |-> Byte(c.slots)]
           h1 == Join(syn, ver)
           h2 == Join(h1, load)
           h3 == Join(h2, len)
           h4 == Join(h3, jump)
           h5 == Join(h4, argv)
           h6 == Join(h5, tail)
<1>1. /\ c.algo \in {"rsa", "ecdsa"} /\ c.version \in Nat /\ c.slots \in Octet
      /\ c.load_address \in Seq(Octet) /\ c.jump_address \in Seq(Octet)
      /\ c.arguments \in Seq(Octet)
  BY CaSignAssumption
<1>2. TailLen(c.algo) \in Nat /\ header_len(c.algo) = 28 + TailLen(c.algo)
  BY <1>1, HeaderLength
<1>3. tail \in Seq(ByteCells) /\ Len(tail) = TailLen(c.algo)
  <2> DEFINE n == TailLen(c.algo)
             b == Byte(c.slots)
  <2>1. n \in Nat /\ b \in ByteCells
    BY <1>1, <1>2 DEF ByteCells
  <2> HIDE DEF n, b
  <2>2. [k \in 1..n |-> b] \in Seq(ByteCells) /\ Len([k \in 1..n |-> b]) = n
    BY <2>1
  <2> QED
    BY <2>2 DEF n, b
<1>4. syn \in Seq(ByteCells) /\ Len(syn) = 8
  BY <1>1, SynchroCells
<1>5. ver \in Seq(ByteCells) /\ Len(ver) = 4 /\ len \in Seq(ByteCells) /\ Len(len) = 4
  <2> DEFINE v == c.version
  <2>1. v \in Nat
    BY <1>1
  <2> HIDE DEF v
  <2>2. /\ BigEndian(v) \in Seq(ByteCells) /\ Len(BigEndian(v)) = 4
        /\ BigEndian(l) \in Seq(ByteCells) /\ Len(BigEndian(l)) = 4
    BY <2>1, NumberOf
  <2> QED
    BY <2>2 DEF v
<1>6. argv \in Seq(ByteCells) /\ Len(argv) = 4
  <2>1. Len(c.arguments) \in Nat
    BY <1>1
  <2> QED
    BY <2>1, NumberOf
<1>7. load \in Seq(ByteCells) /\ Len(load) = 4 /\ jump \in Seq(ByteCells) /\ Len(jump) = 4
  BY <1>1, BytesAreCells DEF Addressed, HEADER_LOAD_ADDRESS_LEN, HEADER_JUMP_ADDRESS_LEN
<1>8. Header(c, l) = h6
  BY DEF Header, Join
<1> HIDE DEF syn, ver, load, len, jump, argv, tail
<1>10. /\ h1 = Join(syn, ver) /\ h2 = Join(h1, load) /\ h3 = Join(h2, len)
       /\ h4 = Join(h3, jump) /\ h5 = Join(h4, argv) /\ h6 = Join(h5, tail)
  OBVIOUS
<1> HIDE DEF h1, h2, h3, h4, h5, h6
<1>11. h1 \in Seq(ByteCells) /\ Len(h1) = 12 /\ Part(h1, 0, syn)
  <2>1. h1 \in Seq(ByteCells) /\ Len(h1) = Len(syn) + Len(ver)
    BY <1>4, <1>5, <1>10, Joined
  <2>2. Part(syn, 0, syn)
    BY <1>4 DEF Part
  <2>3. Part(h1, 0, syn)
    BY <1>4, <1>5, <1>10, <2>2, PartLeft
  <2> QED
    BY <1>4, <1>5, <2>1, <2>3
<1>12. h2 \in Seq(ByteCells) /\ Len(h2) = 16 /\ Part(h2, 0, syn)
  <2>1. h2 \in Seq(ByteCells) /\ Len(h2) = Len(h1) + Len(load)
    BY <1>11, <1>7, <1>10, Joined
  <2>3. Part(h2, 0, syn)
    BY <1>4, <1>7, <1>11, <1>10, PartLeft
  <2> QED
    BY <1>11, <1>7, <2>1, <2>3
<1>13. h3 \in Seq(ByteCells) /\ Len(h3) = 20 /\ Part(h3, 0, syn) /\ Part(h3, 16, len)
  <2>1. h3 \in Seq(ByteCells) /\ Len(h3) = Len(h2) + Len(len)
    BY <1>12, <1>5, <1>10, Joined
  <2>3. Part(h3, 0, syn)
    BY <1>4, <1>5, <1>12, <1>10, PartLeft
  <2>4. Part(h3, 16, len)
    BY <1>5, <1>12, <1>10, PartRight
  <2> QED
    BY <1>12, <1>5, <2>1, <2>3, <2>4
<1>14. h4 \in Seq(ByteCells) /\ Len(h4) = 24 /\ Part(h4, 0, syn) /\ Part(h4, 16, len)
  <2>1. h4 \in Seq(ByteCells) /\ Len(h4) = Len(h3) + Len(jump)
    BY <1>13, <1>7, <1>10, Joined
  <2>3. Part(h4, 0, syn)
    BY <1>4, <1>7, <1>13, <1>10, PartLeft
  <2>4. Part(h4, 16, len)
    <3> DEFINE off == 16
    <3>1. off \in Nat /\ off + Len(len) <= Len(h3) /\ Part(h3, off, len)
      BY <1>5, <1>13
    <3> HIDE DEF off
    <3>2. Part(h4, off, len)
      BY <1>5, <1>7, <1>13, <1>10, <3>1, PartLeft
    <3> QED
      BY <3>2 DEF off
  <2> QED
    BY <1>13, <1>7, <2>1, <2>3, <2>4
<1>15. h5 \in Seq(ByteCells) /\ Len(h5) = 28 /\ Part(h5, 0, syn) /\ Part(h5, 16, len)
  <2>1. h5 \in Seq(ByteCells) /\ Len(h5) = Len(h4) + Len(argv)
    BY <1>14, <1>6, <1>10, Joined
  <2>3. Part(h5, 0, syn)
    BY <1>4, <1>6, <1>14, <1>10, PartLeft
  <2>4. Part(h5, 16, len)
    <3> DEFINE off == 16
    <3>1. off \in Nat /\ off + Len(len) <= Len(h4) /\ Part(h4, off, len)
      BY <1>5, <1>14
    <3> HIDE DEF off
    <3>2. Part(h5, off, len)
      BY <1>5, <1>6, <1>14, <1>10, <3>1, PartLeft
    <3> QED
      BY <3>2 DEF off
  <2> QED
    BY <1>14, <1>6, <2>1, <2>3, <2>4
<1>16. h6 \in Seq(ByteCells) /\ Len(h6) = 28 + Len(tail) /\ Part(h6, 0, syn) /\ Part(h6, 16, len)
  <2>1. h6 \in Seq(ByteCells) /\ Len(h6) = Len(h5) + Len(tail)
    BY <1>15, <1>3, <1>10, Joined
  <2>3. Part(h6, 0, syn)
    BY <1>4, <1>3, <1>15, <1>10, PartLeft
  <2>4. Part(h6, 16, len)
    <3> DEFINE off == 16
    <3>1. off \in Nat /\ off + Len(len) <= Len(h5) /\ Part(h5, off, len)
      BY <1>5, <1>15
    <3> HIDE DEF off
    <3>2. Part(h6, off, len)
      BY <1>5, <1>3, <1>15, <1>10, <3>1, PartLeft
    <3> QED
      BY <3>2 DEF off
  <2> QED
    BY <1>15, <1>3, <2>1, <2>3, <2>4
<1>17. \A k \in 1..8 : h6[k] = syn[k]
  BY <1>4, <1>16 DEF Part
<1>18. \A k \in 1..4 : h6[16 + k] = len[k]
  BY <1>5, <1>16 DEF Part
<1> QED
  BY <1>2, <1>3, <1>8, <1>16, <1>17, <1>18 DEF syn, len

\* What is signed with c of the binary b.
PayloadOf(c, b) == IF c.header THEN Header(c, Len(b)) \o Bytes(c.arguments) \o b ELSE b

LEMMA PayloadCells ==
  ASSUME NEW c \in Configs, NEW b \in Seq(ByteCells), c.header => Addressed(c)
  PROVE  /\ PayloadOf(c, b) \in Seq(ByteCells)
         /\ Len(b) \in Nat /\ Len(c.arguments) \in Nat
         /\ c.header =>
              /\ Len(PayloadOf(c, b)) = header_len(c.algo) + Len(c.arguments) + Len(b)
              /\ \A k \in 1..8 : PayloadOf(c, b)[k] = Synchro(c.algo)[k]
              /\ \A k \in 1..4 : PayloadOf(c, b)[16 + k] = BigEndian(Len(b))[k]
              /\ \A k \in 1..Len(b) :
                   PayloadOf(c, b)[header_len(c.algo) + Len(c.arguments) + k] = b[k]
<1>1. Len(b) \in Nat
  OBVIOUS
<1>2. Bytes(c.arguments) \in Seq(ByteCells) /\ Len(Bytes(c.arguments)) = Len(c.arguments)
      /\ Len(c.arguments) \in Nat
  <2>1. c.arguments \in Seq(Octet)
    BY CaSignAssumption
  <2> QED
    BY <2>1, BytesAreCells
<1>3. CASE ~c.header
  BY <1>1, <1>2, <1>3 DEF PayloadOf
<1>4. CASE c.header
  <2> DEFINE h == Header(c, Len(b))
             a == Bytes(c.arguments)
             ha == Join(h, a)
             q == Join(ha, b)
             hl == header_len(c.algo)
  <2>1. /\ h \in Seq(ByteCells) /\ Len(h) = hl
        /\ \A k \in 1..8 : h[k] = Synchro(c.algo)[k]
        /\ \A k \in 1..4 : h[16 + k] = BigEndian(Len(b))[k]
    BY <1>1, <1>4, HeaderCells
  <2>2. hl \in Nat /\ hl >= 32
    <3>1. c.algo \in {"rsa", "ecdsa"}
      BY CaSignAssumption
    <3> QED
      BY <3>1, HeaderLength
  <2>3. PayloadOf(c, b) = q
    BY <1>4 DEF PayloadOf, Join
  <2> DEFINE m == Len(c.arguments)
  <2>4. a \in Seq(ByteCells) /\ Len(a) = m /\ m \in Nat
    BY <1>2
  <2> HIDE DEF h, a, hl, m
  <2>5. ha \in Seq(ByteCells) /\ Len(ha) = hl + m /\ \A k \in 1..hl : ha[k] = h[k]
    BY <2>1, <2>2, <2>4, Joined
  <2> HIDE DEF ha
  <2>6. /\ q \in Seq(ByteCells) /\ Len(q) = (hl + m) + Len(b)
        /\ \A k \in 1..hl + m : q[k] = ha[k]
        /\ \A k \in 1..Len(b) : q[(hl + m) + k] = b[k]
    <3> DEFINE n == hl + m
    <3>1. n = Len(ha) /\ ha \in Seq(ByteCells) /\ q = Join(ha, b)
      BY <2>5
    <3> HIDE DEF n, q
    <3>2. /\ q \in Seq(ByteCells) /\ Len(q) = n + Len(b)
          /\ \A k \in 1..n : q[k] = ha[k]
          /\ \A k \in 1..Len(b) : q[n + k] = b[k]
      BY <3>1, Joined
    <3> QED
      BY <3>2 DEF n
  <2> HIDE DEF q
  <2>7. \A k \in 1..hl : q[k] = h[k]
    BY <2>2, <2>4, <2>5, <2>6
  <2>8. \A k \in 1..8 : q[k] = Synchro(c.algo)[k]
    BY <2>1, <2>2, <2>7
  <2>9. \A k \in 1..4 : q[16 + k] = BigEndian(Len(b))[k]
    BY <2>1, <2>2, <2>7
  <2>10. /\ Len(PayloadOf(c, b)) = hl + m + Len(b)
         /\ \A k \in 1..8 : PayloadOf(c, b)[k] = Synchro(c.algo)[k]
         /\ \A k \in 1..4 : PayloadOf(c, b)[16 + k] = BigEndian(Len(b))[k]
         /\ \A k \in 1..Len(b) : PayloadOf(c, b)[hl + m + k] = b[k]
         /\ PayloadOf(c, b) \in Seq(ByteCells)
    BY <2>3, <2>6, <2>8, <2>9
  <2> QED
    BY <1>1, <1>2, <2>10 DEF hl, m
<1> QED
  BY <1>3, <1>4

-----------------------------------------------------------------------------
(* The signer and the parser together.                                     *)

LEMMA FieldIs ==
  ASSUME NEW image, Len(image) \in Nat, NEW off \in Nat, NEW T, NEW t \in Seq(T),
         off + Len(t) <= Len(image), Part(image, off, t)
  PROVE  Field(image, off, Len(t)) = t
<1> DEFINE len == Len(image)
           n == Len(t)
<1>1. len \in Nat /\ off + n <= len /\ n \in Nat
  OBVIOUS
<1>2. \A k \in 1..n : image[off + k] = t[k]
  BY DEF Part
<1>3. t = [k \in 1..n |-> t[k]]
  OBVIOUS
<1> HIDE DEF len, n
<1>4. \A k \in 1..n : off + k <= len
  BY <1>1
<1>5. Field(image, off, n) = [k \in 1..n |-> t[k]]
  BY <1>2, <1>4 DEF Field, len
<1> QED
  BY <1>3, <1>5 DEF n

\* The length that the parser reads is the one that the signer wrote.
LEMMA LengthRead ==
  ASSUME NEW c \in Configs, NEW b \in Seq(ByteCells), c.header, Addressed(c)
  PROVE  LET image == Image(PayloadOf(c, b), c)
         IN  /\ Len(image) >= Len(PayloadOf(c, b))
             /\ Len(PayloadOf(c, b)) >= 32
             /\ binary_len(image) = Number(BigEndian(Len(b)))
<1> DEFINE q == PayloadOf(c, b)
           image == Image(q, c)
           d == BigEndian(Len(b))
<1>1. /\ q \in Seq(ByteCells) /\ Len(b) \in Nat /\ Len(c.arguments) \in Nat
      /\ Len(q) = header_len(c.algo) + Len(c.arguments) + Len(b)
      /\ \A k \in 1..4 : q[16 + k] = d[k]
  BY PayloadCells
<1>2. d \in Seq(ByteCells) /\ Len(d) = 4
  BY <1>1, NumberOf
<1>3. /\ c.algo \in {"rsa", "ecdsa"} /\ Len(q) \in Nat /\ SIGNATURE_LEN[c.algo] \in Nat \ {0}
      /\ Len(image) = Len(q) + SIGNATURE_LEN[c.algo]
      /\ \A i \in 1..Len(q) : image[i] = q[i]
  <2>1. q \in Seq(ByteCells)
    BY <1>1
  <2> HIDE DEF q
  <2> QED
    BY <2>1, ImageCells
<1>4. header_len(c.algo) \in Nat /\ header_len(c.algo) >= 32
  BY <1>3, HeaderLength
<1> HIDE DEF q, d
<1> HIDE DEF image
<1>5. Len(q) >= 32 /\ Len(image) >= Len(q) /\ Len(image) \in Nat
  <2> DEFINE lb == Len(b)
             la == Len(c.arguments)
             lh == header_len(c.algo)
             lq == Len(q)
             ls == SIGNATURE_LEN[c.algo]
             li == Len(image)
  <2>1. /\ lb \in Nat /\ la \in Nat /\ lq \in Nat /\ ls \in Nat /\ lh \in Nat
        /\ lq = lh + la + lb /\ lh >= 32 /\ li = lq + ls
    BY <1>1, <1>3, <1>4
  <2> HIDE DEF lb, la, lh, lq, ls, li
  <2>2. lq >= 32 /\ li >= lq /\ li \in Nat
    BY <2>1
  <2> QED
    BY <2>2 DEF lq, li
<1>6. \A k \in 1..4 : image[16 + k] = d[k]
  <2>1. \A k \in 1..4 : 16 + k \in 1..Len(q)
    BY <1>3, <1>5
  <2>2. \A k \in 1..4 : q[16 + k] = d[k]
    BY <1>1
  <2>3. \A i \in 1..Len(q) : image[i] = q[i]
    BY <1>3
  <2> QED
    BY <2>1, <2>2, <2>3
<1>7. Field(image, 16, 4) = d
  <2> DEFINE off == 16
  <2>1. off \in Nat /\ off + Len(d) <= Len(image)
    BY <1>2, <1>5
  <2>2. Part(image, off, d)
    BY <1>2, <1>6 DEF Part
  <2> HIDE DEF off
  <2>3. Field(image, off, Len(d)) = d
    BY <1>2, <1>5, <2>1, <2>2, FieldIs
  <2> QED
    BY <1>2, <2>3 DEF off
<1>8. binary_len(image) = Number(d)
  BY <1>7, HeaderLength DEF binary_len, HEADER_BINARY_LEN
<1> QED
  BY <1>5, <1>8 DEF q, d, image

\* raw.bin of an accepted rsa image that has a header is the binary: an image with
\* arguments is not accepted.
LEMMA AcceptedIsBinary ==
  ASSUME NEW c \in Configs, NEW b \in Seq(ByteCells), c.header, Addressed(c), NEW key,
         Accepted(Image(PayloadOf(c, b), c), "rsa", key)
  PROVE  raw_bin(Image(PayloadOf(c, b), c)) = b
<1> DEFINE q == PayloadOf(c, b)
           image == Image(q, c)
<1>1. /\ q \in Seq(ByteCells) /\ Len(b) \in Nat /\ Len(c.arguments) \in Nat
      /\ Len(q) = header_len(c.algo) + Len(c.arguments) + Len(b)
      /\ \A k \in 1..Len(b) : q[header_len(c.algo) + Len(c.arguments) + k] = b[k]
  BY PayloadCells
<1>3. /\ Len(q) \in Nat /\ SIGNATURE_LEN[c.algo] \in Nat \ {0}
      /\ Len(image) = Len(q) + SIGNATURE_LEN[c.algo]
      /\ \A i \in 1..Len(q) : image[i] = q[i]
  <2>1. q \in Seq(ByteCells)
    BY <1>1
  <2> HIDE DEF q
  <2> QED
    BY <2>1, ImageCells
<1>4. binary_len(image) \in Nat /\ binary_len(image) <= Len(b)
  <2>1. binary_len(image) = Number(BigEndian(Len(b)))
    BY LengthRead
  <2> QED
    BY <1>1, <2>1, NumberOf
<1>5. Accepted(image, "rsa", key)
  OBVIOUS
<1> HIDE DEF image
<1>7. "rsa" = c.algo /\ header_len("rsa") + binary_len(image) = Len(q)
  <2>1. image = Image(q, c) /\ q \in Seq(ByteCells)
    BY <1>1 DEF image
  <2> HIDE DEF q
  <2> QED
    BY <1>5, <2>1, AcceptedImage
<1> HIDE DEF q
<1>8. Len(c.arguments) = 0 /\ binary_len(image) = Len(b) /\ header_len(c.algo) = 56
  BY <1>1, <1>4, <1>7, HeaderLength
<1>9. \A k \in 1..Len(b) : image[56 + k] = b[k]
  <2> DEFINE n == Len(b)
             m == Len(q)
             al == Len(c.arguments)
  <2>1. n \in Nat /\ m \in Nat /\ m = 56 + n /\ al = 0
    BY <1>1, <1>8
  <2>2. \A k \in 1..n : q[56 + al + k] = b[k]
    BY <1>1, <1>8
  <2>3. \A i \in 1..m : image[i] = q[i]
    BY <1>3
  <2> HIDE DEF n, m, al
  <2>4. \A k \in 1..n : image[56 + k] = b[k]
    <3> TAKE k \in 1..n
    <3>1. 56 + k \in 1..m /\ 56 + al + k = 56 + k
      BY <2>1
    <3> QED
      BY <2>2, <2>3, <3>1
  <2> QED
    BY <2>4 DEF n
<1>10. 56 + Len(b) <= Len(image) /\ Len(image) \in Nat
  BY <1>1, <1>3, <1>8
<1>11. Field(image, 56, Len(b)) = b
  <2> DEFINE off == 56
  <2>1. off \in Nat /\ off + Len(b) <= Len(image)
    BY <1>10
  <2>2. Part(image, off, b)
    BY <1>9 DEF Part
  <2> HIDE DEF off
  <2> QED
    BY <1>10, <2>1, <2>2, FieldIs DEF off
<1>12. raw_bin(image) = b
  BY <1>7, <1>8, <1>11, HeaderLength DEF raw_bin
<1> QED
  BY <1>12 DEF image, q

\* An image with a header and without arguments is accepted with its algorithm and key.
LEMMA WholeIsAccepted ==
  ASSUME NEW c \in Configs, NEW b \in Seq(ByteCells), c.header, Addressed(c),
         c.arguments = <<>>, Len(b) <= IntMax
  PROVE  Accepted(Image(PayloadOf(c, b), c), c.algo, c.key)
<1> DEFINE q == PayloadOf(c, b)
           image == Image(q, c)
           sl == SIGNATURE_LEN[c.algo]
<1>1. /\ q \in Seq(ByteCells) /\ Len(b) \in Nat
      /\ Len(q) = header_len(c.algo) + Len(c.arguments) + Len(b)
      /\ \A k \in 1..8 : q[k] = Synchro(c.algo)[k]
  BY PayloadCells
<1>2. /\ c.algo \in {"rsa", "ecdsa"} /\ Len(q) \in Nat /\ sl \in Nat \ {0}
      /\ Len(image) = Len(q) + sl
      /\ \A i \in 1..Len(q) : image[i] = q[i]
      /\ \A i \in (Len(q) + 1)..Len(image) :
              image[i] = <<"signature", i - Len(q), c.algo, c.key, q>>
  <2>1. q \in Seq(ByteCells)
    BY <1>1
  <2> HIDE DEF q
  <2> QED
    BY <2>1, ImageCells DEF sl, image
<1>3. binary_len(image) = Len(b) /\ Len(q) >= 32
  <2>1. binary_len(image) = Number(BigEndian(Len(b))) /\ Len(q) >= 32
    BY LengthRead
  <2> QED
    BY <1>1, <2>1, NumberOf
<1>4. header_len(c.algo) \in Nat /\ header_len(c.algo) + binary_len(image) = Len(q)
  <2>1. Len(c.arguments) = 0
    OBVIOUS
  <2>2. header_len(c.algo) \in Nat
    BY <1>2, HeaderLength
  <2>3. Len(q) = header_len(c.algo) + Len(c.arguments) + Len(b) /\ Len(b) \in Nat
    BY <1>1
  <2> HIDE DEF q, image
  <2> QED
    BY <1>3, <2>1, <2>2, <2>3
<1>5. Synchro(c.algo) \in Seq(ByteCells) /\ Len(Synchro(c.algo)) = 8
  BY <1>2, SynchroCells
<1> HIDE DEF q, sl
<1> HIDE DEF image
<1>6. Len(image) \in Nat /\ Len(image) >= 32 /\ Len(image) >= header_len(c.algo)
  <2>1. header_len(c.algo) <= Len(q)
    BY <1>1, <1>2, <1>3, <1>4
  <2> QED
    BY <1>2, <1>3, <1>4, <2>1
<1> DEFINE syn == Synchro(c.algo)
<1>s. syn \in Seq(ByteCells) /\ Len(syn) = 8 /\ \A k \in 1..8 : q[k] = syn[k]
  BY <1>1, <1>5
<1> HIDE DEF syn
<1>7. Field(image, 0, 8) = syn
  <2>1. \A k \in 1..8 : k \in 1..Len(q)
    BY <1>2, <1>3
  <2>2. \A k \in 1..8 : image[k] = q[k]
    BY <1>2, <2>1
  <2>3. Part(image, 0, syn)
    BY <1>s, <2>2 DEF Part
  <2>4. 0 + Len(syn) <= Len(image)
    BY <1>s, <1>6
  <2>5. Field(image, 0, Len(syn)) = syn
    BY <1>s, <1>6, <2>3, <2>4, FieldIs
  <2> QED
    BY <1>s, <2>5
<1>8. Field(image, 0, Len(q)) = q
  <2>1. Part(image, 0, q)
    BY <1>2 DEF Part
  <2>2. 0 + Len(q) <= Len(image)
    BY <1>2
  <2> QED
    BY <1>1, <1>6, <2>1, <2>2, FieldIs
<1>9. Field(image, Len(q), sl) = Signature(c.algo, c.key, q)
  <2> DEFINE sig == Signature(c.algo, c.key, q)
             a == c.algo
             y == c.key
  <2>0. a \in {"rsa", "ecdsa"}
    BY <1>2
  <2> HIDE DEF a, y
  <2>1. /\ Len(Signature(a, y, q)) = SIGNATURE_LEN[a]
        /\ \E T : Signature(a, y, q) \in Seq(T)
        /\ \A k \in 1..SIGNATURE_LEN[a] : Signature(a, y, q)[k] = <<"signature", k, a, y, q>>
    BY <2>0, SignatureCells
  <2>2. PICK T : sig \in Seq(T)
    BY <2>1 DEF a, y
  <2>3. Len(sig) = sl
    BY <2>1 DEF a, y, sl
  <2>4. \A k \in 1..sl : sig[k] = <<"signature", k, a, y, q>>
    BY <2>1 DEF a, y, sl
  <2> HIDE DEF sig
  <2>5. \A k \in 1..sl : image[Len(q) + k] = sig[k]
    <3> TAKE k \in 1..sl
    <3> DEFINE i == Len(q) + k
    <3>1. i \in (Len(q) + 1)..Len(image) /\ i - Len(q) = k
      BY <1>2
    <3> HIDE DEF i
    <3>2. image[i] = <<"signature", i - Len(q), a, y, q>>
      BY <1>2, <3>1 DEF a, y
    <3>3. image[i] = sig[k]
      BY <2>4, <3>1, <3>2
    <3> QED
      BY <3>3 DEF i
  <2>6. Len(q) + sl <= Len(image) /\ sl \in Nat /\ Len(q) \in Nat
    BY <1>2
  <2>7. Field(image, Len(q), sl) = sig
    <3> DEFINE off == Len(q)
    <3>1. off \in Nat /\ off + Len(sig) <= Len(image)
      BY <2>3, <2>6
    <3>2. Part(image, off, sig)
      BY <2>3, <2>5 DEF Part
    <3> HIDE DEF off
    <3>3. Field(image, off, Len(sig)) = sig
      BY <1>6, <2>2, <3>1, <3>2, FieldIs
    <3> QED
      BY <2>3, <3>3 DEF off
  <2> QED
    BY <2>7 DEF sig
<1>10. Accepted(image, c.algo, c.key)
  BY <1>4, <1>6, <1>7, <1>8, <1>9 DEF Accepted, Synchronised, sl, syn
<1> QED
  BY <1>10 DEF image, q

-----------------------------------------------------------------------------
(* The signer: what its variables and the files hold while it runs.        *)

Binary == {Bytes(b) : b \in Binaries}

WellSigned(s) ==
  /\ s.config \in Configs /\ ~s.config.signonly
  /\ s.config.header => Addressed(s.config)
  /\ s.binary \in Binary
  /\ s.image = Image(PayloadOf(s.config, s.binary), s.config)

\* What a write that failed leaves of an image.
Cut(f) == \E c \in Configs, p \in Seq(ByteCells), n \in Nat :
            n < Len(Image(p, c)) /\ f = SubSeq(Image(p, c), 1, n)

FilesInv ==
  /\ DOMAIN files \subseteq {"ca", "sca", "sig", "scripts"}
  /\ "ca" \in DOMAIN files => files["ca"] \in Binary
  /\ "sca" \in DOMAIN files => (\E s \in signed : s.image = files["sca"]) \/ Cut(files["sca"])
  /\ \A s \in signed : WellSigned(s)

Types ==
  /\ library \in Libraries
  /\ pc \in {"idle", "init", "key", "read", "header", "sign", "write_signature",
             "write_file", "exited"}
  /\ err \in BOOLEAN
  /\ payload \in Seq(ByteCells)
  /\ IF pc = "idle" THEN config = NoConfig ELSE config \in Configs

Made ==
  /\ pc \in {"idle", "init", "key", "read", "header", "sign"} => signature = <<>>
  /\ pc \in {"header", "sign", "write_signature", "write_file"} => "ca" \in DOMAIN files
  /\ pc = "header" => payload = files["ca"]
  /\ pc \in {"sign", "write_signature", "write_file"} =>
       /\ payload = PayloadOf(config, files["ca"])
       /\ config.header => Addressed(config)
  /\ pc \in {"write_signature", "write_file"} =>
       signature = Signature(config.algo, config.key, payload)
  /\ pc = "write_file" => ~config.signonly
  /\ pc = "exited" /\ ~err =>
       \/ signature = <<>>
       \/ config.signonly
       \/ "sca" \in DOMAIN files /\ files["sca"] = payload \o signature

SignerInv == FilesInv /\ Types /\ Made

LEMMA BinaryCells ==
  ASSUME NEW b \in Binary
  PROVE  b \in Seq(ByteCells) /\ Len(b) \in Nat /\ Len(b) <= IntMax
<1>1. PICK v \in Binaries : b = Bytes(v)
  BY DEF Binary
<1>2. v \in Seq(Octet) /\ Len(v) <= IntMax
  BY SMT, BuildAssumption DEF IntMax
<1> QED
  BY <1>1, <1>2, BytesAreCells

LEMMA FilesKept ==
  ASSUME FilesInv, UNCHANGED <<files, signed>>
  PROVE  FilesInv'
  BY DEF FilesInv

LEMMA SignerInvInit ==
  ASSUME SignerInit
  PROVE  SignerInv
<1>1. DOMAIN <<>> = {} /\ <<>> \in Seq(ByteCells)
  OBVIOUS
<1>2. FilesInv
  BY <1>1 DEF SignerInit, FilesInv
<1>3. Types
  BY <1>1 DEF SignerInit, Types
<1>4. Made
  BY DEF SignerInit, Made
<1> QED
  BY <1>2, <1>3, <1>4 DEF SignerInv

LEMMA LoadConfigStep ==
  ASSUME SignerInv, NEW c \in Configs, load_config(c)
  PROVE  SignerInv' /\ pc' # "idle"
<1>1. FilesInv'
  BY FilesKept DEF SignerInv, load_config
<1>2. <<>> \in Seq(ByteCells)
  OBVIOUS
<1>3. Types' /\ pc' # "idle"
  BY <1>2 DEF SignerInv, Types, load_config, Exit
<1>4. Made'
  BY DEF SignerInv, Types, Made, load_config, Exit
<1> QED
  BY <1>1, <1>3, <1>4 DEF SignerInv

LEMMA AddHeaderStep ==
  ASSUME SignerInv, add_header_to_payload
  PROVE  SignerInv'
<1>1. FilesInv'
  BY FilesKept DEF SignerInv, add_header_to_payload
<1>2. /\ "ca" \in DOMAIN files /\ payload = files["ca"] /\ config \in Configs /\ signature = <<>>
      /\ files' = files /\ config' = config /\ signature' = signature /\ library' = library
      /\ library \in Libraries /\ err \in BOOLEAN /\ payload \in Seq(ByteCells)
  BY DEF SignerInv, Types, Made, add_header_to_payload
<1>3. CASE ~config.header /\ pc' = "sign" /\ UNCHANGED <<payload, err>>
  <2>1. Types'
    BY <1>2, <1>3 DEF Types
  <2>2. Made'
    BY <1>2, <1>3 DEF Made, PayloadOf
  <2> QED
    BY <1>1, <2>1, <2>2 DEF SignerInv
<1>4. CASE /\ config.header /\ Addressed(config)
           /\ payload' = Header(config, Len(payload)) \o Bytes(config.arguments) \o payload
           /\ pc' = "sign" /\ UNCHANGED err
  <2>1. payload' = PayloadOf(config, files["ca"])
    BY <1>2, <1>4 DEF PayloadOf
  <2>2. payload' \in Seq(ByteCells)
    BY <1>2, <1>4, <2>1, PayloadCells
  <2>3. Types'
    BY <1>2, <1>4, <2>2 DEF Types
  <2>4. Made'
    BY <1>2, <1>4, <2>1 DEF Made, Addressed
  <2> QED
    BY <1>1, <2>3, <2>4 DEF SignerInv
<1>5. CASE Exit("failure") /\ UNCHANGED payload
  <2>1. Types'
    BY <1>2, <1>5 DEF Types, Exit
  <2>2. Made'
    BY <1>2, <1>5 DEF Made, Exit
  <2> QED
    BY <1>1, <2>1, <2>2 DEF SignerInv
<1>6. config.header \in BOOLEAN
  BY <1>2, CaSignAssumption
<1> QED
  BY <1>3, <1>4, <1>5, <1>6 DEF add_header_to_payload, Addressed

LEMMA WriteSignatureStep ==
  ASSUME SignerInv, write_signature
  PROVE  SignerInv'
<1>1. /\ "ca" \in DOMAIN files /\ config \in Configs /\ config.signonly \in BOOLEAN
      /\ pc = "write_signature"
      /\ DOMAIN files \subseteq {"ca", "sca", "sig", "scripts"}
      /\ files["ca"] \in Binary
  BY CaSignAssumption DEF SignerInv, FilesInv, Types, Made, write_signature
<1>2. /\ DOMAIN files' \subseteq {"ca", "sca", "sig", "scripts"}
      /\ "ca" \in DOMAIN files' /\ files'["ca"] = files["ca"]
      /\ "sca" \in DOMAIN files' <=> "sca" \in DOMAIN files
      /\ files'["sca"] = files["sca"] \/ "sca" \notin DOMAIN files
      /\ err' \in BOOLEAN
  <2>1. ASSUME NEW content, files' = Stored("sig", content)
        PROVE  /\ DOMAIN files' \subseteq {"ca", "sca", "sig", "scripts"}
               /\ "ca" \in DOMAIN files' /\ files'["ca"] = files["ca"]
               /\ "sca" \in DOMAIN files' <=> "sca" \in DOMAIN files
               /\ files'["sca"] = files["sca"] \/ "sca" \notin DOMAIN files
    BY <1>1, <2>1 DEF Stored, Over
  <2>2. \/ files' = files /\ err' \in BOOLEAN
        \/ \E content : files' = Stored("sig", content) /\ err' \in BOOLEAN
    BY DEF write_signature, Write
  <2> QED
    BY <1>1, <2>1, <2>2
<1>3. /\ UNCHANGED <<library, config, payload, signature, signed>>
      /\ pc' = IF config.signonly THEN "exited" ELSE "write_file"
  BY DEF write_signature
<1>4. FilesInv'
  BY <1>1, <1>2, <1>3 DEF SignerInv, FilesInv
<1>5. Types'
  BY <1>1, <1>2, <1>3 DEF SignerInv, Types
<1>6. Made'
  BY <1>1, <1>2, <1>3 DEF SignerInv, Made
<1> QED
  BY <1>4, <1>5, <1>6 DEF SignerInv

LEMMA WriteFileStep ==
  ASSUME SignerInv, write_file
  PROVE  SignerInv'
<1>1. /\ pc = "write_file" /\ "ca" \in DOMAIN files /\ files["ca"] \in Binary
      /\ config \in Configs /\ ~config.signonly /\ (config.header => Addressed(config))
      /\ payload = PayloadOf(config, files["ca"]) /\ payload \in Seq(ByteCells)
      /\ signature = Signature(config.algo, config.key, payload)
      /\ DOMAIN files \subseteq {"ca", "sca", "sig", "scripts"}
      /\ \A s \in signed : WellSigned(s)
  BY DEF SignerInv, FilesInv, Types, Made, write_file
<1> DEFINE content == payload \o signature
           r == [config |-> config, binary |-> files["ca"], image |-> content]
<1>2. content = Image(payload, config)
  BY <1>1 DEF Image
<1>3. /\ pc' = "exited" /\ UNCHANGED <<library, config, payload, signature>>
      /\ Write("sca", content)
      /\ signed' = IF err' THEN signed ELSE signed \cup {r}
  BY DEF write_file
<1>4. WellSigned(r)
  <2>1. r.config = config /\ r.binary = files["ca"] /\ r.image = content
    OBVIOUS
  <2> HIDE DEF r
  <2> QED
    BY <1>1, <1>2, <2>1 DEF WellSigned
<1> HIDE DEF content
<1>5. CASE files' = Stored("sca", content) /\ err' = FALSE
  <2>1. /\ DOMAIN files' = {"sca"} \cup DOMAIN files /\ files'["sca"] = content
        /\ files'["ca"] = files["ca"]
    BY <1>1, <1>5 DEF Stored, Over
  <2>2. signed' = signed \cup {r} /\ r.image = content
    BY <1>3, <1>5
  <2> HIDE DEF r
  <2>3. r \in signed' /\ \A s \in signed' : WellSigned(s)
    BY <1>1, <1>4, <2>2
  <2>4. FilesInv'
    BY <1>1, <2>1, <2>2, <2>3 DEF FilesInv
  <2>5. Made'
    BY <1>3, <2>1 DEF Made, content
  <2>6. Types'
    BY <1>1, <1>3, <1>5 DEF SignerInv, Types
  <2> QED
    BY <2>4, <2>5, <2>6 DEF SignerInv
<1>6. CASE files' = files /\ err' = TRUE
  <2>1. FilesInv'
    BY <1>3, <1>6, FilesKept DEF SignerInv
  <2>2. Made' /\ Types'
    BY <1>1, <1>3, <1>6 DEF SignerInv, Made, Types
  <2> QED
    BY <2>1, <2>2 DEF SignerInv
<1>7. CASE \E n \in Cuts : /\ n < Len(content)
                           /\ files' = Stored("sca", SubSeq(content, 1, n))
                           /\ err' = TRUE
  <2>1. PICK n \in Cuts : /\ n < Len(content)
                          /\ files' = Stored("sca", SubSeq(content, 1, n))
                          /\ err' = TRUE
    BY <1>7
  <2>2. /\ DOMAIN files' = {"sca"} \cup DOMAIN files /\ files'["sca"] = SubSeq(content, 1, n)
        /\ files'["ca"] = files["ca"]
    BY <1>1, <2>1 DEF Stored, Over
  <2>3. n \in Nat
    BY CaSignAssumption
  <2>4. Cut(files'["sca"])
    BY <1>1, <1>2, <2>1, <2>2, <2>3 DEF Cut
  <2>5. signed' = signed
    BY <1>3, <2>1
  <2>6. FilesInv'
    BY <1>1, <2>2, <2>4, <2>5 DEF FilesInv
  <2>7. Made' /\ Types'
    BY <1>1, <1>3, <2>1 DEF SignerInv, Made, Types
  <2> QED
    BY <2>6, <2>7 DEF SignerInv
<1> QED
  BY <1>3, <1>5, <1>6, <1>7 DEF Write

\* Whatever fails, the signer keeps its invariant; it ends as "exited", not idle.
LEMMA SignerInvStep ==
  ASSUME SignerInv, SignerStep
  PROVE  SignerInv' /\ pc' # "idle" /\ pc # "idle"
<1>1. ASSUME open_connection PROVE SignerInv'
  <2>1. FilesInv'
    BY <1>1, FilesKept DEF SignerInv, open_connection
  <2>2. Types' /\ Made'
    BY <1>1 DEF SignerInv, Types, Made, open_connection, Exit
  <2> QED
    BY <2>1, <2>2 DEF SignerInv
<1>2. ASSUME read_key PROVE SignerInv'
  <2>1. FilesInv'
    BY <1>2, FilesKept DEF SignerInv, read_key
  <2>2. Types' /\ Made'
    BY <1>2 DEF SignerInv, Types, Made, read_key, Exit
  <2> QED
    BY <2>1, <2>2 DEF SignerInv
<1>3. ASSUME read_binary_file PROVE SignerInv'
  <2>1. FilesInv'
    BY <1>3, FilesKept DEF SignerInv, read_binary_file
  <2>2. "ca" \in DOMAIN files => files["ca"] \in Seq(ByteCells)
    BY BinaryCells DEF SignerInv, FilesInv
  <2>3. Types' /\ Made'
    BY <1>3, <2>2 DEF SignerInv, Types, Made, read_binary_file, Exit
  <2> QED
    BY <2>1, <2>3 DEF SignerInv
<1>4. ASSUME sign_payload PROVE SignerInv'
  <2>1. FilesInv'
    BY <1>4, FilesKept DEF SignerInv, sign_payload
  <2>2. Types'
    BY <1>4 DEF SignerInv, Types, sign_payload, Exit
  <2>3. Made'
    BY <1>4 DEF SignerInv, Types, Made, sign_payload, Exit
  <2> QED
    BY <2>1, <2>2, <2>3 DEF SignerInv
<1>5. SignerInv'
  BY <1>1, <1>2, <1>3, <1>4, AddHeaderStep, WriteSignatureStep, WriteFileStep DEF SignerStep
<1>6. pc' # "idle" /\ pc # "idle"
  BY DEF SignerStep, open_connection, read_key, read_binary_file, add_header_to_payload,
     sign_payload, write_signature, write_file, Exit
<1> QED
  BY <1>5, <1>6

-----------------------------------------------------------------------------
(* A run of the parser, on whatever the file sca holds.                    *)

LEMMA ParsedIsSigned ==
  ASSUME FilesInv, parse
  PROVE  AcceptedIsSigned' /\ SignedIsAccepted'
<1> DEFINE image == files["sca"]
<1>1. PICK algo \in {"rsa", "ecdsa"}, key \in Keys :
        parsed' = [done |-> TRUE, algo |-> algo, key |-> key, image |-> image,
                   accepted |-> Accepted(image, algo, key),
                   raw |-> IF Synchronised(image, algo) THEN raw_bin(image) ELSE <<>>]
  BY DEF parse
<1>2. /\ parsed'.done /\ parsed'.algo = algo /\ parsed'.key = key /\ parsed'.image = image
      /\ parsed'.accepted = Accepted(image, algo, key)
      /\ parsed'.raw = IF Synchronised(image, algo) THEN raw_bin(image) ELSE <<>>
  BY <1>1
<1>3. /\ signed' = signed /\ \A s \in signed : WellSigned(s)
      /\ (\E s \in signed : s.image = image) \/ Cut(image)
  BY DEF FilesInv, parse, signer_vars
<1> HIDE DEF image
<1>4. ASSUME NEW s \in signed, s.image = image, Accepted(image, algo, key)
      PROVE  /\ s.config.algo = algo /\ s.config.key = key
             /\ algo = "rsa" /\ s.config.header => raw_bin(image) = s.binary
  <2> DEFINE c == s.config
             q == PayloadOf(c, s.binary)
  <2>1. /\ c \in Configs /\ (c.header => Addressed(c)) /\ s.binary \in Seq(ByteCells)
        /\ image = Image(q, c)
    BY <1>3, <1>4, BinaryCells DEF WellSigned
  <2>2. q \in Seq(ByteCells)
    BY <2>1, PayloadCells
  <2> HIDE DEF q
  <2>5. algo = c.algo /\ key = c.key
    <3> HIDE DEF c
    <3> QED
      BY <1>4, <2>1, <2>2, AcceptedImage
  <2>6. ASSUME algo = "rsa", c.header
        PROVE  raw_bin(image) = s.binary
    <3>1. image = Image(PayloadOf(c, s.binary), c)
      BY <2>1 DEF q
    <3>2. Accepted(image, "rsa", key)
      BY <1>4, <2>6
    <3> QED
      BY <2>1, <2>6, <3>1, <3>2, AcceptedIsBinary
  <2> QED
    BY <2>5, <2>6
<1>5. ASSUME Cut(image), Accepted(image, algo, key)
      PROVE  FALSE
  <2>1. PICK c \in Configs, p \in Seq(ByteCells), n \in Nat :
          n < Len(Image(p, c)) /\ image = SubSeq(Image(p, c), 1, n)
    BY <1>5 DEF Cut
  <2>2. Len(Image(p, c)) \in Nat
    BY ImageCells
  <2>3. n \in 0..Len(Image(p, c))
    BY <2>1, <2>2
  <2>4. Accepted(SubSeq(Image(p, c), 1, n), algo, key)
    BY <1>5, <2>1
  <2>5. n = Len(Image(p, c))
    BY <2>3, <2>4, AcceptedIsWhole
  <2> QED
    BY <2>1, <2>2, <2>5
<1>6. AcceptedIsSigned'
  <2> SUFFICES ASSUME Accepted(image, algo, key)
               PROVE  \E s \in signed :
                        /\ s.image = image /\ s.config.algo = algo /\ s.config.key = key
                        /\ algo = "rsa" /\ s.config.header => parsed'.raw = s.binary
    BY <1>2, <1>3 DEF AcceptedIsSigned
  <2>1. PICK s \in signed : s.image = image
    BY <1>3, <1>5
  <2>2. Synchronised(image, algo)
    BY DEF Accepted
  <2> QED
    BY <1>2, <1>4, <2>1, <2>2
<1>7. SignedIsAccepted'
  <2> SUFFICES ASSUME NEW s \in signed, s.image = image, s.config.header,
                      s.config.arguments = <<>>, s.config.algo = algo, s.config.key = key
               PROVE  Accepted(image, algo, key)
    BY <1>2, <1>3 DEF SignedIsAccepted
  <2>1. WellSigned(s)
    BY <1>3
  <2>2. /\ s.config \in Configs /\ Addressed(s.config) /\ s.binary \in Seq(ByteCells)
        /\ Len(s.binary) <= IntMax
        /\ image = Image(PayloadOf(s.config, s.binary), s.config)
    BY <2>1, BinaryCells DEF WellSigned
  <2> QED
    BY <2>2, WholeIsAccepted
<1> QED
  BY <1>6, <1>7

-----------------------------------------------------------------------------
(* The build: what each directory holds while no command has failed.       *)

\* image was made of the binary that the build under way was asked for.
OfRequested(image) ==
  \E s \in signed : s.binary = Bytes(requested) /\ s.image = image

\* d lists the packets of one image of that binary, and holds them.
Holds(d) ==
  \E s \in signed : /\ s.binary = Bytes(requested)
                    /\ d.list = 1..NbPackets(s.image)
                    /\ \A k \in d.list : k \in DOMAIN d.packets /\ d.packets[k] = s.image

BuildTypes ==
  /\ step \in {"idle", "sign", "signing", "copy_signed", "prepare", "generate", "deliver"}
  /\ builds \in 0..MaxBuilds
  /\ requested \in Binaries \cup {<<>>}
  /\ \A d \in {output, tempFw, archive} : d.list = None \/ d.list \subseteq DOMAIN d.packets
  /\ clean \in BOOLEAN
  /\ status \in {"none", "success", "failure"}

Clean ==
  /\ step = "copy_signed" /\ clean => "sca" \in DOMAIN files /\ OfRequested(files["sca"])
  /\ step \in {"prepare", "generate"} /\ clean =>
       "scripts" \in DOMAIN files /\ OfRequested(files["scripts"])
  /\ step = "generate" => output = Empty
  /\ step = "deliver" /\ clean => Holds(output)
  /\ step = "idle" /\ clean => Holds(archive)

BuildInv ==
  /\ SignerInv
  /\ BuildTypes
  /\ step = "signing" <=> pc # "idle"
  /\ step # "idle" => parsed = NotParsed
  /\ AcceptedIsSigned /\ SignedIsAccepted
  /\ Clean

LEMMA Bounds == PACKET \in Nat \ {0} /\ MaxBuilds \in Nat
  BY SMT, BuildAssumption

LEMMA NothingParsed ==
  ASSUME parsed' = NotParsed
  PROVE  AcceptedIsSigned' /\ SignedIsAccepted'
<1>1. ~parsed'.done
  BY DEF NotParsed
<1> QED
  BY <1>1 DEF AcceptedIsSigned, SignedIsAccepted

LEMMA IdleSigner ==
  ASSUME SignerInv, pc = "idle", FilesInv',
         UNCHANGED <<library, pc, config, payload, signature, err>>
  PROVE  SignerInv' /\ pc' = "idle"
<1>1. Types'
  BY DEF SignerInv, Types
<1>2. Made'
  BY DEF SignerInv, Made
<1> QED
  BY <1>1, <1>2 DEF SignerInv

\* A record of an image that was written whole, with the configuration, the payload and
\* the signature that the signer ends with, tells what sca holds: a run that signed
\* nothing ends with a payload that has no byte of a signature behind it.
LEMMA WroteImage ==
  ASSUME SignerInv, pc = "exited", ~err, NEW s \in signed,
         s.config = config, s.image = payload \o signature
  PROVE  "sca" \in DOMAIN files /\ files["sca"] = s.image
<1> DEFINE c == s.config
           q == PayloadOf(c, s.binary)
<1>1. /\ c \in Configs /\ ~c.signonly /\ (c.header => Addressed(c))
      /\ s.binary \in Seq(ByteCells) /\ s.image = Image(q, c)
  BY BinaryCells DEF SignerInv, FilesInv, WellSigned
<1>2. q \in Seq(ByteCells)
  BY <1>1, PayloadCells
<1>3. \/ signature = <<>>
      \/ "sca" \in DOMAIN files /\ files["sca"] = payload \o signature
  BY <1>1 DEF SignerInv, Made
<1>4. signature # <<>>
  <2> SUFFICES ASSUME signature = <<>> PROVE FALSE
    OBVIOUS
  <2>1. payload \in Seq(ByteCells)
    BY DEF SignerInv, Types
  <2>2. s.image = payload
    BY <2>1
  <2> DEFINE w == Image(q, c)
             m == Len(q)
             n == Len(w)
  <2> HIDE DEF q
  <2>3. /\ m \in Nat /\ SIGNATURE_LEN[c.algo] \in Nat \ {0}
        /\ n = m + SIGNATURE_LEN[c.algo]
        /\ \A i \in (m + 1)..n : w[i] = <<"signature", i - m, c.algo, c.key, q>>
    BY <1>1, <1>2, ImageCells
  <2>4. w = payload
    BY <1>1, <2>2
  <2> HIDE DEF w
  <2>5. n = Len(payload) /\ payload[n] = w[n]
    BY <2>4
  <2> HIDE DEF m, n
  <2>6. n \in (m + 1)..n /\ n \in Nat \ {0}
    BY <2>3
  <2>7. w[n] \in ByteCells
    <3>1. n \in 1..Len(payload)
      BY <2>5, <2>6
    <3>2. payload[n] \in ByteCells
      BY <2>1, <3>1
    <3> QED
      BY <2>5, <3>2
  <2>8. w[n] = <<"signature", n - m, c.algo, c.key, q>>
    BY <2>3, <2>6
  <2>9. w[n][1] = "signature" /\ w[n][1] = "byte"
    BY <2>7, <2>8, ByteTag
  <2> QED
    BY <2>9
<1> QED
  BY <1>3, <1>4

-----------------------------------------------------------------------------
(* The steps of the script.                                                *)

LEMMA CopyBinaryStep ==
  ASSUME BuildInv, copy_binary
  PROVE  BuildInv'
<1>1. /\ pc = "idle" /\ step = "idle" /\ step' = "sign" /\ pc' = pc
      /\ parsed' = NotParsed /\ signed' = signed
  BY DEF BuildInv, copy_binary
<1>2. PICK b \in Binaries :
        /\ requested' = b
        /\ \/ files' = Stored("ca", Bytes(b)) /\ clean' = TRUE
           \/ files' = files /\ clean' = FALSE
  BY DEF copy_binary
<1>3. FilesInv'
  <2> DEFINE content == Bytes(b)
  <2>1. CASE files' = Stored("ca", content)
    <3> HIDE DEF content
    <3>1. /\ DOMAIN files' = {"ca"} \cup DOMAIN files /\ files'["ca"] = content
          /\ "sca" \in DOMAIN files => files'["sca"] = files["sca"]
      BY <2>1 DEF Stored, Over
    <3>2. content \in Binary
      BY DEF Binary, content
    <3> QED
      BY <1>1, <3>1, <3>2 DEF BuildInv, SignerInv, FilesInv
  <2>2. CASE files' = files
    BY <1>1, <2>2, FilesKept DEF BuildInv, SignerInv
  <2> QED
    BY <1>2, <2>1, <2>2
<1>4. SignerInv' /\ pc' = "idle"
  BY <1>1, <1>3, IdleSigner DEF BuildInv, copy_binary
<1>5. BuildTypes'
  <2>1. builds' = builds + 1 /\ builds < MaxBuilds /\ UNCHANGED kept_vars
    BY DEF copy_binary
  <2>2. builds' \in 0..MaxBuilds
    BY <2>1, Bounds DEF BuildInv, BuildTypes
  <2> QED
    BY <1>1, <1>2, <2>1, <2>2 DEF BuildInv, BuildTypes, kept_vars
<1>6. Clean'
  BY <1>1 DEF Clean
<1>7. AcceptedIsSigned' /\ SignedIsAccepted'
  BY <1>1, NothingParsed
<1> QED
  BY <1>1, <1>4, <1>5, <1>6, <1>7 DEF BuildInv

LEMMA SignerRunsStep ==
  ASSUME BuildInv, start_signer \/ signer_runs
  PROVE  BuildInv'
<1>1. SignerInv' /\ pc' # "idle"
  BY LoadConfigStep, SignerInvStep DEF BuildInv, start_signer, signer_runs
<1>2. /\ step' = "signing" /\ step \in {"sign", "signing"}
      /\ UNCHANGED <<builds, requested, clean, parsed, kept_vars>>
  BY DEF start_signer, signer_runs
<1>3. BuildTypes'
  BY <1>2 DEF BuildInv, BuildTypes, kept_vars
<1>4. Clean'
  BY <1>2 DEF Clean
<1>5. parsed' = NotParsed
  BY <1>2 DEF BuildInv
<1>6. AcceptedIsSigned' /\ SignedIsAccepted'
  BY <1>5, NothingParsed
<1> QED
  BY <1>1, <1>2, <1>3, <1>4, <1>5, <1>6 DEF BuildInv

LEMMA SignerDoneStep ==
  ASSUME BuildInv, signer_done
  PROVE  BuildInv'
<1>1. /\ step = "signing" /\ pc = "exited" /\ pc' = "idle" /\ step' = "copy_signed"
      /\ config' = NoConfig /\ payload' = <<>> /\ signature' = <<>> /\ err' = FALSE
      /\ UNCHANGED <<library, files, signed, builds, requested, parsed, kept_vars>>
  BY DEF signer_done
<1>2. FilesInv'
  BY <1>1, FilesKept DEF BuildInv, SignerInv
<1>3. <<>> \in Seq(ByteCells)
  OBVIOUS
<1>4. Types' /\ Made'
  BY <1>1, <1>3 DEF BuildInv, SignerInv, Types, Made
<1>5. SignerInv'
  BY <1>2, <1>4 DEF SignerInv
<1>6. clean' \in BOOLEAN
  BY DEF BuildInv, BuildTypes, signer_done
<1>7. BuildTypes'
  BY <1>1, <1>6 DEF BuildInv, BuildTypes, kept_vars
<1>8. Clean'
  <2> SUFFICES ASSUME clean'
               PROVE  "sca" \in DOMAIN files /\ OfRequested(files["sca"])
    BY <1>1 DEF Clean, OfRequested
  <2>1. ~err /\ \E s \in signed : /\ s.config = config /\ s.binary = Bytes(requested)
                                  /\ s.image = payload \o signature
    BY DEF signer_done
  <2>2. PICK s \in signed : /\ s.config = config /\ s.binary = Bytes(requested)
                            /\ s.image = payload \o signature
    BY <2>1
  <2>3. "sca" \in DOMAIN files /\ files["sca"] = s.image
    BY <1>1, <2>1, <2>2, WroteImage DEF BuildInv
  <2> QED
    BY <2>2, <2>3 DEF OfRequested
<1>9. parsed' = NotParsed
  BY <1>1 DEF BuildInv
<1>10. AcceptedIsSigned' /\ SignedIsAccepted'
  BY <1>9, NothingParsed
<1> QED
  BY <1>1, <1>5, <1>7, <1>8, <1>9, <1>10 DEF BuildInv

LEMMA CopySignedStep ==
  ASSUME BuildInv, copy_signed
  PROVE  BuildInv'
<1>1. /\ step = "copy_signed" /\ step' = "prepare" /\ pc = "idle" /\ pc' = pc
      /\ UNCHANGED <<library, pc, config, payload, signature, err, signed>>
      /\ UNCHANGED <<builds, requested, parsed, kept_vars>>
  BY DEF BuildInv, copy_signed
<1>2. \/ /\ "sca" \in DOMAIN files
         /\ files' = Stored("scripts", files["sca"])
         /\ clean' = clean
      \/ files' = files /\ clean' = FALSE
  BY DEF copy_signed
<1>3. files' = Stored("scripts", files["sca"]) =>
        /\ DOMAIN files' = {"scripts"} \cup DOMAIN files /\ files'["scripts"] = files["sca"]
        /\ \A x \in {"ca", "sca"} : x \in DOMAIN files => files'[x] = files[x]
  <2> DEFINE content == files["sca"]
  <2> HIDE DEF content
  <2> SUFFICES ASSUME files' = Stored("scripts", content)
               PROVE  /\ DOMAIN files' = {"scripts"} \cup DOMAIN files
                      /\ files'["scripts"] = content
                      /\ \A x \in {"ca", "sca"} : x \in DOMAIN files => files'[x] = files[x]
    BY DEF content
  <2>1. /\ DOMAIN files' = {"scripts"} \cup DOMAIN files /\ files'["scripts"] = content
        /\ \A x \in DOMAIN files \ {"scripts"} : files'[x] = files[x]
    BY DEF Stored, Over
  <2>2. "ca" # "scripts" /\ "sca" # "scripts"
    OBVIOUS
  <2> QED
    BY <2>1, <2>2
<1>4. FilesInv'
  BY <1>1, <1>2, <1>3 DEF BuildInv, SignerInv, FilesInv
<1>5. SignerInv' /\ pc' = "idle"
  BY <1>1, <1>4, IdleSigner DEF BuildInv
<1>6. BuildTypes'
  BY <1>1, <1>2 DEF BuildInv, BuildTypes, kept_vars
<1>7. Clean'
  BY <1>1, <1>2, <1>3 DEF BuildInv, Clean, OfRequested
<1>8. parsed' = NotParsed
  BY <1>1 DEF BuildInv
<1>9. AcceptedIsSigned' /\ SignedIsAccepted'
  BY <1>8, NothingParsed
<1> QED
  BY <1>1, <1>5, <1>6, <1>7, <1>8, <1>9 DEF BuildInv

LEMMA PrepareStep ==
  ASSUME BuildInv, prepare
  PROVE  BuildInv'
<1>1. /\ step = "prepare" /\ pc = "idle"
      /\ UNCHANGED <<builds, requested, tempFw, archive, parsed, signer_vars>>
  BY DEF BuildInv, prepare
<1>2. FilesInv'
  BY <1>1, FilesKept DEF BuildInv, SignerInv, signer_vars
<1>3. SignerInv' /\ pc' = "idle"
  BY <1>1, <1>2, IdleSigner DEF BuildInv, signer_vars
<1>4. \/ step' = "idle" /\ status' = "failure" /\ clean' = FALSE
      \/ step' = "generate" /\ output' = Empty /\ UNCHANGED <<clean, status>>
  BY DEF prepare, EndBuild, Erased
<1>5. output' = output \/ output' = Empty
  BY DEF prepare, Erased
<1>6. BuildTypes'
  <2>1. Empty.list = None
    BY DEF Empty
  <2> QED
    BY <1>1, <1>4, <1>5, <2>1 DEF BuildInv, BuildTypes
<1>7. Clean'
  BY <1>1, <1>4 DEF BuildInv, Clean, OfRequested, signer_vars
<1>8. parsed' = NotParsed
  BY <1>1 DEF BuildInv
<1>9. AcceptedIsSigned' /\ SignedIsAccepted'
  BY <1>8, NothingParsed
<1>10. step' # "signing"
  BY <1>4
<1> QED
  BY <1>3, <1>6, <1>7, <1>8, <1>9, <1>10 DEF BuildInv

LEMMA GenerateStep ==
  ASSUME BuildInv, generate
  PROVE  BuildInv'
<1>1. /\ step = "generate" /\ step' = "deliver" /\ pc = "idle" /\ output = Empty
      /\ UNCHANGED <<builds, requested, tempFw, archive, status, parsed, signer_vars>>
  BY DEF BuildInv, Clean, generate
<1>2. FilesInv'
  BY <1>1, FilesKept DEF BuildInv, SignerInv, signer_vars
<1>3. SignerInv' /\ pc' = "idle"
  BY <1>1, <1>2, IdleSigner DEF BuildInv, signer_vars
<1> DEFINE image == files["scripts"]
           nb == NbPackets(image)
           packets(n) == Over([k \in 1..n |-> image], output.packets)
<1>4. PICK n \in 0..nb :
        \/ output' = Listed(packets(n)) /\ clean' = (clean /\ n = nb)
        \/ output' = [list |-> None, packets |-> packets(n)] /\ clean' = FALSE
  BY DEF generate
<1>5. /\ DOMAIN packets(n) = 1..n
      /\ \A k \in 1..n : packets(n)[k] = image
  <2>1. output.packets = << >> /\ DOMAIN << >> = {}
    BY <1>1 DEF Empty
  <2> QED
    BY <2>1 DEF Over
<1> HIDE DEF image, packets
<1>6. /\ output'.list = None \/ output'.list \subseteq DOMAIN output'.packets
      /\ clean' => /\ clean /\ output'.list = 1..nb
                   /\ \A k \in output'.list :
                        k \in DOMAIN output'.packets /\ output'.packets[k] = image
      /\ clean' \in BOOLEAN
  <2>1. CASE output' = Listed(packets(n)) /\ clean' = (clean /\ n = nb)
    <3>1. output'.list = 1..n /\ output'.packets = packets(n)
      BY <1>5, <2>1 DEF Listed
    <3>2. clean \in BOOLEAN
      BY DEF BuildInv, BuildTypes
    <3> QED
      BY <1>5, <2>1, <3>1, <3>2
  <2>2. CASE output' = [list |-> None, packets |-> packets(n)] /\ clean' = FALSE
    BY <2>2
  <2> QED
    BY <1>4, <2>1, <2>2
<1>7. BuildTypes'
  BY <1>1, <1>6 DEF BuildInv, BuildTypes
<1>8. Clean'
  <2> SUFFICES ASSUME clean' PROVE Holds(output)'
    BY <1>1 DEF Clean
  <2>1. PICK s \in signed : s.binary = Bytes(requested) /\ s.image = image
    BY <1>1, <1>6 DEF BuildInv, Clean, OfRequested, image
  <2>2. s \in signed' /\ requested' = requested
    BY <1>1 DEF signer_vars
  <2> QED
    BY <1>6, <2>1, <2>2 DEF Holds
<1>9. parsed' = NotParsed
  BY <1>1 DEF BuildInv
<1>10. AcceptedIsSigned' /\ SignedIsAccepted'
  BY <1>9, NothingParsed
<1> QED
  BY <1>1, <1>3, <1>7, <1>8, <1>9, <1>10 DEF BuildInv

\* The length of an image is a number, so that a list of its packets is not None.
LEMMA Counted ==
  ASSUME SignerInv, NEW s \in signed
  PROVE  NbPackets(s.image) \in Nat \ {0}
<1>1. /\ s.config \in Configs /\ (s.config.header => Addressed(s.config))
      /\ s.binary \in Seq(ByteCells)
      /\ s.image = Image(PayloadOf(s.config, s.binary), s.config)
  BY BinaryCells DEF SignerInv, FilesInv, WellSigned
<1>2. PayloadOf(s.config, s.binary) \in Seq(ByteCells)
  BY <1>1, PayloadCells
<1>3. Len(s.image) \in Nat
  <2> DEFINE q == PayloadOf(s.config, s.binary)
             c == s.config
  <2>1. q \in Seq(ByteCells) /\ c \in Configs
    BY <1>1, <1>2
  <2> HIDE DEF q, c
  <2>2. Len(Image(q, c)) \in Nat
    BY <2>1, ImageCells
  <2> QED
    BY <1>1, <2>2 DEF q, c
<1>4. ASSUME NEW m \in Nat, NEW n \in Nat \ {0} PROVE 1 + (m \div n) \in Nat \ {0}
  OBVIOUS
<1> QED
  BY <1>3, <1>4, Bounds DEF NbPackets

LEMMA DeliverStep ==
  ASSUME BuildInv, deliver
  PROVE  BuildInv'
<1>1. /\ step = "deliver" /\ step' = "idle" /\ status' = "success" /\ pc = "idle"
      /\ tempFw' = [list |-> MergedList, packets |-> MergedPackets]
      /\ archive' = tempFw'
      /\ files' = [f \in DOMAIN files \ {"scripts"} |-> files[f]]
      /\ UNCHANGED <<builds, requested, output, clean, parsed>>
      /\ UNCHANGED <<library, pc, config, payload, signature, err, signed>>
  BY DEF BuildInv, deliver, EndBuild
<1>2. FilesInv'
  <2>1. /\ DOMAIN files' = DOMAIN files \ {"scripts"}
        /\ \A x \in {"ca", "sca"} : x \in DOMAIN files => files'[x] = files[x]
    BY <1>1
  <2> QED
    BY <1>1, <2>1 DEF BuildInv, SignerInv, FilesInv
<1>3. SignerInv' /\ pc' = "idle"
  BY <1>1, <1>2, IdleSigner DEF BuildInv
<1>4. /\ DOMAIN MergedPackets = DOMAIN output.packets \cup DOMAIN tempFw.packets
      /\ \A k \in DOMAIN output.packets : MergedPackets[k] = output.packets[k]
  BY DEF MergedPackets, Over
<1>5. tempFw'.list = MergedList /\ tempFw'.packets = MergedPackets
  BY <1>1
<1>6. BuildTypes'
  <2>1. MergedList = None \/ MergedList \subseteq DOMAIN MergedPackets
    BY <1>4 DEF BuildInv, BuildTypes, MergedList
  <2> QED
    BY <1>1, <1>5, <2>1 DEF BuildInv, BuildTypes
<1>7. Clean'
  <2> SUFFICES ASSUME clean PROVE Holds(archive)'
    BY <1>1 DEF Clean
  <2>1. PICK s \in signed :
          /\ s.binary = Bytes(requested)
          /\ output.list = 1..NbPackets(s.image)
          /\ \A k \in output.list : k \in DOMAIN output.packets /\ output.packets[k] = s.image
    BY <1>1 DEF BuildInv, Clean, Holds
  <2>2. output.list # None
    <3>1. NbPackets(s.image) \in Nat
      BY Counted DEF BuildInv
    <3>2. 0 \notin 1..NbPackets(s.image)
      BY <3>1
    <3> QED
      BY <2>1, <3>2 DEF None
  <2>3. archive'.list = output.list /\ archive'.packets = MergedPackets
    BY <1>1, <1>5, <2>2 DEF MergedList
  <2> QED
    BY <1>1, <1>4, <2>1, <2>3 DEF Holds
<1>8. AcceptedIsSigned' /\ SignedIsAccepted'
  <2>1. parsed' = NotParsed
    BY <1>1 DEF BuildInv
  <2> QED
    BY <2>1, NothingParsed
<1> QED
  BY <1>1, <1>3, <1>6, <1>7, <1>8 DEF BuildInv

LEMMA StutterStep ==
  ASSUME BuildInv, UNCHANGED <<signer_vars, build_vars>>,
         AcceptedIsSigned' /\ SignedIsAccepted', parsed' = parsed \/ step = "idle"
  PROVE  BuildInv'
<1>1. FilesInv'
  BY FilesKept DEF BuildInv, SignerInv, signer_vars
<1>2. Types' /\ Made'
  BY DEF BuildInv, SignerInv, Types, Made, signer_vars
<1>3. BuildTypes'
  BY DEF BuildInv, BuildTypes, build_vars
<1>4. Clean'
  BY DEF BuildInv, Clean, Holds, OfRequested, build_vars, signer_vars
<1>5. (step = "signing" <=> pc # "idle")' /\ (step # "idle" => parsed = NotParsed)'
  BY DEF BuildInv, build_vars, signer_vars
<1> QED
  BY <1>1, <1>2, <1>3, <1>4, <1>5 DEF BuildInv, SignerInv

LEMMA LookStep ==
  ASSUME BuildInv, look
  PROVE  BuildInv'
<1>1. UNCHANGED <<signer_vars, build_vars>> /\ step = "idle"
  BY DEF look, parse
<1>2. AcceptedIsSigned' /\ SignedIsAccepted'
  BY ParsedIsSigned DEF BuildInv, SignerInv, look
<1> QED
  BY <1>1, <1>2, StutterStep

LEMMA UnchangedStep ==
  ASSUME BuildInv, UNCHANGED vars
  PROVE  BuildInv'
<1>1. UNCHANGED <<signer_vars, build_vars>> /\ parsed' = parsed
  BY DEF vars
<1>2. AcceptedIsSigned' /\ SignedIsAccepted'
  BY <1>1 DEF BuildInv, AcceptedIsSigned, SignedIsAccepted, signer_vars
<1> QED
  BY <1>1, <1>2, StutterStep

LEMMA BuildInvInit ==
  ASSUME Init
  PROVE  BuildInv
<1>1. SignerInv
  BY SignerInvInit DEF Init
<1>2. BuildTypes
  <2>1. Empty.list = None
    BY DEF Empty
  <2>2. 0 \in 0..MaxBuilds
    BY Bounds
  <2>3. \A d \in {output, tempFw, archive} : d = Empty
    BY DEF Init
  <2> QED
    BY <2>1, <2>2, <2>3 DEF Init, BuildTypes
<1>3. Clean
  BY DEF Init, Clean
<1>4. AcceptedIsSigned /\ SignedIsAccepted
  BY DEF Init, NotParsed, AcceptedIsSigned, SignedIsAccepted
<1>5. step = "idle" /\ pc = "idle"
  BY DEF Init, SignerInit
<1> QED
  BY <1>1, <1>2, <1>3, <1>4, <1>5 DEF BuildInv

LEMMA BuildInvStep ==
  ASSUME BuildInv, [Next]_vars
  PROVE  BuildInv'
<1>1. CASE Next
  BY <1>1, CopyBinaryStep, SignerRunsStep, SignerDoneStep, CopySignedStep, PrepareStep,
     GenerateStep, DeliverStep, LookStep, UnchangedStep DEF Next, Finished
<1>2. CASE UNCHANGED vars
  BY <1>2, UnchangedStep
<1> QED
  BY <1>1, <1>2

(* The inductive invariant of the builds: whatever the signer or a command *)
(* of the scripts fails at, a file sca is an image that was written whole  *)
(* or the beginning of one, and while no command of a build has failed,    *)
(* each directory that the build has reached holds the image, or all the   *)
(* packets of the image, of the binary that was asked for.                 *)
THEOREM BuildInvariance == Spec => []BuildInv
<1>1. Init => BuildInv
  BY BuildInvInit
<1>2. BuildInv /\ [Next]_vars => BuildInv'
  BY BuildInvStep
<1> QED
  BY <1>1, <1>2, PTL DEF Spec

(* Every variable of the builds has its type, a packet that a packet.list  *)
(* names is in its directory, and what the signer signs with a header is   *)
(* as long as the header, the arguments and the file together.             *)
THEOREM TypeCorrect == Spec => []TypeOK
<1>1. BuildInv => TypeOK
  <2> SUFFICES ASSUME BuildInv PROVE TypeOK
    OBVIOUS
  <2>1. SignerTypeOK
    <3>1. /\ library \in Libraries
          /\ pc \in {"idle", "init", "key", "read", "header", "sign", "write_signature",
                     "write_file", "exited"}
          /\ config \in Configs \cup {NoConfig}
          /\ err \in BOOLEAN
          /\ DOMAIN files \subseteq {"ca", "sca", "sig", "scripts"}
      BY DEF BuildInv, SignerInv, Types, FilesInv
    <3>2. ASSUME config # NoConfig, config.header,
                 pc \in {"sign", "write_signature", "write_file"}
          PROVE  Len(payload) = header_len(config.algo) + Len(config.arguments) + Len(files["ca"])
      <4>1. /\ config \in Configs /\ Addressed(config)
            /\ payload = PayloadOf(config, files["ca"])
            /\ files["ca"] \in Seq(ByteCells)
        BY <3>2, BinaryCells DEF BuildInv, SignerInv, Types, FilesInv, Made
      <4> QED
        BY <3>2, <4>1, PayloadCells
    <3> QED
      BY <3>1, <3>2 DEF SignerTypeOK
  <2> QED
    BY <2>1 DEF BuildInv, BuildTypes, TypeOK
<1> QED
  BY <1>1, BuildInvariance, PTL

(* For any keys, configurations and contents: an image that the parser     *)
(* accepts was written whole by one run of the signer, with the algorithm  *)
(* and the key that the parser was given, and the binary that is cut out   *)
(* of an rsa image with a header is the one that was signed.               *)
THEOREM AcceptedImagesAreSigned == Spec => []AcceptedIsSigned
<1>1. BuildInv => AcceptedIsSigned
  BY DEF BuildInv
<1> QED
  BY <1>1, BuildInvariance, PTL

(* For any keys, configurations and contents of at most 2147483647 bytes:  *)
(* an image written whole with a header and without arguments is accepted  *)
(* by the parser that is given its algorithm and its key.                  *)
THEOREM SignedImagesAreAccepted == Spec => []SignedIsAccepted
<1>1. BuildInv => SignedIsAccepted
  BY DEF BuildInv
<1> QED
  BY <1>1, BuildInvariance, PTL

(* A build none of whose commands failed has delivered the whole session   *)
(* of the binary that it was asked for, whatever the builds before it left *)
(* in the directories, for any binaries and any number of builds.          *)
THEOREM CleanBuildsDeliver == Spec => []CleanBuildDelivers
<1>1. BuildInv => CleanBuildDelivers
  BY DEF BuildInv, Clean, Holds, CleanBuildDelivers, DeliversRequested
<1> QED
  BY <1>1, BuildInvariance, PTL
=============================================================================
