---------------------------- MODULE FileSys_proofs ----------------------------
(***************************************************************************)
(* Theorems about the file system, for any image and any sizes.            *)
(*                                                                         *)
(* The loop of read_data is a recursive function, and what its rounds have *)
(* in common is proved by induction on their number.  The induction is     *)
(* over a set of numbers, not over a formula: a set of numbers that is not *)
(* empty has a least element, because < is well founded.                   *)
(***************************************************************************)
EXTENDS FileSys, SequenceTheorems, WellFoundedInduction, TLAPS

LessThan == {ss \in Nat \X Nat : ss[1] < ss[2]}

LEMMA LessThanWellFounded == IsWellFoundedOn(LessThan, Nat)
BY NatLessThanWellFounded DEF OpToRel, LessThan

LEMMA LeastNat ==
  ASSUME NEW S, S \subseteq Nat, S # {}
  PROVE  \E n \in S : \A m \in S : n <= m
<1>1. PICK x \in S : \A y \in S : ~(<<y, x>> \in LessThan)
  BY LessThanWellFounded, WFMin
<1>2. ASSUME NEW y \in S PROVE x <= y
  <2>1. y \in Nat /\ x \in Nat
    OBVIOUS
  <2>2. <<y, x>> \notin LessThan
    BY <1>1
  <2>3. ~(y < x)
    BY <2>1, <2>2 DEF LessThan
  <2>4. QED
    BY <2>1, <2>3
<1>3. QED
  BY <1>2

LEMMA SetInduction ==
  ASSUME NEW S, 0 \in S, \A n \in Nat : n \in S => n + 1 \in S
  PROVE  Nat \subseteq S
<1> DEFINE T == Nat \ S
<1>1. SUFFICES ASSUME T # {} PROVE FALSE
  OBVIOUS
<1>2. T \subseteq Nat
  OBVIOUS
<1> HIDE DEF T
<1>3. PICK n \in T : \A m \in T : n <= m
  BY <1>1, <1>2, LeastNat
<1> USE DEF T
<1>4. n \in Nat /\ n # 0
  OBVIOUS
<1>5. n - 1 \in Nat /\ n - 1 < n
  BY <1>4
<1>6. n - 1 \in S
  BY <1>3, <1>5
<1>7. (n - 1) + 1 \in S
  BY <1>5, <1>6
<1>8. QED
  BY <1>4, <1>7

-----------------------------------------------------------------------------
\* Blocks and positions in them.
LEMMA InBlock ==
  ASSUME NEW x \in Nat
  PROVE  /\ x \div BYTES_PER_BLOCK \in Nat
         /\ x % BYTES_PER_BLOCK \in 0 .. BYTES_PER_BLOCK - 1
         /\ x = (x \div BYTES_PER_BLOCK) * BYTES_PER_BLOCK + (x % BYTES_PER_BLOCK)
BY BlockAssumption

LEMMA BlockOf ==
  ASSUME NEW q \in Nat, NEW r \in 0 .. BYTES_PER_BLOCK - 1
  PROVE  /\ (q * BYTES_PER_BLOCK + r) \div BYTES_PER_BLOCK = q
         /\ (q * BYTES_PER_BLOCK + r) % BYTES_PER_BLOCK = r
<1> DEFINE x == q * BYTES_PER_BLOCK + r
           d == (x \div BYTES_PER_BLOCK) - q
<1>1. x \in Nat
  BY BlockAssumption
<1>2. /\ x \div BYTES_PER_BLOCK \in Nat
      /\ x % BYTES_PER_BLOCK \in 0 .. BYTES_PER_BLOCK - 1
      /\ x = (x \div BYTES_PER_BLOCK) * BYTES_PER_BLOCK + (x % BYTES_PER_BLOCK)
  BY <1>1, InBlock
<1>3. d \in Int /\ d * BYTES_PER_BLOCK = r - (x % BYTES_PER_BLOCK)
  BY <1>2, BlockAssumption
<1>4. d * BYTES_PER_BLOCK < BYTES_PER_BLOCK /\ d * BYTES_PER_BLOCK > -BYTES_PER_BLOCK
  BY <1>2, <1>3, BlockAssumption
<1> HIDE DEF d
<1>5. d = 0
  BY <1>3, <1>4, BlockAssumption
<1>6. x \div BYTES_PER_BLOCK = q
  BY <1>2, <1>5 DEF d
<1>7. x % BYTES_PER_BLOCK = r
  BY <1>2, <1>6, BlockAssumption
<1>8. QED
  BY <1>6, <1>7

\* n bytes of a file, from one on.
Bytes(img, inode, from, n) == [i \in 1 .. n |-> FileByte(img, inode, from + i - 1)]

FileBytes(img, inode) == {FileByte(img, inode, i) : i \in Int}

LEMMA BytesSeq ==
  ASSUME NEW img, NEW inode, NEW from \in Int, NEW n \in Nat
  PROVE  /\ Bytes(img, inode, from, n) \in Seq(FileBytes(img, inode))
         /\ Len(Bytes(img, inode, from, n)) = n
         /\ DOMAIN Bytes(img, inode, from, n) = 1 .. n
<1>1. \A i \in 1 .. n : FileByte(img, inode, from + i - 1) \in FileBytes(img, inode)
  BY DEF FileBytes
<1>2. Bytes(img, inode, from, n) \in [1 .. n -> FileBytes(img, inode)]
  BY <1>1 DEF Bytes
<1>3. QED
  BY <1>2

\* A part of a block is a part of the file.
LEMMA ChunkBytes ==
  ASSUME NEW img, NEW inode, NEW q \in Nat, NEW at \in 0 .. BYTES_PER_BLOCK - 1,
         NEW n \in Nat, at + n <= BYTES_PER_BLOCK
  PROVE  Chunk(img.words[inode * WORDS + q + 1], at, n) =
           Bytes(img, inode, q * BYTES_PER_BLOCK + at, n)
<1> DEFINE from == q * BYTES_PER_BLOCK + at
<1>1. SUFFICES ASSUME NEW i \in 1 .. n
               PROVE  FileByte(img, inode, from + i - 1) =
                        <<img.words[inode * WORDS + q + 1], at + i - 1>>
  BY DEF Chunk, Bytes
<1>2. at + i - 1 \in 0 .. BYTES_PER_BLOCK - 1
  BY BlockAssumption
<1>3. from + i - 1 = q * BYTES_PER_BLOCK + (at + i - 1)
  BY BlockAssumption
<1>4. /\ (from + i - 1) \div BYTES_PER_BLOCK = q
      /\ (from + i - 1) % BYTES_PER_BLOCK = at + i - 1
  BY <1>2, <1>3, BlockOf
<1>5. QED
  BY <1>4 DEF FileByte

Joins(s, t, u) == s \o t = u

LEMMA BytesJoin ==
  ASSUME NEW img, NEW inode, NEW from \in Int, NEW m \in Nat, NEW n \in Nat
  PROVE  Joins(Bytes(img, inode, from, m), Bytes(img, inode, from + m, n),
               Bytes(img, inode, from, m + n))
<1> DEFINE s == Bytes(img, inode, from, m)
           t == Bytes(img, inode, from + m, n)
           u == Bytes(img, inode, from, m + n)
           S == FileBytes(img, inode)
<1>1. /\ s \in Seq(S) /\ Len(s) = m
      /\ t \in Seq(S) /\ Len(t) = n
      /\ u \in Seq(S) /\ Len(u) = m + n
  BY BytesSeq
<1>2. \A i \in 1 .. m : s[i] = u[i]
  BY DEF Bytes
<1>3. \A i \in m + 1 .. m + n : t[i - m] = u[i]
  <2> TAKE i \in m + 1 .. m + n
  <2>1. i - m \in 1 .. n /\ i \in 1 .. m + n /\ from + m + (i - m) - 1 = from + i - 1
    OBVIOUS
  <2>2. QED
    BY <2>1 DEF Bytes
<1> HIDE DEF s, t, u, S
<1>4. /\ s \o t \in Seq(S) /\ Len(s \o t) = m + n
      /\ \A i \in 1 .. m + n :
           (s \o t)[i] = IF i <= m THEN s[i] ELSE t[i - m]
  BY <1>1, ConcatProperties
<1>5. \A i \in 1 .. m + n : (s \o t)[i] = u[i]
  BY <1>2, <1>3, <1>4
<1>6. s \o t = u
  BY <1>1, <1>4, <1>5, SeqEqual
<1>7. QED
  BY <1>6 DEF s, t, u, Joins

\* The first n items of a sequence, and the others.
LEMMA Parts ==
  ASSUME NEW S, NEW s \in Seq(S), NEW n \in 0 .. Len(s)
  PROVE  /\ SubSeq(s, 1, n) \in Seq(S) /\ Len(SubSeq(s, 1, n)) = n
         /\ \A i \in 1 .. n : SubSeq(s, 1, n)[i] = s[i]
         /\ SubSeq(s, n + 1, Len(s)) \in Seq(S)
         /\ Len(SubSeq(s, n + 1, Len(s))) = Len(s) - n
         /\ \A i \in 1 .. Len(s) - n : SubSeq(s, n + 1, Len(s))[i] = s[n + i]
<1>1. Len(s) \in Nat /\ \A i \in 1 .. Len(s) : s[i] \in S
  BY ElementOfSeq, LenProperties
<1>2. /\ SubSeq(s, 1, n) \in Seq(S)
      /\ Len(SubSeq(s, 1, n)) = IF 1 <= n THEN n - 1 + 1 ELSE 0
      /\ \A i \in 1 .. n - 1 + 1 : SubSeq(s, 1, n)[i] = s[1 + i - 1]
  BY <1>1, SubSeqProperties
<1>3. /\ SubSeq(s, n + 1, Len(s)) \in Seq(S)
      /\ Len(SubSeq(s, n + 1, Len(s))) =
           IF n + 1 <= Len(s) THEN Len(s) - (n + 1) + 1 ELSE 0
      /\ \A i \in 1 .. Len(s) - (n + 1) + 1 :
           SubSeq(s, n + 1, Len(s))[i] = s[n + 1 + i - 1]
  BY <1>1, SubSeqProperties
<1>4. ASSUME NEW i \in 1 .. n PROVE SubSeq(s, 1, n)[i] = s[i]
  <2>1. i \in 1 .. n - 1 + 1 /\ 1 + i - 1 = i
    BY <1>1
  <2>2. QED
    BY <1>2, <2>1
<1>5. ASSUME NEW i \in 1 .. Len(s) - n
      PROVE  SubSeq(s, n + 1, Len(s))[i] = s[n + i]
  <2>1. i \in 1 .. Len(s) - (n + 1) + 1 /\ n + 1 + i - 1 = n + i
    BY <1>1
  <2>2. QED
    BY <1>3, <2>1
<1>6. QED
  BY <1>1, <1>2, <1>3, <1>4, <1>5

Splits(s, n, t, u) == SubSeq(s, 1, n) = t /\ SubSeq(s, n + 1, Len(s)) = u

LEMMA BytesParts ==
  ASSUME NEW img, NEW inode, NEW from \in Int, NEW k \in Nat, NEW n \in 0 .. k
  PROVE  Splits(Bytes(img, inode, from, k), n,
                Bytes(img, inode, from, n), Bytes(img, inode, from + n, k - n))
<1> DEFINE s == Bytes(img, inode, from, k)
           t == Bytes(img, inode, from, n)
           u == Bytes(img, inode, from + n, k - n)
           S == FileBytes(img, inode)
<1>1. /\ s \in Seq(S) /\ Len(s) = k /\ t \in Seq(S) /\ Len(t) = n
      /\ u \in Seq(S) /\ Len(u) = k - n
  BY BytesSeq
<1>2. \A i \in 1 .. n : s[i] = t[i]
  BY DEF Bytes
<1>3. ASSUME NEW i \in 1 .. k - n PROVE s[n + i] = u[i]
  <2>1. n + i \in 1 .. k /\ from + (n + i) - 1 = from + n + i - 1
    OBVIOUS
  <2>2. QED
    BY <2>1 DEF Bytes
<1> HIDE DEF s, t, u, S
<1>4. /\ SubSeq(s, 1, n) \in Seq(S) /\ Len(SubSeq(s, 1, n)) = n
      /\ \A i \in 1 .. n : SubSeq(s, 1, n)[i] = s[i]
      /\ SubSeq(s, n + 1, Len(s)) \in Seq(S)
      /\ Len(SubSeq(s, n + 1, Len(s))) = Len(s) - n
      /\ \A i \in 1 .. Len(s) - n : SubSeq(s, n + 1, Len(s))[i] = s[n + i]
  BY <1>1, Parts
<1>5. SubSeq(s, 1, n) = t
  BY <1>1, <1>2, <1>4, SeqEqual
<1>6. SubSeq(s, n + 1, Len(s)) = u
  BY <1>1, <1>3, <1>4, SeqEqual
<1>7. QED
  BY <1>5, <1>6 DEF s, t, u, Splits

-----------------------------------------------------------------------------
\* The rounds are what their recursive definition says.
LEMMA RoundsExist ==
  ASSUME NEW img, NEW inode, NEW offset, NEW length \in Nat
  PROVE  Rounds(img, inode, offset, length) =
           [k \in 0 .. length |->
              IF k = 0 THEN FirstRound(offset, length)
              ELSE Round(img, inode, offset, length, k,
                         Rounds(img, inode, offset, length)[k - 1])]
<1> DEFINE F == FirstRound(offset, length)
           R(k, s) == Round(img, inode, offset, length, k, s)
           S == {n \in Nat : \E f : f = [k \in 0 .. n |->
                                       IF k = 0 THEN F ELSE R(k, f[k - 1])]}
<1> HIDE DEF F, R
<1>1. 0 \in S
  <2>1. [k \in 0 .. 0 |-> F] =
          [k \in 0 .. 0 |-> IF k = 0 THEN F ELSE R(k, [j \in 0 .. 0 |-> F][k - 1])]
    OBVIOUS
  <2>2. QED
    BY <2>1
<1>2. ASSUME NEW n \in Nat, n \in S PROVE n + 1 \in S
  <2>1. PICK f : f = [k \in 0 .. n |-> IF k = 0 THEN F ELSE R(k, f[k - 1])]
    BY <1>2
  <2> DEFINE g == [k \in 0 .. n + 1 |-> IF k = n + 1 THEN R(k, f[n]) ELSE f[k]]
             h == [k \in 0 .. n + 1 |-> IF k = 0 THEN F ELSE R(k, g[k - 1])]
  <2>2. ASSUME NEW k \in 0 .. n + 1 PROVE g[k] = h[k]
    <3>1. CASE k = n + 1
      BY <3>1
    <3>2. CASE k \in 1 .. n
      <4>1. k - 1 \in 0 .. n /\ k \in 0 .. n /\ k # 0 /\ k # n + 1 /\ k - 1 # n + 1
        BY <3>2
      <4>2. f[k] = R(k, f[k - 1])
        BY <2>1, <4>1
      <4>3. g[k] = f[k] /\ g[k - 1] = f[k - 1]
        BY <4>1
      <4>4. h[k] = R(k, g[k - 1])
        BY <4>1
      <4>5. QED
        BY <4>2, <4>3, <4>4
    <3>3. CASE k = 0
      <4>1. f[0] = F
        BY <2>1
      <4>2. QED
        BY <3>3, <4>1
    <3>4. QED
      BY <3>1, <3>2, <3>3
  <2>3. g = h
    BY <2>2
  <2> HIDE DEF g
  <2>4. \E d : d = [k \in 0 .. n + 1 |-> IF k = 0 THEN F ELSE R(k, d[k - 1])]
    <3>1. WITNESS g
    <3>2. QED
      BY <2>3
  <2>5. QED
    BY <2>4
<1>3. Nat \subseteq S
  BY <1>1, <1>2, SetInduction
<1>4. PICK f : f = [k \in 0 .. length |-> IF k = 0 THEN F ELSE R(k, f[k - 1])]
  BY <1>3
<1>5. Rounds(img, inode, offset, length) =
        CHOOSE g : g = [k \in 0 .. length |-> IF k = 0 THEN F ELSE R(k, g[k - 1])]
  BY DEF Rounds, F, R
<1>6. QED
  BY <1>4, <1>5 DEF F, R

\* After k rounds: the first bytes are in the buffer, in order; at least k of
\* them, unless all are, or a block number was too large.  The next ones are
\* where the format of the image puts them.
Underway(offset, length, k, m, s) ==
  /\ k <= m /\ m < length
  /\ s.at \in 0 .. BYTES_PER_BLOCK - 1
  /\ offset + m = ((offset \div BYTES_PER_BLOCK) + k) * BYTES_PER_BLOCK + s.at
  /\ s.data_to_copy = Least(length - m, BYTES_PER_BLOCK - s.at)

Copied(img, inode, offset, length, k, s) ==
  \E m \in 0 .. length :
    /\ s.buf = Bytes(img, inode, offset, m)
    /\ s.failed \/ m = length \/ Underway(offset, length, k, m, s)

LEMMA FirstCopied ==
  ASSUME NEW img, NEW inode, NEW offset \in Nat, NEW length \in Nat
  PROVE  Copied(img, inode, offset, length, 0, FirstRound(offset, length))
<1> DEFINE s == FirstRound(offset, length)
<1>1. s.buf = Bytes(img, inode, offset, 0)
  BY DEF FirstRound, Bytes
<1>2. length = 0 \/ Underway(offset, length, 0, 0, s)
  BY InBlock DEF FirstRound, Underway
<1> HIDE DEF s
<1>3. 0 \in 0 .. length /\ (s.failed \/ 0 = length \/ Underway(offset, length, 0, 0, s))
  BY <1>2
<1>4. Copied(img, inode, offset, length, 0, s)
  BY <1>1, <1>3 DEF Copied
<1>5. QED
  BY <1>4 DEF s

LEMMA RoundCopied ==
  ASSUME NEW img, NEW inode \in Nat, NEW offset \in Nat, NEW length \in Nat,
         NEW k \in Nat, NEW s, Copied(img, inode, offset, length, k, s)
  PROVE  Copied(img, inode, offset, length, k + 1,
                Round(img, inode, offset, length, k + 1, s))
<1> DEFINE B == BYTES_PER_BLOCK
           q == (offset \div B) + k
           r == Round(img, inode, offset, length, k + 1, s)
<1>1. PICK m \in 0 .. length :
        /\ s.buf = Bytes(img, inode, offset, m)
        /\ s.failed \/ m = length \/ Underway(offset, length, k, m, s)
  BY DEF Copied
<1>2. Len(s.buf) = m
  BY <1>1, BytesSeq
<1>3. CASE s.failed \/ m = length
  <2>1. s.failed \/ Len(s.buf) >= length
    BY <1>2, <1>3
  <2>2. r = s
    BY <2>1, Zenon DEF Round
  <2>3. QED
    BY <1>1, <1>3, <2>2 DEF Copied
<1>4. CASE ~s.failed /\ m # length
  <2> DEFINE n == s.data_to_copy
             chunk == Chunk(img.words[inode * WORDS + (offset \div B) + (k + 1)],
                            s.at, n)
  <2>1. Underway(offset, length, k, m, s)
    BY <1>1, <1>4
  <2>2. q \in Nat /\ offset + m = q * B + s.at
    BY <2>1, InBlock DEF Underway
  <2>3. n \in Nat /\ n > 0 /\ s.at + n <= B /\ m + n <= length
    BY <2>1, BlockAssumption DEF Underway, Least
  <2>4. m + n < length => s.at + n = B
    BY <2>1, <2>3, BlockAssumption DEF Underway, Least
  <2>5. chunk = Bytes(img, inode, offset + m, n)
    <3>1. inode * WORDS + (offset \div B) + (k + 1) = inode * WORDS + q + 1
      BY InBlock, WordsAssumption
    <3> HIDE DEF n, q
    <3>2. QED
      BY <2>1, <2>2, <2>3, <3>1, ChunkBytes DEF Underway
  <2>6. /\ s.buf \o chunk = Bytes(img, inode, offset, m + n)
        /\ Len(s.buf \o chunk) = m + n
    <3>2. m \in Nat /\ m + n \in Nat /\ offset \in Int
      BY <2>3
    <3> HIDE DEF chunk, n
    <3>3. n \in Nat
      BY <2>3
    <3>4. Joins(Bytes(img, inode, offset, m), Bytes(img, inode, offset + m, n),
                Bytes(img, inode, offset, m + n))
      BY <3>2, <3>3, BytesJoin
    <3>5. s.buf \o chunk = Bytes(img, inode, offset, m + n)
      BY <1>1, <2>5, <3>4 DEF Joins
    <3>6. Len(Bytes(img, inode, offset, m + n)) = m + n
      BY <3>2, BytesSeq
    <3>7. QED
      BY <3>5, <3>6
  <2>7. /\ r.buf = Bytes(img, inode, offset, m + n)
        /\ r.at = 0
        /\ r.data_to_copy = Least(length - (m + n), B)
    BY <1>2, <1>4, <2>6 DEF Round, ToCopy
  <2>8. m + n < length => Underway(offset, length, k + 1, m + n, r)
    <3> HAVE m + n < length
    <3>1. offset + (m + n) = (q + 1) * B
      <4>1. s.at \in Nat /\ s.at + n = B /\ q * B \in Nat
        BY <2>1, <2>2, <2>4, BlockAssumption DEF Underway
      <4>2. (q + 1) * B = q * B + B
        BY <2>2, BlockAssumption
      <4> HIDE DEF q, n
      <4>3. QED
        BY <2>2, <2>3, <4>1, <4>2, BlockAssumption
    <3>2. q + 1 = (offset \div B) + (k + 1)
      BY InBlock
    <3>3. k + 1 <= m + n
      BY <2>1, <2>3 DEF Underway
    <3> HIDE DEF q, r, n
    <3>4. QED
      BY <2>3, <2>7, <3>1, <3>2, <3>3, BlockAssumption DEF Underway
  <2> HIDE DEF n
  <2>9. m + n \in 0 .. length
    BY <2>3
  <2>10. m + n = length \/ Underway(offset, length, k + 1, m + n, r)
    BY <2>8, <2>9
  <2> HIDE DEF r
  <2>11. Copied(img, inode, offset, length, k + 1, r)
    BY <2>7, <2>9, <2>10 DEF Copied
  <2>12. QED
    BY <2>11 DEF r
<1>5. QED
  BY <1>3, <1>4

LEMMA RoundsCopied ==
  ASSUME NEW img, NEW inode \in Nat, NEW offset \in Nat, NEW length \in Nat
  PROVE  \A k \in 0 .. length :
           Copied(img, inode, offset, length, k,
                  Rounds(img, inode, offset, length)[k])
<1> DEFINE round == Rounds(img, inode, offset, length)
           S == {k \in Nat : k <= length =>
                               Copied(img, inode, offset, length, k, round[k])}
<1>1. round = [k \in 0 .. length |->
                 IF k = 0 THEN FirstRound(offset, length)
                 ELSE Round(img, inode, offset, length, k, round[k - 1])]
  BY RoundsExist
<1> HIDE DEF round
<1>2. 0 \in S
  BY <1>1, FirstCopied
<1>3. ASSUME NEW k \in Nat, k \in S PROVE k + 1 \in S
  <2>1. SUFFICES ASSUME k + 1 <= length
                 PROVE  Copied(img, inode, offset, length, k + 1, round[k + 1])
    OBVIOUS
  <2>2. Copied(img, inode, offset, length, k, round[k])
    BY <1>3, <2>1
  <2>3. k + 1 \in 0 .. length /\ k + 1 # 0 /\ (k + 1) - 1 = k
    BY <2>1
  <2>4. round[k + 1] = Round(img, inode, offset, length, k + 1, round[k])
    BY <1>1, <2>3
  <2>5. QED
    BY <2>2, <2>4, RoundCopied
<1>4. Nat \subseteq S
  BY <1>2, <1>3, SetInduction
<1>5. QED
  BY <1>4 DEF round

\* The loop ends with all bytes in the buffer, or with the first ones there and
\* a block number that was too large.
LEMMA CopyLoopFact ==
  ASSUME NEW img, NEW inode \in Nat, NEW offset \in Nat, NEW length \in Nat
  PROVE  LET end == CopyLoop(img, inode, offset, length)
         IN  \E m \in 0 .. length :
               /\ end.buf = Bytes(img, inode, offset, m)
               /\ end.failed \/ m = length
<1>1. Copied(img, inode, offset, length, length, CopyLoop(img, inode, offset, length))
  BY RoundsCopied DEF CopyLoop
<1>2. QED
  BY <1>1 DEF Copied, Underway

\* A read of a file puts the file's own bytes into the buffer, in order from the
\* offset on, no more than were asked for and, if it succeeds, as many as it says
\* and none from behind the end of the file; it reports the end only there.
\* For any image, whatever its block numbers.  (file_sys.c:167-237)
THEOREM ReadData ==
  ASSUME NEW img, NEW inode \in Nat, get_file_size(img, inode) \in Nat,
         NEW offset \in Nat, NEW length \in Nat \ {0}
  PROVE  LET r == read_data(img, inode, offset, length)
             size == get_file_size(img, inode)
         IN  /\ r.ret \in -1 .. length
             /\ r.ret = 0 => offset >= size
             /\ \E m \in 0 .. length :
                  /\ r.buf = Bytes(img, inode, offset, m)
                  /\ r.ret > 0 => m = r.ret /\ offset + m <= size
<1> DEFINE r == read_data(img, inode, offset, length)
           size == get_file_size(img, inode)
           n == Clipped(size, offset, length)
           end == CopyLoop(img, inode, offset, n)
<1>1. ASSUME r = Refused \/ (r = AtEnd /\ offset >= size)
      PROVE  /\ r.ret \in -1 .. length
             /\ r.ret = 0 => offset >= size
             /\ \E m \in 0 .. length :
                  /\ r.buf = Bytes(img, inode, offset, m)
                  /\ r.ret > 0 => m = r.ret /\ offset + m <= size
  <2>1. Bytes(img, inode, offset, 0) = <<>>
    BY DEF Bytes
  <2>2. r.buf = Bytes(img, inode, offset, 0) /\ r.ret \in {-1, 0}
    BY <1>1, <2>1 DEF Refused, AtEnd
  <2>3. r.ret = 0 => offset >= size
    BY <1>1 DEF Refused, AtEnd
  <2> HIDE DEF r
  <2>4. QED
    BY <2>2, <2>3
<1>2. \/ r = Refused
      \/ r = AtEnd /\ offset >= size
      \/ offset < size /\ r = [ret |-> IF end.failed THEN -1 ELSE n, buf |-> end.buf]
  <2> HIDE DEF n, end, size
  <2>1. offset < size \/ offset >= size
    BY DEF size
  <2>2. QED
    BY <2>1, Zenon DEF read_data, n, end, size
<1>3. ASSUME offset < size,
             r = [ret |-> IF end.failed THEN -1 ELSE n, buf |-> end.buf]
      PROVE  /\ r.ret \in -1 .. length
             /\ r.ret = 0 => offset >= size
             /\ \E m \in 0 .. length :
                  /\ r.buf = Bytes(img, inode, offset, m)
                  /\ r.ret > 0 => m = r.ret /\ offset + m <= size
  <2>1. n \in 1 .. length /\ offset + n <= size
    BY <1>3 DEF Clipped
  <2>2. PICK m \in 0 .. n : /\ end.buf = Bytes(img, inode, offset, m)
                            /\ end.failed \/ m = n
    BY <2>1, CopyLoopFact
  <2>3. r.buf = Bytes(img, inode, offset, m)
    BY <1>3, <2>2
  <2>4. r.ret = IF end.failed THEN -1 ELSE n
    BY <1>3
  <2>5. r.ret = -1 \/ (r.ret = n /\ m = n)
    BY <2>2, <2>4
  <2> HIDE DEF r, n
  <2>6. QED
    BY <2>1, <2>3, <2>5
<1> HIDE DEF r
<1>4. QED
  BY <1>1, <1>2, <1>3 DEF r

-----------------------------------------------------------------------------
\* strlen finds the first 0 of a string that has one.
IsString(s) == s \in Seq(Nat) /\ \E i \in 1 .. Len(s) : s[i] = 0

LEMMA StrlenFact ==
  ASSUME NEW s, IsString(s)
  PROVE  /\ strlen(s) \in 0 .. Len(s) - 1
         /\ s[strlen(s) + 1] = 0
         /\ \A i \in 1 .. strlen(s) : s[i] # 0
<1> DEFINE Z == {i \in 1 .. Len(s) : s[i] = 0}
           IsFirst(i) == s[i] = 0 /\ \A j \in 1 .. i - 1 : s[j] # 0
           len == CHOOSE i \in 1 .. Len(s) : IsFirst(i)
<1>1. Len(s) \in Nat /\ Z # {} /\ Z \subseteq Nat
  BY DEF IsString
<1>2. PICK n \in Z : \A m \in Z : n <= m
  <2> HIDE DEF Z
  <2>1. QED
    BY <1>1, LeastNat
<1>3. n \in 1 .. Len(s) /\ IsFirst(n)
  <2>1. ASSUME NEW j \in 1 .. n - 1 PROVE s[j] # 0
    <3>1. j \in 1 .. Len(s) /\ j < n
      BY <1>1
    <3>2. QED
      BY <1>1, <1>2, <3>1
  <2>2. QED
    BY <2>1
<1> HIDE DEF IsFirst
<1>4. len \in 1 .. Len(s) /\ IsFirst(len)
  BY <1>3
<1>5. strlen(s) = len - 1
  BY DEF strlen, IsFirst
<1> HIDE DEF len
<1>6. QED
  BY <1>1, <1>4, <1>5 DEF IsFirst

\* A string is determined by its bytes in front of the 0, and strlen of those
\* with a 0 behind them is their number.
LEMMA StrlenIs ==
  ASSUME NEW s, IsString(s), NEW n \in 0 .. Len(s) - 1, s[n + 1] = 0,
         \A i \in 1 .. n : s[i] # 0
  PROVE  strlen(s) = n
<1>1. /\ strlen(s) \in 0 .. Len(s) - 1
      /\ s[strlen(s) + 1] = 0
      /\ \A i \in 1 .. strlen(s) : s[i] # 0
  BY StrlenFact
<1>2. Len(s) \in Nat
  BY DEF IsString
<1>3. ~(strlen(s) < n)
  <2>1. SUFFICES ASSUME strlen(s) < n PROVE strlen(s) + 1 \in 1 .. n
    BY <1>1
  <2>2. QED
    BY <1>1, <1>2, <2>1
<1>4. ~(n < strlen(s))
  <2>1. SUFFICES ASSUME n < strlen(s) PROVE n + 1 \in 1 .. strlen(s)
    BY <1>1
  <2>2. QED
    BY <1>1, <1>2, <2>1
<1>5. QED
  BY <1>1, <1>2, <1>3, <1>4

LEMMA StringFact ==
  ASSUME NEW s, IsString(s)
  PROVE  /\ String(s) \in Seq(Nat)
         /\ Len(String(s)) = strlen(s)
         /\ \A i \in 1 .. strlen(s) : String(s)[i] = s[i] /\ s[i] # 0
<1> DEFINE n == strlen(s)
<1>1. n \in 0 .. Len(s) - 1 /\ Len(s) \in Nat /\ \A i \in 1 .. n : s[i] # 0
  BY StrlenFact DEF IsString
<1> HIDE DEF n
<1>2. \A i \in 1 .. n : s[i] \in Nat
  <2> TAKE i \in 1 .. n
  <2>1. i \in 1 .. Len(s)
    BY <1>1
  <2>2. QED
    BY <2>1, ElementOfSeq DEF IsString
<1>3. /\ SubSeq(s, 1, n) \in Seq(Nat)
      /\ Len(SubSeq(s, 1, n)) = IF 1 <= n THEN n - 1 + 1 ELSE 0
      /\ \A i \in 1 .. n - 1 + 1 : SubSeq(s, 1, n)[i] = s[1 + i - 1]
  BY <1>1, <1>2, SubSeqProperties
<1>4. String(s) = SubSeq(s, 1, n)
  BY DEF String, n
<1>5. Len(String(s)) = n
  BY <1>1, <1>3, <1>4
<1>6. \A i \in 1 .. n : String(s)[i] = s[i]
  <2> TAKE i \in 1 .. n
  <2>1. i \in 1 .. n - 1 + 1 /\ 1 + i - 1 = i
    BY <1>1
  <2>2. SubSeq(s, 1, n)[i] = s[1 + i - 1]
    BY <1>3, <2>1
  <2>3. QED
    BY <1>4, <2>1, <2>2
<1>7. QED
  BY <1>1, <1>3, <1>4, <1>5, <1>6 DEF n

\* A string with a 0 behind it again, as a program passes it on.
Ended(s) == String(s) \o <<0>>

LEMMA EndedFact ==
  ASSUME NEW s, IsString(s)
  PROVE  LET e == Ended(s) IN
         /\ IsString(e) /\ Len(e) = strlen(s) + 1 /\ strlen(e) = strlen(s)
         /\ \A i \in 1 .. strlen(s) : e[i] = s[i] /\ s[i] # 0
         /\ e[strlen(s) + 1] = 0
<1> DEFINE t == String(s)
           n == strlen(s)
           e == Ended(s)
<1>1. /\ t \in Seq(Nat) /\ Len(t) = n /\ n \in Nat
      /\ \A i \in 1 .. n : t[i] = s[i] /\ s[i] # 0
  BY StringFact, StrlenFact DEF IsString
<1>2. <<0>> \in Seq(Nat) /\ Len(<<0>>) = 1 /\ <<0>>[1] = 0
  OBVIOUS
<1> HIDE DEF t, n
<1>3. /\ t \o <<0>> \in Seq(Nat)
      /\ Len(t \o <<0>>) = Len(t) + Len(<<0>>)
      /\ \A i \in 1 .. Len(t) + Len(<<0>>) :
           (t \o <<0>>)[i] = IF i <= Len(t) THEN t[i] ELSE <<0>>[i - Len(t)]
  BY <1>1, <1>2, ConcatProperties
<1>4. e = t \o <<0>>
  BY DEF t, Ended
<1> HIDE DEF e
<1>5. e \in Seq(Nat) /\ Len(e) = n + 1
  BY <1>1, <1>2, <1>3, <1>4
<1>6. \A i \in 1 .. n : e[i] = s[i] /\ s[i] # 0
  BY <1>1, <1>2, <1>3, <1>4
<1>7. e[n + 1] = 0
  <2>1. n + 1 \in 1 .. Len(t) + Len(<<0>>) /\ ~(n + 1 <= Len(t)) /\ n + 1 - Len(t) = 1
    BY <1>1, <1>2
  <2>2. QED
    BY <1>2, <1>3, <1>4, <2>1
<1>8. IsString(e)
  <2>1. n + 1 \in 1 .. Len(e)
    BY <1>1, <1>5
  <2>2. QED
    BY <1>5, <1>7, <2>1 DEF IsString
<1>9. strlen(e) = n
  <2>1. n \in 0 .. Len(e) - 1
    BY <1>1, <1>5
  <2>2. \A i \in 1 .. n : e[i] # 0
    BY <1>6, Zenon
  <2>3. QED
    BY <1>7, <1>8, <2>1, <2>2, StrlenIs
<1>10. QED
  BY <1>5, <1>6, <1>7, <1>8, <1>9 DEF n, e

\* Strings that strncmp finds equal agree as far as the first one goes.
LEMMA StrncmpPrefix ==
  ASSUME NEW s1, NEW s2, NEW n \in Nat, strncmp_equal(s1, s2, n),
         \A i \in 1 .. n : s1[i] # 0
  PROVE  \A i \in 1 .. n : s1[i] = s2[i]
<1> DEFINE T == {i \in 1 .. n : s1[i] # s2[i]}
<1>1. SUFFICES ASSUME T # {} PROVE FALSE
  OBVIOUS
<1>2. T \subseteq Nat
  OBVIOUS
<1> HIDE DEF T
<1>3. PICK i \in T : \A j \in T : i <= j
  BY <1>1, <1>2, LeastNat
<1> USE DEF T
<1>4. ASSUME NEW j \in 1 .. i - 1 PROVE s1[j] = s2[j] /\ s1[j] # 0
  <2>1. j \in 1 .. n /\ ~(i <= j)
    OBVIOUS
  <2>2. QED
    BY <1>3, <2>1
<1>5. QED
  BY <1>4 DEF strncmp_equal

\* An entry found under a name has it, also where the name fills its field or
\* the entry's is longer; and an entry is found under its own name.
LEMMA MatchIsName ==
  ASSUME NEW d, IsString(Name(d)), NEW t, IsString(t),
         NameMatches(d, Ended(t))
  PROVE  String(Name(d)) = String(t)
<1> DEFINE s == Name(d)
           e == Ended(t)
<1>1. /\ strlen(e) = strlen(t) /\ strlen(t) \in Nat
      /\ \A i \in 1 .. strlen(t) : e[i] = t[i] /\ t[i] # 0
      /\ e[strlen(t) + 1] = 0
  BY EndedFact, StrlenFact DEF IsString
<1> HIDE DEF e
<1>2. /\ strlen(s) \in Nat
      /\ \A i \in 1 .. strlen(s) : s[i] # 0
  BY StrlenFact DEF IsString
<1> HIDE DEF s
<1>3. ~(strlen(t) > strlen(s)) /\ strncmp_equal(s, e, strlen(s))
  BY <1>1, <1>2 DEF NameMatches, s, e
<1>4. \A i \in 1 .. strlen(s) : s[i] = e[i]
  BY <1>2, <1>3, StrncmpPrefix
<1>5. ~(strlen(t) < strlen(s))
  <2>1. SUFFICES ASSUME strlen(t) < strlen(s)
                 PROVE  strlen(t) + 1 \in 1 .. strlen(s)
    BY <1>1, <1>2, <1>4
  <2>2. QED
    BY <1>1, <1>2, <2>1
<1>6. strlen(s) = strlen(t) /\ \A i \in 1 .. strlen(s) : s[i] = t[i]
  BY <1>1, <1>2, <1>3, <1>4, <1>5
<1>7. /\ String(s) \in Seq(Nat) /\ Len(String(s)) = strlen(s)
      /\ \A i \in 1 .. strlen(s) : String(s)[i] = s[i]
  BY StringFact DEF s
<1>8. /\ String(t) \in Seq(Nat) /\ Len(String(t)) = strlen(t)
      /\ \A i \in 1 .. strlen(t) : String(t)[i] = t[i]
  BY StringFact
<1>9. String(s) = String(t)
  BY <1>6, <1>7, <1>8, SeqEqual
<1>10. QED
  BY <1>9 DEF s

LEMMA NameMatchesOwn ==
  ASSUME NEW d, IsString(Name(d))
  PROVE  NameMatches(d, Ended(Name(d)))
<1> DEFINE e == Ended(Name(d))
<1>1. /\ strlen(e) = strlen(Name(d)) /\ strlen(e) \in Nat
      /\ \A i \in 1 .. strlen(Name(d)) : e[i] = Name(d)[i]
  BY EndedFact, StrlenFact DEF IsString
<1> HIDE DEF e
<1>2. strncmp_equal(Name(d), e, strlen(Name(d)))
  BY <1>1 DEF strncmp_equal
<1>3. QED
  BY <1>1, <1>2 DEF NameMatches, e

\* What reading the directory delivers can be opened, and opens an entry of
\* that name: the first one, also when names fill their field.
\* (file_sys.c:59-96, 121-135)
THEOREM ListedIsFound ==
  ASSUME NEW img, img.stats[1] \in Nat,
         \A i \in 0 .. img.stats[1] : IsString(Name(img.dentries[i])),
         NEW p \in 0 .. img.stats[1] - 1
  PROVE  \E i \in read_dentry_by_name(img, Ended(Name(img.dentries[p]))) :
           String(Name(img.dentries[i])) = String(Name(img.dentries[p]))
<1> DEFINE e == Ended(Name(img.dentries[p]))
           T == {i \in 0 .. img.stats[1] - 1 : NameMatches(img.dentries[i], e)}
<1>1. p \in T /\ T \subseteq Nat
  BY NameMatchesOwn
<1>2. PICK i \in T : \A j \in T : i <= j
  <2> HIDE DEF T
  <2>1. QED
    BY <1>1, LeastNat
<1>3. ASSUME NEW j \in 0 .. i - 1 PROVE ~NameMatches(img.dentries[j], e)
  <2>1. j \in 0 .. img.stats[1] - 1 /\ ~(i <= j)
    OBVIOUS
  <2>2. QED
    BY <1>2, <2>1
<1>4. i \in read_dentry_by_name(img, e)
  BY <1>3 DEF read_dentry_by_name
<1>5. String(Name(img.dentries[i])) = String(Name(img.dentries[p]))
  <2>1. i \in 0 .. img.stats[1]
    OBVIOUS
  <2>2. QED
    BY <2>1, MatchIsName
<1>6. QED
  BY <1>4, <1>5
=============================================================================
