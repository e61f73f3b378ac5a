-------------------------- MODULE TcpStreamProofs ---------------------------
(***************************************************************************)
(* A Buffer is a queue of bytes with its indices in order, and a           *)
(* connection's bytes arrive in both directions as they were sent, for     *)
(* buffers, sockets, requests and answers of any size.                     *)
(***************************************************************************)
EXTENDS TcpStream, SequenceTheorems, TLAPS

Buffers(n) == [data : [0 .. n - 1 -> Nat], size : Nat, reader : Nat, writer : Nat]

\* A buffer between two operations.
Sound(b) == b \in Buffers(b.size) /\ IndicesOrdered(b)

-----------------------------------------------------------------------------
(* Sequences of bytes *)

LEMMA ConcatNat ==
    ASSUME NEW s \in Seq(Nat), NEW t \in Seq(Nat), NEW u \in Seq(Nat)
    PROVE  (s \o t) \o u = s \o (t \o u)
BY ConcatAssociative, SMTT(30)

LEMMA PartFacts ==
    ASSUME NEW s \in Seq(Nat), NEW m \in Nat \ {0}, NEW n \in Nat, n <= Len(s), m <= n + 1
    PROVE  /\ SubSeq(s, m, n) \in Seq(Nat) /\ Len(SubSeq(s, m, n)) = n - m + 1
           /\ \A i \in 1 .. n - m + 1 : SubSeq(s, m, n)[i] = s[m + i - 1]
<1>1. \A i \in m .. n : s[i] \in Nat
  <2>1. Len(s) \in Nat
    BY LenProperties
  <2>2. \A i \in m .. n : i \in 1 .. Len(s)
    BY <2>1
  <2> QED
    BY <2>2, ElementOfSeq
<1>2. m \in Int /\ n \in Int /\ (IF m <= n THEN n - m + 1 ELSE 0) = n - m + 1
  OBVIOUS
<1>3. /\ SubSeq(s, m, n) \in Seq(Nat)
      /\ Len(SubSeq(s, m, n)) = IF m <= n THEN n - m + 1 ELSE 0
      /\ \A i \in 1 .. n - m + 1 : SubSeq(s, m, n)[i] = s[m + i - 1]
  BY <1>1, <1>2, SubSeqProperties
<1> QED
  BY <1>2, <1>3

\* A sequence is what lies up to an index and what lies beyond it.
LEMMA SplitSeq ==
    ASSUME NEW s \in Seq(Nat), NEW n \in 0 .. Len(s)
    PROVE  /\ SubSeq(s, 1, n) \in Seq(Nat) /\ Len(SubSeq(s, 1, n)) = n
           /\ SubSeq(s, n + 1, Len(s)) \in Seq(Nat)
           /\ Len(SubSeq(s, n + 1, Len(s))) = Len(s) - n
           /\ SubSeq(s, 1, n) \o SubSeq(s, n + 1, Len(s)) = s
<1> DEFINE s1 == SubSeq(s, 1, n)
           s2 == SubSeq(s, n + 1, Len(s))
<1>1. n \in Nat /\ Len(s) \in Nat /\ n <= Len(s)
  BY LenProperties
<1>2. s1 \in Seq(Nat) /\ Len(s1) = n /\ \A i \in 1 .. n : s1[i] = s[i]
  <2>1. n - 1 + 1 = n /\ 1 <= n + 1 /\ \A i \in 1 .. n : 1 + i - 1 = i
    BY <1>1
  <2>2. /\ s1 \in Seq(Nat) /\ Len(s1) = n - 1 + 1
        /\ \A i \in 1 .. n - 1 + 1 : s1[i] = s[1 + i - 1]
    BY <1>1, <2>1, PartFacts
  <2> HIDE DEF s1
  <2> QED
    BY <2>1, <2>2
<1>3. /\ s2 \in Seq(Nat) /\ Len(s2) = Len(s) - n
      /\ \A i \in 1 .. Len(s) - n : s2[i] = s[n + i]
  <2>1. /\ n + 1 \in Nat \ {0} /\ n + 1 <= Len(s) + 1 /\ Len(s) <= Len(s)
        /\ Len(s) - (n + 1) + 1 = Len(s) - n
        /\ \A i \in 1 .. Len(s) - n : (n + 1) + i - 1 = n + i
    BY <1>1
  <2>2. /\ s2 \in Seq(Nat) /\ Len(s2) = Len(s) - (n + 1) + 1
        /\ \A i \in 1 .. Len(s) - (n + 1) + 1 : s2[i] = s[(n + 1) + i - 1]
    BY <1>1, <2>1, PartFacts, Zenon
  <2> HIDE DEF s2
  <2> QED
    BY <2>1, <2>2
<1> HIDE DEF s1, s2
<1>4. /\ s1 \o s2 \in Seq(Nat) /\ Len(s1 \o s2) = Len(s)
      /\ \A i \in 1 .. Len(s) : (s1 \o s2)[i] = IF i <= n THEN s1[i] ELSE s2[i - n]
  <2>1. /\ s1 \o s2 \in Seq(Nat) /\ Len(s1 \o s2) = Len(s1) + Len(s2)
        /\ \A i \in 1 .. Len(s1) + Len(s2) :
             (s1 \o s2)[i] = IF i <= Len(s1) THEN s1[i] ELSE s2[i - Len(s1)]
    BY <1>2, <1>3, ConcatProperties
  <2>2. Len(s1) + Len(s2) = Len(s)
    BY <1>1, <1>2, <1>3
  <2> QED
    BY <1>2, <2>1, <2>2
<1>5. ASSUME NEW i \in 1 .. Len(s) PROVE (s1 \o s2)[i] = s[i]
  <2>1. CASE i <= n
    <3>1. i \in 1 .. n
      BY <1>1, <2>1
    <3> QED
      BY <1>2, <1>4, <2>1, <3>1
  <2>2. CASE ~ (i <= n)
    <3>1. i - n \in 1 .. Len(s) - n /\ n + (i - n) = i
      BY <1>1, <2>2
    <3> QED
      BY <1>3, <1>4, <2>2, <3>1
  <2> QED
    BY <2>1, <2>2
<1>6. s1 \o s2 = s
  BY <1>4, <1>5, SeqEqual
<1> QED
  BY <1>2, <1>3, <1>6 DEF s1, s2

\* The bytes of a stream from one number on.
LEMMA BytesFacts ==
    ASSUME NEW from \in Nat, NEW n \in Nat
    PROVE  /\ Bytes(from, n) \in Seq(Nat) /\ Len(Bytes(from, n)) = n
           /\ \A i \in 1 .. n : Bytes(from, n)[i] = from + i
<1>1. Bytes(from, n) = [i \in 1 .. n |-> from + i]
  BY DEF Bytes
<1>2. \A i \in 1 .. n : from + i \in Nat
  OBVIOUS
<1>3. Bytes(from, n) \in [1 .. n -> Nat]
  BY <1>1, <1>2
<1> QED
  BY <1>1, <1>3, SeqDef

LEMMA BytesConcat ==
    ASSUME NEW from \in Nat, NEW m \in Nat, NEW n \in Nat
    PROVE  Bytes(from, m) \o Bytes(from + m, n) = Bytes(from, m + n)
<1> DEFINE s == Bytes(from, m)
           t == Bytes(from + m, n)
           u == Bytes(from, m + n)
<1>1. /\ s \in Seq(Nat) /\ Len(s) = m /\ \A i \in 1 .. m : s[i] = from + i
      /\ t \in Seq(Nat) /\ Len(t) = n /\ \A i \in 1 .. n : t[i] = (from + m) + i
      /\ u \in Seq(Nat) /\ Len(u) = m + n /\ \A i \in 1 .. m + n : u[i] = from + i
  <2>1. s \in Seq(Nat) /\ Len(s) = m /\ \A i \in 1 .. m : s[i] = from + i
    BY BytesFacts
  <2>2. from + m \in Nat /\ m + n \in Nat
    OBVIOUS
  <2>3. t \in Seq(Nat) /\ Len(t) = n /\ \A i \in 1 .. n : t[i] = (from + m) + i
    BY <2>2, BytesFacts, Zenon
  <2>4. u \in Seq(Nat) /\ Len(u) = m + n /\ \A i \in 1 .. m + n : u[i] = from + i
    BY <2>2, BytesFacts, Zenon
  <2> QED
    BY <2>1, <2>3, <2>4
<1> HIDE DEF s, t, u
<1>2. /\ s \o t \in Seq(Nat) /\ Len(s \o t) = m + n
      /\ \A i \in 1 .. m + n : (s \o t)[i] = IF i <= m THEN s[i] ELSE t[i - m]
  <2>1. /\ s \o t \in Seq(Nat) /\ Len(s \o t) = Len(s) + Len(t)
        /\ \A i \in 1 .. Len(s) + Len(t) :
             (s \o t)[i] = IF i <= Len(s) THEN s[i] ELSE t[i - Len(s)]
    BY <1>1, ConcatProperties, Zenon
  <2>2. Len(s) = m /\ Len(t) = n
    BY <1>1
  <2> QED
    BY <2>1, <2>2, Zenon
<1>3. ASSUME NEW i \in 1 .. m + n PROVE (s \o t)[i] = u[i]
  <2>1. CASE i <= m
    <3>1. i \in 1 .. m
      BY <2>1
    <3> QED
      BY <1>1, <1>2, <2>1, <3>1
  <2>2. CASE ~ (i <= m)
    <3>1. i - m \in 1 .. n /\ (from + m) + (i - m) = from + i
      BY <2>2
    <3>2. (s \o t)[i] = t[i - m]
      BY <1>2, <2>2
    <3>3. t[i - m] = from + i /\ u[i] = from + i
      BY <1>1, <3>1
    <3> QED
      BY <3>2, <3>3
  <2> QED
    BY <2>1, <2>2
<1>4. s \o t = u
  BY <1>1, <1>2, <1>3, SeqEqual
<1> QED
  BY <1>4 DEF s, t, u

\* What comes first of the bytes from 1 on are the bytes from 1 on.
LEMMA BytesPrefix ==
    ASSUME NEW s \in Seq(Nat), NEW t \in Seq(Nat), NEW n \in Nat, s \o t = Bytes(0, n)
    PROVE  Len(s) <= n /\ s = Bytes(0, Len(s))
<1>1. /\ Len(s) \in Nat /\ Len(t) \in Nat /\ Len(s \o t) = Len(s) + Len(t)
      /\ \A i \in 1 .. Len(s) + Len(t) :
           (s \o t)[i] = IF i <= Len(s) THEN s[i] ELSE t[i - Len(s)]
  BY ConcatProperties, LenProperties
<1>2. /\ Len(Bytes(0, n)) = n /\ \A i \in 1 .. n : Bytes(0, n)[i] = 0 + i
  BY BytesFacts
<1>3. Len(s) + Len(t) = n /\ Len(s) <= n
  <2>1. Len(s \o t) = n
    BY <1>2
  <2>2. /\ Len(s) \in Nat /\ Len(t) \in Nat /\ Len(s) + Len(t) = n
    BY <1>1, <2>1, Zenon
  <2> QED
    BY <2>2
<1>4. /\ Bytes(0, Len(s)) \in Seq(Nat) /\ Len(Bytes(0, Len(s))) = Len(s)
      /\ \A i \in 1 .. Len(s) : Bytes(0, Len(s))[i] = 0 + i
  BY <1>1, BytesFacts
<1>5. ASSUME NEW i \in 1 .. Len(s) PROVE s[i] = Bytes(0, Len(s))[i]
  <2>1. i \in 1 .. n /\ i <= Len(s) /\ i \in 1 .. Len(s) + Len(t)
    BY <1>1, <1>3
  <2> QED
    BY <1>1, <1>2, <1>4, <2>1
<1> QED
  BY <1>3, <1>4, <1>5, SeqEqual

LEMMA BytesSub ==
    ASSUME NEW from \in Nat, NEW n \in Nat, NEW k \in 0 .. n
    PROVE  SubSeq(Bytes(from, n), 1, k) = Bytes(from, k)
<1> DEFINE s == Bytes(from, n)
           t == Bytes(from, k)
           u == SubSeq(s, 1, k)
<1>1. /\ Len(s) = n /\ \A i \in 1 .. n : s[i] = from + i
      /\ t \in Seq(Nat) /\ Len(t) = k /\ \A i \in 1 .. k : t[i] = from + i
  <2>1. k \in Nat
    OBVIOUS
  <2> QED
    BY <2>1, BytesFacts, Zenon
<1> HIDE DEF s, t
<1>2. /\ \A i \in 1 .. k : s[i] \in Nat /\ s[i] = from + i
      /\ k - 1 + 1 = k /\ (IF 1 <= k THEN k - 1 + 1 ELSE 0) = k /\ k \in Int
      /\ \A i \in 1 .. k : 1 + i - 1 = i
  BY <1>1
<1>3. u \in Seq(Nat) /\ Len(u) = k /\ \A i \in 1 .. k : u[i] = s[i]
  BY <1>2, SubSeqProperties
<1> HIDE DEF u
<1>4. u = t
  BY <1>1, <1>2, <1>3, SeqEqual
<1> QED
  BY <1>4 DEF u, t, s

\* What is left of a message is the rest of its bytes.
LEMMA MemoryFacts ==
    ASSUME NEW from \in Nat, NEW len \in Nat, NEW k \in 0 .. len, len < SizeMod, SizeMod \in Nat
    PROVE  Memory(Bytes(from, len), k, len - k) = Bytes(from + k, len - k)
<1>1. ASSUME NEW i \in 1 .. len - k
      PROVE  Plus(k, i) = k + i /\ k + i \in 1 .. len /\ Bytes(from, len)[k + i] = (from + k) + i
  <2>1. Plus(k, i) = k + i /\ k + i \in 1 .. len /\ from + (k + i) = (from + k) + i
    BY DEF Plus
  <2> QED
    BY <2>1, BytesFacts
<1>2. Len(Bytes(from, len)) = len
  BY BytesFacts
<1> QED
  BY <1>1, <1>2 DEF Memory, Bytes

-----------------------------------------------------------------------------
(* The operations of Buffer *)

LEMMA SoundFacts ==
    ASSUME NEW b, Sound(b)
    PROVE  /\ b.size \in Nat /\ b.reader \in Nat /\ b.writer \in Nat
           /\ b.data \in [0 .. b.size - 1 -> Nat]
           /\ CheapPrepend \in Nat /\ SizeMod \in Nat
           /\ CheapPrepend <= b.reader /\ b.reader <= b.writer
           /\ b.writer <= b.size /\ b.size < SizeMod
           /\ ReadableBytes(b) = b.writer - b.reader /\ ReadableBytes(b) \in Nat
           /\ WritableBytes(b) = b.size - b.writer /\ WritableBytes(b) \in Nat
<1>1. /\ b.size \in Nat /\ b.reader \in Nat /\ b.writer \in Nat
      /\ b.data \in [0 .. b.size - 1 -> Nat]
      /\ CheapPrepend <= b.reader /\ b.reader <= b.writer
      /\ b.writer <= b.size /\ b.size < SizeMod
      /\ CheapPrepend \in Nat /\ SizeMod \in Nat
  BY BufferAssumption DEF Sound, Buffers, IndicesOrdered
<1>2. /\ ReadableBytes(b) = b.writer - b.reader
      /\ WritableBytes(b) = b.size - b.writer
  BY <1>1 DEF ReadableBytes, WritableBytes, Minus
<1> QED
  BY <1>1, <1>2

LEMMA ContentFacts ==
    ASSUME NEW b, Sound(b)
    PROVE  /\ Content(b) \in Seq(Nat)
           /\ Len(Content(b)) = b.writer - b.reader
           /\ \A i \in 1 .. b.writer - b.reader : Content(b)[i] = b.data[b.reader + i - 1]
<1> DEFINE n == b.writer - b.reader
<1>1. n \in Nat /\ Content(b) = [i \in 1 .. n |-> b.data[b.reader + i - 1]]
  BY SoundFacts DEF Content
<1>2. ASSUME NEW i \in 1 .. n PROVE b.data[b.reader + i - 1] \in Nat
  <2>1. /\ b.size \in Nat /\ b.reader \in Nat /\ b.writer \in Nat /\ b.writer <= b.size
        /\ b.data \in [0 .. b.size - 1 -> Nat]
    BY SoundFacts
  <2>2. b.reader + i - 1 \in 0 .. b.size - 1
    BY <2>1
  <2> QED
    BY <2>1, <2>2
<1>3. Content(b) \in [1 .. n -> Nat]
  BY <1>1, <1>2
<1> QED
  BY <1>1, <1>3, SeqDef

\* The content of a buffer is known by its length and its bytes.
LEMMA ContentIs ==
    ASSUME NEW b, Sound(b), NEW s \in Seq(Nat), Len(s) = b.writer - b.reader,
           \A i \in 1 .. Len(s) : b.data[b.reader + i - 1] = s[i]
    PROVE  Content(b) = s
BY ContentFacts, SeqEqual

\* Bytes that fit are added to the content.
LEMMA PutFacts ==
    ASSUME NEW b, Sound(b), NEW s \in Seq(Nat), b.writer + Len(s) <= b.size
    PROVE  /\ Sound(Put(b, s))
           /\ Put(b, s).size = b.size /\ Put(b, s).reader = b.reader
           /\ Put(b, s).writer = b.writer + Len(s)
           /\ Content(Put(b, s)) = Content(b) \o s
<1> DEFINE p == Put(b, s)
           c == Content(b) \o s
<1>0. /\ b.size \in Nat /\ b.reader \in Nat /\ b.writer \in Nat
      /\ b.data \in [0 .. b.size - 1 -> Nat]
      /\ b.reader <= b.writer /\ b.writer <= b.size /\ b.size < SizeMod
      /\ Len(s) \in Nat /\ b.writer + Len(s) <= b.size
  BY SoundFacts, LenProperties
<1>1. /\ Len(s) \in Nat /\ \A i \in 1 .. Len(s) : s[i] \in Nat
      /\ Plus(b.writer, Len(s)) = b.writer + Len(s)
  <2>1. \A i \in 1 .. Len(s) : s[i] \in Nat
    BY ElementOfSeq
  <2>2. b.writer + Len(s) < SizeMod
    BY <1>0, SoundFacts
  <2> QED
    BY <1>0, <2>1, <2>2 DEF Plus
<1>2. /\ p.size = b.size /\ p.reader = b.reader /\ p.writer = b.writer + Len(s)
      /\ p.data = [i \in 0 .. b.size - 1 |->
                     IF b.writer <= i /\ i < b.writer + Len(s)
                     THEN s[i - b.writer + 1] ELSE b.data[i]]
      /\ p \in Buffers(b.size)
  <2>1. DOMAIN b.data = 0 .. b.size - 1 /\ b \in Buffers(b.size)
    BY SoundFacts DEF Sound
  <2>2. \A i \in 0 .. b.size - 1 :
          b.writer <= i /\ i < b.writer + Len(s) => s[i - b.writer + 1] \in Nat
    <3> SUFFICES ASSUME NEW i \in 0 .. b.size - 1, b.writer <= i, i < b.writer + Len(s)
                 PROVE  s[i - b.writer + 1] \in Nat
      OBVIOUS
    <3>1. i - b.writer + 1 \in 1 .. Len(s)
      BY <1>0
    <3> QED
      BY <1>1, <3>1
  <2> DEFINE d == [i \in 0 .. b.size - 1 |->
                     IF b.writer <= i /\ i < b.writer + Len(s)
                     THEN s[i - b.writer + 1] ELSE b.data[i]]
  <2>3. d \in [0 .. b.size - 1 -> Nat]
    BY <2>2, SoundFacts
  <2>4. p = [b EXCEPT !.data = d, !.writer = b.writer + Len(s)]
    BY <1>1, <2>1 DEF Put
  <2> HIDE DEF d, p
  <2>5. b.writer + Len(s) \in Nat
    BY <1>1, SoundFacts
  <2>6. /\ p.size = b.size /\ p.reader = b.reader /\ p.writer = b.writer + Len(s)
        /\ p.data = d /\ p \in Buffers(b.size)
    BY <2>1, <2>3, <2>4, <2>5 DEF Buffers
  <2> QED
    BY <2>6 DEF d
<1> HIDE DEF p
<1>3. Sound(p)
  <2>1. CheapPrepend <= b.reader /\ b.reader <= b.writer + Len(s) /\ b.writer + Len(s) \in Nat
    BY <1>0, SoundFacts
  <2> QED
    BY <1>0, <1>2, <2>1 DEF Sound, IndicesOrdered
<1>4. /\ c \in Seq(Nat) /\ Len(c) = Len(Content(b)) + Len(s)
      /\ \A i \in 1 .. Len(c) :
           c[i] = IF i <= Len(Content(b)) THEN Content(b)[i] ELSE s[i - Len(Content(b))]
  BY ContentFacts, ConcatProperties
<1> HIDE DEF c
<1> DEFINE n == Len(Content(b))
<1>n. n = b.writer - b.reader
  BY ContentFacts
<1>5. Len(c) = p.writer - p.reader /\ Len(c) = (b.writer - b.reader) + Len(s) /\ Len(c) \in Nat
  BY <1>0, <1>2, <1>4, <1>n
<1>6. ASSUME NEW i \in 1 .. Len(c) PROVE p.data[p.reader + i - 1] = c[i]
  <2> DEFINE at == b.reader + i - 1
  <2>1. i \in Nat /\ 1 <= i /\ i <= (b.writer - b.reader) + Len(s)
    BY <1>5
  <2>2. at \in 0 .. b.size - 1
    BY <1>0, <2>1
  <2>3. p.data[at] = IF b.writer <= at /\ at < b.writer + Len(s)
                     THEN s[at - b.writer + 1] ELSE b.data[at]
    BY <1>2, <2>2
  <2>4. CASE i <= b.writer - b.reader
    <3>1. at < b.writer /\ i \in 1 .. b.writer - b.reader
      BY <1>0, <2>1, <2>4, SMTT(30)
    <3>2. c[i] = b.data[at]
      BY <1>4, <1>n, <3>1, ContentFacts
    <3> QED
      BY <1>2, <2>2, <2>3, <3>1, <3>2, <1>0
  <2>5. CASE ~ (i <= b.writer - b.reader)
    <3>1. /\ b.writer <= at /\ at < b.writer + Len(s)
          /\ at - b.writer + 1 = i - (b.writer - b.reader)
      BY <1>0, <2>1, <2>5, SMTT(30)
    <3>2. c[i] = s[i - (b.writer - b.reader)]
      BY <1>4, <1>n, <2>5
    <3> QED
      BY <1>2, <2>3, <3>1, <3>2
  <2> QED
    BY <2>4, <2>5
<1>7. Content(p) = c
  BY <1>3, <1>4, <1>5, <1>6, ContentIs
<1> QED
  BY <1>2, <1>3, <1>7 DEF p, c

LEMMA ResizedFacts ==
    ASSUME NEW b, Sound(b), NEW n \in Nat, b.size <= n, n < SizeMod
    PROVE  /\ Sound(Resized(b, n))
           /\ Resized(b, n).size = n
           /\ Resized(b, n).reader = b.reader /\ Resized(b, n).writer = b.writer
           /\ Content(Resized(b, n)) = Content(b)
<1> DEFINE r == Resized(b, n)
           d == [i \in 0 .. n - 1 |-> IF i < b.size THEN b.data[i] ELSE Zero]
<1>1. /\ b.size \in Nat /\ b.reader \in Nat /\ b.writer \in Nat
      /\ b.data \in [0 .. b.size - 1 -> Nat] /\ b \in Buffers(b.size)
      /\ b.reader <= b.writer /\ b.writer <= b.size
  BY SoundFacts DEF Sound
<1>2. d \in [0 .. n - 1 -> Nat]
  BY <1>1, StreamAssumption
<1>3. r = [b EXCEPT !.size = n, !.data = d]
  BY DEF Resized
<1> HIDE DEF r, d
<1>4. /\ r.size = n /\ r.reader = b.reader /\ r.writer = b.writer /\ r.data = d
      /\ r \in Buffers(n)
  BY <1>1, <1>2, <1>3 DEF Buffers
<1>5. Sound(r)
  BY <1>1, <1>4, SoundFacts DEF Sound, IndicesOrdered
<1>6. ASSUME NEW i \in 1 .. b.writer - b.reader
      PROVE  r.data[r.reader + i - 1] = Content(b)[i]
  <2> DEFINE at == b.reader + i - 1
  <2>1. at \in 0 .. n - 1 /\ at < b.size
    BY <1>1
  <2>2. d[at] = b.data[at]
    BY <2>1 DEF d
  <2> QED
    BY <1>4, <2>2, ContentFacts
<1>7. /\ Content(b) \in Seq(Nat) /\ Len(Content(b)) = b.writer - b.reader
  BY ContentFacts
<1>8. Content(r) = Content(b)
  BY <1>4, <1>5, <1>6, <1>7, ContentIs
<1> QED
  BY <1>4, <1>5, <1>8 DEF r

LEMMA MovedFacts ==
    ASSUME NEW b, Sound(b)
    PROVE  /\ Sound(Moved(b))
           /\ Moved(b).size = b.size /\ Moved(b).reader = CheapPrepend
           /\ Moved(b).writer = CheapPrepend + (b.writer - b.reader)
           /\ Content(Moved(b)) = Content(b)
<1> DEFINE m == Moved(b)
           end == CheapPrepend + (b.writer - b.reader)
           d == [i \in 0 .. b.size - 1 |->
                   IF CheapPrepend <= i /\ i < end
                   THEN b.data[i - CheapPrepend + b.reader] ELSE b.data[i]]
<1>1. /\ b.size \in Nat /\ b.reader \in Nat /\ b.writer \in Nat
      /\ b.data \in [0 .. b.size - 1 -> Nat] /\ b \in Buffers(b.size)
      /\ CheapPrepend \in Nat /\ SizeMod \in Nat /\ CheapPrepend <= b.reader
      /\ b.reader <= b.writer /\ b.writer <= b.size /\ b.size < SizeMod
      /\ ReadableBytes(b) = b.writer - b.reader
  BY SoundFacts DEF Sound
<1>2. end \in Nat /\ end <= b.writer /\ Plus(CheapPrepend, ReadableBytes(b)) = end
  BY <1>1 DEF Plus
<1>3. m = [b EXCEPT !.reader = CheapPrepend, !.writer = end, !.data = d]
  BY <1>1, <1>2 DEF Moved
<1>4. d \in [0 .. b.size - 1 -> Nat]
  <2> SUFFICES ASSUME NEW i \in 0 .. b.size - 1, CheapPrepend <= i, i < end
               PROVE  b.data[i - CheapPrepend + b.reader] \in Nat
    BY <1>1
  <2>1. i - CheapPrepend + b.reader \in 0 .. b.size - 1
    BY <1>1, <1>2
  <2> QED
    BY <1>1, <2>1
<1> HIDE DEF m, d
<1>5. /\ m.size = b.size /\ m.reader = CheapPrepend /\ m.writer = end /\ m.data = d
      /\ m \in Buffers(b.size)
  <2> HIDE DEF end
  <2> QED
    BY <1>1, <1>2, <1>3, <1>4 DEF Buffers
<1>6. Sound(m)
  BY <1>1, <1>2, <1>5 DEF Sound, IndicesOrdered
<1>7. ASSUME NEW i \in 1 .. b.writer - b.reader
      PROVE  m.data[m.reader + i - 1] = Content(b)[i]
  <2> DEFINE at == CheapPrepend + i - 1
  <2>1. /\ at \in 0 .. b.size - 1 /\ CheapPrepend <= at /\ at < end
        /\ at - CheapPrepend + b.reader = b.reader + i - 1
    BY <1>1
  <2>2. d[at] = b.data[b.reader + i - 1]
    BY <2>1 DEF d
  <2> QED
    BY <1>5, <2>2, ContentFacts
<1>8. /\ Content(b) \in Seq(Nat) /\ Len(Content(b)) = b.writer - b.reader
      /\ m.writer - m.reader = b.writer - b.reader
  BY <1>1, <1>5, ContentFacts
<1>9. Content(m) = Content(b)
  BY <1>6, <1>7, <1>8, ContentIs
<1> QED
  BY <1>5, <1>6, <1>9 DEF m

\* Room is made, by the one way or the other, and no more than is needed.
LEMMA EnsureFacts ==
    ASSUME NEW b, Sound(b), NEW len \in Nat,
           b.writer + len < SizeMod, len + CheapPrepend < SizeMod
    PROVE  LET r == EnsureWritable(b, len)
           IN  /\ Sound(r) /\ Content(r) = Content(b)
               /\ r.writer - r.reader = b.writer - b.reader
               /\ r.writer + len <= r.size
               /\ r.size = b.size \/ r.size < (b.writer - b.reader) + 2 * len + CheapPrepend
               /\ r.reader = b.reader \/ r.reader = CheapPrepend
<1> DEFINE r == EnsureWritable(b, len)
<1>1. /\ b.size \in Nat /\ b.reader \in Nat /\ b.writer \in Nat
      /\ CheapPrepend \in Nat /\ SizeMod \in Nat /\ CheapPrepend <= b.reader
      /\ b.reader <= b.writer /\ b.writer <= b.size /\ b.size < SizeMod
      /\ WritableBytes(b) = b.size - b.writer
  BY SoundFacts
<1>2. /\ Plus(WritableBytes(b), b.reader) = (b.size - b.writer) + b.reader
      /\ Plus(len, CheapPrepend) = len + CheapPrepend
      /\ Plus(b.writer, len) = b.writer + len
  BY <1>1 DEF Plus
<1>3. CASE ~ (WritableBytes(b) < len)
  BY <1>1, <1>3 DEF EnsureWritable
<1>4. CASE WritableBytes(b) < len /\ (b.size - b.writer) + b.reader < len + CheapPrepend
  <2>1. r = Resized(b, b.writer + len)
    BY <1>2, <1>4 DEF EnsureWritable, MakeSpace
  <2>2. b.writer + len \in Nat /\ b.size <= b.writer + len
    BY <1>1, <1>4
  <2> HIDE DEF r
  <2>3. /\ Sound(r) /\ r.size = b.writer + len
        /\ r.reader = b.reader /\ r.writer = b.writer /\ Content(r) = Content(b)
    BY <2>1, <2>2, ResizedFacts
  <2>4. b.writer + len < (b.writer - b.reader) + 2 * len + CheapPrepend
    BY <1>1, <1>4
  <2> QED
    BY <2>2, <2>3, <2>4 DEF r
<1>5. CASE WritableBytes(b) < len /\ ~ ((b.size - b.writer) + b.reader < len + CheapPrepend)
  <2>1. r = Moved(b)
    BY <1>2, <1>5 DEF EnsureWritable, MakeSpace
  <2> HIDE DEF r
  <2>2. /\ Sound(r) /\ r.size = b.size /\ r.reader = CheapPrepend
        /\ r.writer = CheapPrepend + (b.writer - b.reader) /\ Content(r) = Content(b)
    BY <2>1, MovedFacts
  <2>3. r.writer + len <= r.size /\ r.writer - r.reader = b.writer - b.reader
    BY <1>1, <1>5, <2>2
  <2> QED
    BY <2>2, <2>3 DEF r
<1> QED
  BY <1>3, <1>4, <1>5

\* append() adds its bytes to the content and nothing else, whatever it has to move.
THEOREM AppendCorrect ==
    ASSUME NEW b, Sound(b), NEW s \in Seq(Nat),
           b.writer + Len(s) < SizeMod, Len(s) + CheapPrepend < SizeMod
    PROVE  LET r == AppendBytes(b, s)
           IN  /\ Sound(r) /\ Content(r) = Content(b) \o s
               /\ r.writer - r.reader = (b.writer - b.reader) + Len(s)
               /\ r.size = b.size \/ r.size < (b.writer - b.reader) + 2 * Len(s) + CheapPrepend
<1> DEFINE e == EnsureWritable(b, Len(s))
           r == Put(e, s)
<1>1. Len(s) \in Nat
  OBVIOUS
<1>2. /\ Sound(e) /\ Content(e) = Content(b) /\ e.writer - e.reader = b.writer - b.reader
      /\ e.writer + Len(s) <= e.size
      /\ e.size = b.size \/ e.size < (b.writer - b.reader) + 2 * Len(s) + CheapPrepend
  BY <1>1, EnsureFacts
<1> HIDE DEF e
<1>3. /\ Sound(r) /\ r.size = e.size /\ r.reader = e.reader
      /\ r.writer = e.writer + Len(s) /\ Content(r) = Content(e) \o s
  BY <1>2, PutFacts
<1>4. /\ e.writer \in Nat /\ e.reader \in Nat
  BY <1>2, SoundFacts
<1> HIDE DEF r
<1>5. r.writer - r.reader = (b.writer - b.reader) + Len(s)
  BY <1>1, <1>2, <1>3, <1>4
<1> QED
  BY <1>2, <1>3, <1>5 DEF AppendBytes, e, r

\* retrieve() takes bytes off the front of the content.
THEOREM RetrieveCorrect ==
    ASSUME NEW b, Sound(b), NEW len \in 0 .. b.writer - b.reader
    PROVE  LET r == Retrieve(b, len)
           IN  /\ Sound(r) /\ r.size = b.size
               /\ Content(r) = SubSeq(Content(b), len + 1, b.writer - b.reader)
               /\ r.writer - r.reader = (b.writer - b.reader) - len
<1> DEFINE r == Retrieve(b, len)
           n == b.writer - b.reader
           rest == SubSeq(Content(b), len + 1, n)
<1>1. /\ b.size \in Nat /\ b.reader \in Nat /\ b.writer \in Nat
      /\ b.data \in [0 .. b.size - 1 -> Nat] /\ b \in Buffers(b.size)
      /\ CheapPrepend \in Nat /\ SizeMod \in Nat /\ CheapPrepend <= b.reader
      /\ b.reader <= b.writer /\ b.writer <= b.size /\ b.size < SizeMod
      /\ ReadableBytes(b) = n /\ len \in Nat /\ n \in Nat /\ len <= n
  BY SoundFacts DEF Sound
<1>2. /\ rest \in Seq(Nat) /\ Len(rest) = n - len
      /\ \A i \in 1 .. n - len : rest[i] = Content(b)[len + i]
  <2>1. /\ len + 1 \in Int /\ n \in Int /\ n - (len + 1) + 1 = n - len
        /\ (IF len + 1 <= n THEN n - (len + 1) + 1 ELSE 0) = n - len
    BY <1>1
  <2>2. \A i \in len + 1 .. n : Content(b)[i] \in Nat
    <3>1. Content(b) \in Seq(Nat) /\ Len(Content(b)) = n
      BY ContentFacts
    <3> QED
      BY <1>1, <3>1, ElementOfSeq
  <2>3. /\ rest \in Seq(Nat) /\ Len(rest) = n - len
        /\ \A i \in 1 .. n - len : rest[i] = Content(b)[(len + 1) + i - 1]
    <3> HIDE DEF n
    <3> QED
      BY <2>1, <2>2, SubSeqProperties
  <2>4. \A i \in 1 .. n - len : (len + 1) + i - 1 = len + i
    BY <1>1
  <2> QED
    BY <2>3, <2>4
<1>3. CASE len < n
  <2>1. r = [b EXCEPT !.reader = b.reader + len]
    BY <1>1, <1>3 DEF Retrieve, Plus
  <2> HIDE DEF r
  <2>2. b.reader + len \in Nat /\ b.reader + len <= b.writer
    BY <1>1, <1>3
  <2>3. /\ r.size = b.size /\ r.reader = b.reader + len /\ r.writer = b.writer
        /\ r.data = b.data /\ r \in Buffers(b.size)
    BY <1>1, <2>1, <2>2 DEF Buffers
  <2>4. Sound(r)
    BY <1>1, <2>2, <2>3 DEF Sound, IndicesOrdered
  <2>5. r.writer - r.reader = n - len
    BY <1>1, <2>3
  <2>6. ASSUME NEW i \in 1 .. n - len PROVE r.data[r.reader + i - 1] = rest[i]
    <3> HIDE DEF n
    <3>1. len + i \in 1 .. n /\ b.reader + (len + i) - 1 = (b.reader + len) + i - 1
      BY <1>1
    <3>2. Content(b)[len + i] = b.data[b.reader + (len + i) - 1]
      BY <3>1, ContentFacts DEF n
    <3> QED
      BY <1>2, <2>3, <3>1, <3>2
  <2> HIDE DEF rest
  <2>7. Content(r) = rest
    BY <1>2, <2>4, <2>5, <2>6, ContentIs
  <2> QED
    BY <2>3, <2>4, <2>5, <2>7 DEF r, rest
<1>4. CASE ~ (len < n)
  <2>1. r = [b EXCEPT !.reader = CheapPrepend, !.writer = CheapPrepend]
    BY <1>1, <1>4 DEF Retrieve
  <2> HIDE DEF r
  <2>2. /\ r.size = b.size /\ r.reader = CheapPrepend /\ r.writer = CheapPrepend
        /\ r \in Buffers(b.size)
    BY <1>1, <2>1 DEF Buffers
  <2>3. Sound(r)
    BY <1>1, <2>2 DEF Sound, IndicesOrdered
  <2>4. r.writer - r.reader = 0 /\ n - len = 0
    BY <1>1, <1>4, <2>2
  <2> HIDE DEF rest
  <2>5. Content(r) = rest
    BY <1>2, <2>3, <2>4, ContentIs
  <2> QED
    BY <2>2, <2>3, <2>4, <2>5 DEF r, rest
<1> QED
  BY <1>3, <1>4

\* What does not fit into the rest of a buffer, and what is then asked for.
LEMMA RestFacts ==
    ASSUME NEW size \in Nat, NEW reader \in Nat, NEW writer \in Nat, NEW len \in Nat,
           NEW prepend \in Nat, NEW longer \in Nat,
           reader <= writer, writer <= size, size - writer <= len
    PROVE  /\ (size - reader) + (len - (size - writer)) = (writer - reader) + len
           /\ longer < (size - reader) + 2 * (len - (size - writer)) + prepend
              => longer < (writer - reader) + 2 * len + prepend
OBVIOUS

\* readFd() adds what readv has read, in the buffer and in extrabuf, to the content.
THEOREM ReadFdCorrect ==
    ASSUME NEW b, Sound(b), NEW s \in Seq(Nat), b.size + Len(s) + CheapPrepend < SizeMod
    PROVE  LET r == ReadFd(b, s)
           IN  /\ Sound(r) /\ Content(r) = Content(b) \o s
               /\ r.writer - r.reader = (b.writer - b.reader) + Len(s)
               /\ \/ r.size = b.size
                  \/ r.size < (b.writer - b.reader) + 2 * Len(s) + CheapPrepend
<1> DEFINE r == ReadFd(b, s)
           w == b.size - b.writer
           s1 == SubSeq(s, 1, w)
           s2 == SubSeq(s, w + 1, Len(s))
           p == Put(b, s1)
<1>1. /\ b.size \in Nat /\ b.reader \in Nat /\ b.writer \in Nat
      /\ CheapPrepend \in Nat /\ SizeMod \in Nat
      /\ b.reader <= b.writer /\ b.writer <= b.size /\ b.size < SizeMod
      /\ WritableBytes(b) = w /\ w \in Nat /\ Len(s) \in Nat
  BY SoundFacts
<1>2. CASE Len(s) < w
  <2>1. r = Put(b, s)
    BY <1>1, <1>2 DEF ReadFd
  <2>2. b.writer + Len(s) <= b.size
    BY <1>1, <1>2
  <2> HIDE DEF r
  <2>3. Sound(r) /\ r.size = b.size /\ Content(r) = Content(b) \o s
    BY <2>1, <2>2, PutFacts
  <2>4. r.reader = b.reader /\ r.writer = b.writer + Len(s)
    BY <2>1, <2>2, PutFacts
  <2>5. r.writer - r.reader = (b.writer - b.reader) + Len(s)
    BY <1>1, <2>4
  <2> QED
    BY <2>3, <2>5 DEF r
<1>3. CASE ~ (Len(s) < w)
  <2>1. /\ s1 \in Seq(Nat) /\ Len(s1) = w
        /\ s2 \in Seq(Nat) /\ Len(s2) = Len(s) - w
        /\ s1 \o s2 = s
    <3>1. w \in 0 .. Len(s)
      BY <1>1, <1>3
    <3> QED
      BY <3>1, SplitSeq
  <2>2. r = AppendBytes(p, s2)
    BY <1>1, <1>3 DEF ReadFd
  <2>3. /\ Len(s1) = w /\ Len(s2) = Len(s) - w /\ w <= Len(s)
        /\ b.writer + Len(s1) <= b.size /\ b.writer + Len(s1) = b.size
    <3>1. Len(s1) = w /\ Len(s2) = Len(s) - w
      BY <2>1
    <3> HIDE DEF s1, s2
    <3>2. b.writer + w = b.size /\ b.size <= b.size
      BY <1>1
    <3> HIDE DEF w
    <3> QED
      BY <1>1, <1>3, <3>1, <3>2
  <2> HIDE DEF p, r, s1, s2
  <2>4. Sound(p) /\ Content(p) = Content(b) \o s1
    BY <2>1, <2>3, PutFacts DEF p
  <2>5. p.size = b.size /\ p.reader = b.reader /\ p.writer = b.size
    BY <2>1, <2>3, PutFacts DEF p
  <2>6. p.writer + Len(s2) < SizeMod /\ Len(s2) + CheapPrepend < SizeMod
    <3> HIDE DEF w
    <3>1. Len(s2) \in Nat /\ Len(s2) <= Len(s)
      BY <1>1, <2>3
    <3>2. b.size + Len(s2) < SizeMod /\ Len(s2) + CheapPrepend < SizeMod
      BY <1>1, <3>1
    <3> QED
      BY <2>5, <3>2
  <2>7. Sound(r) /\ Content(r) = Content(p) \o s2
    BY <2>1, <2>2, <2>4, <2>6, AppendCorrect
  <2>8. /\ r.writer - r.reader = (p.writer - p.reader) + Len(s2)
        /\ r.size = p.size \/ r.size < (p.writer - p.reader) + 2 * Len(s2) + CheapPrepend
    BY <2>1, <2>2, <2>4, <2>6, AppendCorrect
  <2>9. Content(r) = Content(b) \o s
    <3>1. Content(b) \in Seq(Nat) /\ s1 \in Seq(Nat) /\ s2 \in Seq(Nat)
      BY <2>1, ContentFacts
    <3> DEFINE c == Content(b)
    <3> HIDE DEF c, w
    <3>2. c \in Seq(Nat)
      BY <3>1 DEF c
    <3>3. (c \o s1) \o s2 = c \o (s1 \o s2)
      BY <3>1, <3>2, ConcatNat
    <3> QED
      BY <2>1, <2>4, <2>7, <3>3 DEF c
  <2>10. /\ r.writer - r.reader = (b.writer - b.reader) + Len(s)
         /\ r.size = b.size \/ r.size < (b.writer - b.reader) + 2 * Len(s) + CheapPrepend
    <3>1. /\ r.writer - r.reader = (b.size - b.reader) + (Len(s) - (b.size - b.writer))
          /\ \/ r.size = b.size
             \/ r.size < (b.size - b.reader) + 2 * (Len(s) - (b.size - b.writer)) + CheapPrepend
      BY <2>3, <2>5, <2>8
    <3>2. r.size \in Nat
      BY <2>7, SoundFacts
    <3>3. b.size - b.writer <= Len(s)
      BY <2>3
    <3>4. /\ (b.size - b.reader) + (Len(s) - (b.size - b.writer)) = (b.writer - b.reader) + Len(s)
          /\ r.size < (b.size - b.reader) + 2 * (Len(s) - (b.size - b.writer)) + CheapPrepend
             => r.size < (b.writer - b.reader) + 2 * Len(s) + CheapPrepend
      BY <1>1, <3>2, <3>3, RestFacts, Zenon
    <3> QED
      BY <3>1, <3>4, Zenon
  <2> QED
    BY <2>7, <2>9, <2>10 DEF r
<1> QED
  BY <1>2, <1>3

-----------------------------------------------------------------------------
(* The invariant of a connection *)

AnswerBytes == MaxIn * MaxLen
InSize == CheapPrepend + InitialSize + 2 * MaxIn
OutSize == CheapPrepend + InitialSize + AnswerBytes + MaxLen

Input ==
    /\ arrived \in 0 .. MaxIn /\ received \in 0 .. arrived
    /\ taken = Bytes(0, received)
    /\ Sound(in) /\ in.reader = in.writer /\ in.size <= InSize

\* What the peer has read, what the socket holds and what waits are the answers.
Output ==
    /\ sent \in 0 .. received * MaxLen
    /\ delivered \in Seq(Nat) /\ socket \in Seq(Nat) /\ Len(socket) <= SendBuffer
    /\ Sound(out) /\ out.size <= OutSize
    /\ (delivered \o socket) \o Content(out) = Bytes(0, sent)
    /\ writing \in BOOLEAN /\ (writing <=> out.reader < out.writer)

\* What poll has reported still holds when it is handled.
Reported ==
    /\ revents \subseteq {"IN", "OUT"}
    /\ "IN" \in revents => received < arrived
    /\ "OUT" \in revents => writing /\ Room > 0

StreamInv == Input /\ Output /\ Reported

LEMMA Bounds ==
    /\ CheapPrepend \in Nat /\ InitialSize \in Nat /\ ExtraSize \in Nat /\ SizeMod \in Nat
    /\ SendBuffer \in Nat /\ MaxIn \in Nat /\ MaxLen \in Nat /\ Zero \in Nat
    /\ ExtraSize > 0 /\ MaxLen > 0 /\ SendBuffer > 0
    /\ AnswerBytes \in Nat /\ InSize \in Nat /\ OutSize \in Nat
    /\ CheapPrepend + InitialSize <= InSize /\ CheapPrepend + InitialSize <= OutSize
    /\ InSize + MaxIn + CheapPrepend < SizeMod /\ CheapPrepend + 2 * MaxIn <= InSize
    /\ OutSize + MaxLen < SizeMod /\ MaxLen + CheapPrepend < SizeMod
    /\ AnswerBytes + MaxLen + CheapPrepend <= OutSize
<1>1. /\ CheapPrepend \in Nat /\ InitialSize \in Nat /\ ExtraSize \in Nat /\ SizeMod \in Nat
      /\ SendBuffer \in Nat /\ MaxIn \in Nat /\ MaxLen \in Nat /\ Zero \in Nat
      /\ ExtraSize > 0 /\ MaxLen > 0 /\ SendBuffer > 0
  BY BufferAssumption, StreamAssumption
<1>2. AnswerBytes \in Nat
  BY <1>1 DEF AnswerBytes
<1>3. 4 * (CheapPrepend + InitialSize + MaxIn + AnswerBytes + MaxLen) < SizeMod
  BY SizeAssumption DEF AnswerBytes
<1> QED
  BY <1>1, <1>2, <1>3 DEF InSize, OutSize

LEMMA EmptyBytes == Bytes(0, 0) = <<>>
<1>1. Bytes(0, 0) \in Seq(Nat) /\ Len(Bytes(0, 0)) = 0
  BY BytesFacts
<1> QED
  BY <1>1, EmptySeq

LEMMA EmptyContent ==
    ASSUME NEW b, Sound(b), b.reader = b.writer
    PROVE  Content(b) = <<>>
<1>1. Content(b) \in Seq(Nat) /\ Len(Content(b)) = 0
  BY ContentFacts, SoundFacts
<1> QED
  BY <1>1, EmptySeq

LEMMA NewBufferFacts ==
    /\ Sound(NewBuffer) /\ NewBuffer.reader = NewBuffer.writer
    /\ NewBuffer.size = CheapPrepend + InitialSize
<1> DEFINE d == [i \in 0 .. CheapPrepend + InitialSize - 1 |-> Zero]
<1>1. d \in [0 .. CheapPrepend + InitialSize - 1 -> Nat]
  BY Bounds
<1>2. NewBuffer = [data |-> d, size |-> CheapPrepend + InitialSize,
                   reader |-> CheapPrepend, writer |-> CheapPrepend]
  BY DEF NewBuffer
<1> HIDE DEF d
<1>3. CheapPrepend + InitialSize \in Nat
  BY Bounds
<1> QED
  BY <1>1, <1>2, <1>3, Bounds, BufferAssumption DEF Sound, Buffers, IndicesOrdered

LEMMA InitInv == Init => StreamInv
<1> SUFFICES ASSUME Init PROVE StreamInv
  OBVIOUS
<1>1. Input
  BY NewBufferFacts, EmptyBytes, Bounds DEF Init, Input
<1>2. Output
  <2>1. Content(out) = <<>>
    BY NewBufferFacts, EmptyContent DEF Init
  <2>2. (<<>> \o <<>>) \o <<>> = Bytes(0, 0)
    BY EmptyBytes, ConcatEmptySeq, EmptySeq
  <2>3. (delivered \o socket) \o Content(out) = Bytes(0, sent)
    BY <2>1, <2>2 DEF Init
  <2>4. <<>> \in Seq(Nat) /\ Len(<<>>) = 0
    BY EmptySeq
  <2>5. sent \in 0 .. received * MaxLen
    BY Bounds DEF Init
  <2>6. Sound(out) /\ out.reader = out.writer /\ out.size <= OutSize
    BY NewBufferFacts, Bounds DEF Init
  <2>7. ~ (out.reader < out.writer)
    BY <2>6, SoundFacts
  <2>8. Len(<<>>) <= SendBuffer
    BY <2>4, Bounds
  <2> QED
    BY <2>3, <2>4, <2>5, <2>6, <2>7, <2>8 DEF Init, Output
<1>3. Reported
  BY DEF Init, Reported
<1> QED
  BY <1>1, <1>2, <1>3 DEF StreamInv

-----------------------------------------------------------------------------
(* Every step preserves it *)

LEMMA PeerSendInv ==
    ASSUME StreamInv, NEW n \in 1 .. MaxIn, PeerSend(n)
    PROVE  StreamInv'
<1>1. Input'
  BY Bounds DEF StreamInv, Input, PeerSend
<1>2. Output'
  BY DEF StreamInv, Output, PeerSend
<1>3. Reported'
  BY Bounds DEF StreamInv, Input, Reported, PeerSend, Room
<1> QED
  BY <1>1, <1>2, <1>3 DEF StreamInv

\* The peer reads the next bytes of the answers.
LEMMA PeerReadFacts ==
    ASSUME StreamInv, NEW n \in 1 .. SendBuffer, PeerRead(n)
    PROVE  /\ delivered' \in Seq(Nat) /\ Len(delivered') = Len(delivered) + n
           /\ socket' \in Seq(Nat) /\ Len(socket') = Len(socket) - n
           /\ delivered' \o socket' = delivered \o socket
<1> DEFINE s1 == SubSeq(socket, 1, n)
           s2 == SubSeq(socket, n + 1, Len(socket))
<1>1. socket \in Seq(Nat) /\ delivered \in Seq(Nat) /\ n \in 0 .. Len(socket)
  <2>1. socket \in Seq(Nat) /\ delivered \in Seq(Nat)
    BY DEF StreamInv, Output
  <2>2. n <= Len(socket) /\ Len(socket) \in Nat
    BY <2>1, LenProperties DEF PeerRead
  <2> QED
    BY <2>1, <2>2, Bounds
<1>2. /\ s1 \in Seq(Nat) /\ Len(s1) = n /\ s2 \in Seq(Nat) /\ Len(s2) = Len(socket) - n
      /\ s1 \o s2 = socket
  BY <1>1, SplitSeq
<1>3. delivered' = delivered \o s1 /\ socket' = s2
  BY DEF PeerRead
<1> HIDE DEF s1, s2
<1>4. delivered \o s1 \in Seq(Nat) /\ Len(delivered \o s1) = Len(delivered) + n
  BY <1>1, <1>2, ConcatProperties
<1>5. (delivered \o s1) \o s2 = delivered \o (s1 \o s2)
  BY <1>1, <1>2, ConcatNat
<1> QED
  BY <1>2, <1>3, <1>4, <1>5

LEMMA PeerReadInv ==
    ASSUME StreamInv, NEW n \in 1 .. SendBuffer, PeerRead(n)
    PROVE  StreamInv'
<1>1. Input'
  BY DEF StreamInv, Input, PeerRead
<1>2. Output'
  <2>1. Len(socket') <= SendBuffer /\ Len(socket') \in Nat
    <3>1. Len(socket) \in Nat /\ Len(socket) <= SendBuffer
      BY LenProperties DEF StreamInv, Output
    <3>2. Len(socket') = Len(socket) - n /\ Len(socket') \in Nat
      BY PeerReadFacts, LenProperties
    <3> QED
      BY <3>1, <3>2, Bounds
  <2>2. (delivered' \o socket') \o Content(out) = Bytes(0, sent)
    BY PeerReadFacts DEF StreamInv, Output
  <2>3. delivered' \in Seq(Nat) /\ socket' \in Seq(Nat)
    BY PeerReadFacts
  <2>4. UNCHANGED <<sent, received, out, writing>>
    BY DEF PeerRead
  <2>5. /\ sent \in 0 .. received * MaxLen /\ Sound(out) /\ out.size <= OutSize
        /\ writing \in BOOLEAN /\ (writing <=> out.reader < out.writer)
    BY DEF StreamInv, Output
  <2> QED
    BY <2>1, <2>2, <2>3, <2>4, <2>5 DEF Output
<1>3. Reported'
  <2>1. Len(socket') = Len(socket) - n /\ Len(socket) \in Nat
    BY PeerReadFacts, LenProperties DEF StreamInv, Output
  <2>2. Room > 0 => Room' > 0
    BY <2>1, Bounds DEF Room
  <2> QED
    BY <2>2 DEF StreamInv, Reported, PeerRead
<1> QED
  BY <1>1, <1>2, <1>3 DEF StreamInv

LEMMA PollInv ==
    ASSUME StreamInv, Poll
    PROVE  StreamInv'
<1>1. Input' /\ Output'
  BY DEF StreamInv, Input, Output, Poll
<1>2. Reported'
  <2>1. revents' = Ready /\ UNCHANGED <<received, arrived, writing, Room>>
    BY DEF Poll, Room
  <2> QED
    BY <2>1 DEF Reported, Ready
<1> QED
  BY <1>1, <1>2 DEF StreamInv

\* What a socket with room takes of some bytes, and what ::write returns.
LEMMA WriteFacts ==
    ASSUME StreamInv, Room > 0, NEW n \in Nat, n > 0
    PROVE  /\ Accepted(n) \in 1 .. n /\ Written(n) = Accepted(n)
           /\ Len(socket) + Accepted(n) <= SendBuffer
<1>1. Len(socket) \in Nat /\ Room \in Nat /\ Room = SendBuffer - Len(socket)
  <2>1. Len(socket) \in Nat /\ Len(socket) <= SendBuffer
    BY LenProperties DEF StreamInv, Output
  <2> QED
    BY <2>1, Bounds DEF Room
<1>2. Accepted(n) \in 1 .. n /\ Accepted(n) <= Room
  BY <1>1 DEF Accepted, Least
<1> QED
  BY <1>1, <1>2, Bounds DEF Written

\* The bytes a socket takes join those it holds.
LEMMA SocketFacts ==
    ASSUME StreamInv, NEW s \in Seq(Nat), Len(socket) + Len(s) <= SendBuffer
    PROVE  /\ socket \o s \in Seq(Nat) /\ Len(socket \o s) <= SendBuffer
           /\ delivered \o (socket \o s) = (delivered \o socket) \o s
<1>1. socket \in Seq(Nat) /\ delivered \in Seq(Nat)
  BY DEF StreamInv, Output
<1>2. (delivered \o socket) \o s = delivered \o (socket \o s)
  BY <1>1, ConcatNat
<1> QED
  BY <1>1, <1>2, ConcatProperties

LEMMA HandleWriteInv ==
    ASSUME StreamInv, HandleWrite
    PROVE  StreamInv'
<1> DEFINE n == ReadableBytes(out)
           a == Accepted(n)
           s1 == SubSeq(Content(out), 1, a)
           s2 == SubSeq(Content(out), a + 1, n)
<1>1. /\ Sound(out) /\ out.size <= OutSize /\ writing /\ Room > 0 /\ out.reader < out.writer
      /\ (delivered \o socket) \o Content(out) = Bytes(0, sent)
      /\ delivered \in Seq(Nat) /\ socket \in Seq(Nat)
  BY DEF HandleWrite, StreamInv, Output, Reported
<1>2. n \in Nat /\ n > 0 /\ n = out.writer - out.reader
  BY <1>1, SoundFacts
<1>3. a \in 1 .. n /\ Written(n) = a /\ Len(socket) + a <= SendBuffer
  <2> HIDE DEF n
  <2> QED
    BY <1>1, <1>2, WriteFacts
\* The channel waits to write, and the socket takes something: nothing else happens.
<1>4. /\ socket' = socket \o s1 /\ out' = Retrieve(out, a)
      /\ writing' = (ReadableBytes(out') # 0)
      /\ UNCHANGED <<arrived, received, taken, in, sent, delivered>>
  <2>1. writing /\ Written(n) > 0
    BY <1>1, <1>2, <1>3
  <2> QED
    BY <1>3, <2>1 DEF HandleWrite
<1>5. /\ s1 \in Seq(Nat) /\ Len(s1) = a /\ s2 \in Seq(Nat) /\ s1 \o s2 = Content(out)
  <2>1. Content(out) \in Seq(Nat) /\ Len(Content(out)) = n
    BY <1>1, <1>2, ContentFacts
  <2> HIDE DEF n, a
  <2>2. a \in 0 .. Len(Content(out))
    BY <1>2, <1>3, <2>1
  <2> QED
    BY <2>1, <2>2, SplitSeq
<1>6. /\ Sound(out') /\ out'.size = out.size /\ Content(out') = s2
      /\ out'.writer - out'.reader = n - a
  <2>1. out' = Retrieve(out, a)
    BY <1>4
  <2> HIDE DEF a
  <2>2. a \in 0 .. out.writer - out.reader
    BY <1>2, <1>3
  <2> QED
    BY <1>1, <1>2, <2>1, <2>2, RetrieveCorrect
<1>7. socket' = socket \o s1 /\ UNCHANGED <<arrived, received, taken, in, sent, delivered>>
  BY <1>4
<1>8. writing' \in BOOLEAN /\ (writing' <=> out'.reader < out'.writer)
  <2>1. writing' = (ReadableBytes(out') # 0)
    BY <1>4
  <2>2. /\ ReadableBytes(out') = out'.writer - out'.reader
        /\ out'.reader \in Nat /\ out'.writer \in Nat /\ out'.reader <= out'.writer
    BY <1>6, SoundFacts
  <2>3. ReadableBytes(out') # 0 <=> out'.reader < out'.writer
    BY <2>2
  <2> QED
    BY <2>1, <2>3
<1> HIDE DEF s1, s2, a, n
<1>9. /\ socket' \in Seq(Nat) /\ Len(socket') <= SendBuffer
      /\ delivered \o socket' = (delivered \o socket) \o s1
  BY <1>3, <1>5, <1>7, SocketFacts
<1>10. (delivered \o socket') \o Content(out') = Bytes(0, sent)
  <2>1. delivered \o socket \in Seq(Nat)
    BY <1>1, ConcatProperties
  <2>2. ((delivered \o socket) \o s1) \o s2 = (delivered \o socket) \o (s1 \o s2)
    BY <1>5, <2>1, ConcatNat
  <2> QED
    BY <1>1, <1>5, <1>6, <1>9, <2>2
<1>11. Input'
  BY <1>7 DEF StreamInv, Input
<1>12. Output'
  BY <1>1, <1>6, <1>7, <1>8, <1>9, <1>10 DEF StreamInv, Output
<1>13. Reported'
  BY DEF HandleWrite, Reported
<1> QED
  BY <1>11, <1>12, <1>13 DEF StreamInv

\* What is read for a request is given to onMessage, and the buffer is left empty.
LEMMA ReadStep ==
    ASSUME StreamInv, HandleRead
    PROVE  Input' /\ received' > received /\ taken' = Bytes(0, received')
<1> DEFINE n == Least(arrived - received, ReadMax(in))
           s == Bytes(received, n)
           read == ReadFd(in, s)
<1>1. /\ arrived \in 0 .. MaxIn /\ received \in 0 .. arrived /\ received < arrived
      /\ taken = Bytes(0, received)
      /\ Sound(in) /\ in.reader = in.writer /\ in.size <= InSize
  BY DEF HandleRead, StreamInv, Input, Reported
<1>2. received \in Nat /\ n \in Nat /\ n >= 1 /\ n <= MaxIn /\ received + n <= arrived
  <2>1. WritableBytes(in) \in Nat
    BY <1>1, SoundFacts
  <2>2. ReadMax(in) \in Nat /\ ReadMax(in) >= 1
    BY <2>1, Bounds DEF ReadMax
  <2> QED
    BY <1>1, <2>2, Bounds DEF Least
<1>3. /\ received' = received + n /\ taken' = taken \o Content(read)
      /\ in' = Retrieve(read, ReadableBytes(read)) /\ arrived' = arrived
  BY DEF HandleRead
<1> HIDE DEF n
<1>4. s \in Seq(Nat) /\ Len(s) = n
  BY <1>2, BytesFacts
<1>5. in.size + Len(s) + CheapPrepend < SizeMod
  BY <1>1, <1>2, <1>4, Bounds, SoundFacts
<1> HIDE DEF s
<1>6. /\ Sound(read) /\ Content(read) = Content(in) \o s
      /\ read.writer - read.reader = (in.writer - in.reader) + Len(s)
      /\ \/ read.size = in.size
         \/ read.size < (in.writer - in.reader) + 2 * Len(s) + CheapPrepend
  BY <1>1, <1>4, <1>5, ReadFdCorrect
<1>7. Content(read) = s
  <2>1. Content(in) = <<>>
    BY <1>1, EmptyContent
  <2> QED
    BY <1>4, <1>6, <2>1, ConcatEmptySeq
<1> HIDE DEF read
<1>8. read.size <= InSize
  <2>1. in.writer - in.reader = 0 /\ read.size \in Nat
    BY <1>1, <1>6, SoundFacts
  <2> QED
    BY <1>1, <1>2, <1>4, <1>6, <2>1, Bounds
<1>9. Sound(in') /\ in'.reader = in'.writer /\ in'.size <= InSize
  <2>1. /\ ReadableBytes(read) = read.writer - read.reader /\ ReadableBytes(read) \in Nat
    BY <1>6, SoundFacts
  <2>2. ReadableBytes(read) \in 0 .. read.writer - read.reader
    BY <2>1
  <2>3. /\ Sound(in') /\ in'.size = read.size
        /\ in'.writer - in'.reader = (read.writer - read.reader) - ReadableBytes(read)
    BY <1>3, <1>6, <2>2, RetrieveCorrect
  <2>4. in'.writer \in Nat /\ in'.reader \in Nat /\ in'.writer - in'.reader = 0
    BY <2>1, <2>3, SoundFacts
  <2> QED
    BY <1>8, <2>3, <2>4
<1>10. taken' = Bytes(0, received')
  <2>1. Bytes(0, received) \o Bytes(0 + received, n) = Bytes(0, received + n)
    BY <1>2, BytesConcat
  <2>2. 0 + received = received
    BY <1>2
  <2> QED
    BY <1>1, <1>3, <1>7, <2>1, <2>2 DEF s
<1>11. arrived' \in 0 .. MaxIn /\ received' \in 0 .. arrived' /\ received' > received
  BY <1>1, <1>2, <1>3
<1> QED
  BY <1>9, <1>10, <1>11 DEF Input

\* An answer goes to the socket as far as that takes it, if nothing waits before it,
\* and the rest of it waits.
LEMMA SendStep ==
    ASSUME StreamInv, Unblocked, NEW len \in 1 .. MaxLen, sent + len <= AnswerBytes,
           SendInLoop(Bytes(sent, len)), UNCHANGED delivered
    PROVE  /\ socket' \in Seq(Nat) /\ Len(socket') <= SendBuffer
           /\ Sound(out') /\ out'.size <= OutSize
           /\ (delivered \o socket') \o Content(out') = Bytes(0, sent + len)
           /\ writing' \in BOOLEAN /\ (writing' <=> out'.reader < out'.writer)
           /\ writing => writing' /\ socket' = socket
<1> DEFINE m == Bytes(sent, len)
           k == IF Direct THEN Written(len) ELSE 0
           took == Bytes(sent, k)
           rest == Bytes(sent + k, len - k)
           c == Content(out)
<1>1. /\ delivered \in Seq(Nat) /\ socket \in Seq(Nat) /\ Len(socket) \in Nat
      /\ Len(socket) <= SendBuffer /\ Sound(out) /\ out.size <= OutSize
      /\ (delivered \o socket) \o Content(out) = Bytes(0, sent)
      /\ writing \in BOOLEAN /\ (writing <=> out.reader < out.writer)
  BY LenProperties DEF StreamInv, Output
<1>2. sent \in Nat /\ len \in Nat /\ len > 0 /\ len <= MaxLen
  <2>1. received * MaxLen \in Nat
    <3>1. received \in Nat
      BY Bounds DEF StreamInv, Input
    <3> QED
      BY <3>1, Bounds
  <2> QED
    BY <2>1, Bounds DEF StreamInv, Output
<1>3. /\ out.size \in Nat /\ out.reader \in Nat /\ out.writer \in Nat
      /\ out.reader <= out.writer /\ out.writer <= out.size
      /\ ReadableBytes(out) = out.writer - out.reader
  BY <1>1, SoundFacts
<1>4. Direct <=> ~ writing
  BY <1>1, <1>3 DEF Direct
<1>5. out.writer - out.reader <= sent
  <2>1. /\ delivered \o socket \in Seq(Nat) /\ c \in Seq(Nat)
        /\ Len(c) = out.writer - out.reader
    BY <1>1, ContentFacts, ConcatProperties
  <2> HIDE DEF c
  <2>2. Len((delivered \o socket) \o c) = Len(delivered \o socket) + Len(c)
    BY <2>1, ConcatProperties
  <2>3. Len(Bytes(0, sent)) = sent
    BY <1>2, BytesFacts
  <2>4. Len(delivered \o socket) \in Nat
    BY <2>1, LenProperties
  <2>5. (delivered \o socket) \o c = Bytes(0, sent)
    BY <1>1 DEF c
  <2>6. sent = Len(delivered \o socket) + (out.writer - out.reader)
    BY <2>1, <2>2, <2>3, <2>5
  <2> QED
    BY <1>2, <1>3, <2>4, <2>6
<1>6. /\ k \in 0 .. len /\ Len(socket) + k <= SendBuffer
      /\ Direct => k = Accepted(len)
      /\ ~ Direct => k = 0
  <2>1. CASE Direct
    <3>1. Room > 0
      BY <2>1 DEF Unblocked
    <3>2. /\ Accepted(len) \in 1 .. len /\ Written(len) = Accepted(len)
          /\ Len(socket) + Accepted(len) <= SendBuffer
      BY <1>2, <3>1, WriteFacts
    <3> QED
      BY <2>1, <3>2
  <2>2. CASE ~ Direct
    BY <1>1, <1>2, <2>2
  <2> QED
    BY <2>1, <2>2
<1>7. Len(m) = len /\ len < SizeMod /\ SizeMod \in Nat
  BY <1>2, Bounds, BytesFacts
<1>8. /\ socket' = IF Direct THEN socket \o SubSeq(m, 1, Accepted(len)) ELSE socket
      /\ out' = IF Minus(len, k) > 0 THEN AppendBytes(out, Memory(m, k, Minus(len, k))) ELSE out
      /\ writing' = (writing \/ Minus(len, k) > 0)
  BY <1>7 DEF SendInLoop
<1> HIDE DEF k
<1>9. Minus(len, k) = len - k /\ len - k \in Nat /\ k \in Nat
  BY <1>2, <1>6 DEF Minus
<1>10. /\ took \in Seq(Nat) /\ Len(took) = k /\ rest \in Seq(Nat) /\ Len(rest) = len - k
  <2>1. sent + k \in Nat
    BY <1>2, <1>9
  <2> QED
    BY <1>2, <1>9, <2>1, BytesFacts
<1>11. Memory(m, k, len - k) = rest
  BY <1>2, <1>6, <1>7, MemoryFacts
<1>12. socket' = socket \o took
  <2>1. CASE Direct
    BY <1>2, <1>6, <1>8, <2>1, BytesSub
  <2>2. CASE ~ Direct
    <3>1. took = <<>>
      BY <1>6, <1>10, <2>2, EmptySeq
    <3> QED
      BY <1>1, <1>8, <2>2, <3>1, ConcatEmptySeq
  <2> QED
    BY <2>1, <2>2
<1>13. /\ out' = IF len - k > 0 THEN AppendBytes(out, rest) ELSE out
       /\ writing' = (writing \/ len - k > 0)
  BY <1>8, <1>9, <1>11
<1>14. took \o rest = m
  <2>1. k + (len - k) = len
    BY <1>2, <1>9
  <2>2. Bytes(sent, k) \o Bytes(sent + k, len - k) = Bytes(sent, k + (len - k))
    BY <1>2, <1>9, BytesConcat
  <2> QED
    BY <2>1, <2>2
<1>15. Bytes(0, sent) \o m = Bytes(0, sent + len)
  <2>1. Bytes(0, sent) \o Bytes(0 + sent, len) = Bytes(0, sent + len)
    BY <1>2, BytesConcat
  <2>2. 0 + sent = sent
    BY <1>2
  <2> QED
    BY <2>1, <2>2
<1> HIDE DEF m, took, rest
<1>16. /\ socket' \in Seq(Nat) /\ Len(socket') <= SendBuffer
       /\ delivered \o socket' = (delivered \o socket) \o took
  BY <1>6, <1>10, <1>12, SocketFacts
<1>17. /\ Sound(out') /\ Content(out') = c \o rest
       /\ out'.writer - out'.reader = (out.writer - out.reader) + (len - k)
       /\ out'.size = out.size \/ out'.size < (out.writer - out.reader) + 2 * (len - k) + CheapPrepend
  <2>1. CASE len - k > 0
    <3>1. out' = AppendBytes(out, rest)
      BY <1>13, <2>1
    <3>2. out.writer + Len(rest) < SizeMod /\ Len(rest) + CheapPrepend < SizeMod
      <4>1. Len(rest) \in Nat /\ Len(rest) <= MaxLen
        BY <1>2, <1>9, <1>10, Bounds
      <4>2. out.writer \in Nat /\ out.writer <= OutSize
        BY <1>1, <1>3, Bounds
      <4>3. /\ MaxLen \in Nat /\ OutSize \in Nat /\ CheapPrepend \in Nat /\ SizeMod \in Nat
            /\ OutSize + MaxLen < SizeMod /\ MaxLen + CheapPrepend < SizeMod
        BY Bounds
      <4> QED
        BY <4>1, <4>2, <4>3
    <3> QED
      BY <1>1, <1>10, <3>1, <3>2, AppendCorrect
  <2>2. CASE ~ (len - k > 0)
    <3>1. out' = out /\ len - k = 0 /\ rest = <<>>
      BY <1>9, <1>10, <1>13, <2>2, EmptySeq
    <3>2. c \o <<>> = c
      BY <1>1, ContentFacts, ConcatEmptySeq
    <3>3. out'.writer - out'.reader = (out.writer - out.reader) + (len - k)
      BY <1>3, <3>1
    <3> QED
      BY <1>1, <3>1, <3>2, <3>3
  <2> QED
    BY <2>1, <2>2
<1>18. out'.size <= OutSize
  <2>1. out'.size \in Nat
    BY <1>17, SoundFacts
  <2>2. CASE out'.size = out.size
    BY <1>1, <2>2
  <2>3. CASE out'.size < (out.writer - out.reader) + 2 * (len - k) + CheapPrepend
    <3> DEFINE waiting == out.writer - out.reader
    <3>1. waiting \in Nat /\ waiting <= sent
      BY <1>3, <1>5
    <3>2. out'.size < waiting + 2 * (len - k) + CheapPrepend
      BY <2>3
    <3> HIDE DEF waiting
    <3>3. /\ MaxLen \in Nat /\ OutSize \in Nat /\ CheapPrepend \in Nat /\ AnswerBytes \in Nat
          /\ AnswerBytes + MaxLen + CheapPrepend <= OutSize
      BY Bounds
    <3>4. 2 * (len - k) <= len + MaxLen
      BY <1>2, <1>9, <3>3
    <3> QED
      BY <1>2, <1>9, <2>1, <3>1, <3>2, <3>3, <3>4
  <2> QED
    BY <1>17, <2>2, <2>3
<1>19. (delivered \o socket') \o Content(out') = Bytes(0, sent + len)
  <2> DEFINE ds == delivered \o socket
  <2>1. ds \in Seq(Nat) /\ c \in Seq(Nat)
    BY <1>1, ContentFacts, ConcatProperties
  <2>2. ds \o c = Bytes(0, sent)
    BY <1>1
  <2> HIDE DEF ds, c
  <2>3. CASE Direct
    <3>1. c = <<>>
      BY <1>1, <1>3, <1>4, <2>3, EmptyContent DEF c
    <3>2. ds = Bytes(0, sent) /\ Content(out') = rest
      BY <1>10, <1>17, <2>1, <2>2, <3>1, ConcatEmptySeq
    <3>3. (ds \o took) \o rest = ds \o (took \o rest)
      <4>1. took \in Seq(Nat) /\ rest \in Seq(Nat)
        BY <1>10
      <4> QED
        BY <2>1, <4>1, ConcatNat, Zenon
    <3> QED
      BY <1>14, <1>15, <1>16, <3>2, <3>3 DEF ds
  <2>4. CASE ~ Direct
    <3>1. took = <<>> /\ rest = m
      <4>1. took = <<>>
        BY <1>6, <1>10, <2>4, EmptySeq
      <4> QED
        BY <1>10, <1>14, <4>1, ConcatEmptySeq
    <3>2. ds \o took = ds
      BY <2>1, <3>1, ConcatEmptySeq
    <3>3. (ds \o c) \o rest = ds \o (c \o rest)
      <4>1. rest \in Seq(Nat)
        BY <1>10
      <4> QED
        BY <2>1, <4>1, ConcatNat, Zenon
    <3> QED
      BY <1>15, <1>16, <1>17, <2>2, <3>1, <3>2, <3>3 DEF ds
  <2> QED
    BY <2>3, <2>4
<1>20. writing' \in BOOLEAN /\ (writing' <=> out'.reader < out'.writer)
  <2>1. out'.reader \in Nat /\ out'.writer \in Nat
    BY <1>17, SoundFacts
  <2>2. out'.reader < out'.writer <=> (out.reader < out.writer \/ len - k > 0)
    BY <1>3, <1>9, <1>17, <2>1
  <2>3. writing' = (writing \/ len - k > 0)
    BY <1>13
  <2> QED
    BY <1>1, <2>2, <2>3
<1>21. writing => writing' /\ socket' = socket
  <2>1. writing => writing'
    BY <1>13
  <2>2. writing => socket' = socket
    BY <1>4, <1>8
  <2> QED
    BY <2>1, <2>2
<1> QED
  BY <1>16, <1>17, <1>18, <1>19, <1>20, <1>21

LEMMA ProductFacts ==
    ASSUME NEW m \in Nat, NEW n \in Nat, NEW k \in Nat
    PROVE  /\ m * k \in Nat
           /\ m < n => m * k + k <= n * k
           /\ m <= n => m * k <= n * k
<1>1. ASSUME NEW i \in Nat, NEW j \in Nat PROVE i * j \in Nat
  OBVIOUS
<1>2. ASSUME m < n PROVE m * k + k <= n * k
  <2>1. (n - m - 1) * k = n * k - m * k - k /\ n - m - 1 \in Nat
    BY <1>2
  <2>2. (n - m - 1) * k \in Nat
    BY <1>1, <2>1
  <2> QED
    BY <1>1, <2>1, <2>2
<1>3. ASSUME m <= n PROVE m * k <= n * k
  <2>1. (n - m) * k = n * k - m * k /\ n - m \in Nat
    BY <1>3
  <2>2. (n - m) * k \in Nat
    BY <1>1, <2>1
  <2> QED
    BY <1>1, <2>1, <2>2
<1> QED
  BY <1>1, <1>2, <1>3

\* A request is answered: what there is to send is within what there may ever be.
LEMMA AnswerFacts ==
    ASSUME StreamInv, HandleRead, NEW len \in 1 .. MaxLen
    PROVE  sent + len \in 0 .. received' * MaxLen /\ sent + len <= AnswerBytes
<1>1. /\ received \in Nat /\ received' \in Nat /\ received < received' /\ received' <= MaxIn
      /\ MaxIn \in Nat /\ MaxLen \in Nat
  <2>1. /\ arrived' \in 0 .. MaxIn /\ received' \in 0 .. arrived' /\ received' > received
    BY ReadStep DEF Input
  <2>2. received \in 0 .. arrived /\ arrived \in 0 .. MaxIn
    BY DEF StreamInv, Input
  <2> QED
    BY <2>1, <2>2, Bounds
<1>2. /\ received * MaxLen \in Nat /\ received * MaxLen + MaxLen <= received' * MaxLen
      /\ received' * MaxLen \in Nat /\ received' * MaxLen <= AnswerBytes
  BY <1>1, ProductFacts DEF AnswerBytes
<1>3. sent \in 0 .. received * MaxLen
  BY DEF StreamInv, Output
<1> DEFINE old == received * MaxLen
           new == received' * MaxLen
<1>4. /\ old \in Nat /\ new \in Nat /\ old + MaxLen <= new /\ new <= AnswerBytes
      /\ sent \in 0 .. old
  BY <1>2, <1>3
<1> HIDE DEF old, new
<1>5. sent + len \in 0 .. new /\ sent + len <= AnswerBytes
  BY <1>1, <1>4, Bounds
<1> QED
  BY <1>5 DEF new

LEMMA HandleReadInv ==
    ASSUME StreamInv, Unblocked, HandleRead
    PROVE  StreamInv' /\ sent' > sent
<1>1. PICK len \in 1 .. MaxLen : sent' = sent + len /\ SendInLoop(Bytes(sent, len))
  BY DEF HandleRead
<1>2. UNCHANGED <<arrived, delivered>> /\ "IN" \in revents /\ revents' = revents \ {"IN"}
  BY DEF HandleRead
<1>3. sent + len \in 0 .. received' * MaxLen /\ sent + len <= AnswerBytes
  BY AnswerFacts
<1>4. /\ socket' \in Seq(Nat) /\ Len(socket') <= SendBuffer
      /\ Sound(out') /\ out'.size <= OutSize
      /\ (delivered \o socket') \o Content(out') = Bytes(0, sent + len)
      /\ writing' \in BOOLEAN /\ (writing' <=> out'.reader < out'.writer)
      /\ writing => writing' /\ socket' = socket
  BY <1>1, <1>2, <1>3, SendStep
<1>5. Input'
  BY ReadStep
<1>6. Output'
  <2>1. delivered \in Seq(Nat)
    BY DEF StreamInv, Output
  <2>2. /\ sent' \in 0 .. received' * MaxLen
        /\ (delivered' \o socket') \o Content(out') = Bytes(0, sent')
    BY <1>1, <1>2, <1>3, <1>4
  <2> QED
    BY <1>2, <1>4, <2>1, <2>2 DEF Output
<1>7. Reported'
  <2>1. "OUT" \in revents => writing' /\ Room' > 0
    BY <1>4 DEF StreamInv, Reported, Room
  <2> QED
    BY <1>2, <2>1 DEF StreamInv, Reported
<1>8. sent' > sent
  <2>1. sent \in Nat
    BY Bounds, ProductFacts DEF StreamInv, Input, Output
  <2> QED
    BY <1>1, <2>1, Bounds
<1> QED
  BY <1>5, <1>6, <1>7, <1>8 DEF StreamInv

LEMMA StepInv == StreamInv /\ [Next]_vars => StreamInv'
<1> SUFFICES ASSUME StreamInv, [Next]_vars PROVE StreamInv'
  OBVIOUS
<1>1. CASE PeerStep
  BY <1>1, PeerSendInv DEF PeerStep
<1>2. CASE PeerReads
  BY <1>2, PeerReadInv DEF PeerReads
<1>3. CASE Poll
  BY <1>3, PollInv
<1>4. CASE Unblocked /\ HandleRead
  BY <1>4, HandleReadInv
<1>5. CASE HandleWrite
  BY <1>5, HandleWriteInv
<1>6. CASE UNCHANGED vars
  BY <1>6 DEF vars, StreamInv, Input, Output, Reported, Room
<1> QED
  BY <1>1, <1>2, <1>3, <1>4, <1>5, <1>6 DEF Next, LoopStep

\* A connection keeps the invariant, for buffers, sockets and answers of any size.
THEOREM Invariant == Spec => []StreamInv
BY InitInv, StepInv, PTL DEF Spec

-----------------------------------------------------------------------------
(* What a connection does *)

LEMMA InvTypes == StreamInv => TypeOK
<1> SUFFICES ASSUME StreamInv PROVE TypeOK
  OBVIOUS
<1>1. /\ received \in 0 .. arrived /\ arrived \in 0 .. MaxIn
      /\ writing \in BOOLEAN /\ revents \subseteq {"IN", "OUT"} /\ Len(socket) <= SendBuffer
      /\ Sound(in) /\ Sound(out) /\ in.reader = in.writer
  BY DEF StreamInv, Input, Output, Reported
<1>2. sent \in 0 .. MaxIn * MaxLen
  <2>1. received \in Nat /\ received <= MaxIn
    BY <1>1, Bounds
  <2>2. received * MaxLen \in Nat /\ received * MaxLen <= MaxIn * MaxLen
    BY <2>1, Bounds, ProductFacts
  <2>3. sent \in 0 .. received * MaxLen
    BY DEF StreamInv, Output
  <2>4. AnswerBytes \in Nat
    BY Bounds
  <2> DEFINE old == received * MaxLen
  <2> USE <2>2, <2>3, <2>4
  <2> HIDE DEF old
  <2>5. old \in Nat /\ old <= AnswerBytes /\ sent \in 0 .. old
    BY DEF old, AnswerBytes
  <2>6. sent \in 0 .. AnswerBytes
    BY <2>5
  <2> QED
    BY <2>6 DEF AnswerBytes
<1>3. ReadableBytes(in) = 0
  BY <1>1, SoundFacts
<1>4. /\ IndicesOrdered(in) /\ IndicesOrdered(out)
      /\ DOMAIN in.data = 0 .. in.size - 1 /\ DOMAIN out.data = 0 .. out.size - 1
  BY <1>1, SoundFacts DEF Sound
<1> QED
  BY <1>1, <1>2, <1>3, <1>4 DEF TypeOK

\* The indices of both buffers stay as Buffer.h:19 draws them, whatever is read,
\* answered and left over.
THEOREM TypeCorrect == Spec => []TypeOK
BY Invariant, InvTypes, PTL

\* TcpConnection.cpp waits for the socket to become writable exactly while bytes wait.
THEOREM WritingExact == Spec => []WritingWhilePending
<1>1. StreamInv => WritingWhilePending
  <2> SUFFICES ASSUME StreamInv PROVE WritingWhilePending
    OBVIOUS
  <2>1. Sound(out) /\ writing \in BOOLEAN /\ (writing <=> out.reader < out.writer)
    BY DEF StreamInv, Output
  <2>2. ReadableBytes(out) > 0 <=> out.reader < out.writer
    BY <2>1, SoundFacts
  <2> QED
    BY <2>1, <2>2 DEF WritingWhilePending
<1> QED
  BY <1>1, Invariant, PTL

\* A delivery that goes on with the stream is one of ByteStream.
LEMMA BytesAre ==
    ASSUME NEW n \in Nat
    PROVE  Bytes(0, n) = [i \in 1 .. n |-> i] /\ Len(Bytes(0, n)) = n
<1>1. Len(Bytes(0, n)) = n
  BY BytesFacts
<1> QED
  BY <1>1 DEF Bytes

\* onMessage is given the bytes the peer sends, each once and in order.
THEOREM RequestsInOrder == Spec => ImplementsRequests
<1>1. Init => Requests!Init
  BY DEF Init, Requests!Init
<1>2. ASSUME StreamInv, [Next]_vars
      PROVE  [Requests!Next]_(Requests!vars)
  <2>1. CASE PeerStep
    <3>1. PICK n \in 1 .. MaxIn : PeerSend(n)
      BY <2>1 DEF PeerStep
    <3>2. arrived \in Nat /\ n \in Nat /\ n > 0
      BY <1>2, Bounds DEF StreamInv, Input
    <3>3. arrived' \in Nat /\ arrived' > arrived /\ taken' = taken
      BY <3>1, <3>2 DEF PeerSend
    <3> QED
      BY <3>3 DEF Requests!Next, Requests!Write, Requests!vars
  <2>2. CASE Unblocked /\ HandleRead
    <3>1. /\ arrived' \in 0 .. MaxIn /\ received' \in 0 .. arrived' /\ received' > received
          /\ taken' = Bytes(0, received')
      BY <1>2, <2>2, ReadStep DEF Input
    <3>2. received \in 0 .. arrived /\ arrived \in 0 .. MaxIn /\ taken = Bytes(0, received)
      BY <1>2 DEF StreamInv, Input
    <3>3. arrived' = arrived
      BY <2>2 DEF HandleRead
    <3>4. /\ received \in Nat /\ received' \in Nat
          /\ received' \in received + 1 .. arrived
      BY <3>1, <3>2, <3>3, Bounds
    <3>5. Len(taken) = received /\ Len(taken') = received' /\ taken' = [i \in 1 .. received' |-> i]
      BY <3>1, <3>2, <3>4, BytesAre
    <3>6. Requests!Deliver
      BY <3>3, <3>4, <3>5 DEF Requests!Deliver
    <3> QED
      BY <3>6 DEF Requests!Next
  <2>3. CASE PeerReads \/ Poll \/ HandleWrite \/ UNCHANGED vars
    <3>1. UNCHANGED <<arrived, taken>>
      BY <2>3 DEF PeerReads, PeerRead, Poll, HandleWrite, vars
    <3> QED
      BY <3>1 DEF Requests!vars
  <2> QED
    BY <1>2, <2>1, <2>2, <2>3 DEF Next, LoopStep
<1> QED
  BY <1>1, <1>2, Invariant, PTL DEF Spec, ImplementsRequests, Requests!Spec

\* The peer reads the bytes onMessage sends, each once and in order, through the
\* direct write, the output buffer and the socket, whatever each of them holds.
THEOREM AnswersInOrder == Spec => ImplementsAnswers
<1>1. Init => Answers!Init
  BY DEF Init, Answers!Init
<1>2. ASSUME StreamInv, [Next]_vars
      PROVE  [Answers!Next]_(Answers!vars)
  <2>1. CASE Unblocked /\ HandleRead
    <3>1. sent' > sent /\ delivered' = delivered
      BY <1>2, <2>1, HandleReadInv DEF HandleRead
    <3>2. sent' \in 0 .. received' * MaxLen /\ received' * MaxLen \in Nat
      <4>1. StreamInv'
        BY <1>2, <2>1, HandleReadInv
      <4>2. received' \in Nat
        BY <4>1, Bounds DEF StreamInv, Input
      <4> QED
        BY <4>1, <4>2, Bounds, ProductFacts DEF StreamInv, Output
    <3>3. sent' \in Nat
      BY <3>2
    <3> QED
      BY <3>1, <3>3 DEF Answers!Next, Answers!Write
  <2>2. CASE PeerReads
    <3>1. PICK n \in 1 .. SendBuffer : PeerRead(n)
      BY <2>2 DEF PeerReads
    <3>2. StreamInv' /\ sent' = sent
      BY <1>2, <3>1, PeerReadInv DEF PeerRead
    <3>3. /\ delivered' \in Seq(Nat) /\ Len(delivered') = Len(delivered) + n
      BY <1>2, <3>1, PeerReadFacts
    <3>4. Len(delivered) \in Nat /\ n \in Nat /\ n > 0
      BY <1>2, Bounds, LenProperties DEF StreamInv, Output
    <3>5. sent \in Nat
      BY <1>2, Bounds, ProductFacts DEF StreamInv, Input, Output
    <3>6. Len(delivered') <= sent /\ delivered' = Bytes(0, Len(delivered'))
      <4>1. /\ delivered' \in Seq(Nat) /\ socket' \in Seq(Nat) /\ Sound(out')
            /\ (delivered' \o socket') \o Content(out') = Bytes(0, sent')
        BY <3>2 DEF StreamInv, Output
      <4>2. /\ socket' \o Content(out') \in Seq(Nat)
            /\ delivered' \o (socket' \o Content(out')) = Bytes(0, sent)
        <5> DEFINE c == Content(out')
        <5>1. c \in Seq(Nat)
          BY <4>1, ContentFacts
        <5>2. (delivered' \o socket') \o c = Bytes(0, sent)
          BY <3>2, <4>1
        <5> HIDE DEF c
        <5>3. socket' \o c \in Seq(Nat)
          BY <4>1, <5>1, ConcatProperties
        <5>4. (delivered' \o socket') \o c = delivered' \o (socket' \o c)
          BY <4>1, <5>1, ConcatNat
        <5> QED
          BY <5>2, <5>3, <5>4 DEF c
      <4> QED
        BY <3>5, <4>1, <4>2, BytesPrefix
    <3>7. Len(delivered') \in Len(delivered) + 1 .. sent
      BY <3>3, <3>4, <3>5, <3>6
    <3>8. delivered' = [i \in 1 .. Len(delivered') |-> i]
      BY <3>3, <3>6, LenProperties, BytesAre
    <3>9. Answers!Deliver
      BY <3>2, <3>7, <3>8 DEF Answers!Deliver
    <3> QED
      BY <3>9 DEF Answers!Next
  <2>3. CASE PeerStep \/ Poll \/ HandleWrite \/ UNCHANGED vars
    <3>1. UNCHANGED <<sent, delivered>>
      BY <2>3 DEF PeerStep, PeerSend, Poll, HandleWrite, vars
    <3> QED
      BY <3>1 DEF Answers!vars
  <2> QED
    BY <1>2, <2>1, <2>2, <2>3 DEF Next, LoopStep
<1> QED
  BY <1>1, <1>2, Invariant, PTL DEF Spec, ImplementsAnswers, Answers!Spec

\* The loop has nothing to handle and poll nothing to report, and the peer has read
\* all that the socket holds.
AtRest == revents = {} /\ Ready = {} /\ socket = <<>>

\* When everybody waits, nothing is held back: onMessage has been given every byte of
\* the peer, and the peer has read every byte of the answers, none of them left in the
\* output buffer without anybody waiting for the socket.
THEOREM NothingHeldBack ==
    Spec => [](AtRest => taken = Bytes(0, arrived) /\ delivered = Bytes(0, sent))
<1>1. StreamInv => (AtRest => taken = Bytes(0, arrived) /\ delivered = Bytes(0, sent))
  <2> SUFFICES ASSUME StreamInv, AtRest
               PROVE  taken = Bytes(0, arrived) /\ delivered = Bytes(0, sent)
    OBVIOUS
  <2>1. Ready = {} /\ socket = <<>>
    BY DEF AtRest
  <2>2. received = arrived
    <3>1. ~ (received < arrived)
      BY <2>1 DEF Ready
    <3>2. arrived \in 0 .. MaxIn /\ received \in 0 .. arrived /\ MaxIn \in Nat
      BY Bounds DEF StreamInv, Input
    <3> QED
      BY <3>1, <3>2
  <2>3. Room > 0
    <3>1. Len(socket) = 0 /\ SendBuffer \in Nat /\ SendBuffer > 0
      BY <2>1, Bounds
    <3> QED
      BY <3>1 DEF Room
  <2>4. ~ writing
    BY <2>1, <2>3 DEF Ready
  <2>5. Content(out) = <<>>
    <3>1. Sound(out) /\ ~ (out.reader < out.writer)
      BY <2>4 DEF StreamInv, Output
    <3>2. out.reader = out.writer
      BY <3>1, SoundFacts
    <3> QED
      BY <3>1, <3>2, EmptyContent
  <2>6. delivered = Bytes(0, sent)
    <3>1. /\ delivered \in Seq(Nat)
          /\ (delivered \o <<>>) \o <<>> = Bytes(0, sent)
      BY <2>1, <2>5 DEF StreamInv, Output
    <3>2. delivered \o <<>> = delivered
      BY <3>1, ConcatEmptySeq
    <3> QED
      BY <3>1, <3>2
  <2> QED
    BY <2>2, <2>6 DEF StreamInv, Input
<1> QED
  BY <1>1, Invariant, PTL
=============================================================================
