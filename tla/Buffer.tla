------------------------------- MODULE Buffer -------------------------------
(***************************************************************************)
(* Buffer (src/src/tcp/Buffer.h and Buffer.cpp) as operators on records:   *)
(* data is m_buffer, a function on 0 .. size - 1, and reader and writer    *)
(* are the indices.  Sums and differences are those of size_t.             *)
(***************************************************************************)
EXTENDS Naturals, Sequences

CONSTANTS
    Zero,           \* what resize() fills in
    CheapPrepend,   \* kCheapPrepend
    InitialSize,    \* kInitialSize
    ExtraSize,      \* the size of extrabuf in readFd
    SizeMod         \* size_t counts modulo this

ASSUME BufferAssumption ==
    /\ CheapPrepend \in Nat /\ InitialSize \in Nat /\ ExtraSize \in Nat /\ SizeMod \in Nat
    /\ CheapPrepend + InitialSize < SizeMod

Plus(m, n) == IF m + n < SizeMod THEN m + n ELSE (m + n) - SizeMod
Minus(m, n) == IF n <= m THEN m - n ELSE (m + SizeMod) - n

NewBuffer ==
    [data |-> [i \in 0 .. CheapPrepend + InitialSize - 1 |-> Zero],
     size |-> CheapPrepend + InitialSize, reader |-> CheapPrepend, writer |-> CheapPrepend]

ReadableBytes(b) == Minus(b.writer, b.reader)
WritableBytes(b) == Minus(b.size, b.writer)

\* What peek() and readableBytes() show.
Content(b) == [i \in 1 .. ReadableBytes(b) |-> b.data[b.reader + i - 1]]

Retrieve(b, len) ==
    IF len < ReadableBytes(b)
    THEN [b EXCEPT !.reader = Plus(@, len)]
    ELSE [b EXCEPT !.reader = CheapPrepend, !.writer = CheapPrepend]

\* The two ways of makeSpace: a longer vector, or the content moved to its front.
Resized(b, n) ==
    [b EXCEPT !.size = n,
              !.data = [i \in 0 .. n - 1 |-> IF i < b.size THEN b.data[i] ELSE Zero]]
Moved(b) ==
    LET end == Plus(CheapPrepend, ReadableBytes(b))
    IN  [b EXCEPT !.reader = CheapPrepend, !.writer = end,
                  !.data = [i \in DOMAIN b.data |->
                              IF CheapPrepend <= i /\ i < end
                              THEN b.data[i - CheapPrepend + b.reader] ELSE b.data[i]]]

\* A fault: the bytes in front of the content are all taken for free.
MakeSpaceTight(b, len) ==
    IF Plus(WritableBytes(b), b.reader) < len THEN Resized(b, Plus(b.writer, len)) ELSE Moved(b)

MakeSpace(b, len) ==
    IF Plus(WritableBytes(b), b.reader) < Plus(len, CheapPrepend)
    THEN Resized(b, Plus(b.writer, len))
    ELSE Moved(b)

EnsureWritable(b, len) == IF WritableBytes(b) < len THEN MakeSpace(b, len) ELSE b

\* Bytes copied to beginWrite(), and hasWritten().
Put(b, s) ==
    [b EXCEPT !.data = [i \in DOMAIN b.data |->
                          IF b.writer <= i /\ i < b.writer + Len(s)
                          THEN s[i - b.writer + 1] ELSE b.data[i]],
              !.writer = Plus(@, Len(s))]

AppendBytes(b, s) == Put(EnsureWritable(b, Len(s)), s)

\* The most that readv is asked for: what is writable, and extrabuf if that is less.
ReadMax(b) ==
    LET writable == WritableBytes(b)
    IN  IF writable < ExtraSize THEN writable + ExtraSize ELSE writable

\* A fault: what fits into the buffer is appended a second time.
ReadFdTwice(b, s) ==
    IF Len(s) < WritableBytes(b)
    THEN Put(b, s)
    ELSE AppendBytes(Put(b, SubSeq(s, 1, WritableBytes(b))), s)

\* readFd of the bytes s; those in extrabuf are appended.
ReadFd(b, s) ==
    LET writable == WritableBytes(b)
    IN  IF Len(s) < writable
        THEN Put(b, s)
        ELSE AppendBytes(Put(b, SubSeq(s, 1, writable)), SubSeq(s, writable + 1, Len(s)))

\* Buffer.h:19 draws 0 <= readerIndex <= writeIndex <= size.
IndicesOrdered(b) ==
    /\ b.reader \in Nat /\ b.writer \in Nat /\ b.size \in Nat
    /\ CheapPrepend <= b.reader /\ b.reader <= b.writer /\ b.writer <= b.size
    /\ b.size < SizeMod
=============================================================================
