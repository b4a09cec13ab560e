----------------------------- MODULE HelpProofs -----------------------------
(***************************************************************************)
(* The USB output and HELP, proved for texts of any length, a queue, a     *)
(* FIFO and packets of any size, and any characters.                       *)
(*                                                                         *)
(* The order (OutInv): what is in flight, in the FIFO and in the queue is  *)
(* what each writer has written, in its order, up to the rest that the     *)
(* main loop still holds.  A writer that finds the queue empty may write   *)
(* past it; that it stays so between the look and the write is what        *)
(* RoomKept says.                                                          *)
(*                                                                         *)
(* The queue does not wait for nothing (AwakeInv): between the steps of    *)
(* usb_write a transfer is under way, as long as one at most ends there.   *)
(*                                                                         *)
(* HELP (HelpInv): help_poll's indices say how much of the text asked for  *)
(* has been shown.                                                         *)
(***************************************************************************)
EXTENDS Help, SequenceTheorems, FiniteSetTheorems, FunctionTheorems, TLAPS

\* How many of the first n bytes are from w: ...
LEMMA CountNat ==
    ASSUME NEW w, NEW s, NEW n \in Nat
    PROVE  /\ IsFiniteSet({i \in 1 .. n : s[i].from = w})
           /\ Count(w, s, n) \in 0 .. n
<1> DEFINE A == {i \in 1 .. n : s[i].from = w}
<1>1. A \in SUBSET (1 .. n)
  OBVIOUS
<1>2. IsFiniteSet(1 .. n) /\ Cardinality(1 .. n) = n
  BY FS_Interval
<1>3. IsFiniteSet(A) /\ Cardinality(A) <= n
  BY <1>1, <1>2, FS_Subset
<1>4. Cardinality(A) \in Nat
  BY <1>3, FS_CardinalityType
<1> QED
  BY <1>3, <1>4 DEF Count

\* ... the same of bytes that are the same, ...
LEMMA CountSame ==
    ASSUME NEW w, NEW s, NEW t, NEW n \in Nat, \A i \in 1 .. n : s[i] = t[i]
    PROVE  Count(w, s, n) = Count(w, t, n)
<1>1. {i \in 1 .. n : s[i].from = w} = {i \in 1 .. n : t[i].from = w}
  OBVIOUS
<1> QED
  BY <1>1 DEF Count

\* ... none if none is, ...
LEMMA CountNone ==
    ASSUME NEW w, NEW s, NEW n \in Nat, \A i \in 1 .. n : s[i].from # w
    PROVE  Count(w, s, n) = 0
<1>1. {i \in 1 .. n : s[i].from = w} = {}
  OBVIOUS
<1> QED
  BY <1>1, FS_EmptySet DEF Count

\* ... all if all are, ...
LEMMA CountAll ==
    ASSUME NEW w, NEW s, NEW n \in Nat, \A i \in 1 .. n : s[i].from = w
    PROVE  Count(w, s, n) = n
<1>1. {i \in 1 .. n : s[i].from = w} = 1 .. n
  OBVIOUS
<1>2. Cardinality(1 .. n) = n
  BY FS_Interval
<1> QED
  BY <1>1, <1>2 DEF Count

\* ... and over a joint, what each side counts.
LEMMA CountOver ==
    ASSUME NEW w, NEW s \in Seq(Byte), NEW t \in Seq(Byte), NEW n \in 0 .. Len(t)
    PROVE  Count(w, s \o t, Len(s) + n) = Count(w, s, Len(s)) + Count(w, t, n)
<1> DEFINE l == Len(s)
           A == {i \in 1 .. l : s[i].from = w}
           B == {i \in 1 .. n : t[i].from = w}
           D == {i + l : i \in B}
           C == {i \in 1 .. l + n : (s \o t)[i].from = w}
<1>1. l \in Nat /\ n \in Nat
  BY LenProperties
<1>2. \A i \in 1 .. l + n : (s \o t)[i] = IF i <= l THEN s[i] ELSE t[i - l]
  BY ConcatProperties, LenProperties
<1>3. C = A \cup D
  <2>1. ASSUME NEW i \in C PROVE i \in A \cup D
    <3>1. CASE i <= l
      BY <1>1, <1>2, <3>1
    <3>2. CASE i > l
      <4>1. i - l \in B
        BY <1>1, <1>2, <3>2
      <4>2. i = (i - l) + l
        BY <1>1
      <4> QED
        BY <4>1, <4>2
    <3> QED
      BY <1>1, <3>1, <3>2
  <2>2. ASSUME NEW i \in A PROVE i \in C
    BY <1>1, <1>2
  <2>3. ASSUME NEW i \in D PROVE i \in C
    <3>1. PICK k \in B : i = k + l
      OBVIOUS
    <3>2. i \in 1 .. l + n /\ ~(i <= l) /\ i - l = k
      BY <1>1, <3>1
    <3> QED
      BY <1>2, <3>1, <3>2
  <2> HIDE DEF A, C, D
  <2> QED
    BY <2>1, <2>2, <2>3
<1>4. A \cap D = {}
  BY <1>1
<1>5. IsFiniteSet(A) /\ IsFiniteSet(B)
  BY <1>1, CountNat
<1>6. IsFiniteSet(D) /\ Cardinality(D) = Cardinality(B)
  <2> DEFINE f == [i \in B |-> i + l]
  <2>1. f \in Bijection(B, D)
    <3>1. f \in [B -> D]
      OBVIOUS
    <3>2. \A i, k \in B : f[i] = f[k] => i = k
      BY <1>1
    <3>3. \A d \in D : \E i \in B : f[i] = d
      OBVIOUS
    <3> HIDE DEF f, B, D
    <3> QED
      BY <3>1, <3>2, <3>3, Fun_IsBij
  <2> QED
    BY <2>1, <1>5, FS_Bijection, Fun_ExistsBij
<1>7. Cardinality(A \cap D) = 0
  BY <1>4, FS_EmptySet
<1>8. Cardinality(A \cup D) = Cardinality(A) + Cardinality(D) - Cardinality(A \cap D)
  <2> HIDE DEF A, D
  <2> QED
    BY <1>5, <1>6, FS_Union
<1>9. Cardinality(A) \in Nat /\ Cardinality(B) \in Nat
  <2>1. Count(w, s, l) \in 0 .. l /\ Count(w, t, n) \in 0 .. n
    <3> HIDE DEF l
    <3> QED
      BY <1>1, CountNat, Zenon
  <2> QED
    BY <1>1, <2>1 DEF Count
<1>10. Cardinality(C) = Cardinality(A) + Cardinality(B)
  <2> HIDE DEF A, B, C, D
  <2> QED
    BY <1>3, <1>6, <1>7, <1>8, <1>9
<1> QED
  BY <1>10 DEF Count

\* A byte from w is one of those counted.
LEMMA CountIn ==
    ASSUME NEW w, NEW s, NEW n \in Nat, NEW j \in 1 .. n, s[j].from = w
    PROVE  Count(w, s, j) \in 1 .. Count(w, s, n)
<1> DEFINE A(m) == {i \in 1 .. m : s[i].from = w}
<1>0. j \in Nat
  OBVIOUS
<1>1. IsFiniteSet(A(n))
  BY CountNat, Zenon, ZenonT(40)
<1>2. A(j) \in SUBSET A(n) /\ j \in A(j)
  OBVIOUS
<1>3. IsFiniteSet(A(j)) /\ Cardinality(A(j)) <= Cardinality(A(n))
  BY <1>1, <1>2, FS_Subset
<1>4. Cardinality(A(j)) # 0
  <2> HIDE DEF A
  <2> QED
    BY <1>2, <1>3, FS_EmptySet
<1>5. Count(w, s, j) \in 0 .. j /\ Count(w, s, n) \in 0 .. n
  BY <1>0, CountNat, Zenon
<1> QED
  BY <1>3, <1>4, <1>5 DEF Count

\* Sequences in their order, joined, are in the joint order.
LEMMA Compose ==
    ASSUME NEW w, NEW s \in Seq(Byte), NEW t \in Seq(Byte), NEW d \in Seq(Byte),
           NEW e \in Seq(Byte),
           Ordered(w, s, d), Ordered(w, t, e)
    PROVE  Ordered(w, s \o t, d \o e)
<1>1. /\ Len(s) \in Nat /\ Len(t) \in Nat /\ Len(d) \in Nat /\ Len(e) \in Nat
      /\ DOMAIN s = 1 .. Len(s) /\ DOMAIN t = 1 .. Len(t)
  BY LenProperties
<1>2. /\ s \o t \in Seq(Byte) /\ d \o e \in Seq(Byte)
      /\ Len(s \o t) = Len(s) + Len(t) /\ Len(d \o e) = Len(d) + Len(e)
  BY ConcatProperties
<1>3. Len(d) = Count(w, s, Len(s)) /\ Len(e) = Count(w, t, Len(t))
  BY DEF Ordered
<1>4. Len(d \o e) = Count(w, s \o t, Len(s \o t))
  <2>1. Count(w, s \o t, Len(s) + Len(t)) = Count(w, s, Len(s)) + Count(w, t, Len(t))
    BY <1>1, CountOver
  <2> QED
    BY <1>2, <1>3, <2>1
<1>5. ASSUME NEW j \in 1 .. Len(s) + Len(t), (s \o t)[j].from = w
      PROVE  (d \o e)[Count(w, s \o t, j)] = (s \o t)[j]
  <2>1. CASE j <= Len(s)
    <3>1. (s \o t)[j] = s[j] /\ j \in 1 .. Len(s)
      BY <1>1, <2>1, ConcatProperties
    <3>2. Count(w, s \o t, j) = Count(w, s, j)
      <4>1. \A i \in 1 .. j : (s \o t)[i] = s[i]
        BY <1>1, <2>1, ConcatProperties
      <4>2. j \in Nat
        BY <1>1
      <4> QED
        BY <4>1, <4>2, CountSame, Zenon
    <3>3. Count(w, s, j) \in 1 .. Len(d) /\ d[Count(w, s, j)] = s[j]
      BY <1>1, <1>3, <1>5, <3>1, CountIn DEF Ordered
    <3>4. (d \o e)[Count(w, s, j)] = d[Count(w, s, j)]
      <4>1. PICK o \in 1 .. Len(d) : o = Count(w, s, j)
        BY <3>3
      <4>2. (d \o e)[o] = d[o]
        BY <1>1, ConcatProperties
      <4> QED
        BY <4>1, <4>2
    <3> QED
      BY <3>1, <3>2, <3>3, <3>4
  <2>2. CASE j > Len(s)
    <3>1. PICK k \in 1 .. Len(t) : j = Len(s) + k
      <4>1. j - Len(s) \in 1 .. Len(t) /\ j = Len(s) + (j - Len(s))
        BY <1>1, <2>2
      <4> QED
        BY <4>1
    <3>2. (s \o t)[j] = t[k]
      BY <1>1, <3>1, ConcatProperties
    <3>3. Count(w, s \o t, j) = Len(d) + Count(w, t, k)
      BY <1>3, <3>1, CountOver
    <3>4. Count(w, t, k) \in 1 .. Len(e) /\ e[Count(w, t, k)] = t[k]
      BY <1>1, <1>3, <1>5, <3>2, CountIn DEF Ordered
    <3>5. (d \o e)[Len(d) + Count(w, t, k)] = e[Count(w, t, k)]
      <4>1. PICK o \in 1 .. Len(e) : o = Count(w, t, k)
        BY <3>4
      <4>2. (d \o e)[Len(d) + o] = e[o]
        BY <1>1, ConcatProperties
      <4> QED
        BY <4>1, <4>2
    <3> QED
      BY <3>2, <3>3, <3>4, <3>5
  <2>3. j <= Len(s) \/ j > Len(s)
    BY <1>1
  <2> QED
    BY <2>1, <2>2, <2>3, Zenon
<1> QED
  BY <1>1, <1>2, <1>4, <1>5, LenProperties DEF Ordered

\* A sequence cut in two.
LEMMA Cut ==
    ASSUME NEW d \in Seq(Byte), NEW c \in 0 .. Len(d)
    PROVE  /\ Upto(d, c) \in Seq(Byte) /\ From(d, c) \in Seq(Byte)
           /\ Len(Upto(d, c)) = c /\ Len(From(d, c)) = Len(d) - c
           /\ \A i \in 1 .. c : Upto(d, c)[i] = d[i]
           /\ \A i \in 1 .. Len(d) - c : From(d, c)[i] = d[c + i]
           /\ Upto(d, c) \o From(d, c) = d
<1>1. Len(d) \in Nat /\ \A i \in 1 .. Len(d) : d[i] \in Byte
  BY LenProperties, ElementOfSeq
<1>2. /\ Upto(d, c) \in Seq(Byte) /\ Len(Upto(d, c)) = c
      /\ \A i \in 1 .. c : Upto(d, c)[i] = d[i]
  BY <1>1, SubSeqProperties DEF Upto
<1>3. /\ From(d, c) \in Seq(Byte) /\ Len(From(d, c)) = Len(d) - c
      /\ \A i \in 1 .. Len(d) - c : From(d, c)[i] = d[c + i]
  BY <1>1, SubSeqProperties DEF From
<1>4. Upto(d, c) \o From(d, c) = d
  <2>1. PICK a \in Seq(Byte) : a = Upto(d, c)
    BY <1>2
  <2>2. PICK b \in Seq(Byte) : b = From(d, c)
    BY <1>3
  <2>3. Len(a) = c /\ Len(b) = Len(d) - c
    BY <1>2, <1>3, <2>1, <2>2
  <2>4. a \o b \in Seq(Byte) /\ Len(a \o b) = Len(a) + Len(b)
    BY ConcatProperties
  <2>5. Len(a \o b) = Len(d)
    BY <1>1, <2>3, <2>4
  <2>6. ASSUME NEW i \in 1 .. Len(d) PROVE (a \o b)[i] = d[i]
    <3>1. (a \o b)[i] = IF i <= Len(a) THEN a[i] ELSE b[i - Len(a)]
      BY <1>1, <2>3, ConcatProperties
    <3>2. CASE i <= c
      BY <1>2, <2>1, <2>3, <3>1, <3>2
    <3>3. CASE i > c
      <4>1. i - c \in 1 .. Len(d) - c /\ c + (i - c) = i
        BY <1>1, <3>3
      <4> QED
        BY <1>1, <1>3, <2>2, <2>3, <3>1, <3>3, <4>1
    <3>4. i <= c \/ i > c
      BY <1>1
    <3> QED
      BY <3>2, <3>3, <3>4, Zenon
  <2>7. a \o b = d
    BY <2>4, <2>5, <2>6, SeqEqual
  <2> QED
    BY <2>1, <2>2, <2>7
<1> QED
  BY <1>2, <1>3, <1>4

\* What is due in two sequences is cut where the first of them ends.
LEMMA Split ==
    ASSUME NEW w, NEW s \in Seq(Byte), NEW t \in Seq(Byte), NEW d \in Seq(Byte),
           Ordered(w, s \o t, d)
    PROVE  /\ Count(w, s, Len(s)) \in 0 .. Len(d)
           /\ Ordered(w, s, Upto(d, Count(w, s, Len(s))))
           /\ Ordered(w, t, From(d, Count(w, s, Len(s))))
<1>1. /\ Len(s) \in Nat /\ Len(t) \in Nat /\ Len(d) \in Nat
      /\ DOMAIN s = 1 .. Len(s) /\ DOMAIN t = 1 .. Len(t)
  BY LenProperties
<1>2. /\ s \o t \in Seq(Byte) /\ Len(s \o t) = Len(s) + Len(t)
      /\ DOMAIN (s \o t) = 1 .. Len(s) + Len(t)
  BY ConcatProperties, LenProperties
<1>3. PICK c \in Nat : c = Count(w, s, Len(s))
  <2>1. Count(w, s, Len(s)) \in 0 .. Len(s)
    BY <1>1, CountNat, Zenon
  <2> QED
    BY <1>1, <2>1
<1>4. Len(d) = c + Count(w, t, Len(t)) /\ Count(w, t, Len(t)) \in Nat
  <2>1. Count(w, s \o t, Len(s) + Len(t)) = c + Count(w, t, Len(t))
    BY <1>1, <1>3, CountOver
  <2>2. Len(d) = Count(w, s \o t, Len(s \o t))
    BY DEF Ordered
  <2>3. Count(w, t, Len(t)) \in 0 .. Len(t)
    BY <1>1, CountNat, Zenon
  <2> QED
    BY <1>1, <1>2, <2>1, <2>2, <2>3
<1>5. c \in 0 .. Len(d)
  BY <1>1, <1>4
<1>6. Ordered(w, s, Upto(d, c))
  <2>1. Len(Upto(d, c)) = c
    BY <1>5, Cut
  <2>2. ASSUME NEW j \in 1 .. Len(s), s[j].from = w
        PROVE  Upto(d, c)[Count(w, s, j)] = s[j]
    <3>1. PICK o \in 1 .. c : o = Count(w, s, j)
      BY <1>1, <1>3, <2>2, CountIn
    <3>2. (s \o t)[j] = s[j] /\ j \in 1 .. Len(s) + Len(t)
      BY <1>1, ConcatProperties
    <3>3. Count(w, s \o t, j) = Count(w, s, j)
      <4>1. \A i \in 1 .. j : (s \o t)[i] = s[i]
        BY <1>1, ConcatProperties
      <4>2. j \in Nat
        BY <1>1
      <4> QED
        BY <4>1, <4>2, CountSame, Zenon
    <3>4. d[o] = s[j]
      BY <1>2, <2>2, <3>1, <3>2, <3>3 DEF Ordered
    <3>5. Upto(d, c)[o] = d[o]
      BY <1>5, Cut
    <3> QED
      BY <3>1, <3>4, <3>5
  <2> QED
    BY <1>1, <1>3, <2>1, <2>2 DEF Ordered
<1>7. Ordered(w, t, From(d, c))
  <2>1. Len(From(d, c)) = Count(w, t, Len(t))
    <3>1. Len(From(d, c)) = Len(d) - c
      BY <1>5, Cut
    <3> QED
      BY <1>1, <1>4, <3>1
  <2>2. ASSUME NEW j \in 1 .. Len(t), t[j].from = w
        PROVE  From(d, c)[Count(w, t, j)] = t[j]
    <3>1. PICK o \in 1 .. Count(w, t, Len(t)) : o = Count(w, t, j)
      BY <1>1, <2>2, CountIn
    <3>2. (s \o t)[Len(s) + j] = t[j] /\ Len(s) + j \in 1 .. Len(s) + Len(t)
      BY <1>1, ConcatProperties
    <3>3. Count(w, s \o t, Len(s) + j) = c + o
      BY <1>1, <1>3, <3>1, CountOver
    <3>4. d[c + o] = t[j]
      BY <1>2, <2>2, <3>2, <3>3 DEF Ordered
    <3>5. From(d, c)[o] = d[c + o]
      <4>1. o \in 1 .. Len(d) - c
        BY <1>1, <1>4
      <4> QED
        BY <1>5, <4>1, Cut
    <3> QED
      BY <3>1, <3>4, <3>5
  <2> QED
    BY <1>1, <2>1, <2>2 DEF Ordered
<1> QED
  BY <1>3, <1>5, <1>6, <1>7

\* The CDC endpoint of the USB port.
Endpoint == [fifo : Seq(Byte), flight : Seq(Byte), busy : BOOLEAN]

\* The endpoint's own order: a packet in flight, or bytes in the FIFO, only while a
\* transfer is under way.
EndpointOK(e) ==
    /\ e \in Endpoint
    /\ Len(e.fifo) <= FifoSize /\ Len(e.flight) <= Packet
    /\ e.flight # <<>> => e.busy
    /\ e.fifo # <<>> => e.busy

\* The smaller of two numbers.
LEMMA AtMostFacts ==
    ASSUME NEW m \in Nat, NEW n \in Nat
    PROVE  /\ AtMost(m, n) \in Nat /\ AtMost(m, n) \in 0 .. m /\ AtMost(m, n) \in 0 .. n
           /\ AtMost(m, n) = m \/ AtMost(m, n) = n
BY DEF AtMost

LEMMA Nothing == \A S : <<>> \in Seq(S) /\ Len(<<>>) = 0
BY EmptySeq, Zenon

LEMMA Assoc ==
    ASSUME NEW a \in Seq(Byte), NEW b \in Seq(Byte), NEW c \in Seq(Byte)
    PROVE  (a \o b) \o c = a \o (b \o c)
BY ConcatAssociative

\* An endpoint that a writer may find: before a flush the FIFO may wait.
Usable(e) ==
    /\ e \in Endpoint
    /\ Len(e.fifo) <= FifoSize /\ Len(e.flight) <= Packet
    /\ e.flight # <<>> => e.busy

\* Room in the endpoint.
Room(e) == FifoSize - Len(e.fifo)

\* r is what e becomes when k of the bytes s find room.
Flushed(e, s, r, k) ==
    /\ EndpointOK(r)
    /\ k \in 0 .. Len(s) /\ k <= Room(e)
    /\ r.flight \o r.fifo = (e.flight \o e.fifo) \o Upto(s, k)
    /\ e.busy => /\ r.busy /\ r.flight = e.flight
                 /\ Len(r.fifo) = Len(e.fifo) + k
    /\ Len(e.fifo) + k > 0 => r.busy
    /\ ~e.busy =>
         /\ Len(r.flight) = AtMost(Packet, Len(e.fifo) + k)
         /\ Len(r.fifo) = Len(e.fifo) + k - Len(r.flight)

\* tud_cdc_write and tud_cdc_write_flush.
LEMMA Flush ==
    ASSUME NEW e, Usable(e), NEW s \in Seq(Byte)
    PROVE  Flushed(e, s, WriteFlush(e, s), AtMost(Len(s), Room(e)))
<1>k. PICK k : k = AtMost(Len(s), Room(e))
  OBVIOUS
<1>r. PICK r : r = WriteFlush(e, s)
  OBVIOUS
<1> SUFFICES Flushed(e, s, r, k)
  BY <1>k, <1>r
<1>0. FifoSize \in Nat /\ Packet \in Nat
  BY UsbOutputAssumption
<1>1. /\ e.fifo \in Seq(Byte) /\ e.flight \in Seq(Byte) /\ e.busy \in BOOLEAN
      /\ Len(e.fifo) \in Nat /\ Len(e.flight) \in Nat /\ Len(s) \in Nat
      /\ e \in Endpoint /\ Len(e.fifo) <= FifoSize /\ Len(e.flight) <= Packet
      /\ e.flight # <<>> => e.busy
  <2>1. /\ e \in Endpoint /\ Len(e.fifo) <= FifoSize /\ Len(e.flight) <= Packet
        /\ e.flight # <<>> => e.busy
    BY Zenon DEF Usable
  <2>2. e.fifo \in Seq(Byte) /\ e.flight \in Seq(Byte) /\ e.busy \in BOOLEAN
    BY <2>1 DEF Endpoint
  <2> QED
    BY <2>1, <2>2, LenProperties
<1>2. k \in 0 .. Len(s) /\ k <= Room(e) /\ k <= FifoSize - Len(e.fifo)
  <2>1. PICK x \in Nat : x = Room(e) /\ x = FifoSize - Len(e.fifo)
    <3>1. FifoSize - Len(e.fifo) \in Nat
      BY <1>0, <1>1
    <3> QED
      BY <3>1 DEF Room
  <2>2. PICK l \in Nat : l = Len(s)
    BY <1>1
  <2>3. k \in 0 .. l /\ k \in 0 .. x
    BY <1>k, <2>1, <2>2, AtMostFacts
  <2> QED
    BY <1>k, <2>1, <2>2, <2>3
<1>3. PICK u \in Seq(Byte) : u = Upto(s, k) /\ Len(u) = k
  <2>1. Upto(s, k) \in Seq(Byte) /\ Len(Upto(s, k)) = k
    BY <1>2, Cut
  <2> QED
    BY <2>1
<1>4a. PICK f \in Seq(Byte) : f = e.fifo \o u
  <2>1. e.fifo \o u \in Seq(Byte)
    BY <1>1, ConcatProperties
  <2> QED
    BY <2>1
<1>4. f = e.fifo \o u /\ Len(f) = Len(e.fifo) + k
  <2>1. Len(e.fifo \o u) = Len(e.fifo) + Len(u)
    BY <1>1, ConcatProperties
  <2> QED
    BY <1>1, <1>2, <1>3, <1>4a, <2>1
<1>5. Len(f) <= FifoSize /\ Len(f) \in Nat
  BY <1>0, <1>1, <1>2, <1>4
<1>6. PICK n \in 0 .. Len(f) : n = AtMost(Packet, Len(f)) /\ n <= Packet
  <2>1. PICK l \in Nat : l = Len(f)
    BY <1>5
  <2>2. AtMost(Packet, l) \in 0 .. l /\ AtMost(Packet, l) \in 0 .. Packet
    BY <1>0, AtMostFacts
  <2> QED
    BY <1>0, <2>1, <2>2
<1>7. r = IF e.busy \/ f = <<>> THEN [e EXCEPT !.fifo = f]
          ELSE [fifo |-> From(f, n), flight |-> Upto(f, n), busy |-> TRUE]
  <2>1. k = AtMost(Len(s), tud_cdc_write_available(e))
    BY <1>k DEF Room, tud_cdc_write_available
  <2>2. e.fifo \o Upto(s, AtMost(Len(s), tud_cdc_write_available(e))) = f
    BY <1>3, <1>4, <2>1, Zenon
  <2>3. r = WriteFlush(e, s)
    BY <1>r
  <2> QED
    BY <1>6, <2>2, <2>3 DEF WriteFlush
<1>8. (e.flight \o e.fifo) \o u = e.flight \o f
  <2>1. (e.flight \o e.fifo) \o u = e.flight \o (e.fifo \o u)
    BY <1>1, Assoc, Zenon, ZenonT(40)
  <2> QED
    BY <1>4, <2>1, Zenon
<1>9. CASE e.busy
  <2>1. r = [e EXCEPT !.fifo = f]
    BY <1>7, <1>9
  <2>2. r \in Endpoint /\ r.fifo = f /\ r.flight = e.flight /\ r.busy
    BY <1>1, <1>9, <2>1 DEF Endpoint
  <2>3. EndpointOK(r)
    BY <1>1, <1>5, <2>2 DEF EndpointOK
  <2>4. Len(r.fifo) = Len(e.fifo) + k /\ r.flight \o r.fifo = e.flight \o f
    BY <1>4, <2>2
  <2> QED
    BY <1>2, <1>3, <1>8, <1>9, <2>2, <2>3, <2>4, Zenon DEF Flushed
<1>10. CASE ~e.busy /\ f = <<>>
  <2>1. r = [e EXCEPT !.fifo = f]
    BY <1>7, <1>10
  <2>2. r \in Endpoint /\ r.fifo = f /\ r.flight = e.flight
    BY <1>1, <2>1 DEF Endpoint
  <2>3. Len(f) = 0 /\ n = 0 /\ e.flight = <<>> /\ Len(e.flight) = 0
    BY <1>1, <1>10, <1>6, Nothing
  <2>4. EndpointOK(r)
    BY <1>1, <1>5, <1>10, <2>2, <2>3 DEF EndpointOK
  <2>5. Len(e.fifo) + k = Len(f) /\ ~(Len(e.fifo) + k > 0)
    BY <1>4, <2>3
  <2>6. Len(r.flight) = AtMost(Packet, Len(e.fifo) + k)
    <3>1. Len(r.flight) = n
      BY <2>2, <2>3
    <3>2. AtMost(Packet, Len(e.fifo) + k) = AtMost(Packet, Len(f))
      BY <2>5, Zenon
    <3> QED
      BY <1>6, <3>1, <3>2, Zenon
  <2>7. Len(r.fifo) = Len(e.fifo) + k - Len(r.flight)
    BY <1>1, <1>2, <2>2, <2>3, <2>5
  <2>8. r.flight \o r.fifo = e.flight \o f
    BY <2>2
  <2> QED
    BY <1>2, <1>3, <1>8, <1>10, <2>4, <2>5, <2>6, <2>7, <2>8, Zenon DEF Flushed
<1>11. CASE ~e.busy /\ f # <<>>
  <2>1. r = [fifo |-> From(f, n), flight |-> Upto(f, n), busy |-> TRUE]
    BY <1>7, <1>11
  <2>2. /\ From(f, n) \in Seq(Byte) /\ Upto(f, n) \in Seq(Byte)
        /\ Len(From(f, n)) = Len(f) - n /\ Len(Upto(f, n)) = n
        /\ Upto(f, n) \o From(f, n) = f
    BY Cut
  <2>3. r \in Endpoint /\ r.fifo = From(f, n) /\ r.flight = Upto(f, n) /\ r.busy
    BY <2>1, <2>2 DEF Endpoint
  <2>4. EndpointOK(r)
    BY <1>0, <1>5, <1>6, <2>2, <2>3 DEF EndpointOK
  <2>5. e.flight \o f = f
    BY <1>1, <1>11, ConcatEmptySeq
  <2>6. r.flight \o r.fifo = e.flight \o f
    BY <1>1, <1>2, <2>2, <2>3, <2>5
  <2>7. Len(r.flight) = AtMost(Packet, Len(e.fifo) + k)
    <3>1. Len(r.flight) = n
      BY <2>2, <2>3
    <3>2. AtMost(Packet, Len(e.fifo) + k) = AtMost(Packet, Len(f))
      BY <1>4, Zenon
    <3> QED
      BY <1>6, <3>1, <3>2, Zenon
  <2>8. Len(r.fifo) = Len(e.fifo) + k - Len(r.flight)
    BY <1>1, <1>2, <1>4, <2>2, <2>3
  <2> QED
    BY <1>2, <1>3, <1>8, <1>11, <2>3, <2>4, <2>6, <2>7, <2>8, Zenon DEF Flushed
<1> QED
  BY <1>9, <1>10, <1>11, Zenon

\* The smaller is the smaller.
LEMMA AtMostLess ==
    ASSUME NEW m \in Nat, NEW n \in Nat, m <= n
    PROVE  AtMost(m, n) = m
BY DEF AtMost

\* The bytes of one writer, ...
Own(w, s) == \A i \in 1 .. Len(s) : s[i].from = w

\* ... are in their own order, ...
LEMMA OwnOrdered ==
    ASSUME NEW w, NEW s \in Seq(Byte), Own(w, s)
    PROVE  Ordered(w, s, s)
<1>1. Len(s) \in Nat /\ DOMAIN s = 1 .. Len(s)
  BY LenProperties
<1>2. Count(w, s, Len(s)) = Len(s)
  <2>1. PICK n \in Nat : n = Len(s)
    BY <1>1
  <2>2. \A i \in 1 .. n : s[i].from = w
    BY <2>1 DEF Own
  <2> QED
    BY <2>1, <2>2, CountAll, Zenon
<1>3. ASSUME NEW j \in 1 .. Len(s) PROVE s[Count(w, s, j)] = s[j]
  <2>1. j \in Nat /\ \A i \in 1 .. j : s[i].from = w
    BY <1>1 DEF Own
  <2>2. Count(w, s, j) = j
    BY <2>1, CountAll, Zenon
  <2> QED
    BY <2>2
<1> QED
  BY <1>1, <1>2, <1>3 DEF Ordered

\* ... and nothing of them is due to another.
LEMMA OthersOrdered ==
    ASSUME NEW w, NEW v, v # w, NEW s \in Seq(Byte), Own(v, s)
    PROVE  Ordered(w, s, <<>>)
<1>1. Len(s) \in Nat /\ DOMAIN s = 1 .. Len(s)
  BY LenProperties
<1>2. Count(w, s, Len(s)) = 0
  <2>1. PICK n \in Nat : n = Len(s)
    BY <1>1
  <2>2. \A i \in 1 .. n : s[i].from # w
    BY <2>1 DEF Own
  <2> QED
    BY <2>1, <2>2, CountNone, Zenon
<1>3. ASSUME NEW j \in 1 .. Len(s), s[j].from = w PROVE FALSE
  BY <1>3 DEF Own
<1>4. Len(<<>>) = 0
  BY Nothing
<1> QED
  BY <1>1, <1>2, <1>3, <1>4 DEF Ordered

\* Of a sequence without bytes of w there is nothing in order.
LEMMA NothingOrdered ==
    ASSUME NEW w, NEW v, v # w, NEW s \in Seq(Byte), Own(v, s), NEW d \in Seq(Byte),
           Ordered(w, s, d)
    PROVE  d = <<>>
<1>1. Len(<<>>) = Count(w, s, Len(s)) /\ Len(d) = Count(w, s, Len(s))
  BY OthersOrdered, Zenon DEF Ordered
<1>2. Len(d) = 0
  BY <1>1, Nothing
<1> QED
  BY <1>2, EmptySeq

\* What a writer writes is its own, ...
LEMMA BytesFacts ==
    ASSUME NEW w \in Writer, NEW text \in Seq(Char)
    PROVE  Bytes(w, text) \in Seq(Byte) /\ Own(w, Bytes(w, text))
<1>1. Len(text) \in Nat /\ DOMAIN text = 1 .. Len(text) /\ \A i \in 1 .. Len(text) : text[i] \in Char
  BY LenProperties, ElementOfSeq
<1>2. PICK n \in Nat : n = Len(text)
  BY <1>1
<1>3. Bytes(w, text) = [i \in 1 .. n |-> [from |-> w, ch |-> text[i]]]
  BY <1>1, <1>2 DEF Bytes
<1>4. \A i \in 1 .. n : [from |-> w, ch |-> text[i]] \in Byte
  BY <1>1, <1>2 DEF Byte
<1>5. Bytes(w, text) \in Seq(Byte)
  BY <1>3, <1>4
<1>6. Len(Bytes(w, text)) = n
  BY <1>3
<1> QED
  BY <1>3, <1>5, <1>6 DEF Own

\* ... a part of it too, ...
LEMMA OwnParts ==
    ASSUME NEW w, NEW s \in Seq(Byte), Own(w, s), NEW c \in 0 .. Len(s)
    PROVE  Own(w, Upto(s, c)) /\ Own(w, From(s, c))
<1>1. Len(s) \in Nat
  BY LenProperties
<1>2. Own(w, Upto(s, c))
  <2>1. Len(Upto(s, c)) = c /\ \A i \in 1 .. c : Upto(s, c)[i] = s[i]
    BY Cut
  <2> QED
    BY <1>1, <2>1 DEF Own
<1>3. Own(w, From(s, c))
  <2>1. Len(From(s, c)) = Len(s) - c /\ \A i \in 1 .. Len(s) - c : From(s, c)[i] = s[c + i]
    BY Cut
  <2>2. \A i \in 1 .. Len(s) - c : c + i \in 1 .. Len(s)
    BY <1>1
  <2> QED
    BY <2>1, <2>2 DEF Own
<1> QED
  BY <1>2, <1>3

\* ... and two parts joined.
LEMMA OwnJoined ==
    ASSUME NEW w, NEW s \in Seq(Byte), NEW t \in Seq(Byte), Own(w, s), Own(w, t)
    PROVE  Own(w, s \o t)
<1>1. Len(s) \in Nat /\ Len(t) \in Nat /\ Len(s \o t) = Len(s) + Len(t)
  BY LenProperties, ConcatProperties
<1>2. ASSUME NEW i \in 1 .. Len(s) + Len(t) PROVE (s \o t)[i].from = w
  <2>1. (s \o t)[i] = IF i <= Len(s) THEN s[i] ELSE t[i - Len(s)]
    BY ConcatProperties
  <2>2. CASE i <= Len(s)
    BY <1>1, <2>1, <2>2 DEF Own
  <2>3. CASE i > Len(s)
    <3>1. i - Len(s) \in 1 .. Len(t)
      BY <1>1, <2>3
    <3> QED
      BY <1>1, <2>1, <2>3, <3>1 DEF Own
  <2>4. i <= Len(s) \/ i > Len(s)
    BY <1>1
  <2> QED
    BY <2>2, <2>3, <2>4, Zenon
<1> QED
  BY <1>1, <1>2 DEF Own

\* The first a bytes, then the next b.
LEMMA UptoFrom ==
    ASSUME NEW s \in Seq(Byte), NEW a \in 0 .. Len(s), NEW b \in 0 .. Len(s) - a
    PROVE  /\ Upto(s, a) \o Upto(From(s, a), b) = Upto(s, a + b)
           /\ From(From(s, a), b) = From(s, a + b)
<1>1. Len(s) \in Nat /\ a + b \in 0 .. Len(s)
  BY LenProperties
<1>2. PICK u \in Seq(Byte) : u = Upto(s, a) /\ Len(u) = a /\ \A i \in 1 .. a : u[i] = s[i]
  <2>1. /\ Upto(s, a) \in Seq(Byte) /\ Len(Upto(s, a)) = a
        /\ \A i \in 1 .. a : Upto(s, a)[i] = s[i]
    BY Cut
  <2> QED
    BY <2>1
<1>3. PICK f \in Seq(Byte) : /\ f = From(s, a) /\ Len(f) = Len(s) - a
                            /\ \A i \in 1 .. Len(s) - a : f[i] = s[a + i]
  <2>1. /\ From(s, a) \in Seq(Byte) /\ Len(From(s, a)) = Len(s) - a
        /\ \A i \in 1 .. Len(s) - a : From(s, a)[i] = s[a + i]
    BY Cut
  <2> QED
    BY <2>1
<1>4. PICK v \in Seq(Byte) : v = Upto(f, b) /\ Len(v) = b /\ \A i \in 1 .. b : v[i] = f[i]
  <2>0. b \in 0 .. Len(f)
    BY <1>3
  <2>1. /\ Upto(f, b) \in Seq(Byte) /\ Len(Upto(f, b)) = b
        /\ \A i \in 1 .. b : Upto(f, b)[i] = f[i]
    BY <2>0, Cut
  <2> QED
    BY <2>1
<1>5. PICK g \in Seq(Byte) : /\ g = From(f, b) /\ Len(g) = Len(f) - b
                            /\ \A i \in 1 .. Len(f) - b : g[i] = f[b + i]
  <2>0. b \in 0 .. Len(f)
    BY <1>3
  <2>1. /\ From(f, b) \in Seq(Byte) /\ Len(From(f, b)) = Len(f) - b
        /\ \A i \in 1 .. Len(f) - b : From(f, b)[i] = f[b + i]
    BY <2>0, Cut
  <2> QED
    BY <2>1
<1>6. PICK x \in Seq(Byte) : /\ x = Upto(s, a + b) /\ Len(x) = a + b
                            /\ \A i \in 1 .. a + b : x[i] = s[i]
  <2>1. /\ Upto(s, a + b) \in Seq(Byte) /\ Len(Upto(s, a + b)) = a + b
        /\ \A i \in 1 .. a + b : Upto(s, a + b)[i] = s[i]
    BY <1>1, Cut
  <2> QED
    BY <2>1
<1>7. PICK y \in Seq(Byte) : /\ y = From(s, a + b) /\ Len(y) = Len(s) - (a + b)
                            /\ \A i \in 1 .. Len(s) - (a + b) : y[i] = s[(a + b) + i]
  <2>1. /\ From(s, a + b) \in Seq(Byte) /\ Len(From(s, a + b)) = Len(s) - (a + b)
        /\ \A i \in 1 .. Len(s) - (a + b) : From(s, a + b)[i] = s[(a + b) + i]
    BY <1>1, Cut
  <2> QED
    BY <2>1
<1>8. u \o v = x
  <2>1. u \o v \in Seq(Byte) /\ Len(u \o v) = Len(u) + Len(v)
    BY ConcatProperties
  <2>2. Len(u \o v) = a + b
    BY <1>2, <1>4, <2>1
  <2>3. ASSUME NEW i \in 1 .. a + b PROVE (u \o v)[i] = x[i]
    <3>1. (u \o v)[i] = IF i <= Len(u) THEN u[i] ELSE v[i - Len(u)]
      BY <1>2, <1>4, ConcatProperties
    <3>2. CASE i <= a
      BY <1>1, <1>2, <1>6, <3>1, <3>2
    <3>3. CASE i > a
      <4>1. i - a \in 1 .. b /\ i - a \in 1 .. Len(s) - a /\ a + (i - a) = i
        BY <1>1, <3>3
      <4>2. (u \o v)[i] = v[i - a]
        BY <1>2, <3>1, <3>3
      <4>3. v[i - a] = s[i]
        BY <1>3, <1>4, <4>1
      <4> QED
        BY <1>6, <4>2, <4>3
    <3>4. i <= a \/ i > a
      BY <1>1
    <3> QED
      BY <3>2, <3>3, <3>4, Zenon
  <2>4. Len(u \o v) = Len(x) /\ \A i \in 1 .. Len(u \o v) : (u \o v)[i] = x[i]
    BY <1>6, <2>2, <2>3
  <2> QED
    BY <2>1, <2>4, SeqEqual
<1>9. g = y
  <2>1. Len(g) = Len(y) /\ Len(g) = Len(s) - (a + b)
    <3>1. Len(g) = (Len(s) - a) - b
      BY <1>3, <1>5
    <3>2. (Len(s) - a) - b = Len(s) - (a + b)
      BY <1>1
    <3> QED
      BY <1>7, <3>1, <3>2
  <2>2. ASSUME NEW i \in 1 .. Len(s) - (a + b) PROVE g[i] = y[i]
    <3>1. b + i \in 1 .. Len(s) - a /\ i \in 1 .. (Len(s) - a) - b /\ a + (b + i) = (a + b) + i
      BY <1>1
    <3>2. g[i] = f[b + i]
      BY <1>3, <1>5, <3>1
    <3>3. f[b + i] = s[a + (b + i)]
      BY <1>3, <3>1
    <3> QED
      BY <1>7, <3>1, <3>2, <3>3
  <2> QED
    BY <2>1, <2>2, SeqEqual
<1> QED
  BY <1>2, <1>3, <1>4, <1>5, <1>6, <1>7, <1>8, <1>9, Zenon

\* Bytes of another writer, put in before bytes that are not w's, change nothing for w;
\* w's own are w's last ones.
LEMMA Inserted ==
    ASSUME NEW w, NEW u, NEW x \in Seq(Byte), NEW t \in Seq(Byte), NEW q \in Seq(Byte),
           NEW d \in Seq(Byte), Ordered(w, x \o q, d), Own(u, t)
    PROVE  /\ u # w => Ordered(w, (x \o t) \o q, d)
           /\ \A v : u = w /\ v # w /\ Own(v, q) => Ordered(w, (x \o t) \o q, d \o t)
<1>1. PICK c \in 0 .. Len(d) : /\ Ordered(w, x, Upto(d, c)) /\ Ordered(w, q, From(d, c))
  BY Split
<1>2. PICK a \in Seq(Byte) : a = Upto(d, c)
  BY Cut
<1>3. PICK b \in Seq(Byte) : b = From(d, c)
  BY Cut
<1>4. d = a \o b
  BY <1>2, <1>3, Cut
<1>5. x \o t \in Seq(Byte)
  BY ConcatProperties
<1>6. ASSUME u # w PROVE Ordered(w, (x \o t) \o q, d)
  <2>1. Ordered(w, t, <<>>)
    BY <1>6, OthersOrdered
  <2>2. Ordered(w, x \o t, a \o <<>>)
    <3>1. <<>> \in Seq(Byte)
      BY Nothing, Zenon
    <3> QED
      BY <1>1, <1>2, <2>1, <3>1, Compose
  <2>3. a \o <<>> = a
    BY ConcatEmptySeq
  <2>4. Ordered(w, (x \o t) \o q, a \o b)
    BY <1>1, <1>3, <1>5, <2>2, <2>3, Compose
  <2> QED
    BY <1>4, <2>4
<1>7. ASSUME NEW v, u = w, v # w, Own(v, q) PROVE Ordered(w, (x \o t) \o q, d \o t)
  <2>1. b = <<>>
    BY <1>1, <1>3, <1>7, NothingOrdered
  <2>2. d = a
    BY <1>4, <2>1, ConcatEmptySeq
  <2>3. Ordered(w, t, t)
    BY <1>7, OwnOrdered
  <2>4. Ordered(w, x \o t, a \o t)
    BY <1>1, <1>2, <2>3, Compose
  <2>5. a \o t \in Seq(Byte)
    BY ConcatProperties
  <2>6. Ordered(w, q, <<>>)
    BY <1>7, OthersOrdered
  <2>7. Ordered(w, (x \o t) \o q, (a \o t) \o <<>>)
    <3>1. <<>> \in Seq(Byte)
      BY Nothing, Zenon
    <3> QED
      BY <1>5, <2>4, <2>5, <2>6, <3>1, Compose
  <2>8. (a \o t) \o <<>> = a \o t
    BY <2>5, ConcatEmptySeq
  <2> QED
    BY <2>2, <2>7, <2>8
<1> QED
  BY <1>6, <1>7
-----------------------------------------------------------------------------
\* The inductive invariant of the output.  What is in the endpoint and in the queue is
\* in the order it was written, the main loop's rest apart; ...
SentAt(e, q, data, usb, main_) ==
    /\ Ordered("usb", (e.flight \o e.fifo) \o q, usb)
    /\ \E d \in Seq(Byte) : main_ = d \o data /\ Ordered("main", (e.flight \o e.fifo) \o q, d)

Sent == SentAt(endpoint, usb_queue, main.data, due["usb"], due["main"])

\* ... while the main loop holds the room it has looked up, the interrupt takes none of
\* it unless it has raced, and its own bytes alone are queued.
RoomKept ==
    /\ main.pc \in {"room", "write"} =>
         /\ Own("usb", usb_queue)
         /\ usb_queue # <<>> => Room(endpoint) <= Packet
    /\ main.pc = "write" /\ ~raced =>
         /\ main.free <= Room(endpoint)
         /\ usb_queue # <<>> => main.free <= Packet

OutInv ==
    /\ TypeOKOut
    /\ endpoint.fifo # <<>> => endpoint.busy
    /\ main.pc = "idle" => main.data = <<>>
    /\ Own("main", main.data)
    /\ RoomKept
    /\ Sent

\* It holds in the beginning.
LEMMA OutInvInit == InitOut => OutInv
<1> SUFFICES ASSUME InitOut
             PROVE  OutInv
  OBVIOUS
<1>0. /\ QueueSize \in Nat /\ FifoSize \in Nat /\ Packet \in Nat /\ MaxDone \in Nat
  BY UsbOutputAssumption
<1>1. <<>> \in Seq(Byte) /\ Len(<<>>) = 0
  BY Nothing, Zenon
<1>2. /\ connected \in BOOLEAN /\ usb_queue = <<>> /\ raced \in BOOLEAN /\ done = 0
      /\ endpoint = [fifo |-> <<>>, flight |-> <<>>, busy |-> FALSE]
      /\ main = [pc |-> "idle", data |-> <<>>, free |-> 0]
      /\ due = [w \in Writer |-> <<>>]
  BY Zenon DEF InitOut, Idle
<1>3. due["usb"] = <<>> /\ due["main"] = <<>> /\ due \in [Writer -> Seq(Byte)]
  BY <1>1, <1>2 DEF Writer
<1>4. TypeOKOut
  <2>1. 0 \in 0 .. FifoSize /\ 0 \in 0 .. MaxDone
    BY <1>0
  <2> QED
    BY <1>0, <1>1, <1>2, <1>3, <2>1 DEF TypeOKOut
<1>5. Own("main", <<>>) /\ Own("usb", <<>>)
  BY <1>1 DEF Own
<1>6. Sent
  <2>1. (<<>> \o <<>>) \o <<>> = <<>> /\ <<>> \o <<>> = <<>>
    BY <1>1, ConcatEmptySeq
  <2>2. Ordered("usb", <<>>, <<>>) /\ Ordered("main", <<>>, <<>>)
    BY <1>1, <1>5, OwnOrdered
  <2> QED
    BY <1>1, <1>2, <1>3, <2>1, <2>2 DEF Sent, SentAt
<1> QED
  BY <1>2, <1>4, <1>5, <1>6 DEF OutInv, RoomKept

\* What it says of types, to be cited.
LEMMA OutFacts ==
    ASSUME OutInv
    PROVE  /\ QueueSize \in Nat \ {0} /\ FifoSize \in Nat /\ Packet \in Nat \ {0}
           /\ MaxDone \in Nat /\ FifoSize >= Packet
           /\ endpoint \in Endpoint /\ EndpointOK(endpoint)
           /\ endpoint.fifo \in Seq(Byte) /\ endpoint.flight \in Seq(Byte)
           /\ usb_queue \in Seq(Byte) /\ main.data \in Seq(Byte)
           /\ due["usb"] \in Seq(Byte) /\ due["main"] \in Seq(Byte)
           /\ due \in [Writer -> Seq(Byte)]
           /\ Len(endpoint.fifo) \in Nat /\ Len(endpoint.flight) \in Nat /\ Len(usb_queue) \in Nat
           /\ Len(main.data) \in Nat /\ Len(usb_queue) <= QueueSize
           /\ Room(endpoint) \in Nat /\ Room(endpoint) = FifoSize - Len(endpoint.fifo)
           /\ main.free \in 0 .. FifoSize /\ main.pc \in {"idle", "room", "write", "add"}
           /\ endpoint.flight \o endpoint.fifo \in Seq(Byte)
           /\ (endpoint.flight \o endpoint.fifo) \o usb_queue \in Seq(Byte)
<1>1. /\ QueueSize \in Nat \ {0} /\ FifoSize \in Nat /\ Packet \in Nat \ {0}
      /\ MaxDone \in Nat /\ FifoSize >= Packet
  BY UsbOutputAssumption
<1>2. TypeOKOut /\ (endpoint.fifo # <<>> => endpoint.busy)
  BY DEF OutInv
<1>3. /\ endpoint \in Endpoint /\ EndpointOK(endpoint)
      /\ endpoint.fifo \in Seq(Byte) /\ endpoint.flight \in Seq(Byte)
      /\ usb_queue \in Seq(Byte) /\ main.data \in Seq(Byte)
      /\ due["usb"] \in Seq(Byte) /\ due["main"] \in Seq(Byte)
      /\ due \in [Writer -> Seq(Byte)]
      /\ Len(usb_queue) <= QueueSize /\ Len(endpoint.fifo) <= FifoSize
      /\ main.free \in 0 .. FifoSize /\ main.pc \in {"idle", "room", "write", "add"}
  BY <1>2 DEF TypeOKOut, Endpoint, EndpointOK, Writer
<1>4. /\ Len(endpoint.fifo) \in Nat /\ Len(endpoint.flight) \in Nat /\ Len(usb_queue) \in Nat
      /\ Len(main.data) \in Nat
  BY <1>3, LenProperties
<1>5. /\ Room(endpoint) \in Nat /\ Room(endpoint) = FifoSize - Len(endpoint.fifo)
  <2>1. FifoSize - Len(endpoint.fifo) \in Nat
    BY <1>1, <1>3, <1>4
  <2> QED
    BY <2>1 DEF Room
<1>6. /\ endpoint.flight \o endpoint.fifo \in Seq(Byte)
      /\ (endpoint.flight \o endpoint.fifo) \o usb_queue \in Seq(Byte)
  BY <1>3, ConcatProperties
<1> QED
  BY <1>1, <1>3, <1>4, <1>5, <1>6

\* Only main's place, done, connected and raced may change.
LEMMA OutKept ==
    ASSUME OutInv, UNCHANGED <<usb_queue, endpoint, main, due, raced>>,
           connected' \in BOOLEAN, done' \in 0 .. MaxDone
    PROVE  OutInv'
<1>1. /\ usb_queue' = usb_queue /\ endpoint' = endpoint /\ main' = main /\ due' = due
      /\ raced' = raced
  OBVIOUS
<1>2. TypeOKOut'
  BY <1>1 DEF OutInv, TypeOKOut
<1>3. /\ (endpoint'.fifo # <<>> => endpoint'.busy)
      /\ main'.pc = "idle" => main'.data = <<>>
      /\ Own("main", main'.data)
  BY <1>1 DEF OutInv
<1>4. RoomKept'
  BY <1>1 DEF OutInv, RoomKept, Own, Room
<1>5. Sent'
  BY <1>1 DEF OutInv, Sent
<1> QED
  BY <1>2, <1>3, <1>4, <1>5 DEF OutInv

\* usb_write begins, ...
LEMMA WriteKeeps ==
    ASSUME OutInv, NEW text \in Seq(Char), UsbWrite(text)
    PROVE  OutInv'
<1>1. PICK data \in Seq(Byte) : data = Bytes("main", text) /\ Own("main", data)
  BY BytesFacts DEF Writer
<1>2. /\ connected' = connected /\ usb_queue' = usb_queue /\ endpoint' = endpoint
      /\ raced' = raced /\ done' = 0 /\ main.pc = "idle"
  BY DEF UsbWrite
<1>3. done' \in 0 .. MaxDone /\ connected' \in BOOLEAN
  BY <1>2, OutFacts DEF OutInv, TypeOKOut
<1>4. CASE ~connected
  <2>1. main' = main /\ due' = due
    BY <1>4 DEF UsbWrite
  <2> QED
    BY <1>2, <1>3, <2>1, OutKept
<1>5. CASE connected
  <2>1. /\ main' = [pc |-> IF usb_queue = <<>> THEN "room" ELSE "add", data |-> data, free |-> 0]
        /\ due' = [due EXCEPT !["main"] = @ \o data]
    BY <1>1, <1>5 DEF UsbWrite
  <2>2. /\ main'.pc \in {"room", "add"} /\ main'.data = data /\ main'.free = 0
        /\ main'.pc = "room" => usb_queue = <<>>
        /\ main' \in [pc : {"idle", "room", "write", "add"}, data : Seq(Byte), free : 0 .. FifoSize]
    BY <2>1, OutFacts
  <2>3. due["main"] \o data \in Seq(Byte)
    BY OutFacts, ConcatProperties
  <2>4. due'["main"] = due["main"] \o data /\ due'["usb"] = due["usb"] /\ due' \in [Writer -> Seq(Byte)]
    BY <2>1, <2>3, OutFacts DEF Writer
  <2>5. TypeOKOut'
    BY <1>2, <1>3, <2>2, <2>4 DEF OutInv, TypeOKOut
  <2>6. RoomKept'
    <3>1. Own("usb", <<>>)
      BY Nothing DEF Own
    <3> QED
      BY <1>2, <2>2, <3>1 DEF RoomKept
  <2>7. Sent'
    <3>1. main.data = <<>>
      BY <1>2 DEF OutInv
    <3>2. PICK d \in Seq(Byte) : /\ due["main"] = d \o main.data
                                 /\ Ordered("main", (endpoint.flight \o endpoint.fifo) \o usb_queue, d)
      BY DEF OutInv, Sent, SentAt
    <3>3. d = due["main"]
      BY <3>1, <3>2, ConcatEmptySeq
    <3>4. Ordered("usb", (endpoint.flight \o endpoint.fifo) \o usb_queue, due["usb"])
      BY DEF OutInv, Sent, SentAt
    <3> QED
      BY <1>2, <2>2, <2>4, <3>2, <3>3, <3>4 DEF Sent, SentAt
  <2> QED
    BY <1>1, <1>2, <2>2, <2>5, <2>6, <2>7 DEF OutInv
<1> QED
  BY <1>4, <1>5

\* ... looks up the room, ...
LEMMA RoomKeeps ==
    ASSUME OutInv, UsbWriteRoom
    PROVE  OutInv'
<1>1. /\ connected' = connected /\ usb_queue' = usb_queue /\ endpoint' = endpoint /\ due' = due
      /\ raced' = FALSE /\ done' = 0 /\ main.pc = "room"
      /\ main' = [main EXCEPT !.pc = "write", !.free = Room(endpoint)]
  BY DEF UsbWriteRoom, tud_cdc_write_available, Room
<1>2. Room(endpoint) \in 0 .. FifoSize
  BY OutFacts
<1>3. /\ main'.pc = "write" /\ main'.data = main.data /\ main'.free = Room(endpoint)
      /\ main' \in [pc : {"idle", "room", "write", "add"}, data : Seq(Byte), free : 0 .. FifoSize]
  <2>1. main \in [pc : {"idle", "room", "write", "add"}, data : Seq(Byte), free : 0 .. FifoSize]
    BY DEF OutInv, TypeOKOut
  <2>2. PICK r \in 0 .. FifoSize : r = Room(endpoint)
    BY <1>2
  <2>3. main' = [main EXCEPT !.pc = "write", !.free = r]
    BY <1>1, <2>2, Zenon
  <2> QED
    BY <2>1, <2>2, <2>3
<1>4. done' \in 0 .. MaxDone /\ raced' \in BOOLEAN
  <2>1. 0 \in 0 .. MaxDone
    BY OutFacts
  <2> QED
    BY <1>1, <2>1, Zenon
<1>5. TypeOKOut'
  BY <1>1, <1>3, <1>4 DEF OutInv, TypeOKOut
<1>6. RoomKept'
  <2>1. Own("usb", usb_queue) /\ (usb_queue # <<>> => Room(endpoint) <= Packet)
    BY <1>1 DEF OutInv, RoomKept
  <2>2. Room(endpoint) <= Room(endpoint)
    BY <1>2
  <2> QED
    BY <1>1, <1>3, <2>1, <2>2 DEF RoomKept
<1>7. Sent'
  BY <1>1, <1>3 DEF OutInv, Sent
<1> QED
  BY <1>1, <1>3, <1>5, <1>6, <1>7 DEF OutInv

\* ... and queues what found no room.
LEMMA AddKeeps ==
    ASSUME OutInv, UsbWriteAdd
    PROVE  OutInv'
<1>1. /\ connected' = connected /\ endpoint' = endpoint /\ raced' = raced /\ done' = 0
      /\ main.pc = "add"
  BY DEF UsbWriteAdd
<1>2. done' \in 0 .. MaxDone
  BY <1>1, OutFacts
<1>3. PICK d \in Seq(Byte) : /\ due["main"] = d \o main.data
                             /\ Ordered("main", (endpoint.flight \o endpoint.fifo) \o usb_queue, d)
  BY DEF OutInv, Sent, SentAt
<1>4. Ordered("usb", (endpoint.flight \o endpoint.fifo) \o usb_queue, due["usb"])
  BY DEF OutInv, Sent, SentAt
<1>5. CASE main.data # <<>> /\ Len(usb_queue) < QueueSize
  <2>1. /\ usb_queue' = Append(usb_queue, Head(main.data)) /\ due' = due
        /\ main' = [main EXCEPT !.data = Tail(@)]
    BY <1>5 DEF UsbWriteAdd
  <2>2. /\ Head(main.data) \in Byte /\ Tail(main.data) \in Seq(Byte)
        /\ Len(Tail(main.data)) = Len(main.data) - 1
        /\ \A i \in 1 .. Len(Tail(main.data)) : Tail(main.data)[i] = main.data[i + 1]
    BY <1>5, OutFacts, HeadTailProperties
  <2>3. PICK h \in Seq(Byte) : h = <<Head(main.data)>> /\ Len(h) = 1 /\ h[1] = Head(main.data)
    <3>1. PICK b \in Byte : b = Head(main.data)
      BY <2>2
    <3>2. <<b>> \in Seq(Byte) /\ Len(<<b>>) = 1 /\ <<b>>[1] = b
      OBVIOUS
    <3> QED
      BY <3>1, <3>2, Zenon
  <2>4. /\ usb_queue' \in Seq(Byte) /\ Len(usb_queue') = Len(usb_queue) + 1
        /\ usb_queue' = usb_queue \o h
    <3>1. usb_queue \in Seq(Byte)
      BY OutFacts
    <3>2. Append(usb_queue, Head(main.data)) = usb_queue \o <<Head(main.data)>>
      BY <2>2, <3>1, AppendIsConcat
    <3>3. usb_queue' = usb_queue \o h
      BY <2>1, <2>3, <3>2, Zenon
    <3>4. usb_queue \o h \in Seq(Byte) /\ Len(usb_queue \o h) = Len(usb_queue) + Len(h)
      BY <3>1, ConcatProperties
    <3> QED
      BY <2>3, <3>3, <3>4
  <2>5. /\ main'.pc = "add" /\ main'.data = Tail(main.data)
        /\ main' \in [pc : {"idle", "room", "write", "add"}, data : Seq(Byte), free : 0 .. FifoSize]
    BY <1>1, <2>1, <2>2 DEF OutInv, TypeOKOut
  <2>6. Own("main", h) /\ Own("main", Tail(main.data))
    <3>1. Own("main", main.data) /\ 1 \in 1 .. Len(main.data) /\ Head(main.data) = main.data[1]
      BY <1>5, OutFacts, EmptySeq DEF OutInv
    <3>2. \A i \in 1 .. Len(Tail(main.data)) : i + 1 \in 1 .. Len(main.data)
      BY <2>2, OutFacts
    <3> QED
      BY <2>2, <2>3, <3>1, <3>2 DEF Own
  <2>7. TypeOKOut'
    <3>1. Len(usb_queue') <= QueueSize
      BY <1>5, <2>4, OutFacts
    <3> QED
      BY <1>1, <1>2, <2>1, <2>4, <2>5, <3>1 DEF OutInv, TypeOKOut
  <2>8. RoomKept'
    BY <2>5 DEF RoomKept
  <2>9. Sent'
    <3>1. PICK x \in Seq(Byte) : x = endpoint.flight \o endpoint.fifo
      BY OutFacts
    <3>2. x \o (usb_queue \o h) = (x \o usb_queue) \o h /\ x \o usb_queue \in Seq(Byte)
      <4>1. usb_queue \in Seq(Byte)
        BY OutFacts
      <4>2. (x \o usb_queue) \o h = x \o (usb_queue \o h)
        BY <4>1, Assoc, Zenon
      <4> QED
        BY <4>1, <4>2, ConcatProperties
    <3>3. Ordered("main", (x \o usb_queue) \o h, d \o h)
      BY <1>3, <2>6, <3>1, <3>2, OwnOrdered, Compose
    <3>4. Ordered("usb", (x \o usb_queue) \o h, due["usb"])
      <4>1. Ordered("usb", h, <<>>)
        BY <2>6, OthersOrdered
      <4>2. <<>> \in Seq(Byte) /\ due["usb"] \in Seq(Byte)
        BY Nothing, OutFacts, Zenon
      <4>3. Ordered("usb", (x \o usb_queue) \o h, due["usb"] \o <<>>)
        BY <1>4, <3>1, <3>2, <4>1, <4>2, Compose
      <4> QED
        BY <4>2, <4>3, ConcatEmptySeq
    <3>5. due["main"] = (d \o h) \o Tail(main.data) /\ d \o h \in Seq(Byte)
      <4>1. h \o Tail(main.data) = main.data
        <5>1. h \o Tail(main.data) \in Seq(Byte) /\ Len(h \o Tail(main.data)) = Len(h) + Len(Tail(main.data))
          BY <2>2, ConcatProperties
        <5>2. Len(h \o Tail(main.data)) = Len(main.data)
          BY <2>2, <2>3, <5>1, OutFacts
        <5>3. ASSUME NEW i \in 1 .. Len(main.data)
              PROVE  (h \o Tail(main.data))[i] = main.data[i]
          <6>1. (h \o Tail(main.data))[i] = IF i <= Len(h) THEN h[i] ELSE Tail(main.data)[i - Len(h)]
            BY <2>2, <2>3, OutFacts, ConcatProperties
          <6>2. CASE i = 1
            BY <2>3, <6>1, <6>2
          <6>3. CASE i # 1
            <7>1. i - 1 \in 1 .. Len(Tail(main.data)) /\ (i - 1) + 1 = i
              BY <2>2, <6>3, OutFacts
            <7> QED
              BY <2>2, <2>3, <6>1, <6>3, <7>1
          <6> QED
            BY <6>2, <6>3
        <5> QED
          BY <5>1, <5>2, <5>3, OutFacts, SeqEqual
      <4>2. (d \o h) \o Tail(main.data) = d \o (h \o Tail(main.data))
        BY <2>2, Assoc
      <4> QED
        BY <1>3, <4>1, <4>2, ConcatProperties
    <3> QED
      BY <1>1, <2>1, <2>4, <2>5, <3>1, <3>2, <3>3, <3>4, <3>5 DEF Sent, SentAt
  <2> QED
    BY <1>1, <2>5, <2>6, <2>7, <2>8, <2>9 DEF OutInv
<1>6. CASE ~(main.data # <<>> /\ Len(usb_queue) < QueueSize)
  <2>1. /\ usb_queue' = usb_queue /\ main' = Idle
        /\ due' = [due EXCEPT !["main"] = Upto(@, Len(@) - Len(main.data))]
    BY <1>6 DEF UsbWriteAdd
  <2>2. Upto(due["main"], Len(due["main"]) - Len(main.data)) = d
    <3>1. /\ Len(due["main"]) = Len(d) + Len(main.data) /\ Len(d) \in Nat
          /\ \A i \in 1 .. Len(d) : due["main"][i] = d[i]
      BY <1>3, OutFacts, ConcatProperties, LenProperties
    <3>2. Len(due["main"]) - Len(main.data) = Len(d) /\ Len(d) \in 0 .. Len(due["main"])
      BY <3>1, OutFacts
    <3>3. /\ Upto(due["main"], Len(d)) \in Seq(Byte) /\ Len(Upto(due["main"], Len(d))) = Len(d)
          /\ \A i \in 1 .. Len(d) : Upto(due["main"], Len(d))[i] = due["main"][i]
      BY <3>2, OutFacts, Cut
    <3> QED
      BY <3>1, <3>2, <3>3, SeqEqual
  <2>3. due'["main"] = d /\ due'["usb"] = due["usb"] /\ due' \in [Writer -> Seq(Byte)]
    BY <2>1, <2>2, OutFacts DEF Writer
  <2>4. <<>> \in Seq(Byte) /\ Len(<<>>) = 0
    BY Nothing, Zenon
  <2>5. /\ main'.pc = "idle" /\ main'.data = <<>>
        /\ main' \in [pc : {"idle", "room", "write", "add"}, data : Seq(Byte), free : 0 .. FifoSize]
    BY <2>1, <2>4, OutFacts DEF Idle
  <2>6. TypeOKOut'
    BY <1>1, <1>2, <2>1, <2>3, <2>5 DEF OutInv, TypeOKOut
  <2>7. RoomKept' /\ Own("main", main'.data)
    BY <2>4, <2>5 DEF RoomKept, Own
  <2>8. Sent'
    <3>1. d \o <<>> = d
      BY ConcatEmptySeq
    <3> QED
      BY <1>1, <1>3, <1>4, <2>1, <2>3, <2>5, <3>1 DEF Sent, SentAt
  <2> QED
    BY <1>1, <2>5, <2>6, <2>7, <2>8 DEF OutInv
<1> QED
  BY <1>5, <1>6

\* Cuts beyond a joint, twice, and at the end.
LEMMA CutOver ==
    ASSUME NEW s \in Seq(Byte), NEW t \in Seq(Byte), NEW c \in 0 .. Len(t)
    PROVE  Upto(s \o t, Len(s) + c) = s \o Upto(t, c)
<1>1. /\ s \o t \in Seq(Byte) /\ Len(s \o t) = Len(s) + Len(t)
      /\ \A i \in 1 .. Len(s) + Len(t) : (s \o t)[i] = IF i <= Len(s) THEN s[i] ELSE t[i - Len(s)]
  BY ConcatProperties
<1>2. Len(s) \in Nat /\ Len(t) \in Nat /\ Len(s) + c \in 0 .. Len(s \o t)
  BY <1>1, LenProperties
<1>3. PICK u \in Seq(Byte) : u = Upto(t, c) /\ Len(u) = c /\ \A i \in 1 .. c : u[i] = t[i]
  <2>1. /\ Upto(t, c) \in Seq(Byte) /\ Len(Upto(t, c)) = c
        /\ \A i \in 1 .. c : Upto(t, c)[i] = t[i]
    BY Cut
  <2> QED
    BY <2>1
<1>4. PICK v \in Seq(Byte) : /\ v = Upto(s \o t, Len(s) + c) /\ Len(v) = Len(s) + c
                             /\ \A i \in 1 .. Len(s) + c : v[i] = (s \o t)[i]
  <2>1. /\ Upto(s \o t, Len(s) + c) \in Seq(Byte)
        /\ Len(Upto(s \o t, Len(s) + c)) = Len(s) + c
        /\ \A i \in 1 .. Len(s) + c : Upto(s \o t, Len(s) + c)[i] = (s \o t)[i]
    BY <1>1, <1>2, Cut
  <2> QED
    BY <2>1
<1>5. PICK x \in Seq(Byte) : /\ x = s \o u /\ Len(x) = Len(s) + Len(u)
                             /\ \A i \in 1 .. Len(s) + Len(u) :
                                  x[i] = IF i <= Len(s) THEN s[i] ELSE u[i - Len(s)]
  <2>1. /\ s \o u \in Seq(Byte) /\ Len(s \o u) = Len(s) + Len(u)
        /\ \A i \in 1 .. Len(s) + Len(u) : (s \o u)[i] = IF i <= Len(s) THEN s[i] ELSE u[i - Len(s)]
    BY ConcatProperties
  <2> QED
    BY <2>1
<1>6. ASSUME NEW i \in 1 .. Len(s) + c
      PROVE  v[i] = x[i]
  <2>1. i \in 1 .. Len(s) + Len(t) /\ i \in 1 .. Len(s) + Len(u)
    BY <1>2, <1>3
  <2>2. CASE i <= Len(s)
    BY <1>1, <1>4, <1>5, <2>1, <2>2
  <2>3. CASE i > Len(s)
    <3>1. i - Len(s) \in 1 .. c
      BY <1>2, <2>3
    <3>2. v[i] = t[i - Len(s)]
      BY <1>1, <1>2, <1>4, <2>1, <2>3
    <3>3. x[i] = u[i - Len(s)]
      BY <1>2, <1>5, <2>1, <2>3
    <3> QED
      BY <1>3, <3>1, <3>2, <3>3
  <2>4. i <= Len(s) \/ i > Len(s)
    BY <1>2
  <2> QED
    BY <2>2, <2>3, <2>4, Zenon
<1>7. Len(v) = Len(x)
  BY <1>2, <1>3, <1>4, <1>5
<1>8. v = x
  BY <1>4, <1>6, <1>7, SeqEqual
<1> QED
  BY <1>3, <1>4, <1>5, <1>8, Zenon

\* A cut of a cut.
LEMMA CutTwice ==
    ASSUME NEW s \in Seq(Byte), NEW n \in 0 .. Len(s), NEW k \in 0 .. n
    PROVE  Upto(Upto(s, n), k) = Upto(s, k)
<1>1. Len(s) \in Nat /\ k \in 0 .. Len(s)
  BY LenProperties
<1>2. PICK u \in Seq(Byte) : u = Upto(s, n) /\ Len(u) = n /\ \A i \in 1 .. n : u[i] = s[i]
  <2>1. /\ Upto(s, n) \in Seq(Byte) /\ Len(Upto(s, n)) = n
        /\ \A i \in 1 .. n : Upto(s, n)[i] = s[i]
    BY Cut
  <2> QED
    BY <2>1
<1>3. /\ Upto(u, k) \in Seq(Byte) /\ Len(Upto(u, k)) = k /\ \A i \in 1 .. k : Upto(u, k)[i] = u[i]
  <2>1. k \in 0 .. Len(u)
    BY <1>2
  <2> QED
    BY <2>1, Cut
<1>4. /\ Upto(s, k) \in Seq(Byte) /\ Len(Upto(s, k)) = k /\ \A i \in 1 .. k : Upto(s, k)[i] = s[i]
  BY <1>1, Cut
<1>5. \A i \in 1 .. k : Upto(u, k)[i] = Upto(s, k)[i]
  BY <1>1, <1>2, <1>3, <1>4
<1>6. Upto(u, k) = Upto(s, k)
  BY <1>3, <1>4, <1>5, SeqEqual
<1> QED
  BY <1>2, <1>6

\* A cut at the end.
LEMMA CutAll ==
    ASSUME NEW s \in Seq(Byte)
    PROVE  Upto(s, Len(s)) = s
<1>1. Len(s) \in Nat /\ Len(s) \in 0 .. Len(s)
  BY LenProperties
<1>2. /\ Upto(s, Len(s)) \in Seq(Byte) /\ Len(Upto(s, Len(s))) = Len(s)
      /\ \A i \in 1 .. Len(s) : Upto(s, Len(s))[i] = s[i]
  BY <1>1, Cut
<1> QED
  BY <1>2, SeqEqual

\* What is left of two sequences when a part of the first is gone.
LEMMA CutFirst ==
    ASSUME NEW s \in Seq(Byte), NEW t \in Seq(Byte), NEW c \in 0 .. Len(s)
    PROVE  From(s \o t, c) = From(s, c) \o t
<1>1. /\ s \o t \in Seq(Byte) /\ Len(s \o t) = Len(s) + Len(t)
      /\ \A i \in 1 .. Len(s) + Len(t) : (s \o t)[i] = IF i <= Len(s) THEN s[i] ELSE t[i - Len(s)]
  BY ConcatProperties
<1>2. Len(s) \in Nat /\ Len(t) \in Nat /\ c \in 0 .. Len(s \o t)
  BY <1>1, LenProperties
<1>3. PICK u \in Seq(Byte) : /\ u = From(s, c) /\ Len(u) = Len(s) - c
                             /\ \A i \in 1 .. Len(s) - c : u[i] = s[c + i]
  <2>1. /\ From(s, c) \in Seq(Byte) /\ Len(From(s, c)) = Len(s) - c
        /\ \A i \in 1 .. Len(s) - c : From(s, c)[i] = s[c + i]
    BY Cut
  <2> QED
    BY <2>1
<1>4. PICK v \in Seq(Byte) : /\ v = From(s \o t, c) /\ Len(v) = (Len(s) + Len(t)) - c
                             /\ \A i \in 1 .. (Len(s) + Len(t)) - c : v[i] = (s \o t)[c + i]
  <2>1. /\ From(s \o t, c) \in Seq(Byte) /\ Len(From(s \o t, c)) = Len(s \o t) - c
        /\ \A i \in 1 .. Len(s \o t) - c : From(s \o t, c)[i] = (s \o t)[c + i]
    BY <1>1, <1>2, Cut
  <2> QED
    BY <1>1, <2>1
<1>5. PICK x \in Seq(Byte) : /\ x = u \o t /\ Len(x) = Len(u) + Len(t)
                             /\ \A i \in 1 .. Len(u) + Len(t) :
                                  x[i] = IF i <= Len(u) THEN u[i] ELSE t[i - Len(u)]
  <2>1. /\ u \o t \in Seq(Byte) /\ Len(u \o t) = Len(u) + Len(t)
        /\ \A i \in 1 .. Len(u) + Len(t) : (u \o t)[i] = IF i <= Len(u) THEN u[i] ELSE t[i - Len(u)]
    BY ConcatProperties
  <2> QED
    BY <2>1
<1>6. Len(v) = Len(x) /\ Len(x) = (Len(s) - c) + Len(t)
  BY <1>2, <1>3, <1>4, <1>5
<1>7. ASSUME NEW i \in 1 .. Len(v)
      PROVE  v[i] = x[i]
  <2>1. /\ i \in 1 .. (Len(s) + Len(t)) - c /\ i \in 1 .. Len(u) + Len(t)
        /\ c + i \in 1 .. Len(s) + Len(t)
    BY <1>2, <1>3, <1>4
  <2>2. CASE i <= Len(s) - c
    <3>1. i \in 1 .. Len(s) - c /\ c + i <= Len(s) /\ i <= Len(u)
      BY <1>2, <1>3, <2>1, <2>2
    <3> QED
      BY <1>1, <1>3, <1>4, <1>5, <2>1, <3>1
  <2>3. CASE i > Len(s) - c
    <3>1. ~(c + i <= Len(s)) /\ ~(i <= Len(u)) /\ (c + i) - Len(s) = i - Len(u)
      BY <1>2, <1>3, <2>1, <2>3
    <3>2. v[i] = t[(c + i) - Len(s)]
      BY <1>1, <1>4, <2>1, <3>1
    <3>3. x[i] = t[i - Len(u)]
      BY <1>5, <2>1, <3>1
    <3> QED
      BY <3>1, <3>2, <3>3
  <2>4. i <= Len(s) - c \/ i > Len(s) - c
    BY <1>2, <2>1
  <2> QED
    BY <2>2, <2>3, <2>4, Zenon
<1>8. v = x
  BY <1>6, <1>7, SeqEqual
<1> QED
  BY <1>3, <1>4, <1>5, <1>8, Zenon

\* Where usb_write is.
Place == [pc : {"idle", "room", "write", "add"}, data : Seq(Byte), free : 0 .. FifoSize]

\* What is written goes behind what there is; a rest means that the room there was has
\* been used.
WriteAdds ==
    /\ endpoint.busy => /\ endpoint'.busy /\ endpoint'.flight = endpoint.flight
                        /\ Len(endpoint'.fifo) >= Len(endpoint.fifo)
    /\ main'.data # <<>> /\ main.free # 0 /\ (endpoint.busy \/ main.free = FifoSize) =>
         /\ endpoint'.busy
         /\ endpoint'.fifo # <<>> \/ Len(endpoint'.flight) = Packet

\* usb_write writes.
LEMMA WriteWriteKeeps ==
    ASSUME OutInv, UsbWriteWrite
    PROVE  OutInv' /\ WriteAdds
<1>1. PICK X \in Seq(Byte) : X = endpoint.flight \o endpoint.fifo
  BY OutFacts
<1>2. PICK data \in Seq(Byte), free \in Nat : data = main.data /\ free = main.free
  BY OutFacts
<1>3. PICK n \in 0 .. Len(data) : n = AtMost(Len(data), free) /\ n <= free
  <2>1. PICK l \in Nat : l = Len(data)
    BY LenProperties
  <2>2. AtMost(l, free) \in 0 .. l /\ AtMost(l, free) \in 0 .. free
    BY AtMostFacts
  <2> QED
    BY <2>1, <2>2
<1>4. PICK u \in Seq(Byte) : u = Upto(data, n) /\ Len(u) = n
  BY Cut
<1>5. PICK rest \in Seq(Byte) : rest = From(data, n) /\ u \o rest = data
  BY <1>4, Cut
<1>6. PICK k : k = AtMost(n, Room(endpoint)) /\ k = AtMost(Len(u), Room(endpoint))
  BY <1>4
<1>7. PICK r : r = endpoint' /\ r = WriteFlush(endpoint, u)
  BY <1>2, <1>3, <1>4, Zenon DEF UsbWriteWrite
<1>8. /\ connected' = connected /\ usb_queue' = usb_queue /\ raced' = FALSE /\ done' = 0
      /\ main.pc = "write"
      /\ main' = IF rest = <<>> THEN Idle ELSE [pc |-> "add", data |-> rest, free |-> 0]
  BY <1>2, <1>3, <1>5, Zenon DEF UsbWriteWrite
<1>9. due' = IF raced THEN [due EXCEPT !["main"] = Upto(@, Len(@) - Len(data) + k) \o rest]
             ELSE due
  <2>1. tud_cdc_write_available(endpoint) = Room(endpoint)
    BY DEF tud_cdc_write_available, Room
  <2> QED
    BY <1>2, <1>3, <1>5, <1>6, <2>1, Zenon DEF UsbWriteWrite
<1>10. /\ EndpointOK(r) /\ k \in 0 .. n /\ k <= Room(endpoint)
       /\ r.flight \o r.fifo = X \o Upto(u, k)
       /\ Flushed(endpoint, u, r, k)
  <2>1. Usable(endpoint)
    BY OutFacts DEF EndpointOK, Usable
  <2>2. /\ EndpointOK(r) /\ k \in 0 .. Len(u) /\ k <= Room(endpoint)
        /\ r.flight \o r.fifo = (endpoint.flight \o endpoint.fifo) \o Upto(u, k)
        /\ Flushed(endpoint, u, r, k)
    <3>1. Flushed(endpoint, u, r, k)
      BY <1>6, <1>7, <2>1, Flush
    <3> QED
      BY <3>1, Zenon DEF Flushed
  <2> QED
    BY <1>1, <1>4, <2>2
<1>11. PICK t \in Seq(Byte) : t = Upto(u, k)
  BY <1>4, <1>10, Cut
<1>12. Own("main", t) /\ Own("main", rest)
  <2>1. Own("main", data)
    BY <1>2 DEF OutInv
  <2>2. Own("main", u) /\ Own("main", rest)
    BY <1>4, <1>5, <2>1, OwnParts
  <2> QED
    BY <1>4, <1>10, <1>11, <2>2, OwnParts
<1>13. PICK d \in Seq(Byte) : due["main"] = d \o data /\ Ordered("main", X \o usb_queue, d)
  BY <1>1, <1>2 DEF OutInv, Sent, SentAt
<1>14. Ordered("usb", X \o usb_queue, due["usb"])
  BY <1>1 DEF OutInv, Sent, SentAt
<1>15. Own("usb", usb_queue) /\ (~raced => free <= Room(endpoint))
  BY <1>2, <1>8 DEF OutInv, RoomKept
<1>16. Ordered("usb", (X \o t) \o usb_queue, due["usb"])
  BY <1>12, <1>14, OutFacts, Inserted
<1>17. Ordered("main", (X \o t) \o usb_queue, d \o t)
  BY <1>12, <1>13, <1>15, OutFacts, Inserted
<1>18. t = Upto(data, k) /\ d \o t \in Seq(Byte) /\ k \in 0 .. Len(data)
  <2>1. t = Upto(data, k)
    BY <1>4, <1>10, <1>11, CutTwice
  <2>2. k \in 0 .. Len(data)
    BY <1>3, <1>10, LenProperties
  <2> QED
    BY <2>1, <2>2, ConcatProperties
<1>19. /\ due'["main"] = (d \o t) \o rest /\ due'["usb"] = due["usb"]
       /\ due' \in [Writer -> Seq(Byte)]
  <2>1. CASE ~raced
    <3>1. k = n
      <4>1. n <= Room(endpoint) /\ Room(endpoint) \in Nat /\ n \in Nat
        BY <1>3, <1>15, <2>1, OutFacts, LenProperties
      <4> QED
        BY <1>6, <4>1, AtMostLess
    <3>2. t = u
      BY <1>4, <1>18, <3>1
    <3>3. d \o data = (d \o t) \o rest
      <4>1. (d \o t) \o rest = d \o (t \o rest)
        BY Assoc
      <4> QED
        BY <1>5, <3>2, <4>1, Zenon
    <3> QED
      BY <1>9, <1>13, <2>1, <3>3, OutFacts
  <2>2. CASE raced
    <3>1. due' = [due EXCEPT !["main"] = Upto(due["main"], Len(due["main"]) - Len(data) + k) \o rest]
      BY <1>9, <2>2, OutFacts
    <3>2. Len(due["main"]) - Len(data) + k = Len(d) + k
      <4>1. Len(due["main"]) = Len(d) + Len(data) /\ Len(d) \in Nat /\ Len(data) \in Nat
        BY <1>13, ConcatProperties, LenProperties
      <4> QED
        BY <1>18, <4>1
    <3>3. Upto(due["main"], Len(due["main"]) - Len(data) + k) = d \o t
      <4>1. Upto(d \o data, Len(d) + k) = d \o Upto(data, k)
        BY <1>18, CutOver
      <4> QED
        BY <1>13, <1>18, <3>2, <4>1, Zenon
    <3>4. (d \o t) \o rest \in Seq(Byte)
      BY <1>18, ConcatProperties
    <3>5. due' = [due EXCEPT !["main"] = (d \o t) \o rest]
      BY <3>1, <3>3, Zenon
    <3> QED
      BY <3>4, <3>5, OutFacts DEF Writer
  <2> QED
    BY <2>1, <2>2
<1>20. /\ main'.pc \in {"idle", "add"} /\ main'.data = rest /\ main' \in Place
       /\ main'.pc = "idle" => main'.data = <<>>
  <2>1. 0 \in 0 .. FifoSize /\ <<>> \in Seq(Byte)
    <3>1. 0 \in 0 .. FifoSize
      BY OutFacts
    <3> QED
      BY <3>1, Nothing, Zenon
  <2> QED
    BY <1>8, <2>1 DEF Idle, Place
<1>21. TypeOKOut'
  <2>1. done' \in 0 .. MaxDone /\ raced' \in BOOLEAN
    <3>1. 0 \in 0 .. MaxDone
      BY OutFacts
    <3> QED
      BY <1>8, <3>1, Zenon
  <2>2. /\ endpoint' \in Endpoint /\ Len(endpoint'.fifo) <= FifoSize
        /\ Len(endpoint'.flight) <= Packet /\ (endpoint'.flight # <<>> => endpoint'.busy)
    BY <1>7, <1>10 DEF EndpointOK
  <2> QED
    BY <1>8, <1>19, <1>20, <2>1, <2>2 DEF OutInv, TypeOKOut, Place, Endpoint
<1>22. RoomKept'
  BY <1>20 DEF RoomKept
<1>23. Sent'
  BY <1>7, <1>8, <1>10, <1>11, <1>16, <1>17, <1>18, <1>19, <1>20 DEF Sent, SentAt
<1>24. endpoint'.fifo # <<>> => endpoint'.busy
  BY <1>7, <1>10 DEF EndpointOK
<1>25. k \in Nat
  BY <1>18, LenProperties
<1>26. /\ endpoint.busy => /\ endpoint'.busy /\ endpoint'.flight = endpoint.flight
                           /\ Len(endpoint'.fifo) = Len(endpoint.fifo) + k
       /\ Len(endpoint.fifo) + k > 0 => endpoint'.busy
       /\ ~endpoint.busy => Len(endpoint'.flight) = AtMost(Packet, Len(endpoint.fifo) + k)
  BY <1>7, <1>10, Zenon DEF Flushed
<1>27. endpoint.busy => Len(endpoint'.fifo) >= Len(endpoint.fifo)
  BY <1>25, <1>26, OutFacts
<1>28. ASSUME main'.data # <<>>, main.free # 0, endpoint.busy \/ main.free = FifoSize
       PROVE  /\ endpoint'.busy
              /\ endpoint'.fifo # <<>> \/ Len(endpoint'.flight) = Packet
  <2>1. n = free
    <3>1. PICK l \in Nat : l = Len(data)
      BY LenProperties
    <3>2. n # l
      <4>1. Len(rest) = Len(data) - n
        BY <1>5, Cut
      <4>2. Len(rest) # 0
        BY <1>20, <1>28, EmptySeq
      <4> QED
        BY <3>1, <4>1, <4>2
    <3>3. AtMost(l, free) = l \/ AtMost(l, free) = free
      BY AtMostFacts
    <3> QED
      BY <1>3, <3>1, <3>2, <3>3
  <2>2. PICK x \in Nat : x = Room(endpoint) /\ x = FifoSize - Len(endpoint.fifo)
    BY OutFacts
  <2>3. k = n \/ k = x
    <3>1. n \in Nat
      BY <1>3, LenProperties
    <3>2. AtMost(n, x) = n \/ AtMost(n, x) = x
      BY <3>1, AtMostFacts
    <3> QED
      BY <1>6, <2>2, <3>2
  <2>4. free # 0 /\ (endpoint.busy \/ free = FifoSize)
    BY <1>2, <1>28
  <2>y. PICK y \in Nat : /\ y = Len(endpoint.fifo) /\ x = FifoSize - y
                        /\ FifoSize \in Nat \ {0} /\ (~endpoint.busy => y = 0)
    <3>1. ~endpoint.busy => Len(endpoint.fifo) = 0
      BY Nothing DEF OutInv
    <3>2. FifoSize \in Nat \ {0} /\ Len(endpoint.fifo) \in Nat
      BY OutFacts
    <3> QED
      BY <2>2, <3>1, <3>2
  <2>k. k \in Nat /\ n \in Nat /\ k <= x /\ n = free
    BY <1>3, <1>10, <1>25, <2>1, <2>2, LenProperties
  <2>5. Len(endpoint.fifo) + k > 0
    <3>1. y + k > 0
      BY <2>3, <2>4, <2>y, <2>k
    <3> QED
      BY <2>y, <3>1
  <2>6. CASE endpoint.busy
    <3>1. endpoint'.fifo # <<>>
      BY <1>26, <2>5, <2>6, Nothing
    <3> QED
      BY <1>26, <2>6, <3>1
  <2>7. CASE ~endpoint.busy
    <3>1. k = x
      BY <2>3, <2>4, <2>7, <2>y, <2>k
    <3>2. Len(endpoint.fifo) + k = FifoSize
      <4>1. y + k = FifoSize
        BY <2>y, <3>1
      <4> QED
        BY <2>y, <4>1
    <3>3. AtMost(Packet, FifoSize) = Packet
      BY OutFacts, AtMostLess
    <3>4. Len(endpoint'.flight) = Packet
      BY <1>26, <2>7, <3>2, <3>3, Zenon
    <3> QED
      BY <1>26, <2>5, <3>4
  <2> QED
    BY <2>6, <2>7
<1>29. WriteAdds
  BY <1>26, <1>27, <1>28 DEF WriteAdds
<1> QED
  BY <1>12, <1>20, <1>21, <1>22, <1>23, <1>24, <1>29 DEF OutInv

\* What the interrupt writes goes behind what there is, and the queue is used only
\* when the endpoint is full.
InterruptAdds ==
    /\ endpoint.busy => /\ endpoint'.busy /\ endpoint'.flight = endpoint.flight
                        /\ Len(endpoint'.fifo) >= Len(endpoint.fifo)
    /\ usb_queue # <<>> => usb_queue' # <<>>
    /\ Awake => Awake'

\* usb_write in the interrupt.
LEMMA InterruptKeeps ==
    ASSUME OutInv, NEW text \in Seq(Char), UsbInterruptWrite(text)
    PROVE  OutInv' /\ InterruptAdds
<1>1. PICK data \in Seq(Byte) : data = Bytes("usb", text) /\ Own("usb", data)
  BY BytesFacts DEF Writer
<1>2. connected' = connected /\ main' = main /\ done' = done
  BY DEF UsbInterruptWrite
<1>3. CASE ~connected
  <2>1. endpoint' = endpoint /\ usb_queue' = usb_queue /\ due' = due /\ raced' = raced
    BY <1>3 DEF UsbInterruptWrite
  <2>2. connected' \in BOOLEAN /\ done' \in 0 .. MaxDone
    BY <1>2 DEF OutInv, TypeOKOut
  <2>3. Len(endpoint.fifo) >= Len(endpoint.fifo)
    BY OutFacts
  <2> QED
    BY <1>2, <2>1, <2>2, <2>3, OutKept DEF InterruptAdds, Awake
<1>4. CASE connected
  <2>1. PICK c : c = IF usb_queue = <<>> THEN AtMost(Len(data), Room(endpoint)) ELSE 0
    OBVIOUS
  <2>2. PICK m : m = AtMost(Len(data) - c, QueueSize - Len(usb_queue))
    OBVIOUS
  <2>3. /\ endpoint' = IF usb_queue = <<>> THEN WriteFlush(endpoint, Upto(data, c)) ELSE endpoint
        /\ usb_queue' = usb_queue \o Upto(From(data, c), m)
        /\ due' = [due EXCEPT !["usb"] = @ \o Upto(data, c + m)]
        /\ raced' = (main.pc = "write" /\ (raced \/ c > 0))
    <3>1. c = IF usb_queue = <<>> THEN AtMost(Len(data), tud_cdc_write_available(endpoint)) ELSE 0
      BY <2>1 DEF Room, tud_cdc_write_available
    <3>2. connected
      BY <1>4
    <3> QED
      BY <1>1, <2>2, <3>1, <3>2, Zenon DEF UsbInterruptWrite
  <2>4. /\ c \in 0 .. Len(data) /\ (usb_queue # <<>> => c = 0)
        /\ (usb_queue = <<>> => c = AtMost(Len(data), Room(endpoint)) /\ c <= Room(endpoint))
    <3>1. PICK l \in Nat : l = Len(data)
      BY LenProperties
    <3>2. PICK x \in Nat : x = Room(endpoint)
      BY OutFacts
    <3>3. AtMost(l, x) \in 0 .. l /\ AtMost(l, x) \in 0 .. x
      BY AtMostFacts
    <3>4. c = IF usb_queue = <<>> THEN AtMost(l, x) ELSE 0
      BY <2>1, <3>1, <3>2
    <3> QED
      BY <3>1, <3>2, <3>3, <3>4
  <2>5. /\ m \in 0 .. Len(data) - c /\ m <= QueueSize - Len(usb_queue)
        /\ m = Len(data) - c \/ m = QueueSize - Len(usb_queue)
    <3>1. PICK l \in Nat : l = Len(data) - c
      <4>1. Len(data) \in Nat
        BY LenProperties
      <4> QED
        BY <2>4, <4>1
    <3>2. PICK x \in Nat : x = QueueSize - Len(usb_queue)
      BY OutFacts
    <3>3. /\ AtMost(l, x) \in 0 .. l /\ AtMost(l, x) \in 0 .. x
          /\ AtMost(l, x) = l \/ AtMost(l, x) = x
      BY AtMostFacts
    <3> QED
      BY <2>2, <3>1, <3>2, <3>3
  <2>6. PICK t \in Seq(Byte) : t = Upto(data, c) /\ Len(t) = c
    BY <2>4, Cut
  <2>7. PICK f \in Seq(Byte) : f = From(data, c) /\ Len(f) = Len(data) - c
    BY <2>4, Cut
  <2>8. PICK z \in Seq(Byte) : z = Upto(f, m) /\ Len(z) = m
    BY <2>5, <2>7, Cut
  <2>9. PICK p \in Seq(Byte) : p = Upto(data, c + m) /\ p = t \o z
    <3>1. Upto(data, c) \o Upto(From(data, c), m) = Upto(data, c + m)
      BY <2>4, <2>5, UptoFrom
    <3>2. t \o z \in Seq(Byte)
      BY ConcatProperties
    <3> QED
      BY <2>6, <2>7, <2>8, <3>1, <3>2
  <2>10. Own("usb", t) /\ Own("usb", z) /\ Own("usb", p)
    <3>1. Own("usb", t) /\ Own("usb", f)
      BY <1>1, <2>4, <2>6, <2>7, OwnParts
    <3>2. Own("usb", z)
      BY <2>5, <2>7, <2>8, <3>1, OwnParts
    <3> QED
      BY <2>9, <3>1, <3>2, OwnJoined
  <2>11. PICK X \in Seq(Byte) : X = endpoint.flight \o endpoint.fifo
    BY OutFacts
  <2>12f. usb_queue = <<>> => Flushed(endpoint, t, endpoint', c)
    <3>1. SUFFICES ASSUME usb_queue = <<>>
                   PROVE  Flushed(endpoint, t, endpoint', c)
      OBVIOUS
    <3>2. endpoint' = WriteFlush(endpoint, t)
      BY <2>3, <2>6, <3>1
    <3>3. c = AtMost(Len(t), Room(endpoint))
      <4>1. PICK x \in Nat : x = Room(endpoint)
        BY OutFacts
      <4>2. c \in Nat /\ c <= x
        BY <2>4, <3>1, <4>1, LenProperties
      <4>3. AtMost(c, x) = c
        BY <4>2, AtMostLess
      <4> QED
        BY <2>6, <4>1, <4>3, Zenon
    <3>4. Usable(endpoint)
      BY OutFacts DEF EndpointOK, Usable
    <3> QED
      BY <3>2, <3>3, <3>4, Flush
  <2>12. /\ EndpointOK(endpoint') /\ endpoint'.flight \o endpoint'.fifo = X \o t
         /\ usb_queue = <<>> =>
              /\ endpoint.busy => Len(endpoint'.fifo) = Len(endpoint.fifo) + c
              /\ ~endpoint.busy =>
                   /\ Len(endpoint'.flight) = AtMost(Packet, Len(endpoint.fifo) + c)
                   /\ Len(endpoint'.fifo) = Len(endpoint.fifo) + c - Len(endpoint'.flight)
         /\ usb_queue # <<>> => endpoint' = endpoint
    <3>1. CASE usb_queue = <<>>
      <4>1. Upto(t, c) = t
        BY <2>6, CutAll, Zenon
      <4> QED
        BY <2>11, <2>12f, <3>1, <4>1, Zenon DEF Flushed
    <3>2. CASE usb_queue # <<>>
      <4>1. endpoint' = endpoint
        BY <2>3, <3>2
      <4>2. t = <<>>
        <5>1. Len(t) = 0
          BY <2>4, <2>6, <3>2
        <5> QED
          BY <5>1, EmptySeq
      <4>3. X \o t = X
        BY <4>2, ConcatEmptySeq
      <4> QED
        BY <2>11, <3>2, <4>1, <4>3, OutFacts, Zenon
    <3> QED
      BY <3>1, <3>2
  <2>13. /\ usb_queue' = usb_queue \o z /\ usb_queue' \in Seq(Byte)
         /\ Len(usb_queue') = Len(usb_queue) + m /\ Len(usb_queue') <= QueueSize
    <3>1. usb_queue' = usb_queue \o z
      BY <2>3, <2>7, <2>8
    <3>2. usb_queue \in Seq(Byte)
      BY OutFacts
    <3>3. usb_queue \o z \in Seq(Byte) /\ Len(usb_queue \o z) = Len(usb_queue) + Len(z)
      BY <3>2, ConcatProperties
    <3>4. usb_queue' \in Seq(Byte) /\ Len(usb_queue') = Len(usb_queue) + m
      BY <2>8, <3>1, <3>3
    <3>5. m \in Nat
      BY <2>4, <2>5, LenProperties
    <3> QED
      BY <2>5, <3>1, <3>4, <3>5, OutFacts
  <2>14. (X \o t) \o (usb_queue \o z) = (X \o usb_queue) \o p /\ X \o usb_queue \in Seq(Byte)
    <3>0. usb_queue \in Seq(Byte)
      BY OutFacts
    <3>1. X \o usb_queue \in Seq(Byte) /\ X \o t \in Seq(Byte)
      BY <3>0, ConcatProperties
    <3>2. CASE usb_queue = <<>>
      <4>1. usb_queue \o z = z /\ X \o usb_queue = X
        BY <3>2, ConcatEmptySeq
      <4>2. (X \o t) \o z = X \o (t \o z)
        BY Assoc
      <4> QED
        BY <2>9, <3>1, <4>1, <4>2, Zenon
    <3>3. CASE usb_queue # <<>>
      <4>1. t = <<>>
        <5>1. Len(t) = 0
          BY <2>4, <2>6, <3>3
        <5> QED
          BY <5>1, EmptySeq
      <4>2. X \o t = X /\ t \o z = z
        BY <4>1, ConcatEmptySeq
      <4>3. X \o (usb_queue \o z) = (X \o usb_queue) \o z
        BY <3>0, Assoc, ZenonT(40)
      <4> QED
        BY <2>9, <3>1, <4>2, <4>3, Zenon
    <3> QED
      BY <3>2, <3>3
  <2>15. PICK d \in Seq(Byte) : due["main"] = d \o main.data /\ Ordered("main", X \o usb_queue, d)
    BY <2>11 DEF OutInv, Sent, SentAt
  <2>16. Ordered("usb", X \o usb_queue, due["usb"])
    BY <2>11 DEF OutInv, Sent, SentAt
  <2>17. Ordered("usb", (X \o usb_queue) \o p, due["usb"] \o p)
    <3>1. Ordered("usb", p, p)
      BY <2>10, OwnOrdered
    <3>2. due["usb"] \in Seq(Byte)
      BY OutFacts
    <3> QED
      BY <2>14, <2>16, <3>1, <3>2, Compose
  <2>18. Ordered("main", (X \o usb_queue) \o p, d)
    <3>1. Ordered("main", p, <<>>)
      BY <2>10, OthersOrdered
    <3>2. <<>> \in Seq(Byte)
      BY Nothing, Zenon
    <3>3. Ordered("main", (X \o usb_queue) \o p, d \o <<>>)
      BY <2>14, <2>15, <3>1, <3>2, Compose
    <3> QED
      BY <3>3, ConcatEmptySeq
  <2>19. /\ due'["usb"] = due["usb"] \o p /\ due'["main"] = due["main"]
         /\ due' \in [Writer -> Seq(Byte)]
    <3>1. due["usb"] \o p \in Seq(Byte)
      BY OutFacts, ConcatProperties
    <3>2. due' = [due EXCEPT !["usb"] = due["usb"] \o p]
      BY <2>3, <2>9, OutFacts
    <3> QED
      BY <3>1, <3>2, OutFacts DEF Writer
  <2>20. TypeOKOut'
    <3>1. raced' \in BOOLEAN
      <4>1. (main.pc = "write" /\ (raced \/ c > 0)) \in BOOLEAN
        OBVIOUS
      <4> QED
        BY <2>3, <4>1, Zenon
    <3>2. /\ endpoint' \in Endpoint /\ Len(endpoint'.fifo) <= FifoSize
          /\ Len(endpoint'.flight) <= Packet /\ (endpoint'.flight # <<>> => endpoint'.busy)
      BY <2>12 DEF EndpointOK
    <3> QED
      BY <1>2, <2>13, <2>19, <3>1, <3>2 DEF OutInv, TypeOKOut, Endpoint
  <2>21. Room(endpoint') = FifoSize - Len(endpoint'.fifo)
    BY DEF Room
  <2>22. usb_queue' # <<>> /\ usb_queue = <<>> => c = Room(endpoint) /\ Room(endpoint') <= Packet
    <3>1. SUFFICES ASSUME usb_queue' # <<>>, usb_queue = <<>>
                   PROVE  c = Room(endpoint) /\ Room(endpoint') <= Packet
      OBVIOUS
    <3>2. m # 0
      <4>1. ASSUME m = 0 PROVE FALSE
        <5>1. Len(usb_queue) = 0
          BY <3>1, Nothing
        <5>2. Len(usb_queue') = 0
          BY <2>13, <4>1, <5>1
        <5> QED
          BY <2>13, <3>1, <5>2, EmptySeq
      <4> QED
        BY <4>1
    <3>3. c = Room(endpoint)
      <4>1. PICK l \in Nat : l = Len(data)
        BY LenProperties
      <4>2. PICK x \in Nat : x = Room(endpoint)
        BY OutFacts
      <4>3. c = AtMost(l, x)
        BY <2>4, <3>1, <4>1, <4>2
      <4>4. c # l
        BY <2>5, <3>2, <4>1
      <4>5. AtMost(l, x) = l \/ AtMost(l, x) = x
        BY AtMostFacts
      <4> QED
        BY <4>2, <4>3, <4>4, <4>5
    <3>4. Len(endpoint.fifo) + c = FifoSize
      BY <3>3, OutFacts, SMTT(30)
    <3>5. CASE endpoint.busy
      <4>1. Len(endpoint'.fifo) = FifoSize
        BY <2>12, <3>1, <3>4, <3>5
      <4> QED
        BY <2>21, <3>3, <4>1, OutFacts
    <3>6. CASE ~endpoint.busy
      <4>1. Len(endpoint'.flight) = AtMost(Packet, FifoSize)
        <5>1. Len(endpoint'.flight) = AtMost(Packet, Len(endpoint.fifo) + c)
          BY <2>12, <3>1, <3>6
        <5> QED
          BY <3>4, <5>1, Zenon
      <4>2. AtMost(Packet, FifoSize) = Packet
        BY OutFacts, AtMostLess
      <4>3. Len(endpoint'.fifo) = FifoSize - Packet
        <5>1. Len(endpoint'.fifo) = Len(endpoint.fifo) + c - Len(endpoint'.flight)
          BY <2>12, <3>1, <3>6
        <5>2. Len(endpoint'.flight) = Packet
          BY <4>1, <4>2
        <5>3. Len(endpoint'.fifo) = FifoSize - Len(endpoint'.flight)
          <6>1. PICK y \in Nat, v \in Nat, h \in Nat :
                  y = Len(endpoint.fifo) /\ v = Len(endpoint'.fifo) /\ h = Len(endpoint'.flight)
            <7>1. endpoint'.fifo \in Seq(Byte) /\ endpoint'.flight \in Seq(Byte)
              BY <2>12 DEF EndpointOK, Endpoint
            <7>2. Len(endpoint'.fifo) \in Nat /\ Len(endpoint'.flight) \in Nat
              BY <7>1, LenProperties
            <7> QED
              BY <7>2, OutFacts
          <6>2. v = y + (c - h) /\ y + c = FifoSize
            BY <3>4, <5>1, <6>1, Zenon
          <6>3. v = FifoSize - h
            BY <2>4, <6>2, LenProperties
          <6> QED
            BY <6>1, <6>3
        <5> QED
          BY <5>2, <5>3, Zenon
      <4> QED
        BY <2>21, <3>3, <4>3, OutFacts
    <3> QED
      BY <3>5, <3>6
  <2>23. c = 0 => Room(endpoint') = Room(endpoint)
    <3>1. SUFFICES ASSUME c = 0
                   PROVE  Room(endpoint') = Room(endpoint)
      OBVIOUS
    <3>2. CASE usb_queue # <<>>
      BY <2>12, <3>2
    <3>3. CASE usb_queue = <<>> /\ endpoint.busy
      <4>1. Len(endpoint'.fifo) = Len(endpoint.fifo)
        BY <2>12, <3>1, <3>3, OutFacts
      <4> QED
        BY <4>1 DEF Room
    <3>4. CASE usb_queue = <<>> /\ ~endpoint.busy
      <4>1. endpoint.fifo = <<>> /\ Len(endpoint.fifo) = 0
        BY <3>4, Nothing DEF OutInv
      <4>2. Len(endpoint'.flight) = AtMost(Packet, 0)
        <5>1. Len(endpoint'.flight) = AtMost(Packet, Len(endpoint.fifo) + c)
          BY <2>12, <3>4
        <5>2. Len(endpoint.fifo) + c = 0
          BY <3>1, <4>1
        <5> QED
          BY <5>1, <5>2, Zenon
      <4>3. AtMost(Packet, 0) = 0
        BY OutFacts DEF AtMost
      <4>4. Len(endpoint'.fifo) = 0
        <5>1. Len(endpoint'.fifo) = Len(endpoint.fifo) + c - Len(endpoint'.flight)
          BY <2>12, <3>4
        <5>2. Len(endpoint'.flight) = 0
          BY <4>2, <4>3
        <5> QED
          BY <3>1, <4>1, <5>1, <5>2
      <4> QED
        BY <4>1, <4>4 DEF Room
    <3> QED
      BY <3>2, <3>3, <3>4
  <2>24. RoomKept'
    <3>1. ASSUME main.pc \in {"room", "write"}
          PROVE  /\ Own("usb", usb_queue')
                 /\ usb_queue' # <<>> => Room(endpoint') <= Packet
      <4>1. Own("usb", usb_queue) /\ (usb_queue # <<>> => Room(endpoint) <= Packet)
        BY <3>1 DEF OutInv, RoomKept
      <4>2. Own("usb", usb_queue')
        BY <2>10, <2>13, <4>1, OutFacts, OwnJoined
      <4>3. usb_queue # <<>> => Room(endpoint') <= Packet
        BY <2>12, <4>1
      <4> QED
        BY <2>22, <4>2, <4>3
    <3>2. ASSUME main.pc = "write", ~raced'
          PROVE  /\ main.free <= Room(endpoint')
                 /\ usb_queue' # <<>> => main.free <= Packet
      <4>1. ~raced /\ c = 0
        <5>1. ~raced /\ ~(c > 0)
          BY <2>3, <3>2
        <5> QED
          BY <2>4, <5>1, LenProperties
      <4>2. main.free <= Room(endpoint) /\ (usb_queue # <<>> => main.free <= Packet)
        BY <3>2, <4>1 DEF OutInv, RoomKept
      <4>3. usb_queue' # <<>> /\ usb_queue = <<>> => main.free <= Packet
        BY <2>22, <4>1, <4>2, OutFacts
      <4> QED
        BY <2>23, <4>1, <4>2, <4>3
    <3> QED
      BY <1>2, <3>1, <3>2 DEF RoomKept
  <2>25. Sent'
    BY <1>2, <2>12, <2>13, <2>14, <2>15, <2>17, <2>18, <2>19 DEF Sent, SentAt
  <2>26. /\ endpoint'.fifo # <<>> => endpoint'.busy
         /\ main'.pc = "idle" => main'.data = <<>>
         /\ Own("main", main'.data)
    BY <1>2, <2>12 DEF EndpointOK, OutInv
  <2>27. InterruptAdds
    <3>1. CASE usb_queue = <<>>
      <4>1. /\ endpoint.busy => endpoint'.busy /\ endpoint'.flight = endpoint.flight
            /\ Len(endpoint.fifo) + c > 0 => endpoint'.busy
        BY <2>12f, <3>1, Zenon DEF Flushed
      <4>2. c \in Nat
        BY <2>4, LenProperties
      <4>3. endpoint.busy => Len(endpoint'.fifo) >= Len(endpoint.fifo)
        BY <2>12, <3>1, <4>2, OutFacts
      <4>4. usb_queue' # <<>> => Len(endpoint.fifo) + c > 0
        BY <2>22, <3>1, OutFacts, SMTT(30)
      <4> QED
        BY <3>1, <4>1, <4>3, <4>4 DEF InterruptAdds, Awake
    <3>2. CASE usb_queue # <<>>
      <4>1. endpoint' = endpoint /\ Len(endpoint.fifo) >= Len(endpoint.fifo)
        BY <2>12, <3>2, OutFacts
      <4>2. usb_queue' # <<>>
        <5>1. Len(usb_queue) # 0
          BY <3>2, OutFacts, EmptySeq
        <5>2. Len(usb_queue') # 0
          BY <2>5, <2>4, <2>13, <5>1, OutFacts, LenProperties
        <5> QED
          BY <5>2, Nothing
      <4> QED
        BY <3>2, <4>1, <4>2 DEF InterruptAdds, Awake
    <3> QED
      BY <3>1, <3>2
  <2> QED
    BY <2>20, <2>24, <2>25, <2>26, <2>27 DEF OutInv
<1> QED
  BY <1>3, <1>4

\* A transfer is under way again if there was anything to send, or a full packet to end.
CompleteTakes ==
    /\ \/ usb_queue' # <<>> \/ usb_queue # <<>>
       \/ endpoint.fifo # <<>> \/ Len(endpoint.flight) = Packet
       => endpoint'.busy
    /\ Len(endpoint.fifo) = FifoSize => Len(endpoint'.flight) = Packet

\* tud_cdc_tx_complete_cb.
LEMMA CompleteKeeps ==
    ASSUME OutInv, TxComplete
    PROVE  OutInv' /\ CompleteTakes
<1>1. PICK sent \in Seq(Byte) : sent = endpoint.flight
  BY OutFacts
<1>2. PICK fifo \in Seq(Byte) : fifo = endpoint.fifo
  BY OutFacts
<1>3. PICK e : e = [endpoint EXCEPT !.flight = <<>>, !.busy = FALSE]
  OBVIOUS
<1>4. /\ e.fifo = fifo /\ e.flight = <<>> /\ ~e.busy /\ Usable(e) /\ Room(e) = Room(endpoint)
  <2>1. endpoint \in [fifo : Seq(Byte), flight : Seq(Byte), busy : BOOLEAN]
    BY OutFacts DEF Endpoint
  <2>2. <<>> \in Seq(Byte) /\ Len(<<>>) = 0
    BY Nothing, Zenon
  <2>3. /\ e.fifo = fifo /\ e.flight = <<>> /\ e.busy = FALSE
        /\ e \in [fifo : Seq(Byte), flight : Seq(Byte), busy : BOOLEAN]
    BY <1>2, <1>3, <2>1, <2>2
  <2>4. Len(e.fifo) <= FifoSize /\ Len(e.flight) <= Packet
    BY <1>2, <2>2, <2>3, OutFacts DEF EndpointOK
  <2>5. Usable(e)
    BY <2>3, <2>4 DEF Usable, Endpoint
  <2> QED
    BY <1>2, <2>3, <2>5 DEF Room
<1>5. PICK n : n = AtMost(Len(usb_queue), Room(endpoint))
  OBVIOUS
<1>6. /\ endpoint' = EndTransfer(WriteFlush(e, Upto(usb_queue, n)), sent)
      /\ usb_queue' = From(usb_queue, n)
      /\ due' = [w \in Writer |-> From(due[w], Count(w, sent, Len(sent)))]
      /\ done' = (IF main.pc = "idle" THEN 0 ELSE done + 1)
      /\ connected' = connected /\ main' = main /\ raced' = raced
      /\ main.pc # "idle" => done < MaxDone
  <2>1. tud_cdc_write_available(e) = Room(endpoint)
    BY <1>4 DEF tud_cdc_write_available, Room
  <2> QED
    BY <1>1, <1>3, <1>5, <2>1, Zenon DEF TxComplete, tud_cdc_tx_complete_cb
<1>7. /\ n \in 0 .. Len(usb_queue) /\ n <= Room(endpoint) /\ n \in Nat
      /\ n = Len(usb_queue) \/ n = Room(endpoint)
  <2>1. PICK l \in Nat : l = Len(usb_queue)
    BY OutFacts
  <2>2. PICK x \in Nat : x = Room(endpoint)
    BY OutFacts
  <2>3. /\ AtMost(l, x) \in 0 .. l /\ AtMost(l, x) \in 0 .. x
        /\ AtMost(l, x) = l \/ AtMost(l, x) = x
    BY AtMostFacts
  <2> QED
    BY <1>5, <2>1, <2>2, <2>3
<1>8. PICK u \in Seq(Byte) : u = Upto(usb_queue, n) /\ Len(u) = n
  BY <1>7, OutFacts, Cut
<1>9. PICK q \in Seq(Byte) : q = From(usb_queue, n) /\ u \o q = usb_queue
                             /\ Len(q) = Len(usb_queue) - n
  BY <1>7, <1>8, OutFacts, Cut, ZenonT(40)
<1>10. PICK r : r = WriteFlush(e, u)
  OBVIOUS
<1>11. /\ EndpointOK(r) /\ r.flight \o r.fifo = fifo \o u
       /\ Len(fifo) + n > 0 => r.busy
       /\ Len(r.flight) = AtMost(Packet, Len(fifo) + n)
       /\ Len(r.fifo) = Len(fifo) + n - Len(r.flight)
  <2>1. n = AtMost(Len(u), Room(e))
    <3>1. PICK x \in Nat : x = Room(endpoint)
      BY OutFacts
    <3>2. AtMost(n, x) = n
      BY <1>7, <3>1, AtMostLess
    <3> QED
      BY <1>4, <1>8, <3>1, <3>2, Zenon
  <2>2. /\ EndpointOK(r) /\ r.flight \o r.fifo = (e.flight \o e.fifo) \o Upto(u, n)
        /\ Len(e.fifo) + n > 0 => r.busy
        /\ Len(r.flight) = AtMost(Packet, Len(e.fifo) + n)
        /\ Len(r.fifo) = Len(e.fifo) + n - Len(r.flight)
    <3>1. Flushed(e, u, r, n)
      BY <1>4, <1>10, <2>1, Flush
    <3> QED
      BY <1>4, <3>1, Zenon DEF Flushed
  <2>3. Upto(u, n) = u
    BY <1>8, CutAll, Zenon
  <2>4. e.flight \o e.fifo = fifo
    BY <1>4, ConcatEmptySeq
  <2> QED
    BY <1>4, <2>2, <2>3, <2>4, Zenon
<1>12. /\ EndpointOK(endpoint') /\ endpoint'.flight = r.flight /\ endpoint'.fifo = r.fifo
       /\ r.busy \/ Len(sent) = Packet => endpoint'.busy
  <2>1. endpoint' = IF ~r.busy /\ Len(sent) = Packet THEN [r EXCEPT !.busy = TRUE] ELSE r
    BY <1>6, <1>8, <1>10, Zenon DEF EndTransfer
  <2>2. r \in [fifo : Seq(Byte), flight : Seq(Byte), busy : BOOLEAN]
    BY <1>11 DEF EndpointOK, Endpoint
  <2>3. /\ endpoint' \in [fifo : Seq(Byte), flight : Seq(Byte), busy : BOOLEAN]
        /\ endpoint'.flight = r.flight /\ endpoint'.fifo = r.fifo
        /\ endpoint'.busy = r.busy \/ endpoint'.busy = TRUE
        /\ r.busy \/ Len(sent) = Packet => endpoint'.busy
    BY <2>1, <2>2
  <2>4. /\ Len(r.fifo) <= FifoSize /\ Len(r.flight) <= Packet
        /\ r.flight # <<>> => r.busy
        /\ r.fifo # <<>> => r.busy
    BY <1>11 DEF EndpointOK
  <2> QED
    BY <2>3, <2>4 DEF EndpointOK, Endpoint
<1>13. /\ (endpoint'.flight \o endpoint'.fifo) \o q = fifo \o usb_queue
       /\ (sent \o fifo) \o usb_queue = sent \o (fifo \o usb_queue)
       /\ fifo \o usb_queue \in Seq(Byte)
  <2>1. (fifo \o u) \o q = fifo \o (u \o q)
    BY Assoc
  <2>2. usb_queue \in Seq(Byte)
    BY OutFacts
  <2>3. (sent \o fifo) \o usb_queue = sent \o (fifo \o usb_queue)
    BY <2>2, Assoc, SMTT(30)
  <2>4. fifo \o usb_queue \in Seq(Byte)
    BY <2>2, ConcatProperties
  <2> QED
    BY <1>9, <1>11, <1>12, <2>1, <2>3, <2>4, Zenon
<1>14. PICK a : a = Count("usb", sent, Len(sent))
  OBVIOUS
<1>15. PICK b : b = Count("main", sent, Len(sent))
  OBVIOUS
<1>16. PICK d \in Seq(Byte) : /\ due["main"] = d \o main.data
                              /\ Ordered("main", sent \o (fifo \o usb_queue), d)
  <2>1. PICK d \in Seq(Byte) : /\ due["main"] = d \o main.data
                              /\ Ordered("main", (endpoint.flight \o endpoint.fifo) \o usb_queue, d)
    BY DEF OutInv, Sent, SentAt
  <2> QED
    BY <1>1, <1>2, <1>13, <2>1
<1>17. Ordered("usb", sent \o (fifo \o usb_queue), due["usb"])
  <2>1. Ordered("usb", (endpoint.flight \o endpoint.fifo) \o usb_queue, due["usb"])
    BY DEF OutInv, Sent, SentAt
  <2> QED
    BY <1>1, <1>2, <1>13, <2>1
<1>18. /\ a \in 0 .. Len(due["usb"]) /\ Ordered("usb", fifo \o usb_queue, From(due["usb"], a))
       /\ From(due["usb"], a) \in Seq(Byte)
  <2>1. due["usb"] \in Seq(Byte)
    BY OutFacts
  <2>2. a \in 0 .. Len(due["usb"]) /\ Ordered("usb", fifo \o usb_queue, From(due["usb"], a))
    BY <1>13, <1>14, <1>17, <2>1, Split
  <2> QED
    BY <2>1, <2>2, Cut
<1>19. /\ b \in 0 .. Len(d) /\ Ordered("main", fifo \o usb_queue, From(d, b))
       /\ From(d, b) \in Seq(Byte)
  <2>1. b \in 0 .. Len(d) /\ Ordered("main", fifo \o usb_queue, From(d, b))
    BY <1>13, <1>15, <1>16, Split
  <2> QED
    BY <2>1, Cut
<1>20. /\ due'["usb"] = From(due["usb"], a) /\ due'["main"] = From(d, b) \o main.data
       /\ due' \in [Writer -> Seq(Byte)]
  <2>1. /\ due'["usb"] = From(due["usb"], a) /\ due'["main"] = From(due["main"], b)
        /\ due' = [w \in Writer |-> due'[w]] /\ Writer = {"main", "usb"}
    BY <1>6, <1>14, <1>15 DEF Writer
  <2>2. main.data \in Seq(Byte)
    BY OutFacts
  <2>3. From(d \o main.data, b) = From(d, b) \o main.data
    BY <1>19, <2>2, CutFirst
  <2>4. From(d, b) \o main.data \in Seq(Byte)
    BY <1>19, <2>2, ConcatProperties
  <2>5. due'["main"] = From(d, b) \o main.data
    BY <1>16, <2>1, <2>3, Zenon
  <2> QED
    BY <1>18, <2>1, <2>4, <2>5
<1>21. TypeOKOut'
  <2>1. done' \in 0 .. MaxDone
    <3>1. done \in 0 .. MaxDone
      BY DEF OutInv, TypeOKOut
    <3> QED
      BY <1>6, <3>1, OutFacts
  <2>2. /\ endpoint' \in Endpoint /\ Len(endpoint'.fifo) <= FifoSize
        /\ Len(endpoint'.flight) <= Packet /\ (endpoint'.flight # <<>> => endpoint'.busy)
    BY <1>12 DEF EndpointOK
  <2>3. usb_queue' \in Seq(Byte) /\ Len(usb_queue') <= QueueSize
    BY <1>6, <1>7, <1>9, OutFacts
  <2> QED
    BY <1>6, <1>20, <2>1, <2>2, <2>3 DEF OutInv, TypeOKOut, Endpoint
<1>22. Sent'
  <2>1. /\ Ordered("usb", (endpoint'.flight \o endpoint'.fifo) \o usb_queue', due'["usb"])
        /\ Ordered("main", (endpoint'.flight \o endpoint'.fifo) \o usb_queue', From(d, b))
        /\ due'["main"] = From(d, b) \o main'.data /\ From(d, b) \in Seq(Byte)
    BY <1>6, <1>9, <1>13, <1>18, <1>19, <1>20, Zenon
  <2> QED
    BY <2>1 DEF Sent, SentAt
<1>23. PICK l \in Nat : l = Len(fifo) /\ l + Room(endpoint) = FifoSize
  BY <1>2, OutFacts
<1>24. PICK g \in Nat : /\ g = AtMost(Packet, l + n) /\ Len(endpoint'.flight) = g
                        /\ Len(endpoint'.fifo) = (l + n) - g /\ g \in 0 .. l + n
                        /\ g = Packet \/ g = l + n
  <2>1. l + n \in Nat
    BY <1>7
  <2>2. /\ AtMost(Packet, l + n) \in 0 .. l + n /\ AtMost(Packet, l + n) \in Nat
        /\ AtMost(Packet, l + n) = Packet \/ AtMost(Packet, l + n) = l + n
    BY <2>1, OutFacts, AtMostFacts
  <2>3. Len(endpoint'.flight) = AtMost(Packet, l + n)
    BY <1>11, <1>12, <1>23, Zenon
  <2>4. Len(endpoint'.fifo) = l + n - AtMost(Packet, l + n)
    BY <1>11, <1>12, <1>23, <2>3, Zenon
  <2>5. PICK g \in Nat : g = AtMost(Packet, l + n)
    BY <2>2
  <2>6. g \in 0 .. l + n /\ (g = Packet \/ g = l + n)
    BY <2>2, <2>5
  <2>7. Len(endpoint'.flight) = g
    BY <2>3, <2>5, Zenon
  <2>8. Len(endpoint'.fifo) = (l + n) - g
    <3>1. Len(endpoint'.fifo) = l + (n - g)
      BY <2>4, <2>5, Zenon
    <3>2. l + (n - g) = (l + n) - g
      BY <1>7
    <3> QED
      BY <3>1, <3>2, Zenon
  <2> QED
    BY <2>5, <2>6, <2>7, <2>8, Zenon
<1>25. PICK x \in Int : x = Room(endpoint') /\ x = FifoSize - ((l + n) - g)
  <2>1. Room(endpoint') = FifoSize - ((l + n) - g)
    BY <1>24, Zenon DEF Room
  <2>2. FifoSize - ((l + n) - g) \in Int
    BY <1>7, OutFacts
  <2> QED
    BY <2>1, <2>2
<1>26. usb_queue' # <<>> => usb_queue # <<>> /\ Room(endpoint') <= Packet
  <2>1. SUFFICES ASSUME usb_queue' # <<>>
                 PROVE  usb_queue # <<>> /\ Room(endpoint') <= Packet
    OBVIOUS
  <2>2. Len(q) # 0
    BY <1>6, <1>9, <2>1, EmptySeq
  <2>3. n # Len(usb_queue) /\ n = Room(endpoint)
    BY <1>7, <1>9, <2>2, OutFacts
  <2>4. usb_queue # <<>>
    BY <1>7, <2>3, Nothing
  <2>5. l + n = FifoSize
    BY <1>23, <2>3
  <2>6. g <= Packet /\ g \in Nat /\ (g = Packet \/ g = l + n)
    BY <1>24, <1>12, OutFacts DEF EndpointOK
  <2>7. FifoSize \in Nat /\ Packet \in Nat /\ FifoSize >= Packet
    BY OutFacts
  <2>8. x <= Packet
    BY <1>25, <2>5, <2>6, <2>7
  <2> QED
    BY <1>25, <2>4, <2>8
<1>27. RoomKept'
  <2>1. ASSUME main.pc \in {"room", "write"}
        PROVE  Own("usb", usb_queue')
    <3>1. Own("usb", usb_queue)
      BY <2>1 DEF OutInv, RoomKept
    <3> QED
      BY <1>6, <1>7, <3>1, OutFacts, OwnParts
  <2>2. ASSUME main.pc = "write", ~raced
        PROVE  main.free <= Room(endpoint')
    <3>1. main.free <= Room(endpoint) /\ (usb_queue # <<>> => main.free <= Packet)
      BY <2>2 DEF OutInv, RoomKept
    <3>2. PICK y \in Nat, z \in Nat : y = main.free /\ z = Room(endpoint) /\ y <= FifoSize
      BY OutFacts
    <3>3. /\ FifoSize \in Nat /\ Packet \in Nat /\ g \in 0 .. l + n /\ l + z = FifoSize
          /\ y <= z /\ n <= z /\ (g = Packet \/ g = l + n)
      BY <1>7, <1>23, <1>24, <3>1, <3>2, OutFacts
    <3>4. CASE usb_queue = <<>>
      <4>1. n = 0
        BY <1>7, <3>4, Nothing
      <4>2. y <= x
        BY <1>25, <3>3, <4>1
      <4> QED
        BY <1>25, <3>2, <4>2
    <3>5. CASE usb_queue # <<>>
      <4>1. y <= Packet
        BY <3>1, <3>2, <3>5
      <4>2. y <= x
        BY <1>7, <1>25, <3>2, <3>3, <4>1, SMTT(30)
      <4> QED
        BY <1>25, <3>2, <4>2
    <3> QED
      BY <3>4, <3>5
  <2>3. ASSUME main.pc = "write", ~raced, usb_queue' # <<>>
        PROVE  main.free <= Packet
    BY <1>26, <2>3 DEF OutInv, RoomKept
  <2> QED
    BY <1>6, <1>26, <2>1, <2>2, <2>3 DEF RoomKept
<1>28. /\ endpoint'.fifo # <<>> => endpoint'.busy
       /\ main'.pc = "idle" => main'.data = <<>>
       /\ Own("main", main'.data)
  BY <1>6, <1>12 DEF EndpointOK, OutInv
<1>29. CompleteTakes
  <2>1. ASSUME usb_queue # <<>> \/ endpoint.fifo # <<>>
        PROVE  Len(fifo) + n > 0
    <3>1. CASE fifo # <<>>
      <4>1. Len(fifo) \in Nat \ {0}
        BY <3>1, EmptySeq
      <4> QED
        BY <1>7, <4>1
    <3>2. CASE usb_queue # <<>>
      <4>1. Len(usb_queue) \in Nat \ {0}
        BY <3>2, OutFacts, EmptySeq
      <4>2. CASE n = Len(usb_queue)
        BY <1>7, <1>23, <4>1, <4>2
      <4>3. CASE n = Room(endpoint)
        BY <1>23, <4>3, OutFacts
      <4> QED
        BY <1>7, <4>2, <4>3
    <3> QED
      BY <1>2, <2>1, <3>1, <3>2
  <2>2. ASSUME Len(endpoint.fifo) = FifoSize
        PROVE  Len(endpoint'.flight) = Packet
    <3>1. l = FifoSize
      BY <1>2, <1>23, <2>2
    <3>2. g \in Nat /\ (g = Packet \/ g = l + n) /\ g <= Packet
      BY <1>12, <1>24, OutFacts DEF EndpointOK
    <3>3. FifoSize \in Nat /\ Packet \in Nat /\ FifoSize >= Packet
      BY OutFacts
    <3>4. g = Packet
      BY <1>7, <3>1, <3>2, <3>3
    <3> QED
      BY <1>24, <3>4
  <2>3. Len(endpoint.flight) = Packet => endpoint'.busy
    BY <1>1, <1>12
  <2>4. Len(fifo) + n > 0 => endpoint'.busy
    BY <1>11, <1>12
  <2> QED
    BY <1>26, <2>1, <2>2, <2>3, <2>4 DEF CompleteTakes
<1> QED
  BY <1>21, <1>22, <1>27, <1>28, <1>29 DEF OutInv

\* tud_cdc_line_state_cb.
LEMMA LineStateKeeps ==
    ASSUME OutInv, LineState
    PROVE  OutInv'
<1>1. done' \in 0 .. MaxDone /\ connected' \in BOOLEAN
  BY DEF OutInv, TypeOKOut, LineState
<1> QED
  BY <1>1, OutKept DEF LineState

\* The invariant implies the order.
LEMMA OutInvInOrder == OutInv => InOrder
<1> SUFFICES ASSUME OutInv, NEW w \in Writer
             PROVE  Ordered(w, endpoint.flight \o endpoint.fifo \o usb_queue \o main.data, due[w])
  BY DEF InOrder
<1>1. PICK x \in Seq(Byte) : x = (endpoint.flight \o endpoint.fifo) \o usb_queue
  BY OutFacts
<1>2. PICK d \in Seq(Byte) : due["main"] = d \o main.data /\ Ordered("main", x, d)
  BY <1>1 DEF OutInv, Sent, SentAt
<1>3. Ordered("usb", x, due["usb"])
  BY <1>1 DEF OutInv, Sent, SentAt
<1>4. main.data \in Seq(Byte) /\ due["usb"] \in Seq(Byte) /\ <<>> \in Seq(Byte)
  BY OutFacts, Nothing, Zenon
<1>5. Own("main", main.data)
  BY DEF OutInv
<1>6. Ordered("main", x \o main.data, due["main"])
  <2>1. Ordered("main", main.data, main.data)
    BY <1>4, <1>5, OwnOrdered
  <2>2. Ordered("main", x \o main.data, d \o main.data)
    BY <1>2, <1>4, <2>1, Compose
  <2> QED
    BY <1>2, <2>2
<1>7. Ordered("usb", x \o main.data, due["usb"])
  <2>1. Ordered("usb", main.data, <<>>)
    BY <1>4, <1>5, OthersOrdered
  <2>2. Ordered("usb", x \o main.data, due["usb"] \o <<>>)
    BY <1>3, <1>4, <2>1, Compose
  <2>3. due["usb"] \o <<>> = due["usb"]
    BY <1>4, ConcatEmptySeq
  <2> QED
    BY <2>2, <2>3
<1> QED
  BY <1>1, <1>6, <1>7 DEF Writer
-----------------------------------------------------------------------------
\* A step of the output, as HELP and the interrupt take it.
OutStep ==
    \/ \E text \in Seq(Char) : UsbWrite(text) \/ UsbInterruptWrite(text)
    \/ WriteStep \/ TxComplete \/ LineState

\* Every step of the output keeps the invariant.
LEMMA OutInvStep ==
    ASSUME OutInv, OutStep \/ UNCHANGED outVars
    PROVE  OutInv'
<1>1. CASE \E text \in Seq(Char) : UsbWrite(text)
  BY <1>1, WriteKeeps
<1>2. CASE \E text \in Seq(Char) : UsbInterruptWrite(text)
  BY <1>2, InterruptKeeps
<1>3. CASE WriteStep
  BY <1>3, RoomKeeps, WriteWriteKeeps, AddKeeps DEF WriteStep
<1>4. CASE TxComplete
  BY <1>4, CompleteKeeps
<1>5. CASE LineState
  BY <1>5, LineStateKeeps
<1>6. CASE UNCHANGED outVars
  <2>1. connected' \in BOOLEAN /\ done' \in 0 .. MaxDone
    BY <1>6 DEF OutInv, TypeOKOut, outVars
  <2>2. UNCHANGED <<usb_queue, endpoint, main, due, raced>>
    BY <1>6 DEF outVars
  <2> QED
    BY <2>1, <2>2, OutKept
<1> QED
  BY <1>1, <1>2, <1>3, <1>4, <1>5, <1>6, Zenon DEF OutStep

\* Why the queue is not left to wait: between the look for room and the write, and
\* before what is left is queued, there is a transfer under way, and one more of them
\* can end.
AwakeInv ==
    /\ Awake
    /\ main.pc = "write" /\ done = 0 =>
         /\ main.free = 0 => Len(endpoint.fifo) = FifoSize
         /\ main.free # FifoSize => endpoint.fifo # <<>>
    /\ main.pc = "write" /\ done # 0 =>
         /\ main.free = 0 => Len(endpoint.flight) = Packet
         /\ main.free # FifoSize => endpoint.busy
    /\ main.pc = "add" /\ main.data # <<>> =>
         /\ endpoint.busy
         /\ done = 0 => \/ endpoint.fifo # <<>> \/ Len(endpoint.flight) = Packet
                        \/ usb_queue # <<>>

\* So it is in the beginning, ...
LEMMA AwakeInit == InitOut => AwakeInv
BY DEF InitOut, AwakeInv, Awake, Idle

\* What the interrupt adds takes nothing away.
LEMMA AwakeKept ==
    ASSUME OutInv, OutInv', AwakeInv, UNCHANGED <<main, done>>, InterruptAdds
    PROVE  AwakeInv'
<1>1. main' = main /\ done' = done
  OBVIOUS
<1>2. /\ endpoint.busy => /\ endpoint'.busy /\ endpoint'.flight = endpoint.flight
                          /\ Len(endpoint'.fifo) >= Len(endpoint.fifo)
      /\ usb_queue # <<>> => usb_queue' # <<>>
      /\ Awake => Awake'
  BY Zenon DEF InterruptAdds
<1>3. Awake'
  BY <1>2 DEF AwakeInv
<1>4. endpoint.fifo # <<>> => endpoint.busy /\ endpoint'.fifo # <<>>
  <2>1. SUFFICES ASSUME endpoint.fifo # <<>>
                 PROVE  endpoint.busy /\ endpoint'.fifo # <<>>
    OBVIOUS
  <2>2. endpoint.busy /\ Len(endpoint'.fifo) >= Len(endpoint.fifo)
    BY <1>2, <2>1 DEF OutInv
  <2>3. Len(endpoint.fifo) \in Nat \ {0}
    BY <2>1, OutFacts, EmptySeq
  <2>4. endpoint'.fifo # <<>>
    BY <2>2, <2>3, Nothing
  <2> QED
    BY <2>2, <2>4
<1>5. endpoint.flight # <<>> => endpoint.busy /\ endpoint'.flight = endpoint.flight
  BY <1>2, OutFacts DEF EndpointOK
<1>6. Len(endpoint.fifo) = FifoSize => Len(endpoint'.fifo) = FifoSize
  <2>1. SUFFICES ASSUME Len(endpoint.fifo) = FifoSize
                 PROVE  Len(endpoint'.fifo) = FifoSize
    OBVIOUS
  <2>2. endpoint.fifo # <<>>
    BY <2>1, OutFacts, Nothing
  <2>3. FifoSize <= Len(endpoint'.fifo)
    BY <1>2, <1>4, <2>1, <2>2
  <2>4. endpoint'.fifo \in Seq(Byte) /\ Len(endpoint'.fifo) <= FifoSize
    BY DEF OutInv, TypeOKOut
  <2>5. Len(endpoint'.fifo) \in Nat /\ FifoSize \in Nat
    BY <2>4, OutFacts, LenProperties
  <2> QED
    BY <2>3, <2>4, <2>5
<1>7. Len(endpoint.flight) = Packet => endpoint.busy /\ endpoint'.flight = endpoint.flight
  <2>1. Packet # 0
    BY OutFacts
  <2> QED
    BY <1>5, <2>1, Nothing
<1>8. /\ main'.pc = "write" /\ done' = 0 =>
           /\ main'.free = 0 => Len(endpoint'.fifo) = FifoSize
           /\ main'.free # FifoSize => endpoint'.fifo # <<>>
      /\ main'.pc = "write" /\ done' # 0 =>
           /\ main'.free = 0 => Len(endpoint'.flight) = Packet
           /\ main'.free # FifoSize => endpoint'.busy
  BY <1>1, <1>2, <1>4, <1>6, <1>7 DEF AwakeInv
<1>9. main'.pc = "add" /\ main'.data # <<>> =>
        /\ endpoint'.busy
        /\ done' = 0 => \/ endpoint'.fifo # <<>> \/ Len(endpoint'.flight) = Packet
                        \/ usb_queue' # <<>>
  BY <1>1, <1>2, <1>4, <1>7 DEF AwakeInv
<1> QED
  BY <1>3, <1>8, <1>9 DEF AwakeInv

\* ... and after every step, if one transfer at most ends between two steps of usb_write.
LEMMA AwakeStep ==
    ASSUME MaxDone <= 1, OutInv, AwakeInv, OutStep \/ UNCHANGED outVars
    PROVE  AwakeInv'
<1>0. OutInv'
  BY OutInvStep
<1>1. ASSUME NEW text \in Seq(Char), UsbWrite(text)
      PROVE  AwakeInv'
  <2>1. /\ usb_queue' = usb_queue /\ endpoint' = endpoint /\ done' = 0
        /\ \/ main' = main /\ main.pc = "idle"
           \/ main'.pc = "room"
           \/ main'.pc = "add" /\ usb_queue # <<>>
    BY <1>1 DEF UsbWrite
  <2> QED
    BY <2>1 DEF AwakeInv, Awake
<1>2. ASSUME NEW text \in Seq(Char), UsbInterruptWrite(text)
      PROVE  AwakeInv'
  <2>1. UNCHANGED <<main, done>>
    BY <1>2 DEF UsbInterruptWrite
  <2>2. InterruptAdds
    BY <1>2, InterruptKeeps
  <2> QED
    BY <1>0, <2>1, <2>2, AwakeKept
<1>3. CASE UsbWriteRoom
  <2>1. /\ usb_queue' = usb_queue /\ endpoint' = endpoint /\ done' = 0
        /\ main' = [main EXCEPT !.pc = "write", !.free = Room(endpoint)]
    BY <1>3 DEF UsbWriteRoom, tud_cdc_write_available, Room
  <2>2. main'.pc = "write" /\ main'.free = Room(endpoint)
    <3>1. main \in [pc : {"idle", "room", "write", "add"}, data : Seq(Byte), free : 0 .. FifoSize]
      BY DEF OutInv, TypeOKOut
    <3> QED
      BY <2>1, <3>1
  <2>3. /\ Room(endpoint) = 0 => Len(endpoint.fifo) = FifoSize
        /\ Room(endpoint) # FifoSize => endpoint.fifo # <<>>
    <3>1. PICK y \in Nat : y = Len(endpoint.fifo) /\ Room(endpoint) = FifoSize - y
      BY OutFacts
    <3>2. (FifoSize - y = 0 => y = FifoSize) /\ (FifoSize - y # FifoSize => y # 0)
      BY OutFacts
    <3> QED
      BY <3>1, <3>2, Nothing
  <2> QED
    BY <2>1, <2>2, <2>3 DEF AwakeInv, Awake
<1>4. CASE UsbWriteWrite
  <2>1. WriteAdds
    BY <1>4, WriteWriteKeeps
  <2>2. /\ endpoint.busy => /\ endpoint'.busy /\ endpoint'.flight = endpoint.flight
                            /\ Len(endpoint'.fifo) >= Len(endpoint.fifo)
        /\ main'.data # <<>> /\ main.free # 0 /\ (endpoint.busy \/ main.free = FifoSize) =>
             /\ endpoint'.busy
             /\ endpoint'.fifo # <<>> \/ Len(endpoint'.flight) = Packet
    BY <2>1, Zenon DEF WriteAdds
  <2>3. usb_queue' = usb_queue /\ done' = 0 /\ main.pc = "write"
    BY <1>4 DEF UsbWriteWrite
  <2>4. main'.pc \in {"idle", "add"}
    BY <1>4 DEF UsbWriteWrite, Idle
  <2>5. Awake'
    BY <2>2, <2>3 DEF AwakeInv, Awake
  <2>6. ASSUME main'.data # <<>>
        PROVE  /\ endpoint'.busy
               /\ endpoint'.fifo # <<>> \/ Len(endpoint'.flight) = Packet
    <3>1. CASE main.free # 0
      <4>1. endpoint.busy \/ main.free = FifoSize
        BY <2>3, <3>1 DEF AwakeInv, OutInv
      <4> QED
        BY <2>2, <2>6, <3>1, <4>1
    <3>2. CASE main.free = 0 /\ done = 0
      <4>1. Len(endpoint.fifo) = FifoSize
        BY <2>3, <3>2 DEF AwakeInv
      <4>2. Len(endpoint.fifo) \in Nat \ {0}
        BY <4>1, OutFacts
      <4>3. endpoint.fifo # <<>>
        BY <4>2, Nothing
      <4>4. endpoint.busy
        BY <4>3 DEF OutInv
      <4>5. endpoint'.fifo # <<>>
        BY <2>2, <4>2, <4>4, Nothing
      <4> QED
        BY <2>2, <4>4, <4>5
    <3>3. CASE main.free = 0 /\ done # 0
      <4>1. Len(endpoint.flight) = Packet /\ Packet # 0
        BY <2>3, <3>3, OutFacts DEF AwakeInv
      <4>2. endpoint.flight # <<>>
        BY <4>1, Nothing
      <4>3. endpoint.busy
        BY <4>2, OutFacts DEF EndpointOK
      <4> QED
        BY <2>2, <4>1, <4>3
    <3> QED
      BY <3>1, <3>2, <3>3
  <2> QED
    BY <2>3, <2>4, <2>5, <2>6 DEF AwakeInv
<1>5. CASE UsbWriteAdd
  <2>1. endpoint' = endpoint /\ done' = 0 /\ main.pc = "add"
    BY <1>5 DEF UsbWriteAdd
  <2>2. CASE main.data # <<>> /\ Len(usb_queue) < QueueSize
    <3>1. endpoint.busy
      BY <2>1, <2>2 DEF AwakeInv
    <3>2. usb_queue' # <<>> /\ main'.pc = "add"
      <4>1. usb_queue' = Append(usb_queue, Head(main.data)) /\ main' = [main EXCEPT !.data = Tail(@)]
        BY <1>5, <2>2 DEF UsbWriteAdd
      <4>2. Head(main.data) \in Byte
        BY <2>2, OutFacts, HeadTailProperties
      <4>3. Append(usb_queue, Head(main.data)) # <<>>
        <5>1. usb_queue \in Seq(Byte)
          BY OutFacts
        <5> QED
          BY <4>2, <5>1, AppendProperties
      <4>4. main \in [pc : {"idle", "room", "write", "add"}, data : Seq(Byte), free : 0 .. FifoSize]
        BY DEF OutInv, TypeOKOut
      <4>5. main'.pc = "add"
        BY <2>1, <4>1, <4>4
      <4> QED
        BY <4>1, <4>3, <4>5
    <3> QED
      BY <2>1, <3>1, <3>2 DEF AwakeInv, Awake
  <2>3. CASE ~(main.data # <<>> /\ Len(usb_queue) < QueueSize)
    <3>1. usb_queue' = usb_queue /\ main'.pc = "idle"
      <4>1. usb_queue' = usb_queue /\ main' = Idle
        BY <1>5, <2>3 DEF UsbWriteAdd
      <4> QED
        BY <4>1 DEF Idle
    <3> QED
      BY <2>1, <3>1 DEF AwakeInv, Awake
  <2> QED
    BY <2>2, <2>3
<1>6. CASE TxComplete
  <2>1. CompleteTakes
    BY <1>6, CompleteKeeps
  <2>2. /\ \/ usb_queue' # <<>> \/ usb_queue # <<>>
           \/ endpoint.fifo # <<>> \/ Len(endpoint.flight) = Packet
           => endpoint'.busy
        /\ Len(endpoint.fifo) = FifoSize => Len(endpoint'.flight) = Packet
    BY <2>1, Zenon DEF CompleteTakes
  <2>3. /\ main' = main
        /\ main.pc # "idle" => done = 0 /\ done' # 0
    <3>1. done \in 0 .. MaxDone /\ MaxDone \in Nat
      BY OutFacts DEF OutInv, TypeOKOut
    <3>2. main' = main /\ (main.pc # "idle" => done < MaxDone /\ done' = done + 1)
      BY <1>6 DEF TxComplete
    <3>3. done < MaxDone => done = 0 /\ done + 1 # 0
      BY <3>1
    <3> QED
      BY <3>2, <3>3
  <2>4. Awake'
    BY <2>2 DEF Awake
  <2>5. main'.pc = "write" =>
          /\ main'.free = 0 => Len(endpoint'.flight) = Packet
          /\ main'.free # FifoSize => endpoint'.busy
    BY <2>2, <2>3 DEF AwakeInv
  <2>6. main'.pc = "add" /\ main'.data # <<>> => endpoint'.busy
    BY <2>2, <2>3 DEF AwakeInv
  <2> QED
    BY <2>3, <2>4, <2>5, <2>6 DEF AwakeInv
<1>7. CASE LineState \/ UNCHANGED outVars
  <2>1. UNCHANGED <<usb_queue, endpoint, main, done>>
    BY <1>7 DEF LineState, outVars
  <2> QED
    BY <2>1 DEF AwakeInv, Awake
<1> QED
  BY <1>1, <1>2, <1>3, <1>4, <1>5, <1>6, <1>7, Zenon DEF OutStep, WriteStep
-----------------------------------------------------------------------------
\* What the variables of HELP hold.
Stage == {"loop", "asked", "line", "lineEnd", "warning", "warningEnd", "end", "ok"}
Noted == [active : BOOLEAN, ok_pending : BOOLEAN, ttyp : Terminal \cup {"none"},
          lines : Language, line_idx : Nat, warn : BOOLEAN, warn_idx : Nat, gap : BOOLEAN]
Asked == [ttyp : Terminal \cup {"none"}, lines : Language, warn : BOOLEAN]
Item == (Terminal \cup {"none"}) \X (Language \cup {"gap", "warning"}) \X Nat

\* The lines of a text and of its warning.
TextLen(l) == Len(Text[l])
WarningLen(l) == Len(Warning[l])

\* They are sequences.
LEMMA TextFacts ==
    ASSUME NEW l \in Language
    PROVE  /\ Text[l] \in Seq(Seq(Char)) /\ Warning[l] \in Seq(Seq(Char))
           /\ TextLen(l) \in Nat \ {0} /\ WarningLen(l) \in Nat
           /\ DOMAIN Text[l] = 1 .. TextLen(l) /\ DOMAIN Warning[l] = 1 .. WarningLen(l)
           /\ \A i \in 1 .. TextLen(l) : Text[l][i] \in Seq(Char)
           /\ \A i \in 1 .. WarningLen(l) : Warning[l][i] \in Seq(Char)
<1>1. Text[l] \in Seq(Seq(Char)) /\ Text[l] # <<>> /\ Warning[l] \in Seq(Seq(Char))
  BY HelpAssumption
<1>2. TextLen(l) # 0
  BY <1>1, EmptySeq DEF TextLen
<1> QED
  BY <1>1, <1>2, LenProperties, ElementOfSeq DEF TextLen, WarningLen

\* All of a text: its lines, then a gap and the warning if it is asked for.
LEMMA WholeFacts ==
    ASSUME NEW a \in Asked
    PROVE  /\ Whole(a) \in Seq(Item)
           /\ Len(Whole(a)) = TextLen(a.lines) + (IF a.warn THEN 1 + WarningLen(a.lines) ELSE 0)
           /\ \A i \in 1 .. TextLen(a.lines) : Whole(a)[i] = <<a.ttyp, a.lines, i>>
           /\ a.warn => Whole(a)[TextLen(a.lines) + 1] = <<a.ttyp, "gap", 0>>
           /\ a.warn => \A i \in 1 .. WarningLen(a.lines) :
                           Whole(a)[(TextLen(a.lines) + 1) + i] = <<a.ttyp, "warning", i>>
<1>1. PICK l \in Language, t \in Terminal \cup {"none"} : l = a.lines /\ t = a.ttyp
  BY DEF Asked
<1>2. PICK n \in Nat, m \in Nat : /\ n = TextLen(l) /\ m = WarningLen(l)
                                  /\ DOMAIN Text[l] = 1 .. n /\ DOMAIN Warning[l] = 1 .. m
  BY TextFacts
<1>3. PICK x : x = [i \in 1 .. n |-> <<t, l, i>>]
  OBVIOUS
<1>4. x \in Seq(Item) /\ Len(x) = n /\ \A i \in 1 .. n : x[i] = <<t, l, i>>
  <2>1. \A i \in 1 .. n : <<t, l, i>> \in Item
    BY DEF Item
  <2> QED
    BY <1>3, <2>1
<1>5. PICK g : g = <<<<t, "gap", 0>>>>
  OBVIOUS
<1>6. g \in Seq(Item) /\ Len(g) = 1 /\ g[1] = <<t, "gap", 0>>
  <2>1. <<t, "gap", 0>> \in Item
    BY DEF Item
  <2> QED
    BY <1>5, <2>1
<1>7. PICK y : y = [i \in 1 .. m |-> <<t, "warning", i>>]
  OBVIOUS
<1>8. y \in Seq(Item) /\ Len(y) = m /\ \A i \in 1 .. m : y[i] = <<t, "warning", i>>
  <2>1. \A i \in 1 .. m : <<t, "warning", i>> \in Item
    BY DEF Item
  <2> QED
    BY <1>7, <2>1
<1>9. Whole(a) = x \o (IF a.warn THEN g \o y ELSE <<>>)
  BY <1>1, <1>2, <1>3, <1>5, <1>7, Zenon DEF Whole
<1>10. CASE a.warn
  <2>1. PICK z \in Seq(Item) : /\ z = g \o y /\ Len(z) = 1 + m /\ z[1] = <<t, "gap", 0>>
                              /\ \A i \in 1 .. m : z[1 + i] = <<t, "warning", i>>
    <3>1. /\ g \o y \in Seq(Item) /\ Len(g \o y) = Len(g) + Len(y)
          /\ \A i \in 1 .. Len(g) + Len(y) : (g \o y)[i] = IF i <= Len(g) THEN g[i] ELSE y[i - Len(g)]
      BY <1>6, <1>8, ConcatProperties
    <3>2. Len(g \o y) = 1 + m
      BY <1>6, <1>8, <3>1
    <3>3. (g \o y)[1] = <<t, "gap", 0>>
      BY <1>6, <1>8, <3>1
    <3>4. ASSUME NEW i \in 1 .. m PROVE (g \o y)[1 + i] = <<t, "warning", i>>
      <4>1. 1 + i \in 1 .. 1 + m /\ ~(1 + i <= 1) /\ (1 + i) - 1 = i
        OBVIOUS
      <4>2. (g \o y)[1 + i] = y[i]
        BY <1>6, <1>8, <3>1, <4>1
      <4> QED
        BY <1>8, <4>2
    <3> QED
      BY <3>1, <3>2, <3>3, <3>4
  <2>2. /\ x \o z \in Seq(Item) /\ Len(x \o z) = Len(x) + Len(z)
        /\ \A i \in 1 .. Len(x) + Len(z) : (x \o z)[i] = IF i <= Len(x) THEN x[i] ELSE z[i - Len(x)]
    BY <1>4, ConcatProperties
  <2>3. Len(x \o z) = n + (1 + m)
    BY <1>4, <2>1, <2>2
  <2>4. \A i \in 1 .. n : (x \o z)[i] = <<t, l, i>>
    BY <1>4, <2>1, <2>2, SMTT(30)
  <2>5. (x \o z)[n + 1] = <<t, "gap", 0>>
    <3>1. n + 1 \in 1 .. n + (1 + m) /\ ~(n + 1 <= n) /\ (n + 1) - n = 1
      OBVIOUS
    <3> QED
      BY <1>4, <2>1, <2>2, <3>1
  <2>6. ASSUME NEW i \in 1 .. m PROVE (x \o z)[(n + 1) + i] = <<t, "warning", i>>
    <3>1. (n + 1) + i \in 1 .. n + (1 + m) /\ ~((n + 1) + i <= n) /\ ((n + 1) + i) - n = 1 + i
      OBVIOUS
    <3>2. (x \o z)[(n + 1) + i] = z[1 + i]
      BY <1>4, <2>1, <2>2, <3>1
    <3> QED
      BY <2>1, <3>2
  <2>7. Whole(a) = x \o z
    BY <1>9, <1>10, <2>1
  <2> QED
    BY <1>1, <1>2, <1>10, <2>2, <2>3, <2>4, <2>5, <2>6, <2>7
<1>11. CASE ~a.warn
  <2>1. Whole(a) = x
    BY <1>4, <1>9, <1>11, ConcatEmptySeq
  <2> QED
    BY <1>1, <1>2, <1>4, <1>11, <2>1
<1> QED
  BY <1>10, <1>11

\* A tag before a pair.
LEMMA TaggedIn ==
    ASSUME NEW S, NEW t \in S, NEW x \in S, NEW i \in S
    PROVE  <<t>> \o <<x, i>> = <<t, x, i>>
<1>1. PICK u \in Seq(S) : u = <<t>> /\ Len(u) = 1 /\ u[1] = t
  <2>1. <<t>> \in Seq(S) /\ Len(<<t>>) = 1 /\ <<t>>[1] = t
    OBVIOUS
  <2> QED
    BY <2>1, Zenon
<1>2. PICK v \in Seq(S) : v = <<x, i>> /\ Len(v) = 2 /\ v[1] = x /\ v[2] = i
  <2>1. <<x, i>> \in Seq(S) /\ Len(<<x, i>>) = 2 /\ <<x, i>>[1] = x /\ <<x, i>>[2] = i
    OBVIOUS
  <2> QED
    BY <2>1, Zenon
<1>3. PICK y \in Seq(S) : y = <<t, x, i>> /\ Len(y) = 3 /\ y[1] = t /\ y[2] = x /\ y[3] = i
  <2>1. <<t, x, i>> \in Seq(S) /\ Len(<<t, x, i>>) = 3 /\ <<t, x, i>>[1] = t
        /\ <<t, x, i>>[2] = x /\ <<t, x, i>>[3] = i
    OBVIOUS
  <2> QED
    BY <2>1, Zenon
<1>4. /\ u \o v \in Seq(S) /\ Len(u \o v) = Len(u) + Len(v)
      /\ \A j \in 1 .. Len(u) + Len(v) : (u \o v)[j] = IF j <= Len(u) THEN u[j] ELSE v[j - Len(u)]
  BY ConcatProperties
<1>5. Len(u \o v) = 3
  BY <1>1, <1>2, <1>4
<1>6. (u \o v)[1] = t /\ (u \o v)[2] = x /\ (u \o v)[3] = i
  BY <1>1, <1>2, <1>4
<1>7. \A j \in 1 .. 3 : (u \o v)[j] = y[j]
  <2>1. \A j \in 1 .. 3 : j = 1 \/ j = 2 \/ j = 3
    OBVIOUS
  <2> QED
    BY <1>3, <1>6, <2>1, Zenon
<1>8. u \o v = y
  BY <1>3, <1>4, <1>5, <1>7, SeqEqual
<1> QED
  BY <1>1, <1>2, <1>3, <1>8, Zenon

\* Whatever the three are.
LEMMA Tagged ==
    ASSUME NEW t, NEW x, NEW i
    PROVE  <<t>> \o <<x, i>> = <<t, x, i>>
<1>1. t \in {t, x, i} /\ x \in {t, x, i} /\ i \in {t, x, i}
  OBVIOUS
<1> QED
  BY <1>1, TaggedIn, Zenon

\* What help_poll has printed of the text asked for.
Printed(h, p) ==
    (h.line_idx - 1) + (IF p \in {"line", "lineEnd"} THEN 1 ELSE 0)
    + (IF h.gap THEN 1 ELSE 0)
    + (h.warn_idx - 1) + (IF p \in {"warning", "warningEnd"} THEN 1 ELSE 0)

\* s is the first n of t.
Prefix(s, n, t) == s \in Seq(Item) /\ Len(s) = n /\ \A i \in 1 .. n : s[i] = t[i]

\* The next one makes the first n + 1, ...
LEMMA PrefixNext ==
    ASSUME NEW t, NEW n \in Nat, NEW s, Prefix(s, n, t), NEW e \in Item, e = t[n + 1]
    PROVE  Prefix(Append(s, e), n + 1, t)
<1>1. s \in Seq(Item) /\ Len(s) = n /\ \A i \in 1 .. n : s[i] = t[i]
  BY DEF Prefix
<1>2. /\ Append(s, e) \in Seq(Item) /\ Len(Append(s, e)) = n + 1
      /\ \A i \in 1 .. n : Append(s, e)[i] = s[i] /\ Append(s, e)[n + 1] = e
  BY <1>1, AppendProperties
<1>3. ASSUME NEW i \in 1 .. n + 1 PROVE Append(s, e)[i] = t[i]
  <2>1. CASE i = n + 1
    <3>1. Append(s, e)[n + 1] = e
      BY <1>1, AppendProperties
    <3> QED
      BY <2>1, <3>1
  <2>2. CASE i # n + 1
    <3>1. i \in 1 .. n
      BY <2>2
    <3> QED
      BY <1>1, <1>2, <3>1
  <2> QED
    BY <2>1, <2>2
<1> QED
  BY <1>2, <1>3 DEF Prefix

\* ... and all of them make the text.
LEMMA PrefixWhole ==
    ASSUME NEW a \in Asked, NEW s, Prefix(s, Len(Whole(a)), Whole(a))
    PROVE  s = Whole(a)
<1>1. Whole(a) \in Seq(Item)
  BY WholeFacts
<1>2. s \in Seq(Item) /\ Len(s) = Len(Whole(a)) /\ \A i \in 1 .. Len(s) : s[i] = Whole(a)[i]
  BY DEF Prefix
<1> QED
  BY <1>1, <1>2, SeqEqual

\* A text is being printed, and is where the indices say.
Progress(h, p, a, s) ==
    /\ h.ttyp = a.ttyp /\ h.lines = a.lines /\ (h.warn => a.warn)
    /\ h.line_idx \in 1 .. TextLen(a.lines) + 1
    /\ h.warn_idx \in 1 .. WarningLen(a.lines) + 1
    /\ p \in {"line", "lineEnd"} => h.line_idx <= TextLen(a.lines) /\ ~h.gap
    /\ ~h.gap => h.warn_idx = 1
    /\ h.gap => h.line_idx = TextLen(a.lines) + 1 /\ a.warn
    /\ p \in {"warning", "warningEnd"} => h.gap /\ h.warn_idx <= WarningLen(a.lines)
    /\ a.warn /\ ~h.warn => h.gap /\ h.warn_idx = WarningLen(a.lines) + 1
    /\ p \in {"warning", "warningEnd"} => h.warn
    /\ p = "end" => h.line_idx = TextLen(a.lines) + 1 /\ ~h.warn
    /\ Prefix(s, Printed(h, p), Whole(a))

\* Unless a HELP has come in between two steps of help_poll (mix), what has been shown
\* is where help_poll is in the text asked for, or all of it.
Kept(h, p, a, s, mix) ==
    /\ p \in {"line", "lineEnd", "warning", "warningEnd", "end"} => h.active
    /\ ~mix =>
         /\ p \in {"asked", "ok"} => ~h.active
         /\ h.active => Progress(h, p, a, s)
         /\ ~h.active /\ h.ok_pending => s = Whole(a)
         /\ p = "ok" => s = Whole(a)

\* The inductive invariant of HELP.
HelpInv ==
    /\ help \in Noted /\ help.line_idx # 0 /\ help.warn_idx # 0
    /\ asked \in Asked /\ wanted \in Language /\ mixed \in BOOLEAN /\ at \in Stage
    /\ Kept(help, at, asked, shown, mixed)

\* It holds in the beginning.
LEMMA HelpInvInit == Init => HelpInv
<1> SUFFICES ASSUME Init
             PROVE  HelpInv
  OBVIOUS
<1>1. /\ help = [active |-> FALSE, ok_pending |-> FALSE, ttyp |-> "none", lines |-> "en",
                 line_idx |-> 1, warn |-> FALSE, warn_idx |-> 1, gap |-> FALSE]
      /\ at = "loop"
      /\ asked = [ttyp |-> "none", lines |-> "en", warn |-> FALSE]
      /\ wanted = "en" /\ mixed = FALSE
  BY Zenon DEF Init
<1>2. "en" \in Language
  BY HelpAssumption
<1>3. help \in Noted /\ asked \in Asked
  BY <1>1, <1>2 DEF Noted, Asked
<1>4. help.active = FALSE /\ help.ok_pending = FALSE /\ help.line_idx = 1 /\ help.warn_idx = 1
  BY <1>1
<1>5. Kept(help, at, asked, shown, mixed)
  BY <1>1, <1>4 DEF Kept
<1>6. at \in Stage /\ mixed \in BOOLEAN /\ help.line_idx # 0 /\ help.warn_idx # 0
  <2>1. mixed \in BOOLEAN
    BY <1>1, Zenon
  <2> QED
    BY <1>1, <1>4, <2>1 DEF Stage
<1> QED
  BY <1>1, <1>2, <1>3, <1>5, <1>6 DEF HelpInv

\* A good HELP begins a text from its start.
LEMMA ActivateFacts ==
    ASSUME NEW h \in Noted, NEW t \in Terminal, NEW w \in BOOLEAN, NEW r,
           r = Activate(h, t, w)
    PROVE  /\ r \in Noted /\ r.line_idx = 1 /\ r.warn_idx = 1 /\ r.active /\ ~r.gap
           /\ ~r.ok_pending /\ r.ttyp = t /\ r.lines = h.lines /\ (r.warn <=> w)
BY DEF Activate, Noted

\* A text begun is at its start, or has its first line passed over.
LEMMA Begins ==
    ASSUME NEW r \in Noted, NEW t \in Terminal, NEW w \in BOOLEAN, NEW l \in Language,
           NEW p \in {"loop", "asked", "ok", "line", "lineEnd"}, NEW a, NEW s,
           a = [ttyp |-> t, lines |-> l, warn |-> w],
           s = IF p \in {"line", "lineEnd"} THEN <<Whole(a)[1]>> ELSE <<>>,
           r.line_idx = 1 /\ r.warn_idx = 1 /\ ~r.gap /\ r.ttyp = t /\ r.lines = l /\ (r.warn <=> w)
    PROVE  Progress(r, p, a, s)
<1>2. a.ttyp = t /\ a.lines = l /\ (a.warn <=> w) /\ a \in Asked
  BY DEF Asked
<1>3. TextLen(l) \in Nat \ {0} /\ WarningLen(l) \in Nat
  BY TextFacts
<1>4. Printed(r, p) = IF p \in {"line", "lineEnd"} THEN 1 ELSE 0
  BY DEF Printed
<1>5. Prefix(s, Printed(r, p), Whole(a))
  <2>1. CASE p \in {"line", "lineEnd"}
    <3>1. 1 \in 1 .. TextLen(a.lines)
      BY <1>2, <1>3
    <3>2. Whole(a)[1] = <<a.ttyp, a.lines, 1>>
      BY <1>2, <3>1, WholeFacts
    <3>3. PICK e \in Item : e = Whole(a)[1]
      BY <1>2, <3>2 DEF Item
    <3>4. s = <<e>>
      BY <2>1, <3>3
    <3>5. s \in Seq(Item) /\ Len(s) = 1 /\ s[1] = e
      BY <3>3, <3>4
    <3> QED
      BY <1>4, <2>1, <3>3, <3>5 DEF Prefix
  <2>2. CASE p \notin {"line", "lineEnd"}
    <3>1. s \in Seq(Item) /\ Len(s) = 0
      BY <2>2, Nothing, Zenon
    <3> QED
      BY <1>4, <2>2, <3>1 DEF Prefix
  <2> QED
    BY <2>1, <2>2
<1> QED
  BY <1>2, <1>3, <1>5 DEF Progress

\* One line, the empty line or a line of the warning is printed.
LEMMA Prints ==
    ASSUME NEW h \in Noted, NEW p, NEW a \in Asked, NEW s, Progress(h, p, a, s),
           NEW r, NEW q, Printed(r, q) = Printed(h, p) + 1,
           NEW x \in Language \cup {"gap", "warning"}, NEW i \in Nat,
           Whole(a)[Printed(h, p) + 1] = <<a.ttyp, x, i>>, Printed(h, p) \in Nat
    PROVE  Prefix(Append(s, <<h.ttyp>> \o <<x, i>>), Printed(r, q), Whole(a))
<1>1. h.ttyp = a.ttyp /\ Prefix(s, Printed(h, p), Whole(a))
  BY DEF Progress
<1>2. PICK e : e = <<a.ttyp, x, i>>
  OBVIOUS
<1>3. e \in Item
  BY <1>2 DEF Item, Asked
<1>4. e = Whole(a)[Printed(h, p) + 1]
  BY <1>2
<1>5. <<h.ttyp>> \o <<x, i>> = e
  BY <1>1, <1>2, Tagged, Zenon
<1>6. Prefix(Append(s, e), Printed(h, p) + 1, Whole(a))
  BY <1>1, <1>3, <1>4, PrefixNext
<1> QED
  BY <1>5, <1>6, Zenon

\* How many lines are printed, and what comes next.
LEMMA PrintedFacts ==
    ASSUME NEW h \in Noted, NEW p, NEW a \in Asked, NEW s, Progress(h, p, a, s)
    PROVE  /\ h.line_idx \in Nat /\ h.warn_idx \in Nat
           /\ TextLen(a.lines) \in Nat /\ WarningLen(a.lines) \in Nat /\ a.lines \in Language
           /\ Printed(h, p) \in Nat
           /\ p = "loop" /\ ~h.gap => Printed(h, p) = h.line_idx - 1
           /\ p = "loop" /\ h.gap =>
                Printed(h, p) = TextLen(a.lines) + h.warn_idx
<1>1. a.lines \in Language /\ h.line_idx \in Nat /\ h.warn_idx \in Nat
  BY DEF Asked, Noted
<1>2. TextLen(a.lines) \in Nat /\ WarningLen(a.lines) \in Nat
  BY <1>1, TextFacts
<1>3. /\ h.line_idx \in 1 .. TextLen(a.lines) + 1 /\ h.warn_idx \in 1 .. WarningLen(a.lines) + 1
      /\ ~h.gap => h.warn_idx = 1
      /\ h.gap => h.line_idx = TextLen(a.lines) + 1
  BY DEF Progress
<1>4. PICK i \in Nat \ {0}, j \in Nat \ {0} : i = h.line_idx /\ j = h.warn_idx
  BY <1>1, <1>3
<1>5. PICK b \in {0, 1}, c \in {0, 1}, d \in {0, 1} :
        /\ Printed(h, p) = (i - 1) + b + c + (j - 1) + d
        /\ p = "loop" => b = 0 /\ d = 0
        /\ c = IF h.gap THEN 1 ELSE 0
  BY <1>4 DEF Printed
<1>6. Printed(h, p) \in Nat
  <2>1. (i - 1) + b + c + (j - 1) + d \in Nat
    <3>1. i - 1 \in Nat /\ j - 1 \in Nat /\ b \in Nat /\ c \in Nat /\ d \in Nat
      OBVIOUS
    <3> QED
      BY <3>1
  <2> QED
    BY <1>5, <2>1
<1>7. p = "loop" /\ ~h.gap => Printed(h, p) = h.line_idx - 1
  BY <1>3, <1>4, <1>5
<1>8. p = "loop" /\ h.gap => Printed(h, p) = TextLen(a.lines) + h.warn_idx
  BY <1>2, <1>3, <1>4, <1>5
<1> QED
  BY <1>1, <1>2, <1>6, <1>7, <1>8

\* PollLine
LEMMA LinePrinted ==
    ASSUME NEW h \in Noted, NEW a \in Asked, NEW s, Progress(h, "loop", a, s),
           h.line_idx <= TextLen(h.lines)
    PROVE  Progress(h, "line", a, Append(s, <<h.ttyp>> \o <<h.lines, h.line_idx>>))
<1>1. /\ h.ttyp = a.ttyp /\ h.lines = a.lines /\ (h.warn => a.warn)
      /\ h.line_idx \in 1 .. TextLen(a.lines) + 1
      /\ h.warn_idx \in 1 .. WarningLen(a.lines) + 1
      /\ ~h.gap => h.warn_idx = 1
      /\ h.gap => h.line_idx = TextLen(a.lines) + 1
      /\ a.warn /\ ~h.warn => h.gap
  BY DEF Progress
<1>2. TextLen(a.lines) \in Nat /\ a.lines \in Language /\ h.line_idx \in Nat
  BY PrintedFacts
<1>3. ~h.gap /\ h.line_idx \in 1 .. TextLen(a.lines)
  BY <1>1, <1>2
<1>4. PICK n \in Nat : n = Printed(h, "loop") /\ n = h.line_idx - 1
  BY <1>3, PrintedFacts
<1>5. Printed(h, "line") = Printed(h, "loop") + 1
  <2>1. PICK i \in Nat : i = h.line_idx
    BY <1>2
  <2>2. Printed(h, "line") = (i - 1) + 1 + 0 + 0 + 0
    BY <1>1, <1>3, <2>1 DEF Printed
  <2> QED
    BY <1>4, <2>1, <2>2
<1>6. Whole(a)[Printed(h, "loop") + 1] = <<a.ttyp, h.lines, h.line_idx>>
  <2>1. n + 1 = h.line_idx
    BY <1>2, <1>4
  <2>2. Whole(a)[h.line_idx] = <<a.ttyp, a.lines, h.line_idx>>
    BY <1>3, WholeFacts
  <2> QED
    BY <1>1, <1>4, <2>1, <2>2
<1>7. Prefix(Append(s, <<h.ttyp>> \o <<h.lines, h.line_idx>>), Printed(h, "line"), Whole(a))
  <2>1. h.lines \in Language \cup {"gap", "warning"} /\ Printed(h, "loop") \in Nat
    BY <1>1, <1>2, <1>4
  <2> QED
    BY <1>2, <1>5, <1>6, <2>1, Prints
<1> QED
  BY <1>1, <1>3, <1>7 DEF Progress

\* PollGap
LEMMA GapPrinted ==
    ASSUME NEW h \in Noted, NEW a \in Asked, NEW s, Progress(h, "loop", a, s),
           ~(h.line_idx <= TextLen(h.lines)), h.warn, ~h.gap, NEW r, r = [h EXCEPT !.gap = TRUE]
    PROVE  Progress(r, "loop", a, Append(s, <<h.ttyp>> \o <<"gap", 0>>))
<1>1. /\ h.ttyp = a.ttyp /\ h.lines = a.lines /\ (h.warn => a.warn)
      /\ h.line_idx \in 1 .. TextLen(a.lines) + 1
      /\ h.warn_idx \in 1 .. WarningLen(a.lines) + 1
      /\ ~h.gap => h.warn_idx = 1
  BY DEF Progress
<1>2. TextLen(a.lines) \in Nat /\ WarningLen(a.lines) \in Nat /\ h.line_idx \in Nat
  BY PrintedFacts
<1>3. h.line_idx = TextLen(a.lines) + 1 /\ a.warn /\ h.warn_idx = 1
  BY <1>1, <1>2
<1>4. /\ r.ttyp = h.ttyp /\ r.lines = h.lines /\ r.warn = h.warn /\ r.gap = TRUE
      /\ r.line_idx = h.line_idx /\ r.warn_idx = h.warn_idx
  BY DEF Noted
<1>5. PICK n \in Nat : n = Printed(h, "loop") /\ n = TextLen(a.lines)
  <2>1. Printed(h, "loop") = h.line_idx - 1 /\ Printed(h, "loop") \in Nat
    BY PrintedFacts
  <2> QED
    BY <1>2, <1>3, <2>1
<1>6. Printed(r, "loop") = Printed(h, "loop") + 1
  <2>1. Printed(r, "loop") = (r.line_idx - 1) + 0 + 1 + (r.warn_idx - 1) + 0
    BY <1>4 DEF Printed
  <2> QED
    BY <1>2, <1>3, <1>4, <1>5, <2>1
<1>7. Whole(a)[Printed(h, "loop") + 1] = <<a.ttyp, "gap", 0>>
  BY <1>3, <1>5, WholeFacts
<1>8. Prefix(Append(s, <<h.ttyp>> \o <<"gap", 0>>), Printed(r, "loop"), Whole(a))
  BY <1>5, <1>6, <1>7, Prints
<1> QED
  BY <1>1, <1>2, <1>3, <1>4, <1>8 DEF Progress

\* PollWarning
LEMMA WarningPrinted ==
    ASSUME NEW h \in Noted, NEW a \in Asked, NEW s, Progress(h, "loop", a, s),
           h.warn, h.gap, h.warn_idx <= WarningLen(h.lines)
    PROVE  Progress(h, "warning", a, Append(s, <<h.ttyp>> \o <<"warning", h.warn_idx>>))
<1>1. /\ h.ttyp = a.ttyp /\ h.lines = a.lines /\ (h.warn => a.warn)
      /\ h.line_idx \in 1 .. TextLen(a.lines) + 1
      /\ h.warn_idx \in 1 .. WarningLen(a.lines) + 1
      /\ h.gap => h.line_idx = TextLen(a.lines) + 1 /\ a.warn
  BY DEF Progress
<1>2. TextLen(a.lines) \in Nat /\ WarningLen(a.lines) \in Nat /\ h.warn_idx \in Nat
  BY PrintedFacts
<1>3. PICK n \in Nat : n = Printed(h, "loop") /\ n = TextLen(a.lines) + h.warn_idx
  BY PrintedFacts
<1>4. Printed(h, "warning") = Printed(h, "loop") + 1
  <2>1. Printed(h, "warning") = (h.line_idx - 1) + 0 + 1 + (h.warn_idx - 1) + 1
    BY DEF Printed
  <2>2. PICK t \in Nat, j \in Nat : t = TextLen(a.lines) /\ j = h.warn_idx
    BY <1>2
  <2>3. Printed(h, "warning") = ((t + 1) - 1) + 0 + 1 + (j - 1) + 1 /\ n = t + j
    BY <1>1, <1>3, <2>1, <2>2
  <2> QED
    BY <1>3, <2>3
<1>5. Whole(a)[Printed(h, "loop") + 1] = <<a.ttyp, "warning", h.warn_idx>>
  <2>1. h.warn_idx \in 1 .. WarningLen(a.lines) /\ a.warn
    BY <1>1
  <2>2. Whole(a)[(TextLen(a.lines) + 1) + h.warn_idx] = <<a.ttyp, "warning", h.warn_idx>>
    BY <2>1, WholeFacts
  <2>3. (TextLen(a.lines) + 1) + h.warn_idx = n + 1
    BY <1>2, <1>3
  <2> QED
    BY <1>3, <2>2, <2>3, Zenon
<1>6. Prefix(Append(s, <<h.ttyp>> \o <<"warning", h.warn_idx>>), Printed(h, "warning"), Whole(a))
  <2>1. Printed(h, "loop") \in Nat /\ h.warn_idx \in Nat
    BY <1>2, <1>3
  <2> QED
    BY <1>4, <1>5, <2>1, Prints
<1> QED
  BY <1>1, <1>6 DEF Progress

\* The rest of help_poll moves on without printing.
LEMMA MovesOn ==
    ASSUME NEW h \in Noted, NEW p, NEW a \in Asked, NEW s, Progress(h, p, a, s), NEW r,
           NEW q,
           \/ /\ p = "line" /\ q = "lineEnd" /\ r = h
           \/ /\ p = "warning" /\ q = "warningEnd" /\ r = h
           \/ /\ p = "lineEnd" /\ q = "loop" /\ r = [h EXCEPT !.line_idx = @ + 1]
           \/ /\ p = "warningEnd" /\ q = "loop" /\ r = [h EXCEPT !.warn_idx = @ + 1]
           \/ /\ p = "loop" /\ q = "loop" /\ r = [h EXCEPT !.warn = FALSE]
              /\ h.gap /\ ~(h.warn_idx <= WarningLen(h.lines))
           \/ /\ p = "loop" /\ q = "end" /\ r = h
              /\ ~(h.line_idx <= TextLen(h.lines)) /\ ~h.warn
    PROVE  Progress(r, q, a, s)
<1>1. /\ TextLen(a.lines) \in Nat /\ WarningLen(a.lines) \in Nat
      /\ h.line_idx \in Nat /\ h.warn_idx \in Nat
  BY PrintedFacts
<1>2. CASE p = "line" /\ q = "lineEnd" /\ r = h
  <2>1. Printed(r, q) = Printed(h, p)
    BY <1>2 DEF Printed
  <2> QED
    BY <1>2, <2>1 DEF Progress
<1>3. CASE p = "warning" /\ q = "warningEnd" /\ r = h
  <2>1. Printed(r, q) = Printed(h, p)
    BY <1>3 DEF Printed
  <2> QED
    BY <1>3, <2>1 DEF Progress
<1>4. CASE p = "lineEnd" /\ q = "loop" /\ r = [h EXCEPT !.line_idx = @ + 1]
  <2>1. /\ r.ttyp = h.ttyp /\ r.lines = h.lines /\ r.warn = h.warn /\ r.gap = h.gap
        /\ r.line_idx = h.line_idx + 1 /\ r.warn_idx = h.warn_idx
    BY <1>4 DEF Noted
  <2>2. Printed(r, q) = Printed(h, p)
    BY <1>1, <1>4, <2>1 DEF Printed
  <2> QED
    BY <1>1, <1>4, <2>1, <2>2 DEF Progress
<1>5. CASE p = "warningEnd" /\ q = "loop" /\ r = [h EXCEPT !.warn_idx = @ + 1]
  <2>1. /\ r.ttyp = h.ttyp /\ r.lines = h.lines /\ r.warn = h.warn /\ r.gap = h.gap
        /\ r.line_idx = h.line_idx /\ r.warn_idx = h.warn_idx + 1
    BY <1>5 DEF Noted
  <2>2. Printed(r, q) = Printed(h, p)
    BY <1>1, <1>5, <2>1 DEF Printed
  <2> QED
    BY <1>1, <1>5, <2>1, <2>2 DEF Progress
<1>6. CASE /\ p = "loop" /\ q = "loop" /\ r = [h EXCEPT !.warn = FALSE]
           /\ h.gap /\ ~(h.warn_idx <= WarningLen(h.lines))
  <2>1. /\ r.ttyp = h.ttyp /\ r.lines = h.lines /\ r.warn = FALSE /\ r.gap = h.gap
        /\ r.line_idx = h.line_idx /\ r.warn_idx = h.warn_idx
    BY <1>6 DEF Noted
  <2>2. Printed(r, q) = Printed(h, p)
    BY <1>1, <1>6, <2>1 DEF Printed
  <2>3. h.warn_idx = WarningLen(a.lines) + 1
    BY <1>1, <1>6 DEF Progress
  <2> QED
    BY <1>1, <1>6, <2>1, <2>2, <2>3 DEF Progress
<1>7. CASE /\ p = "loop" /\ q = "end" /\ r = h
           /\ ~(h.line_idx <= TextLen(h.lines)) /\ ~h.warn
  <2>1. Printed(r, q) = Printed(h, p)
    BY <1>7 DEF Printed
  <2>2. h.line_idx = TextLen(a.lines) + 1
    BY <1>1, <1>7 DEF Progress
  <2> QED
    BY <1>7, <2>1, <2>2 DEF Progress
<1> QED
  BY <1>2, <1>3, <1>4, <1>5, <1>6, <1>7

\* At the end all of the text has been printed.
LEMMA Ends ==
    ASSUME NEW h \in Noted, NEW a \in Asked, NEW s, Progress(h, "end", a, s)
    PROVE  s = Whole(a)
<1>1. /\ h.line_idx = TextLen(a.lines) + 1 /\ ~h.warn
      /\ ~h.gap => h.warn_idx = 1
      /\ h.gap => a.warn
      /\ a.warn /\ ~h.warn => h.gap /\ h.warn_idx = WarningLen(a.lines) + 1
      /\ Prefix(s, Printed(h, "end"), Whole(a))
  BY DEF Progress
<1>2. TextLen(a.lines) \in Nat /\ WarningLen(a.lines) \in Nat
  BY PrintedFacts
<1>3. Printed(h, "end") = Len(Whole(a))
  <2>1. CASE a.warn
    <3>1. Printed(h, "end") = (h.line_idx - 1) + 0 + 1 + (h.warn_idx - 1) + 0
      BY <1>1, <2>1 DEF Printed
    <3>2. Len(Whole(a)) = TextLen(a.lines) + (1 + WarningLen(a.lines))
      BY <2>1, WholeFacts
    <3> QED
      BY <1>1, <1>2, <2>1, <3>1, <3>2
  <2>2. CASE ~a.warn
    <3>1. Printed(h, "end") = (h.line_idx - 1) + 0 + 0 + (h.warn_idx - 1) + 0
      BY <1>1, <2>2 DEF Printed
    <3>2. Len(Whole(a)) = TextLen(a.lines) + 0
      BY <2>2, WholeFacts
    <3> QED
      BY <1>1, <1>2, <2>2, <3>1, <3>2
  <2> QED
    BY <2>1, <2>2
<1>4. Prefix(s, Len(Whole(a)), Whole(a))
  BY <1>1, <1>3, Zenon
<1> QED
  BY <1>4, PrefixWhole
-----------------------------------------------------------------------------
(* The steps of HELP *)

\* Every step that HELP takes is one of the output, or leaves it alone.
LEMMA HelpOut ==
    ASSUME HelpInv, Next
    PROVE  OutStep \/ UNCHANGED outVars
<1>1. /\ NewLine \in Seq(Char) /\ OkText \in Seq(Char) /\ Echo \subseteq Seq(Char)
      /\ help \in Noted /\ help.line_idx # 0 /\ help.warn_idx # 0
  BY HelpAssumption DEF HelpInv
<1>2. ASSUME NEW t, NEW text \in Seq(Char), TtyWrite(t, text)
      PROVE  OutStep \/ UNCHANGED outVars
  BY <1>2, Zenon DEF TtyWrite, OutStep
<1>3. help.lines \in Language /\ help.line_idx \in Nat \ {0} /\ help.warn_idx \in Nat \ {0}
  BY <1>1 DEF Noted
<1>4. CASE PollLine
  <2>1. PICK text \in Lines : TtyWrite(help.ttyp, text)
    BY <1>4, Zenon DEF PollLine, PrintLine
  <2>2. text \in Seq(Char)
    <3>1. CASE LinesLeft
      <4>1. Lines = {Text[help.lines][help.line_idx]}
        <5>1. LinesLeft => ~BeyondEnd
          BY <1>3, TextFacts DEF LinesLeft, BeyondEnd, TextLen
        <5> QED
          BY <3>1, <5>1 DEF Lines
      <4>2. help.line_idx \in 1 .. TextLen(help.lines)
        BY <1>3, <3>1, TextFacts DEF LinesLeft, TextLen
      <4> QED
        BY <1>3, <2>1, <4>1, <4>2, TextFacts
    <3>2. CASE ~LinesLeft
      <4>1. Lines = UNION {{Text[l][i] : i \in DOMAIN Text[l]} : l \in Language} \/ Lines = {}
        BY <3>2 DEF Lines
      <4>2. PICK l \in Language : \E i \in DOMAIN Text[l] : text = Text[l][i]
        BY <2>1, <4>1
      <4>3. \A i \in DOMAIN Text[l] : Text[l][i] \in Seq(Char)
        BY TextFacts
      <4> QED
        BY <4>2, <4>3
    <3> QED
      BY <3>1, <3>2
  <2> QED
    BY <1>2, <2>1, <2>2
<1>5. CASE PollGap
  <2>1. TtyWrite(help.ttyp, NewLine)
    BY <1>5, Zenon DEF PollGap, PrintLine
  <2> QED
    BY <1>1, <1>2, <2>1
<1>6. CASE PollWarning
  <2>1. CASE WarningsLeft
    <3>1. TtyWrite(help.ttyp, Warning[help.lines][help.warn_idx])
      BY <1>6, <2>1, Zenon DEF PollWarning, PrintLine
    <3>2. help.warn_idx \in 1 .. WarningLen(help.lines)
      BY <1>3, <2>1, TextFacts DEF WarningsLeft, WarningLen
    <3>3. Warning[help.lines][help.warn_idx] \in Seq(Char)
      BY <1>3, <3>2, TextFacts
    <3> QED
      BY <1>2, <3>1, <3>3
  <2>2. CASE ~WarningsLeft
    BY <1>6, <2>2, Zenon DEF PollWarning
  <2> QED
    BY <2>1, <2>2
<1>7. CASE PollNewLine
  <2>1. TtyWrite(help.ttyp, NewLine)
    BY <1>7, Zenon DEF PollNewLine
  <2> QED
    BY <1>1, <1>2, <2>1
<1>8. CASE PollNext \/ PollEnd
  BY <1>8 DEF PollNext, PollEnd
<1>9. CASE PollOk
  <2>1. TtyWrite(help.ttyp, OkText) \/ UNCHANGED outVars
    BY <1>9, Zenon DEF PollOk
  <2> QED
    BY <1>1, <1>2, <2>1
<1>10. CASE WriteStep
  BY <1>10 DEF OutStep
<1>11. CASE \E l \in Language : UsbBadHelp(l)
  <2>1. \E text \in Echo : UsbInterruptWrite(text)
    BY <1>11, Zenon DEF UsbBadHelp
  <2> QED
    BY <1>1, <2>1 DEF OutStep
<1>12. CASE \/ \E l \in Language : UartHelp(l)
            \/ \E w \in BOOLEAN : UartHelpGood(w) \/ \E l \in Language : UsbHelp(l, w)
            \/ UartHelpBad
  BY <1>12 DEF UartHelp, UartHelpGood, UsbHelp, UartHelpBad
<1>13. CASE \E text \in Echo : UsbInterruptWrite(text)
  BY <1>1, <1>13 DEF OutStep
<1>14. CASE TxComplete \/ LineState
  BY <1>14 DEF OutStep
<1> QED
  BY <1>4, <1>5, <1>6, <1>7, <1>8, <1>9, <1>10, <1>11, <1>12, <1>13, <1>14, Zenon
     DEF Next, HelpPoll

\* Every step of help_poll, and a HELP at any time, keeps it.
LEMMA HelpInvStep ==
    ASSUME HelpInv, Next \/ UNCHANGED helpVars
    PROVE  HelpInv'
<1>1. /\ help \in Noted /\ help.line_idx # 0 /\ help.warn_idx # 0
      /\ asked \in Asked /\ wanted \in Language /\ mixed \in BOOLEAN /\ at \in Stage
      /\ Kept(help, at, asked, shown, mixed)
  BY DEF HelpInv
<1>2. /\ at \in {"line", "lineEnd", "warning", "warningEnd", "end"} => help.active
      /\ ~mixed =>
           /\ at \in {"asked", "ok"} => ~help.active
           /\ help.active => Progress(help, at, asked, shown)
           /\ ~help.active /\ help.ok_pending => shown = Whole(asked)
           /\ at = "ok" => shown = Whole(asked)
  BY <1>1 DEF Kept
<1>3. /\ help.lines \in Language /\ help.line_idx \in Nat \ {0} /\ help.warn_idx \in Nat \ {0}
      /\ asked.lines \in Language
  BY <1>1 DEF Noted, Asked
<1>4. ASSUME mixed' = mixed, asked' = asked, wanted' = wanted, help' \in Noted,
             help'.line_idx # 0, help'.warn_idx # 0, at' \in Stage,
             Kept(help', at', asked, shown', mixed)
      PROVE  HelpInv'
  BY <1>1, <1>4 DEF HelpInv
<1>5. CASE PollLine
  <2>1. /\ at = "loop" /\ help.active /\ at' = "line" /\ help' = help
        /\ shown' = IF mixed THEN <<>> ELSE Append(shown, <<help.ttyp>> \o <<help.lines, help.line_idx>>)
        /\ asked' = asked /\ wanted' = wanted /\ mixed' = mixed
        /\ \E text \in Lines : TRUE
    BY <1>5, Zenon DEF PollLine, PrintLine, Ready
  <2>2. ASSUME ~mixed
        PROVE  Progress(help, "line", asked, shown')
    <3>1. Progress(help, "loop", asked, shown)
      BY <1>2, <2>1, <2>2
    <3>2. help.line_idx <= TextLen(help.lines)
      <4>1. PICK n \in Nat : n = TextLen(help.lines)
        BY <1>3, TextFacts
      <4>2. help.line_idx <= n + 1
        BY <3>1, <4>1 DEF Progress
      <4>3. LinesLeft \/ BeyondEnd
        BY <2>1, Zenon DEF Lines
      <4>4. BeyondEnd => help.line_idx >= n + 2
        BY <4>1 DEF BeyondEnd, TextLen
      <4>5. LinesLeft => help.line_idx <= n
        BY <4>1 DEF LinesLeft, TextLen
      <4> QED
        BY <1>3, <4>1, <4>2, <4>3, <4>4, <4>5
    <3>3. shown' = Append(shown, <<help.ttyp>> \o <<help.lines, help.line_idx>>)
      BY <2>1, <2>2
    <3> QED
      BY <1>1, <3>1, <3>2, <3>3, LinePrinted
  <2>3. Kept(help', at', asked, shown', mixed)
    BY <2>1, <2>2 DEF Kept
  <2> QED
    BY <1>1, <1>4, <2>1, <2>3 DEF Stage
<1>6. CASE PollGap
  <2>1. /\ at = "loop" /\ help.active /\ at' = at /\ help' = [help EXCEPT !.gap = TRUE]
        /\ shown' = IF mixed THEN <<>> ELSE Append(shown, <<help.ttyp>> \o <<"gap", 0>>)
        /\ asked' = asked /\ wanted' = wanted /\ mixed' = mixed
        /\ ~LinesLeft /\ help.warn /\ ~help.gap
    BY <1>6, Zenon DEF PollGap, PrintLine, Ready
  <2>2. help' \in Noted /\ help'.active /\ help'.line_idx # 0 /\ help'.warn_idx # 0
    BY <1>1, <2>1 DEF Noted
  <2>3. ASSUME ~mixed
        PROVE  Progress(help', "loop", asked, shown')
    <3>1. Progress(help, "loop", asked, shown)
      BY <1>2, <2>1, <2>3
    <3>2. ~(help.line_idx <= TextLen(help.lines))
      BY <2>1 DEF LinesLeft, TextLen
    <3>3. shown' = Append(shown, <<help.ttyp>> \o <<"gap", 0>>)
      BY <2>1, <2>3
    <3> QED
      BY <1>1, <2>1, <3>1, <3>2, <3>3, GapPrinted
  <2>4. Kept(help', at', asked, shown', mixed)
    BY <2>1, <2>2, <2>3 DEF Kept
  <2> QED
    BY <1>1, <1>4, <2>1, <2>2, <2>4
<1>7. CASE PollWarning
  <2>1. /\ at = "loop" /\ help.active /\ help.warn /\ help.gap
        /\ asked' = asked /\ wanted' = wanted /\ mixed' = mixed
    BY <1>7, Zenon DEF PollWarning, PrintLine, Ready
  <2>2. CASE WarningsLeft
    <3>1. /\ help' = help /\ at' = "warning"
          /\ shown' = IF mixed THEN <<>> ELSE Append(shown, <<help.ttyp>> \o <<"warning", help.warn_idx>>)
      BY <1>7, <2>2, Zenon DEF PollWarning, PrintLine
    <3>2. ASSUME ~mixed
          PROVE  Progress(help, "warning", asked, shown')
      <4>1. Progress(help, "loop", asked, shown)
        BY <1>2, <2>1, <3>2
      <4>2. help.warn_idx <= WarningLen(help.lines)
        BY <2>2 DEF WarningsLeft, WarningLen
      <4>3. shown' = Append(shown, <<help.ttyp>> \o <<"warning", help.warn_idx>>)
        BY <3>1, <3>2
      <4> QED
        BY <1>1, <2>1, <4>1, <4>2, <4>3, WarningPrinted
    <3>3. Kept(help', at', asked, shown', mixed)
      BY <2>1, <3>1, <3>2 DEF Kept
    <3> QED
      BY <1>1, <1>4, <2>1, <3>1, <3>3 DEF Stage
  <2>3. CASE ~WarningsLeft
    <3>1. help' = [help EXCEPT !.warn = FALSE] /\ at' = at /\ shown' = shown
      BY <1>7, <2>3, Zenon DEF PollWarning
    <3>2. help' \in Noted /\ help'.active /\ help'.line_idx # 0 /\ help'.warn_idx # 0
      BY <1>1, <2>1, <3>1 DEF Noted
    <3>3. ASSUME ~mixed
          PROVE  Progress(help', "loop", asked, shown)
      <4>1. Progress(help, "loop", asked, shown)
        BY <1>2, <2>1, <3>3
      <4>2. ~(help.warn_idx <= WarningLen(help.lines))
        BY <2>3 DEF WarningsLeft, WarningLen
      <4> QED
        BY <1>1, <2>1, <3>1, <4>1, <4>2, MovesOn
    <3>4. Kept(help', at', asked, shown', mixed)
      BY <2>1, <3>1, <3>2, <3>3 DEF Kept
    <3> QED
      BY <1>1, <1>4, <2>1, <3>1, <3>2, <3>4
  <2> QED
    BY <2>2, <2>3
<1>8. CASE PollNewLine
  <2>1. /\ \/ at = "line" /\ at' = "lineEnd"
           \/ at = "warning" /\ at' = "warningEnd"
        /\ help' = help /\ asked' = asked /\ shown' = shown /\ wanted' = wanted /\ mixed' = mixed
    BY <1>8, Zenon DEF PollNewLine, Ready
  <2>2. ~mixed => Progress(help, at', asked, shown)
    BY <1>1, <1>2, <2>1, MovesOn
  <2>3. Kept(help', at', asked, shown', mixed)
    BY <1>2, <2>1, <2>2 DEF Kept
  <2> QED
    BY <1>1, <1>4, <2>1, <2>3 DEF Stage
<1>9. CASE PollNext
  <2>1. /\ \/ at = "lineEnd" /\ help' = [help EXCEPT !.line_idx = @ + 1]
           \/ at = "warningEnd" /\ help' = [help EXCEPT !.warn_idx = @ + 1]
        /\ at' = "loop"
        /\ asked' = asked /\ shown' = shown /\ wanted' = wanted /\ mixed' = mixed
    BY <1>9, Zenon DEF PollNext, Ready
  <2>2. help' \in Noted /\ help'.active /\ help'.line_idx # 0 /\ help'.warn_idx # 0
    BY <1>1, <1>2, <2>1 DEF Noted
  <2>3. ~mixed => Progress(help', "loop", asked, shown)
    BY <1>1, <1>2, <2>1, MovesOn
  <2>4. Kept(help', at', asked, shown', mixed)
    BY <2>1, <2>2, <2>3 DEF Kept
  <2> QED
    BY <1>1, <1>4, <2>1, <2>2, <2>4 DEF Stage
<1>10. CASE PollEnd
  <2>1. /\ \/ /\ at = "loop" /\ help.active /\ ~LinesLeft /\ ~help.warn /\ at' = "end" /\ help' = help
           \/ /\ at = "end" /\ help' = [help EXCEPT !.active = FALSE, !.ok_pending = TRUE]
              /\ at' = "loop"
        /\ asked' = asked /\ shown' = shown /\ wanted' = wanted /\ mixed' = mixed
    BY <1>10, Zenon DEF PollEnd, Ready
  <2>2. CASE at = "loop" /\ help.active /\ ~LinesLeft /\ ~help.warn /\ at' = "end" /\ help' = help
    <3>1. ~(help.line_idx <= TextLen(help.lines))
      BY <2>2 DEF LinesLeft, TextLen
    <3>2. ~mixed => Progress(help, "end", asked, shown)
      BY <1>1, <1>2, <2>2, <3>1, MovesOn
    <3>3. Kept(help', at', asked, shown', mixed)
      BY <2>1, <2>2, <3>2 DEF Kept
    <3> QED
      BY <1>1, <1>4, <2>1, <2>2, <3>3 DEF Stage
  <2>3. CASE /\ at = "end" /\ help' = [help EXCEPT !.active = FALSE, !.ok_pending = TRUE]
             /\ at' = "loop"
    <3>1. help' \in Noted /\ ~help'.active /\ help'.line_idx # 0 /\ help'.warn_idx # 0
      BY <1>1, <2>3 DEF Noted
    <3>2. ~mixed => shown = Whole(asked)
      BY <1>1, <1>2, <2>3, Ends
    <3>3. Kept(help', at', asked, shown', mixed)
      BY <2>1, <2>3, <3>1, <3>2 DEF Kept
    <3> QED
      BY <1>1, <1>4, <2>1, <2>3, <3>1, <3>3 DEF Stage
  <2> QED
    BY <2>1, <2>2, <2>3
<1>11. CASE PollOk
  <2>1. /\ \/ at = "loop" /\ ~help.active /\ help.ok_pending /\ at' = "ok" /\ help' = help
           \/ at = "ok" /\ help' = [help EXCEPT !.ok_pending = FALSE, !.ttyp = "none"] /\ at' = "loop"
        /\ asked' = asked /\ shown' = shown /\ wanted' = wanted /\ mixed' = mixed
    BY <1>11, Zenon DEF PollOk, Ready
  <2>2. CASE at = "loop" /\ ~help.active /\ help.ok_pending /\ at' = "ok" /\ help' = help
    <3>1. Kept(help', at', asked, shown', mixed)
      BY <1>2, <2>1, <2>2 DEF Kept
    <3> QED
      BY <1>1, <1>4, <2>1, <2>2, <3>1 DEF Stage
  <2>3. CASE at = "ok" /\ help' = [help EXCEPT !.ok_pending = FALSE, !.ttyp = "none"] /\ at' = "loop"
    <3>1. /\ help' \in Noted /\ help'.active = help.active /\ ~help'.ok_pending
          /\ help'.line_idx # 0 /\ help'.warn_idx # 0
      BY <1>1, <2>3 DEF Noted
    <3>2. Kept(help', at', asked, shown', mixed)
      BY <1>2, <2>1, <2>3, <3>1 DEF Kept
    <3> QED
      BY <1>1, <1>4, <2>1, <2>3, <3>1, <3>2 DEF Stage
  <2> QED
    BY <2>1, <2>2, <2>3
<1>12. ASSUME NEW l \in Language, NEW w \in BOOLEAN, UsbHelp(l, w)
       PROVE  HelpInv'
  <2>1. PICK h : h = [help EXCEPT !.lines = l]
    OBVIOUS
  <2>2. PICK b \in BOOLEAN : b = (at \notin {"loop", "line", "lineEnd"})
    OBVIOUS
  <2>a. PICK a : a = [ttyp |-> "usb", lines |-> l, warn |-> w]
    OBVIOUS
  <2>3. /\ help' = Activate(h, "usb", w) /\ at' = at /\ wanted' = wanted
        /\ asked' = (IF b THEN NotAsked ELSE a)
        /\ shown' = (IF b THEN <<>> ELSE Passed(a)) /\ mixed' = b
    BY <1>12, <2>1, <2>2, <2>a, Zenon DEF UsbHelp, Asks
  <2>4. h \in Noted /\ h.lines = l
    BY <1>1, <2>1 DEF Noted
  <2>5. /\ help' \in Noted /\ help'.line_idx = 1 /\ help'.warn_idx = 1 /\ help'.active /\ ~help'.gap
        /\ help'.ttyp = "usb" /\ help'.lines = l /\ (help'.warn <=> w)
    <3>1. "usb" \in Terminal
      BY DEF Terminal
    <3> QED
      BY <2>3, <2>4, <3>1, ActivateFacts
  <2>6. CASE b
    <3>1. asked' \in Asked /\ mixed' = TRUE
      BY <2>3, <2>6, HelpAssumption DEF NotAsked, Asked
    <3>2. Kept(help', at', asked', shown', mixed')
      BY <2>5, <3>1 DEF Kept
    <3>3. mixed' \in BOOLEAN
      BY <3>1, Zenon
    <3>4. /\ at' \in Stage /\ wanted' \in Language
          /\ help' \in Noted /\ help'.line_idx # 0 /\ help'.warn_idx # 0
      BY <1>1, <2>3, <2>5
    <3> QED
      BY <3>1, <3>2, <3>3, <3>4, Zenon DEF HelpInv
  <2>7. CASE ~b
    <3>1. asked' = a /\ shown' = Passed(a) /\ at \in {"loop", "line", "lineEnd"}
      BY <2>2, <2>3, <2>7
    <3>2. asked' \in Asked
      BY <2>a, <3>1 DEF Asked, Terminal
    <3>3. Progress(help', at, a, Passed(a))
      <4>1. "usb" \in Terminal /\ at \in {"loop", "asked", "ok", "line", "lineEnd"}
        BY <3>1 DEF Terminal
      <4>2. Passed(a) = IF at \in {"line", "lineEnd"} THEN <<Whole(a)[1]>> ELSE <<>>
        BY DEF Passed
      <4> QED
        BY <2>a, <2>5, <4>1, <4>2, Begins
    <3>4. Kept(help', at', asked', shown', mixed')
      BY <2>3, <2>5, <3>1, <3>3 DEF Kept
    <3>5. mixed' \in BOOLEAN
      BY <2>3, Zenon
    <3> QED
      BY <1>1, <2>3, <2>5, <3>2, <3>4, <3>5 DEF HelpInv
  <2> QED
    BY <2>6, <2>7
<1>13. ASSUME NEW l \in Language, UsbBadHelp(l)
       PROVE  HelpInv'
  <2>1. PICK b \in BOOLEAN : b = (help.active \/ at # "loop")
    OBVIOUS
  <2>2. help' = [help EXCEPT !.lines = l] /\ at' = at /\ wanted' = wanted /\ BadHelp(b)
    BY <1>13, <2>1, Zenon DEF UsbBadHelp
  <2>3. /\ help' \in Noted /\ help'.line_idx # 0 /\ help'.warn_idx # 0
        /\ help'.active = help.active /\ help'.ok_pending = help.ok_pending
    BY <1>1, <2>2 DEF Noted
  <2>4. CASE b
    <3>1. asked' = NotAsked /\ shown' = <<>> /\ mixed' = TRUE
      BY <2>2, <2>4, Zenon DEF BadHelp, Asks
    <3>2. asked' \in Asked
      BY <3>1, HelpAssumption DEF NotAsked, Asked
    <3>3. Kept(help', at', asked', shown', mixed')
      BY <1>2, <2>2, <2>3, <3>1 DEF Kept
    <3>4. mixed' \in BOOLEAN
      BY <3>1, Zenon
    <3> QED
      BY <1>1, <2>2, <2>3, <3>2, <3>3, <3>4 DEF HelpInv
  <2>5. CASE ~b
    <3>1. asked' = asked /\ shown' = shown /\ mixed' = mixed
      BY <2>2, <2>5, Zenon DEF BadHelp
    <3>2. ~help.active /\ at = "loop"
      BY <2>1, <2>5
    <3>3. Kept(help', at', asked, shown', mixed)
      BY <1>2, <2>2, <2>3, <3>1, <3>2 DEF Kept
    <3> QED
      BY <1>1, <1>4, <2>2, <2>3, <3>1, <3>3
  <2> QED
    BY <2>4, <2>5
<1>14. ASSUME NEW l \in Language, UartHelp(l)
       PROVE  HelpInv'
  <2>1. PICK b \in BOOLEAN : b = help.active
    BY <1>1 DEF Noted
  <2>2. /\ at = "loop" /\ help' = [help EXCEPT !.lines = l] /\ at' = "asked" /\ wanted' = l
        /\ BadHelp(b)
    BY <1>14, <2>1, Zenon DEF UartHelp
  <2>3. /\ help' \in Noted /\ help'.line_idx # 0 /\ help'.warn_idx # 0
        /\ help'.active = help.active /\ help'.ok_pending = help.ok_pending
    BY <1>1, <2>2 DEF Noted
  <2>4. CASE b
    <3>1. asked' = NotAsked /\ shown' = <<>> /\ mixed' = TRUE
      BY <2>2, <2>4, Zenon DEF BadHelp, Asks
    <3>2. asked' \in Asked
      BY <3>1, HelpAssumption DEF NotAsked, Asked
    <3>3. Kept(help', at', asked', shown', mixed')
      BY <2>2, <3>1 DEF Kept
    <3>4. mixed' \in BOOLEAN /\ at' \in Stage /\ wanted' \in Language
      <4>1. mixed' \in BOOLEAN
        BY <3>1, Zenon
      <4> QED
        BY <2>2, <4>1 DEF Stage
    <3> QED
      BY <2>3, <3>2, <3>3, <3>4 DEF HelpInv
  <2>5. CASE ~b
    <3>1. asked' = asked /\ shown' = shown /\ mixed' = mixed
      BY <2>2, <2>5, Zenon DEF BadHelp
    <3>2. Kept(help', at', asked, shown, mixed)
      BY <1>2, <2>1, <2>2, <2>3, <2>5 DEF Kept
    <3>3. at' \in Stage /\ wanted' \in Language
      BY <2>2 DEF Stage
    <3> QED
      BY <1>1, <2>3, <3>1, <3>2, <3>3 DEF HelpInv
  <2> QED
    BY <2>4, <2>5
<1>15. ASSUME NEW w \in BOOLEAN, UartHelpGood(w)
       PROVE  HelpInv'
  <2>1. PICK b \in BOOLEAN : b = (help.lines # wanted)
    OBVIOUS
  <2>2. /\ help' = Activate(help, "uart", w) /\ at' = "loop" /\ wanted' = "en"
        /\ asked' = (IF b THEN NotAsked ELSE [ttyp |-> "uart", lines |-> wanted, warn |-> w])
        /\ shown' = <<>> /\ mixed' = b
    <3>1. at = "asked" /\ at \notin {"line", "lineEnd"}
      BY <1>15 DEF UartHelpGood
    <3> QED
      BY <1>15, <2>1, <3>1, Zenon DEF UartHelpGood, Asks, Passed
  <2>3. /\ help' \in Noted /\ help'.line_idx = 1 /\ help'.warn_idx = 1 /\ help'.active /\ ~help'.gap
        /\ help'.ttyp = "uart" /\ help'.lines = help.lines /\ (help'.warn <=> w)
    <3>1. "uart" \in Terminal
      BY DEF Terminal
    <3> QED
      BY <1>1, <2>2, <3>1, ActivateFacts
  <2>4. at' \in Stage /\ wanted' \in Language /\ mixed' \in BOOLEAN
    <3>1. mixed' \in BOOLEAN
      BY <2>2, Zenon
    <3> QED
      BY <2>2, <3>1, HelpAssumption DEF Stage
  <2>5. CASE b
    <3>1. asked' \in Asked /\ mixed' = TRUE
      BY <2>2, <2>5, HelpAssumption DEF NotAsked, Asked
    <3>2. Kept(help', at', asked', shown', mixed')
      BY <2>2, <3>1 DEF Kept
    <3> QED
      BY <2>3, <2>4, <3>1, <3>2 DEF HelpInv
  <2>6. CASE ~b
    <3>1. asked' = [ttyp |-> "uart", lines |-> wanted, warn |-> w] /\ help.lines = wanted
      BY <2>1, <2>2, <2>6
    <3>2. asked' \in Asked
      BY <1>1, <3>1 DEF Asked, Terminal
    <3>3. Progress(help', "loop", [ttyp |-> "uart", lines |-> wanted, warn |-> w], <<>>)
      <4>1. "uart" \in Terminal /\ "loop" \in {"loop", "asked", "ok", "line", "lineEnd"}
        BY DEF Terminal
      <4> QED
        BY <1>1, <2>3, <3>1, <4>1, Begins
    <3>4. Kept(help', at', asked', shown', mixed')
      BY <2>2, <2>3, <3>1, <3>3 DEF Kept
    <3> QED
      BY <2>3, <2>4, <3>2, <3>4 DEF HelpInv
  <2> QED
    BY <2>5, <2>6
<1>16. CASE UartHelpBad
  <2>1. /\ at = "asked" /\ at' = "loop" /\ wanted' = "en"
        /\ help' = help /\ asked' = asked /\ shown' = shown /\ mixed' = mixed
    BY <1>16, Zenon DEF UartHelpBad
  <2>2. Kept(help', at', asked, shown', mixed)
    BY <1>2, <2>1 DEF Kept
  <2>3. at' \in Stage /\ wanted' \in Language
    BY <2>1, HelpAssumption DEF Stage
  <2> QED
    BY <1>1, <2>1, <2>2, <2>3 DEF HelpInv
<1>17. CASE UNCHANGED helpVars
  <2>1. /\ help' = help /\ at' = at /\ asked' = asked /\ shown' = shown /\ wanted' = wanted
        /\ mixed' = mixed
    BY <1>17 DEF helpVars
  <2> QED
    BY <1>1, <1>4, <2>1
<1> QED
  BY <1>5, <1>6, <1>7, <1>8, <1>9, <1>10, <1>11, <1>12, <1>13, <1>14, <1>15, <1>16, <1>17,
     Zenon
     DEF Next, HelpPoll
-----------------------------------------------------------------------------
\* Whatever HELP and the interrupt print, the output and the state of the HELP command
\* stay within their types, and the indices into a text that no other HELP has touched
\* stay within that text.
THEOREM TypeCorrect == Spec => []TypeOK
<1> DEFINE Both == OutInv /\ HelpInv
<1>1. Init => Both
  BY OutInvInit, HelpInvInit DEF Init
<1>2. Both /\ [Next]_vars => Both'
  <2> SUFFICES ASSUME Both, Next \/ UNCHANGED vars
               PROVE  Both'
    BY Zenon
  <2>1. OutStep \/ UNCHANGED outVars
    BY HelpOut DEF vars
  <2>2. Next \/ UNCHANGED helpVars
    BY DEF vars
  <2> QED
    BY <2>1, <2>2, OutInvStep, HelpInvStep
<1>3. Both => TypeOK
  <2> SUFFICES ASSUME Both
               PROVE  TypeOK
    OBVIOUS
  <2>1. /\ TypeOKOut /\ help \in Noted /\ asked \in Asked /\ wanted \in Language
        /\ mixed \in BOOLEAN /\ at \in Stage /\ Kept(help, at, asked, shown, mixed)
    BY DEF OutInv, HelpInv
  <2>2. ASSUME help.active, ~mixed
        PROVE  /\ help.line_idx \in 1 .. Len(Text[help.lines]) + 1
               /\ help.warn_idx \in 1 .. Len(Warning[help.lines]) + 1
    <3>1. Progress(help, at, asked, shown)
      BY <2>1, <2>2 DEF Kept
    <3> QED
      BY <3>1 DEF Progress, TextLen, WarningLen
  <2> QED
    BY <2>1, <2>2 DEF TypeOK, Noted, Asked, Stage
<1> QED
  BY <1>1, <1>2, <1>3, PTL DEF Spec

\* OK follows the whole of the text asked for, line by line, but for a first line that
\* help_poll passes over when HELP is given in the interrupt while it prints another.
THEOREM HelpIsWhole == Spec => []HelpWhole
<1>1. Init => HelpInv
  BY HelpInvInit
<1>2. HelpInv /\ [Next]_vars => HelpInv'
  <2> SUFFICES ASSUME HelpInv, Next \/ UNCHANGED vars
               PROVE  HelpInv'
    BY Zenon
  <2>1. Next \/ UNCHANGED helpVars
    BY DEF vars
  <2> QED
    BY <2>1, HelpInvStep
<1>3. HelpInv => HelpWhole
  BY DEF HelpInv, Kept, HelpWhole
<1> QED
  BY <1>1, <1>2, <1>3, PTL DEF Spec

\* The bytes of each writer reach the endpoint and the queue in the order in which they
\* were written.
THEOREM InItsOrder == Spec => []InOrder
<1> DEFINE Both == OutInv /\ HelpInv
<1>1. Init => Both
  BY OutInvInit, HelpInvInit DEF Init
<1>2. Both /\ [Next]_vars => Both'
  <2> SUFFICES ASSUME Both, Next \/ UNCHANGED vars
               PROVE  Both'
    BY Zenon
  <2>1. OutStep \/ UNCHANGED outVars
    BY HelpOut DEF vars
  <2>2. Next \/ UNCHANGED helpVars
    BY DEF vars
  <2> QED
    BY <2>1, <2>2, OutInvStep, HelpInvStep
<1>3. Both => InOrder
  BY OutInvInOrder
<1> QED
  BY <1>1, <1>2, <1>3, PTL DEF Spec

\* The queue does not wait for a transfer that is not under way, as long as at most one
\* transfer ends between two steps of the main loop's usb_write.
THEOREM QueueAwake ==
    ASSUME MaxDone <= 1
    PROVE  Spec => []Awake
<1> DEFINE All == OutInv /\ HelpInv /\ AwakeInv
<1>1. Init => All
  BY OutInvInit, HelpInvInit, AwakeInit DEF Init
<1>2. All /\ [Next]_vars => All'
  <2> SUFFICES ASSUME All, Next \/ UNCHANGED vars
               PROVE  All'
    BY Zenon
  <2>1. OutStep \/ UNCHANGED outVars
    BY HelpOut DEF vars
  <2>2. Next \/ UNCHANGED helpVars
    BY DEF vars
  <2> QED
    BY <2>1, <2>2, OutInvStep, HelpInvStep, AwakeStep
<1>3. All => Awake
  BY DEF AwakeInv
<1> QED
  BY <1>1, <1>2, <1>3, PTL DEF Spec
=============================================================================
