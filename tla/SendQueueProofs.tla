-------------------------- MODULE SendQueueProofs --------------------------
(***************************************************************************)
(* Theorems about the send queue, for every size of the queue that a       *)
(* 16-bit length can count, every number of repeaters and any traffic of   *)
(* the main loop and the USB interrupt.                                    *)
(*                                                                         *)
(* Nothing in the queue marks where a frame ends.  The argument therefore  *)
(* numbers all bytes queued since the queue was last seen empty: frame j   *)
(* takes the bytes e[j - 1] + 1 .. e[j], and p of them have been taken.    *)
(* Carries says that the queue holds the bytes after p, each at its place; *)
(* Taking where send() stands in the frame it is sending; Putting which    *)
(* steps of the last frame the main-loop producer has done, that it is     *)
(* still the one that used the sniffer, that UNPROTO still names as many   *)
(* repeaters as it counted, and that the room it checked for is still      *)
(* there.  None of the three is inductive alone.  All of it is claimed     *)
(* only while no interrupt has run inside a producer (disturbed); when     *)
(* send() next finds the queue empty it holds again from nothing.          *)
(***************************************************************************)
EXTENDS SendQueue, SequenceTheorems, TLAPS

Byte == 0 .. Radix - 1
Frame == {f \in Seq(Byte) : Len(f) >= 1}
Reps == 0 .. MaxRepeaters

LEMMA Sizes ==
    /\ Radix \in Nat /\ Radix > 1
    /\ SendQueueLen \in Nat /\ SendQueueLen <= Radix * Radix
    /\ MaxRepeaters \in Nat /\ Info \subseteq Byte
<1>1. /\ Radix \in Nat \ {0, 1} /\ SendQueueLen \in Nat /\ SendQueueLen <= Radix * Radix
      /\ MaxRepeaters \in Nat /\ Info \subseteq 0 .. Radix - 1
  BY SendQueueAssumption, RadixAssumption, Zenon
<1> QED
  BY <1>1 DEF Byte

\* The two bytes of a length give it back, if it fits them.
LEMMA LengthBack ==
    ASSUME NEW n \in Nat, n < Radix * Radix
    PROVE  /\ LengthLo(n) \in Byte /\ LengthHi(n) \in Byte
           /\ LengthOf(LengthLo(n), LengthHi(n)) = n
<1>1. Radix \in Nat /\ Radix > 1
  BY Sizes
<1>2. /\ n \div Radix \in Nat /\ n % Radix \in 0 .. Radix - 1
      /\ n = Radix * (n \div Radix) + (n % Radix)
  BY <1>1
<1>3. n \div Radix < Radix
  <2>1. SUFFICES ASSUME n \div Radix >= Radix PROVE FALSE
    BY <1>1, <1>2
  <2>2. Radix * (n \div Radix) >= Radix * Radix
    BY <1>1, <1>2, <2>1
  <2> QED
    BY <1>1, <1>2, <2>2
<1>4. (n \div Radix) % Radix = n \div Radix
  BY <1>1, <1>2, <1>3
<1> QED
  BY <1>1, <1>2, <1>3, <1>4 DEF LengthLo, LengthHi, LengthOf, Byte

\* A frame in the queue: its length, then its bytes.
LEMMA WireFacts ==
    ASSUME NEW f \in Frame
    PROVE  /\ Len(f) \in Nat /\ Len(f) >= 1
           /\ Wire(f) \in Seq(Byte) /\ Len(Wire(f)) = Len(f) + 2
           /\ Wire(f)[1] = LengthLo(Len(f)) /\ Wire(f)[2] = LengthHi(Len(f))
           /\ \A b \in 1 .. Len(f) : Wire(f)[b + 2] = f[b]
<1>1. f \in Seq(Byte) /\ Len(f) \in Nat /\ Len(f) >= 1
  BY DEF Frame
<1>2. LengthLo(Len(f)) \in Byte /\ LengthHi(Len(f)) \in Byte
  <2>1. \A n \in Nat : n % Radix \in Byte /\ n \div Radix \in Nat
    BY Sizes DEF Byte
  <2> QED
    BY <1>1, <2>1, Zenon DEF LengthLo, LengthHi
<1> HIDE DEF LengthLo, LengthHi
<1>3. <<LengthLo(Len(f)), LengthHi(Len(f))>> \in Seq(Byte)
  BY <1>2
<1> QED
  BY <1>1, <1>2, <1>3 DEF Wire

\* The frame a producer queues, byte by byte.
LEMMA FrameFacts ==
    ASSUME NEW r \in Reps, NEW info \in Info
    PROVE  /\ FrameOf(r, info) \in Frame /\ Len(FrameOf(r, info)) = 4 + r
           /\ FrameOf(r, info)[1] = Dst /\ FrameOf(r, info)[2] = Src
           /\ \A j \in 1 .. r : FrameOf(r, info)[2 + j] = Repeater
           /\ FrameOf(r, info)[3 + r] = info /\ FrameOf(r, info)[4 + r] = FcsGood
<1> DEFINE reps == [j \in 1 .. r |-> Repeater]
<1>1. r \in Nat /\ {Dst, Src, Repeater, FcsGood, info} \subseteq Byte
  BY Sizes DEF Reps, Byte, Dst, Src, Repeater, FcsGood
<1>2. reps \in Seq(Byte) /\ Len(reps) = r /\ \A j \in 1 .. r : reps[j] = Repeater
  BY <1>1
<1> HIDE DEF reps, Dst, Src, Repeater, FcsGood
<1> DEFINE f == <<Dst, Src>> \o reps \o <<info, FcsGood>>
<1>3. f \in Seq(Byte) /\ Len(f) = 4 + r
  BY <1>1, <1>2
<1>4. f[1] = Dst /\ f[2] = Src
  BY <1>1, <1>2
<1>5. \A j \in 1 .. r : f[2 + j] = Repeater
  BY <1>1, <1>2
<1>6. f[3 + r] = info /\ f[4 + r] = FcsGood
  BY <1>1, <1>2
<1>7. f = FrameOf(r, info)
  BY DEF reps, FrameOf
<1> HIDE DEF f
<1> QED
  BY <1>1, <1>3, <1>4, <1>5, <1>6, <1>7 DEF Frame

\* The steps of a producer, one by one.
LEMMA StepsFacts ==
    ASSUME NEW r \in Reps
    PROVE  /\ Steps(r) \in Seq(Step) /\ Len(Steps(r)) = 7 + r
           /\ Steps(r)[1] = <<"lo", 0>> /\ Steps(r)[2] = <<"hi", 0>>
           /\ Steps(r)[3] = <<"dst", 0>> /\ Steps(r)[4] = <<"src", 0>>
           /\ \A j \in 1 .. r : Steps(r)[4 + j] = <<"rep", j>>
           /\ Steps(r)[5 + r] = <<"info", 0>> /\ Steps(r)[6 + r] = <<"sum", 0>>
           /\ Steps(r)[7 + r] = <<"fcs", 0>>
<1> DEFINE reps == [j \in 1 .. r |-> <<"rep", j>>]
           first == <<<<"lo", 0>>, <<"hi", 0>>, <<"dst", 0>>, <<"src", 0>>>>
           last == <<<<"info", 0>>, <<"sum", 0>>, <<"fcs", 0>>>>
<1>0. r \in Nat
  BY Sizes DEF Reps
<1>1. r \in Nat /\ \A j \in 1 .. r : <<"rep", j>> \in Step
  BY Sizes DEF Reps, Step
<1>2. reps \in Seq(Step) /\ Len(reps) = r /\ \A j \in 1 .. r : reps[j] = <<"rep", j>>
  BY <1>1
<1>3. /\ first \in Seq(Step) /\ Len(first) = 4
      /\ first[1] = <<"lo", 0>> /\ first[2] = <<"hi", 0>>
      /\ first[3] = <<"dst", 0>> /\ first[4] = <<"src", 0>>
  BY DEF Step
<1>4. /\ last \in Seq(Step) /\ Len(last) = 3
      /\ last[1] = <<"info", 0>> /\ last[2] = <<"sum", 0>> /\ last[3] = <<"fcs", 0>>
  BY DEF Step
<1>5. Steps(r) = first \o reps \o last
  BY DEF Steps
<1> HIDE DEF reps, first, last
<1>6. /\ Steps(r) \in Seq(Step) /\ Len(Steps(r)) = 4 + r + 3
      /\ \A j \in 1 .. 4 : Steps(r)[j] = first[j]
      /\ \A j \in 1 .. r : Steps(r)[4 + j] = reps[j]
      /\ \A j \in 1 .. 3 : Steps(r)[4 + r + j] = last[j]
  <2>1. PICK a \in Seq(Step), b \in Seq(Step), c \in Seq(Step) :
               a = first /\ b = reps /\ c = last
    BY <1>2, <1>3, <1>4
  <2>2. Len(a) = 4 /\ Len(b) = r /\ Len(c) = 3
    BY <1>2, <1>3, <1>4, <2>1
  <2>3. /\ a \o b \in Seq(Step) /\ Len(a \o b) = Len(a) + Len(b)
        /\ \A j \in 1 .. Len(a) : (a \o b)[j] = a[j]
        /\ \A j \in 1 .. Len(b) : (a \o b)[Len(a) + j] = b[j]
    OBVIOUS
  <2>4. /\ a \o b \o c \in Seq(Step) /\ Len(a \o b \o c) = Len(a \o b) + Len(c)
        /\ \A j \in 1 .. Len(a \o b) : (a \o b \o c)[j] = (a \o b)[j]
        /\ \A j \in 1 .. Len(c) : (a \o b \o c)[Len(a \o b) + j] = c[j]
    BY <2>3
  <2>6. /\ \A j \in 1 .. 4 : j \in 1 .. 4 + r
        /\ \A j \in 1 .. r : 4 + j \in 1 .. 4 + r
    BY <1>0
  <2> DEFINE s == a \o b \o c
             d == a \o b
  <2>7. s = Steps(r)
    BY <1>5, <2>1
  <2>8. /\ Len(d) = Len(a) + Len(b)
        /\ \A j \in 1 .. Len(a) : d[j] = a[j]
        /\ \A j \in 1 .. Len(b) : d[Len(a) + j] = b[j]
        /\ s \in Seq(Step) /\ Len(s) = Len(d) + Len(c)
        /\ \A j \in 1 .. Len(d) : s[j] = d[j]
        /\ \A j \in 1 .. Len(c) : s[Len(d) + j] = c[j]
    BY <2>3, <2>4
  <2> HIDE DEF s, d
  <2>9. Len(d) = 4 + r
    BY <1>0, <2>2, <2>8
  <2>10. /\ s \in Seq(Step) /\ Len(s) = 4 + r + 3
         /\ \A j \in 1 .. 4 : s[j] = d[j]
         /\ \A j \in 1 .. r : s[4 + j] = d[4 + j]
         /\ \A j \in 1 .. 3 : s[4 + r + j] = c[j]
    BY <1>0, <2>2, <2>6, <2>8, <2>9
  <2>11. /\ \A j \in 1 .. 4 : d[j] = a[j]
         /\ \A j \in 1 .. r : d[4 + j] = b[j]
    BY <1>0, <2>2, <2>8
  <2> QED
    BY <2>1, <2>6, <2>7, <2>10, <2>11
<1>10. Steps(r)[5 + r] = last[1] /\ Steps(r)[6 + r] = last[2] /\ Steps(r)[7 + r] = last[3]
  <2>1. 4 + r + 1 = 5 + r /\ 4 + r + 2 = 6 + r /\ 4 + r + 3 = 7 + r
    BY <1>1
  <2> QED
    BY <1>6, <2>1
<1> QED
  BY <1>2, <1>3, <1>4, <1>6, <1>10, SMTT(30)
-----------------------------------------------------------------------------
(* Types *)

Types ==
    /\ send_queue \in Seq(Byte) /\ Len(send_queue) <= SendQueueLen
    /\ repeaters \in Reps /\ sniffer \in {"main", "usb"}
    /\ todo \in Seq(Step)
    /\ job \in [kind : Kind, reps : Reps, info : Info]
    /\ sending \in BOOLEAN /\ send_len \in Int /\ sent \in Seq(Byte)
    /\ disturbed \in BOOLEAN
    /\ offered \in Seq(Frame) /\ taken \in Seq(Seq(Byte))

LEMMA TypesOK == Types => TypeOK
BY Zenon DEF Types, TypeOK, Byte, Reps

\* Two sequences one after the other; the empty one; the first elements gone.
LEMMA Joined ==
    ASSUME NEW S, NEW a \in Seq(S), NEW b \in Seq(S)
    PROVE  /\ a \o b \in Seq(S) /\ Len(a \o b) = Len(a) + Len(b)
           /\ \A j \in 1 .. Len(a) : (a \o b)[j] = a[j]
           /\ \A j \in 1 .. Len(b) : (a \o b)[Len(a) + j] = b[j]
OBVIOUS

LEMMA Longer ==
    ASSUME NEW S, NEW a \in Seq(S), NEW x \in S
    PROVE  /\ Append(a, x) \in Seq(S) /\ Len(Append(a, x)) = Len(a) + 1
           /\ Append(a, x)[Len(a) + 1] = x
           /\ \A j \in 1 .. Len(a) : Append(a, x)[j] = a[j]
OBVIOUS

LEMMA Shorter ==
    ASSUME NEW S, NEW q \in Seq(S), Len(q) >= 3
    PROVE  /\ SubSeq(q, 4, Len(q)) \in Seq(S) /\ Len(SubSeq(q, 4, Len(q))) = Len(q) - 3
           /\ \A j \in 1 .. Len(q) - 3 : SubSeq(q, 4, Len(q))[j] = q[j + 3]
           /\ q[1] \in S /\ q[2] \in S /\ q[3] \in S
<1>1. 4 \in 1 .. Len(q) + 1 /\ Len(q) \in Nat
  OBVIOUS
<1>2. Len(q) - 4 + 1 = Len(q) - 3
  BY <1>1
<1>3. /\ SubSeq(q, 4, Len(q)) \in Seq(S)
      /\ Len(SubSeq(q, 4, Len(q))) = Len(q) - 3
  BY <1>1, <1>2, SubSeqProperties
<1>4. \A j \in 1 .. Len(q) - 3 : SubSeq(q, 4, Len(q))[j] = q[j + 3]
  OBVIOUS
<1> QED
  BY <1>2, <1>3, <1>4

LEMMA Nothing ==
    /\ <<>> \in Seq(Byte) /\ <<>> \in Seq(Step) /\ <<>> \in Seq(Frame)
    /\ <<>> \in Seq(Seq(Byte)) /\ Len(<<>>) = 0 /\ 0 <= SendQueueLen
BY Sizes

LEMMA AddTyped ==
    ASSUME Types, NEW b \in Byte, TryAdd(b)
    PROVE  send_queue' \in Seq(Byte) /\ Len(send_queue') <= SendQueueLen
BY Sizes DEF Types, TryAdd, send_queue_free

LEMMA TypesInit == Init => Types
<1> SUFFICES ASSUME Init PROVE Types
  OBVIOUS
<1>1. job \in [kind : Kind, reps : Reps, info : Info] /\ repeaters \in Reps
      /\ send_len \in Int
  BY Sizes DEF Init, Kind, Reps
<1> QED
  BY <1>1, Nothing, Zenon DEF Init, Types

LEMMA ByteTyped ==
    ASSUME Types, todo # <<>>, Head(todo)[1] # "sum"
    PROVE  ByteOf(Head(todo)) \in Byte
<1>1. Head(todo) \in Step /\ job.reps \in Nat /\ job.info \in Byte
  BY Sizes DEF Types, Reps
<1>2. /\ LengthLo(PktLen(job.reps)) \in Byte /\ LengthHi(PktLen(job.reps)) \in Byte
  <2>1. PktLen(job.reps) \in Nat
    BY <1>1 DEF PktLen
  <2>2. \A n \in Nat : n % Radix \in Byte /\ n \div Radix \in Nat
    BY Sizes DEF Byte
  <2> QED
    BY <2>1, <2>2, Zenon DEF LengthLo, LengthHi
<1>3. {Dst, Src, Repeater, FcsGood, FcsBad} \subseteq Byte
  BY Sizes DEF Dst, Src, Repeater, FcsGood, FcsBad, Byte
<1>4. Head(todo)[1] \in {"lo", "hi", "dst", "src", "rep", "info", "fcs"}
  BY <1>1 DEF Step
<1> HIDE DEF Dst, Src, Repeater, FcsGood, FcsBad
<1> QED
  BY <1>1, <1>2, <1>3, <1>4 DEF ByteOf

LEMMA TypesNext == Types /\ [Next]_vars => Types'
<1> SUFFICES ASSUME Types, [Next]_vars PROVE Types'
  OBVIOUS
<1> USE DEF producer, consumer
<1>1. ASSUME NEW kind \in Kind, NEW reps \in Reps, NEW info \in Info,
             Begin(kind, reps, info)
      PROVE  Types'
  <2>1. Steps(reps) \in Seq(Step) /\ FrameOf(reps, info) \in Frame
    BY StepsFacts, FrameFacts
  <2>2. job' \in [kind : Kind, reps : Reps, info : Info]
    BY <1>1 DEF Begin
  <2> QED
    BY <1>1, <2>1, <2>2 DEF Begin, Types
<1>2. CASE PutByte
  <2>1. send_queue' \in Seq(Byte) /\ Len(send_queue') <= SendQueueLen
    <3>1. CASE Skipped(Head(todo))
      BY <1>2, <3>1 DEF PutByte, Types
    <3>2. CASE ~Skipped(Head(todo))
      BY <1>2, <3>2, ByteTyped, AddTyped, Zenon DEF PutByte
    <3> QED
      BY <3>1, <3>2
  <2>2. todo' \in Seq(Step)
    BY <1>2 DEF PutByte, Types
  <2> QED
    BY <1>2, <2>1, <2>2 DEF PutByte, Types
<1>3. CASE SumFcs
  BY <1>3 DEF SumFcs, Types
<1>4. ASSUME NEW info \in Info, UsbSend(info)
      PROVE  Types'
  <2> DEFINE f == FrameOf(repeaters, info)
  <2>1. f \in Frame /\ Len(f) = 4 + repeaters /\ repeaters \in Nat
    BY FrameFacts, Sizes, SMTT(30) DEF Types, Reps
  <2>2. Wire(f) \in Seq(Byte) /\ Len(Wire(f)) = Len(f) + 2
    BY <2>1, WireFacts
  <2>3. send_queue \in Seq(Byte) /\ Len(send_queue) \in Nat
    BY DEF Types
  <2>4. send_queue' = send_queue \o Wire(f) /\ offered' = Append(offered, f)
    BY <1>4 DEF UsbSend
  <2> HIDE DEF f
  <2>5. send_queue' \in Seq(Byte) /\ Len(send_queue') = Len(send_queue) + Len(Wire(f))
    BY <2>2, <2>3, <2>4, Joined
  <2>6. Len(send_queue') <= SendQueueLen
    BY <1>4, <2>1, <2>2, <2>3, <2>5, Sizes DEF UsbSend, send_queue_free, PktLen
  <2>7. offered' \in Seq(Frame)
    BY <2>1, <2>4 DEF Types
  <2>8. disturbed' \in BOOLEAN
    BY <1>4, Zenon DEF UsbSend, Disturb
  <2> QED
    BY <1>4, <2>5, <2>6, <2>7, <2>8 DEF UsbSend, Types
<1>5. ASSUME NEW reps \in Reps, UsbUnproto(reps)
      PROVE  Types'
  <2>1. disturbed' \in BOOLEAN
    BY <1>5, Zenon DEF UsbUnproto, Disturb
  <2> QED
    BY <1>5, <2>1 DEF UsbUnproto, Types
<1>6. CASE SeeEmpty
  BY <1>6, Nothing, Zenon DEF SeeEmpty, Forget, Types
<1>7. CASE DataStart
  <2>2. \A m, n \in Byte : LengthOf(m, n) \in Int
    BY Sizes DEF LengthOf, Byte
  <2>3. send_queue \in Seq(Byte) /\ Len(send_queue) >= 3 /\ Len(send_queue) <= SendQueueLen
    BY <1>7 DEF DataStart, Types
  <2>4. /\ send_queue' \in Seq(Byte) /\ Len(send_queue') = Len(send_queue) - 3
        /\ send_queue[3] \in Byte /\ LengthOf(send_queue[1], send_queue[2]) \in Int
    BY <1>7, <2>2, <2>3, Shorter, Zenon DEF DataStart
  <2>5. Len(send_queue) \in Nat /\ Len(send_queue') \in Nat
    BY <2>3, <2>4
  <2> QED
    BY <1>7, <2>3, <2>4, <2>5, Sizes DEF DataStart, Types
<1>8. CASE DataStartUnderrun
  BY <1>8, Nothing, Zenon DEF DataStartUnderrun, Resync, Forget, Types
<1>9. CASE Data
  <2>1. /\ Head(send_queue) \in Byte /\ Tail(send_queue) \in Seq(Byte)
        /\ Len(Tail(send_queue)) <= SendQueueLen
    BY <1>9, Sizes DEF Data, Types
  <2>2. sent' \in Seq(Byte) /\ send_len' \in Int
    BY <1>9, <2>1 DEF Data, Types
  <2> QED
    BY <1>9, <2>1, <2>2, Zenon DEF Data, Types
<1>10. CASE DataEnd
  <2>1. taken' \in Seq(Seq(Byte)) /\ sending' \in BOOLEAN /\ sent' \in Seq(Byte)
    BY <1>10, Nothing, Longer, Zenon DEF DataEnd, Types
  <2> QED
    BY <1>10, <2>1, Zenon DEF DataEnd, Types
<1>11. CASE DataUnderrun
  BY <1>11, Nothing, Zenon DEF DataUnderrun, Resync, Forget, Types
<1>12. CASE UNCHANGED vars
  BY <1>12 DEF vars, Types
<1>13. ASSUME NEW info \in Info, SendUnproto(info)
       PROVE  Types'
  <2>1. "unproto" \in Kind /\ repeaters \in Reps
    BY DEF Kind, Types
  <2> QED
    BY <1>1, <1>13, <2>1, Zenon DEF SendUnproto
<1>14. ASSUME NEW reps \in Reps, NEW info \in Info, SendPacket(reps, info)
       PROVE  Types'
  <2>1. "packet" \in Kind
    BY DEF Kind
  <2> QED
    BY <1>1, <1>14, <2>1, Zenon DEF SendPacket
<1> QED
  BY <1>2, <1>3, <1>4, <1>5, <1>6, <1>7, <1>8, <1>9, <1>10, <1>11, <1>12, <1>13, <1>14,
     Zenon
     DEF Next, Reps
-----------------------------------------------------------------------------
(* The bytes of the frames in the queue *)

\* Frame j of off takes the bytes e[j - 1] + 1 .. e[j] of all that is queued.
Ends(off, e) ==
    /\ e[0] = 0
    /\ \A j \in 1 .. Len(off) : e[j] = e[j - 1] + Len(off[j]) + 2
    /\ \A i, j \in 0 .. Len(off) : i <= j => e[i] <= e[j]

\* When p bytes have been taken, the queue q holds the next ones of the frames.
Carries(q, off, e, p) ==
    \A j \in 1 .. Len(off) : \A b \in 1 .. Len(off[j]) + 2 :
        e[j - 1] + b - p \in 1 .. Len(q) => q[e[j - 1] + b - p] = Wire(off[j])[b]

Place(off) == [0 .. Len(off) -> Nat]
With(off, e, f) ==
    [j \in 0 .. Len(off) + 1 |-> IF j = Len(off) + 1 THEN e[Len(off)] + Len(f) + 2 ELSE e[j]]

LEMMA EndsPut ==
    ASSUME NEW off \in Seq(Frame), NEW e \in Place(off), Ends(off, e), NEW f \in Frame
    PROVE  /\ With(off, e, f) \in Place(Append(off, f))
           /\ Ends(Append(off, f), With(off, e, f))
           /\ \A j \in 0 .. Len(off) : With(off, e, f)[j] = e[j]
           /\ With(off, e, f)[Len(off) + 1] = e[Len(off)] + Len(f) + 2
<1> DEFINE n == Len(off)
           off2 == Append(off, f)
           e2 == With(off, e, f)
           l == Len(f)
<1>0. n \in Nat /\ l \in Nat
  BY WireFacts
<1>01. \A j \in 0 .. n : e[j] \in Nat
  BY Zenon DEF Place
<1>1. n \in Nat /\ l \in Nat /\ \A j \in 0 .. n : e[j] \in Nat
  BY <1>0, <1>01
<1>2. Len(off2) = n + 1 /\ off2[n + 1] = f /\ \A j \in 1 .. n : off2[j] = off[j]
  BY Longer
<1>3. /\ \A j \in 0 .. n : e2[j] = e[j]
      /\ e2[n + 1] = e[n] + l + 2 /\ e2 \in [0 .. n + 1 -> Nat]
  BY <1>1 DEF With
<1>4. /\ e[0] = 0 /\ \A j \in 1 .. n : e[j] = e[j - 1] + Len(off[j]) + 2
      /\ \A i, j \in 0 .. n : i <= j => e[i] <= e[j]
  BY Zenon DEF Ends
<1> HIDE DEF n, off2, e2, l
<1>5. ASSUME NEW j \in 1 .. n + 1
      PROVE  e2[j] = e2[j - 1] + Len(off2[j]) + 2
  <2>1. CASE j = n + 1
    BY <1>1, <1>2, <1>3, <2>1 DEF l
  <2>2. CASE j # n + 1
    <3>1. j \in 1 .. n /\ j \in 0 .. n /\ j - 1 \in 0 .. n
      BY <1>1, <2>2
    <3> QED
      BY <1>2, <1>3, <1>4, <3>1
  <2> QED
    BY <2>1, <2>2
<1>6. ASSUME NEW i \in 0 .. n + 1, NEW j \in 0 .. n + 1, i <= j
      PROVE  e2[i] <= e2[j]
  <2>1. n \in 0 .. n /\ (i # n + 1 => i \in 0 .. n) /\ (j # n + 1 => j \in 0 .. n)
        /\ (i = n + 1 => j = n + 1)
    BY <1>1, <1>6
  <2>2. CASE j = n + 1 /\ i # n + 1
    <3>1. e2[j] = e[n] + l + 2 /\ e2[i] = e[i] /\ e[i] <= e[n] /\ e[i] \in Nat /\ e[n] \in Nat
      BY <1>1, <1>3, <1>4, <2>1, <2>2
    <3> QED
      BY <1>1, <3>1
  <2>3. CASE j # n + 1
    BY <1>3, <1>4, <1>6, <2>1, <2>3
  <2>4. CASE i = n + 1
    <3>1. e2[j] = e2[i] /\ e2[i] \in Nat
      BY <1>1, <1>3, <2>1, <2>4
    <3> QED
      BY <3>1
  <2> QED
    BY <2>2, <2>3, <2>4
<1>7. e2[0] = 0
  BY <1>1, <1>3, <1>4
<1>8. Ends(off2, e2) /\ e2 \in Place(off2)
  BY <1>2, <1>3, <1>5, <1>6, <1>7 DEF Ends, Place
<1> QED
  BY <1>3, <1>8 DEF n, off2, e2, l

\* What is known of the place of byte b of frame j.
LEMMA PlaceOf ==
    ASSUME NEW off \in Seq(Frame), NEW e \in Place(off), Ends(off, e),
           NEW j \in 1 .. Len(off)
    PROVE  /\ e[j - 1] \in Nat /\ e[j] \in Nat /\ e[Len(off)] \in Nat /\ Len(off) \in Nat
           /\ Len(off[j]) \in Nat /\ Len(off[j]) >= 1 /\ off[j] \in Frame
           /\ e[j] = e[j - 1] + Len(off[j]) + 2 /\ e[j] <= e[Len(off)]
           /\ j < Len(off) => e[j] <= e[Len(off) - 1]
<1>1. /\ Len(off) \in Nat /\ off[j] \in Frame /\ j - 1 \in 0 .. Len(off)
      /\ j \in 0 .. Len(off) /\ Len(off) \in 0 .. Len(off) /\ j <= Len(off)
      /\ j < Len(off) => Len(off) - 1 \in 0 .. Len(off) /\ j <= Len(off) - 1
  OBVIOUS
<1>2. e[j - 1] \in Nat /\ e[j] \in Nat /\ e[Len(off)] \in Nat
  BY <1>1 DEF Place
<1>3. /\ e[j] = e[j - 1] + Len(off[j]) + 2
      /\ \A i, k \in 0 .. Len(off) : i <= k => e[i] <= e[k]
  BY Zenon DEF Ends
<1> QED
  BY <1>1, <1>2, <1>3, WireFacts

\* A frame announced, of which no byte is in the queue yet.
LEMMA CarriesNone ==
    ASSUME NEW off \in Seq(Frame), NEW e \in Place(off), Ends(off, e), NEW f \in Frame,
           NEW q \in Seq(Byte), NEW p \in Nat, p + Len(q) = e[Len(off)], Carries(q, off, e, p)
    PROVE  Carries(q, Append(off, f), With(off, e, f), p)
<1> DEFINE n == Len(off)
           off2 == Append(off, f)
           e2 == With(off, e, f)
<1>1. Len(off2) = n + 1 /\ off2[n + 1] = f /\ \A j \in 1 .. n : off2[j] = off[j]
  BY Longer
<1>2. \A j \in 0 .. n : e2[j] = e[j]
  BY EndsPut
<1>3. n \in Nat /\ p + Len(q) = e[n] /\ Len(q) \in Nat /\ e[n] \in Nat
  BY DEF Place
<1> HIDE DEF off2, e2
<1>4. ASSUME NEW j \in 1 .. n + 1, NEW b \in 1 .. Len(off2[j]) + 2,
             e2[j - 1] + b - p \in 1 .. Len(q)
      PROVE  q[e2[j - 1] + b - p] = Wire(off2[j])[b]
  <2>1. CASE j = n + 1
    <3>1. e2[j - 1] = e[n] /\ b >= 1 /\ b \in Nat
      <4>1. j - 1 = n /\ n \in 0 .. n /\ Len(off2[j]) \in Nat
        BY <1>1, <1>3, <2>1, WireFacts
      <4> QED
        BY <1>2, <4>1
    <3> QED
      BY <1>3, <1>4, <3>1
  <2>2. CASE j # n + 1
    <3>1. j \in 1 .. n /\ j - 1 \in 0 .. n
      BY <1>3, <2>2
    <3>2. off2[j] = off[j] /\ e2[j - 1] = e[j - 1]
      BY <1>1, <1>2, <3>1
    <3> QED
      BY <1>4, <3>1, <3>2 DEF Carries
  <2> QED
    BY <2>1, <2>2
<1>5. Carries(q, off2, e2, p)
  BY <1>1, <1>4 DEF Carries
<1> QED
  BY <1>5 DEF off2, e2

\* A whole frame queued.
LEMMA CarriesFrame ==
    ASSUME NEW off \in Seq(Frame), NEW e \in Place(off), Ends(off, e), NEW f \in Frame,
           NEW q \in Seq(Byte), NEW p \in Nat, p + Len(q) = e[Len(off)], Carries(q, off, e, p)
    PROVE  Carries(q \o Wire(f), Append(off, f), With(off, e, f), p)
<1> DEFINE n == Len(off)
           off2 == Append(off, f)
           e2 == With(off, e, f)
           w == Wire(f)
           q2 == q \o w
<1>1. Len(off2) = n + 1 /\ off2[n + 1] = f /\ \A j \in 1 .. n : off2[j] = off[j]
  BY Longer
<1>2. \A j \in 0 .. n : e2[j] = e[j]
  BY EndsPut
<1>3. n \in Nat /\ p + Len(q) = e[n] /\ Len(q) \in Nat /\ e[n] \in Nat
  BY DEF Place
<1>4. w \in Seq(Byte) /\ Len(w) = Len(f) + 2 /\ Len(f) \in Nat
  BY WireFacts
<1> HIDE DEF off2, e2, w
<1>5. /\ \A b \in 1 .. Len(q) : q2[b] = q[b]
      /\ \A b \in 1 .. Len(w) : q2[Len(q) + b] = w[b]
      /\ Len(q2) = Len(q) + Len(w)
  <2>1. PICK v \in Seq(Byte) : v = w
    BY <1>4
  <2>2. /\ Len(q \o v) = Len(q) + Len(v)
        /\ \A j \in 1 .. Len(q) : (q \o v)[j] = q[j]
        /\ \A j \in 1 .. Len(v) : (q \o v)[Len(q) + j] = v[j]
    BY Joined
  <2> QED
    BY <2>1, <2>2, Zenon
<1> HIDE DEF q2
<1>6. ASSUME NEW j \in 1 .. n + 1, NEW b \in 1 .. Len(off2[j]) + 2,
             e2[j - 1] + b - p \in 1 .. Len(q2)
      PROVE  q2[e2[j - 1] + b - p] = Wire(off2[j])[b]
  <2>1. CASE j = n + 1
    <3>1. e2[j - 1] = e[n] /\ off2[j] = f
      <4>1. j - 1 = n /\ n \in 0 .. n
        BY <1>3, <2>1
      <4> QED
        BY <1>1, <1>2, <2>1, <4>1
    <3>2. e[n] + b - p = Len(q) + b /\ b \in 1 .. Len(w)
      BY <1>3, <1>4, <3>1
    <3> QED
      BY <1>5, <3>1, <3>2 DEF w
  <2>2. CASE j # n + 1
    <3>1. j \in 1 .. n /\ j - 1 \in 0 .. n
      BY <1>3, <2>2
    <3>2. off2[j] = off[j] /\ e2[j - 1] = e[j - 1]
      BY <1>1, <1>2, <3>1
    <3>3. e[j - 1] + b - p \in 1 .. Len(q)
      <4>1. /\ e[j - 1] \in Nat /\ Len(off[j]) \in Nat /\ e[j] = e[j - 1] + Len(off[j]) + 2
            /\ e[j] <= e[n] /\ e[j] \in Nat
        BY <3>1, PlaceOf DEF n
      <4>2. b <= Len(off[j]) + 2 /\ b \in Nat /\ e[j - 1] + b - p >= 1
        BY <1>3, <1>4, <1>5, <1>6, <3>2, <4>1
      <4>3. \A x, l \in Nat : x + b - p >= 1 /\ b <= l + 2 /\ x + l + 2 <= e[n]
                => x + b - p \in 1 .. Len(q)
        BY <1>3, <4>2
      <4> QED
        BY <4>1, <4>2, <4>3
    <3> QED
      BY <1>5, <3>1, <3>2, <3>3 DEF Carries
  <2> QED
    BY <2>1, <2>2
<1>7. Carries(q2, off2, e2, p)
  BY <1>1, <1>6 DEF Carries
<1> QED
  BY <1>7 DEF off2, e2, q2, w

\* The next byte of the last frame queued.
LEMMA CarriesByte ==
    ASSUME NEW off \in Seq(Frame), NEW e \in Place(off), Ends(off, e), Len(off) >= 1,
           NEW q \in Seq(Byte), NEW p \in Nat, Carries(q, off, e, p),
           NEW d \in 0 .. Len(off[Len(off)]) + 1, p + Len(q) = e[Len(off) - 1] + d,
           NEW x \in Byte, x = Wire(off[Len(off)])[d + 1]
    PROVE  Carries(Append(q, x), off, e, p)
<1> DEFINE n == Len(off)
           q2 == Append(q, x)
<1>1. /\ Len(q2) = Len(q) + 1 /\ q2[Len(q) + 1] = x
      /\ \A b \in 1 .. Len(q) : q2[b] = q[b]
  BY Longer
<1>2. n \in 1 .. n /\ n \in Nat /\ Len(q) \in Nat
  OBVIOUS
<1>3. e[n - 1] \in Nat /\ p + Len(q) = e[n - 1] + d /\ d \in Nat
  BY <1>2, PlaceOf
<1> HIDE DEF q2
<1>4. ASSUME NEW j \in 1 .. n, NEW b \in 1 .. Len(off[j]) + 2,
             e[j - 1] + b - p \in 1 .. Len(q2)
      PROVE  q2[e[j - 1] + b - p] = Wire(off[j])[b]
  <2>1. /\ e[j - 1] \in Nat /\ Len(off[j]) \in Nat /\ e[j] = e[j - 1] + Len(off[j]) + 2
        /\ e[j] \in Nat /\ j < n => e[j] <= e[n - 1]
    BY PlaceOf
  <2>2. b \in Nat /\ b >= 1 /\ b <= Len(off[j]) + 2
    BY <2>1
  <2>3. CASE e[j - 1] + b - p \in 1 .. Len(q)
    BY <1>1, <2>3 DEF Carries
  <2>4. CASE e[j - 1] + b - p \notin 1 .. Len(q)
    <3> DEFINE x2 == e[j - 1]
               y2 == e[n - 1]
               l == Len(off[j])
               m == Len(q)
    <3>01. x2 \in Nat /\ y2 \in Nat /\ l \in Nat /\ m \in Nat
      BY <1>2, <1>3, <2>1
    <3>02. b \in Nat /\ b >= 1 /\ b <= l + 2 /\ p + m = y2 + d
      BY <1>3, <2>2
    <3>03. j < n => x2 + l + 2 <= y2
      BY <2>1, SMTT(30)
    <3>04. x2 + b - p \in 1 .. m + 1
      BY <1>1, <1>4
    <3>05. x2 + b - p \notin 1 .. m
      BY <2>4
    <3> HIDE DEF x2, y2, l, m
    <3>1. x2 + b - p = m + 1
      BY <3>01, <3>02, <3>04, <3>05
    <3>2. ~(j < n)
      BY <1>3, <3>01, <3>02, <3>03, <3>1
    <3>3. j = n
      BY <1>2, <3>2
    <3>4. b = d + 1
      <4>1. x2 = y2
        BY <3>3 DEF x2, y2
      <4> QED
        BY <1>3, <3>01, <3>02, <3>1, <4>1
    <3>5. e[j - 1] + b - p = Len(q) + 1
      BY <3>1 DEF x2, m
    <3> QED
      BY <1>1, <3>3, <3>4, <3>5
  <2> QED
    BY <2>3, <2>4
<1>5. Carries(q2, off, e, p)
  BY <1>4 DEF Carries
<1> QED
  BY <1>5 DEF q2

\* The first bytes taken.
LEMMA CarriesTake ==
    ASSUME NEW off \in Seq(Frame), NEW e \in Place(off), Ends(off, e),
           NEW q \in Seq(Byte), NEW p \in Nat, Carries(q, off, e, p),
           NEW d \in Nat, NEW r \in Seq(Byte), Len(r) = Len(q) - d,
           \A b \in 1 .. Len(r) : r[b] = q[b + d]
    PROVE  Carries(r, off, e, p + d)
<1>1. ASSUME NEW j \in 1 .. Len(off), NEW b \in 1 .. Len(off[j]) + 2,
             e[j - 1] + b - (p + d) \in 1 .. Len(r)
      PROVE  r[e[j - 1] + b - (p + d)] = Wire(off[j])[b]
  <2>1. e[j - 1] \in Nat /\ b \in Nat /\ Len(q) \in Nat
    BY PlaceOf, SMTT(30)
  <2> DEFINE k == e[j - 1] + b - (p + d)
  <2>2. k + d = e[j - 1] + b - p /\ k \in 1 .. Len(r) /\ k + d \in 1 .. Len(q)
    BY <1>1, <2>1, SMTT(30)
  <2>3. r[k] = q[k + d]
    BY <2>2
  <2>4. q[e[j - 1] + b - p] = Wire(off[j])[b]
    BY <2>2 DEF Carries
  <2> QED
    BY <2>2, <2>3, <2>4
<1> QED
  BY <1>1 DEF Carries
-----------------------------------------------------------------------------
(* The queue while nothing has been disturbed *)

\* send() has taken p bytes: the frames in taken, and of the next one its
\* length and the bytes in sent.
Taking(e, p) ==
    /\ Len(taken) <= Len(offered)
    /\ \A j \in 1 .. Len(taken) : taken[j] = offered[j]
    /\ ~sending => p = e[Len(taken)]
    /\ sending => /\ Len(taken) < Len(offered)
                  /\ p = e[Len(taken)] + 2 + Len(sent)
                  /\ Len(sent) >= 1 /\ send_len >= 0
                  /\ Len(sent) + send_len = Len(offered[Len(taken) + 1])
                  /\ \A b \in 1 .. Len(sent) : sent[b] = offered[Len(taken) + 1][b]

\* After m steps the producer has queued so many bytes: "sum" queues none.
BytesPut(m) == IF m = 6 + job.reps THEN m - 1 ELSE m

\* The producer has done m steps of the last frame, is still the one to have
\* used the sniffer, and has the room it needs for the rest.
Putting(e, p, m) ==
    /\ todo = <<>> => p + Len(send_queue) = e[Len(offered)]
    /\ todo # <<>> =>
        /\ m \in 0 .. 6 + job.reps
        /\ Len(todo) = 7 + job.reps - m
        /\ \A i \in 1 .. Len(todo) : todo[i] = Steps(job.reps)[m + i]
        /\ Len(offered) >= 1
        /\ offered[Len(offered)] = FrameOf(job.reps, job.info)
        /\ job.kind = "unproto" => repeaters = job.reps
        /\ m = 6 + job.reps => sniffer = "main"
        /\ p + Len(send_queue) = e[Len(offered) - 1] + BytesPut(m)
        /\ Len(send_queue) + (6 + job.reps - BytesPut(m)) <= SendQueueLen

Whole(e, p, m) ==
    /\ Ends(offered, e)
    /\ Carries(send_queue, offered, e, p)
    /\ Taking(e, p)
    /\ Putting(e, p, m)

Good == ~disturbed => \E e \in Place(offered), p \in Nat, m \in Nat : Whole(e, p, m)

\* Nothing offered, nothing queued, nothing under way.
LEMMA FreshStart ==
    ASSUME NEW e, e = [j \in 0 .. 0 |-> 0]
    PROVE  e \in Place(<<>>) /\ Ends(<<>>, e) /\ e[0] = 0 /\ Carries(<<>>, <<>>, e, 0)
<1>1. Len(<<>>) = 0
  BY Nothing
<1>2. e \in [0 .. 0 -> Nat] /\ e[0] = 0
  OBVIOUS
<1>3. e \in Place(<<>>)
  BY <1>1, <1>2 DEF Place
<1>4. Ends(<<>>, e)
  BY <1>1, <1>2 DEF Ends
<1>5. Carries(<<>>, <<>>, e, 0)
  BY <1>1 DEF Carries
<1> QED
  BY <1>2, <1>3, <1>4, <1>5

LEMMA GoodInit == Init => Good
<1> SUFFICES ASSUME Init PROVE Good
  OBVIOUS
<1>1. PICK e : e = [j \in 0 .. 0 |-> 0]
  OBVIOUS
<1>2. e \in Place(<<>>) /\ Ends(<<>>, e) /\ e[0] = 0 /\ Carries(<<>>, <<>>, e, 0)
  BY <1>1, FreshStart
<1>3. /\ offered = <<>> /\ taken = <<>> /\ send_queue = <<>> /\ todo = <<>>
      /\ sending = FALSE /\ Len(<<>>) = 0
  BY Nothing, Zenon DEF Init
<1>4. Taking(e, 0) /\ Putting(e, 0, 0)
  BY <1>2, <1>3 DEF Taking, Putting
<1> QED
  BY <1>2, <1>3, <1>4 DEF Good, Whole

\* The same after send() has found the queue empty, or emptied it.
LEMMA GoodAgain ==
    ASSUME offered' = <<>>, taken' = <<>>, send_queue' = <<>>, todo' = <<>>,
           sending' = FALSE
    PROVE  Good'
<1>1. PICK e : e = [j \in 0 .. 0 |-> 0]
  OBVIOUS
<1>2. e \in Place(<<>>) /\ Ends(<<>>, e) /\ e[0] = 0 /\ Carries(<<>>, <<>>, e, 0)
  BY <1>1, FreshStart
<1>4. Taking(e, 0)' /\ Putting(e, 0, 0)'
  BY <1>2, Nothing DEF Taking, Putting
<1> QED
  BY <1>2, <1>4 DEF Good, Whole

\* A frame more offered is no concern of what send() is doing.
LEMMA TakingKept ==
    ASSUME Types, NEW e \in Place(offered), Ends(offered, e), NEW p \in Nat, Taking(e, p),
           NEW f \in Frame, offered' = Append(offered, f),
           NEW g, g = With(offered, e, f),
           UNCHANGED <<taken, sending, send_len, sent>>
    PROVE  Taking(g, p)'
<1>0. offered \in Seq(Frame) /\ Len(offered) \in Nat /\ Len(taken) \in Nat
  BY DEF Types
<1>2. \A j \in 0 .. Len(offered) : g[j] = e[j]
  BY <1>0, EndsPut
<1>3. /\ Len(offered') = Len(offered) + 1
      /\ \A j \in 1 .. Len(offered) : offered'[j] = offered[j]
  BY <1>0, Longer
<1>4. Taking(g, p)'
  <2>1. Len(taken) \in 0 .. Len(offered) /\ Len(taken') = Len(taken)
    BY <1>0 DEF Taking
  <2>2. g[Len(taken)] = e[Len(taken)]
    BY <1>2, <2>1
  <2>3. Len(taken) < Len(offered) => offered'[Len(taken) + 1] = offered[Len(taken) + 1]
    BY <1>0, <1>3
  <2> QED
    BY <1>0, <1>3, <2>1, <2>2, <2>3 DEF Taking
<1> QED
  BY <1>4
-----------------------------------------------------------------------------
(* Every action keeps it *)

LEMMA BeginGood ==
    ASSUME Types, ~disturbed, NEW e \in Place(offered), NEW p \in Nat, NEW m \in Nat,
           Whole(e, p, m),
           NEW kind \in Kind, NEW reps \in Reps, NEW info \in Info,
           kind = "unproto" => repeaters = reps, Begin(kind, reps, info)
    PROVE  Good'
<1> DEFINE f == FrameOf(reps, info)
<1>1. /\ todo = <<>> /\ job' = [kind |-> kind, reps |-> reps, info |-> info]
      /\ todo' = Steps(reps) /\ offered' = Append(offered, f)
      /\ send_queue_free >= PktLen(reps) + 2
      /\ send_queue' = send_queue /\ repeaters' = repeaters /\ sniffer' = sniffer
      /\ UNCHANGED <<taken, sending, send_len, sent>>
  BY Zenon DEF Begin, consumer
<1>2. f \in Frame /\ reps \in Nat /\ job'.reps = reps /\ job'.info = info /\ job'.kind = kind
  BY <1>1, FrameFacts, Sizes DEF Reps
<1> HIDE DEF f
<1>3. /\ Ends(offered, e) /\ Carries(send_queue, offered, e, p) /\ Taking(e, p)
      /\ p + Len(send_queue) = e[Len(offered)]
  BY <1>1, Zenon DEF Whole, Putting
<1>4. /\ offered \in Seq(Frame) /\ send_queue \in Seq(Byte) /\ Len(offered) \in Nat
      /\ Len(send_queue) \in Nat
  BY DEF Types
<1>5. PICK g : g = With(offered, e, f)
  OBVIOUS
<1>6. /\ g \in Place(offered') /\ Ends(offered', g)
      /\ \A j \in 0 .. Len(offered) : g[j] = e[j]
  BY <1>1, <1>2, <1>3, <1>4, <1>5, EndsPut
<1>7. Carries(send_queue', offered', g, p)
  BY <1>1, <1>2, <1>3, <1>4, <1>5, CarriesNone
<1>8. Taking(g, p)'
  BY <1>1, <1>2, <1>3, <1>5, TakingKept
<1>9. Len(offered') = Len(offered) + 1 /\ offered'[Len(offered')] = f
  BY <1>1, <1>2, <1>4, Longer
<1>10. p + Len(send_queue') = g[Len(offered') - 1]
  <2>1. Len(offered') - 1 = Len(offered) /\ Len(offered) \in 0 .. Len(offered)
    BY <1>4, <1>9
  <2> QED
    BY <1>1, <1>3, <1>6, <2>1
<1>11. Len(todo') = 7 + reps /\ todo' # <<>>
  BY <1>1, <1>2, StepsFacts
<1>12. SendQueueLen \in Nat /\ Len(send_queue) + (6 + reps) <= SendQueueLen
  BY <1>1, <1>2, <1>4, Sizes DEF send_queue_free, PktLen
<1>13. BytesPut(0)' = 0
  BY <1>2 DEF BytesPut
<1>14. Putting(g, p, 0)'
  <2>1. 0 \in 0 .. 6 + job'.reps /\ Len(todo') = 7 + job'.reps - 0 /\ 0 # 6 + job'.reps
    BY <1>2, <1>11
  <2>2. \A i \in 1 .. Len(todo') : todo'[i] = Steps(job'.reps)[0 + i]
    BY <1>1, <1>2, <1>11
  <2>3. Len(offered') >= 1 /\ offered'[Len(offered')] = FrameOf(job'.reps, job'.info)
    BY <1>2, <1>4, <1>9 DEF f
  <2>4. job'.kind = "unproto" => repeaters' = job'.reps
    BY <1>1, <1>2
  <2>5. /\ p + Len(send_queue') = g[Len(offered') - 1] + 0
        /\ Len(send_queue') + (6 + job'.reps - 0) <= SendQueueLen
    <3>1. g[Len(offered') - 1] \in Nat
      BY <1>1, <1>4, <1>10
    <3> QED
      BY <1>1, <1>2, <1>10, <1>12, <3>1
  <2> QED
    BY <1>11, <1>13, <2>1, <2>2, <2>3, <2>4, <2>5 DEF Putting
<1> QED
  BY <1>6, <1>7, <1>8, <1>14 DEF Good, Whole

LEMMA UsbSendGood ==
    ASSUME Types, ~disturbed, NEW e \in Place(offered), NEW p \in Nat, NEW m \in Nat,
           Whole(e, p, m), NEW info \in Info, UsbSend(info), ~disturbed'
    PROVE  Good'
<1> DEFINE f == FrameOf(repeaters, info)
<1>1. /\ offered' = Append(offered, f) /\ send_queue' = send_queue \o Wire(f)
      /\ todo' = todo /\ todo = <<>> /\ UNCHANGED <<taken, sending, send_len, sent>>
  BY Zenon DEF UsbSend, Disturb, consumer, producer
<1>2. f \in Frame
  BY FrameFacts DEF Types
<1> HIDE DEF f
<1>3. /\ Ends(offered, e) /\ Carries(send_queue, offered, e, p) /\ Taking(e, p)
      /\ p + Len(send_queue) = e[Len(offered)]
  BY <1>1, Zenon DEF Whole, Putting
<1>4. /\ offered \in Seq(Frame) /\ send_queue \in Seq(Byte) /\ Len(offered) \in Nat
      /\ Len(send_queue) \in Nat
  BY DEF Types
<1>5. PICK g : g = With(offered, e, f)
  OBVIOUS
<1>6. /\ g \in Place(offered') /\ Ends(offered', g)
      /\ g[Len(offered) + 1] = e[Len(offered)] + Len(f) + 2
  BY <1>1, <1>2, <1>3, <1>4, <1>5, EndsPut
<1>7. Carries(send_queue', offered', g, p)
  BY <1>1, <1>2, <1>3, <1>4, <1>5, CarriesFrame
<1>8. Taking(g, p)'
  BY <1>1, <1>2, <1>3, <1>5, TakingKept
<1>9. Len(offered') = Len(offered) + 1
  BY <1>1, <1>2, <1>4, Longer
<1>10. Len(send_queue') = Len(send_queue) + (Len(f) + 2) /\ Len(f) \in Nat
  <2>1. Wire(f) \in Seq(Byte) /\ Len(Wire(f)) = Len(f) + 2 /\ Len(f) \in Nat
    BY <1>2, WireFacts
  <2>2. PICK v \in Seq(Byte) : v = Wire(f)
    BY <2>1
  <2>3. Len(send_queue \o v) = Len(send_queue) + Len(v)
    BY <1>4, Joined
  <2> QED
    BY <1>1, <2>1, <2>2, <2>3
<1>11. p + Len(send_queue') = g[Len(offered')]
  BY <1>3, <1>4, <1>6, <1>9, <1>10
<1>12. Putting(g, p, 0)'
  BY <1>1, <1>11 DEF Putting
<1> QED
  BY <1>6, <1>7, <1>8, <1>12 DEF Good, Whole

\* The byte a producer adds, and how far it has got.
LEMMA StepByte ==
    ASSUME Types, NEW e \in Place(offered), NEW p \in Nat, NEW m \in Nat, Putting(e, p, m),
           todo # <<>>
    PROVE  /\ m \in 0 .. 6 + job.reps /\ job.reps \in Nat /\ job.reps \in Reps
           /\ Head(todo) = Steps(job.reps)[m + 1]
           /\ Head(todo)[1] = "sum" <=> m = 5 + job.reps
           /\ Tail(todo) = <<>> <=> m = 6 + job.reps
           /\ Len(Tail(todo)) = 7 + job.reps - (m + 1)
           /\ \A i \in 1 .. Len(Tail(todo)) : Tail(todo)[i] = Steps(job.reps)[m + 1 + i]
<1>1. job.reps \in Nat /\ job.reps \in Reps
  BY Sizes DEF Types, Reps
<1>2. /\ m \in 0 .. 6 + job.reps /\ Len(todo) = 7 + job.reps - m
      /\ \A i \in 1 .. Len(todo) : todo[i] = Steps(job.reps)[m + i]
  BY DEF Putting
<1>3. todo \in Seq(Step) /\ Len(todo) \in Nat /\ Len(todo) >= 1
  BY <1>1, <1>2 DEF Types
<1>4. Head(todo) = todo[1] /\ todo[1] = Steps(job.reps)[m + 1]
  BY <1>1, <1>2, <1>3
<1>5. /\ Tail(todo) \in Seq(Step) /\ Len(Tail(todo)) = Len(todo) - 1
      /\ \A i \in 1 .. Len(Tail(todo)) : Tail(todo)[i] = todo[i + 1]
  BY <1>3
<1>6. Tail(todo) = <<>> <=> Len(Tail(todo)) = 0
  BY <1>5, EmptySeq
<1>7. \A i \in 1 .. Len(Tail(todo)) : Tail(todo)[i] = Steps(job.reps)[m + 1 + i]
  <2> TAKE i \in 1 .. Len(Tail(todo))
  <2>1. i + 1 \in 1 .. Len(todo) /\ m + (i + 1) = m + 1 + i
    BY <1>2, <1>3, <1>5
  <2> QED
    BY <1>2, <1>5, <2>1
<1>8. Head(todo)[1] = "sum" <=> m = 5 + job.reps
  <2> DEFINE s == Steps(job.reps)
             r == job.reps
  <2>1. /\ s[1] = <<"lo", 0>> /\ s[2] = <<"hi", 0>>
        /\ s[3] = <<"dst", 0>> /\ s[4] = <<"src", 0>>
        /\ \A j \in 1 .. r : s[4 + j] = <<"rep", j>>
        /\ s[5 + r] = <<"info", 0>> /\ s[6 + r] = <<"sum", 0>> /\ s[7 + r] = <<"fcs", 0>>
    BY <1>1, StepsFacts
  <2> HIDE DEF s, r
  <2>2. r \in Nat /\ m \in 0 .. 6 + r /\ Head(todo) = s[m + 1]
    BY <1>1, <1>2, <1>4 DEF r, s
  <2>3. CASE m < 4
    BY <2>1, <2>2, <2>3, SMTT(30) DEF r
  <2>4. CASE m \in 4 .. 3 + r
    <3>1. m + 1 = 4 + (m - 3) /\ m - 3 \in 1 .. r
      BY <2>2, <2>4
    <3>2. Head(todo)[1] = "rep"
      <4>1. s[4 + (m - 3)] = <<"rep", m - 3>>
        BY <2>1, <3>1
      <4> QED
        BY <2>2, <3>1, <4>1
    <3> QED
      BY <2>2, <2>4, <3>2 DEF r
  <2>5. CASE m \in {4 + r, 5 + r, 6 + r}
    <3>1. (m = 4 + r => m + 1 = 5 + r) /\ (m = 5 + r => m + 1 = 6 + r)
          /\ (m = 6 + r => m + 1 = 7 + r)
      BY <2>2
    <3>2. (m = 4 + r => Head(todo)[1] = "info") /\ (m = 5 + r => Head(todo)[1] = "sum")
          /\ (m = 6 + r => Head(todo)[1] = "fcs")
      BY <2>1, <2>2, <3>1
    <3> QED
      BY <2>2, <2>5, <3>2 DEF r
  <2> QED
    BY <2>2, <2>3, <2>4, <2>5
<1>9. Len(Tail(todo)) = 7 + job.reps - (m + 1)
  BY <1>1, <1>2, <1>5, SMTT(30)
<1>10. \A l \in Int, k, n \in Nat : l = 7 + k - (n + 1) => (l = 0 => n = 6 + k)
  OBVIOUS
<1>11. \A l \in Int, k, n \in Nat : l = 7 + k - (n + 1) => (n = 6 + k => l = 0)
  OBVIOUS
<1>12. Len(Tail(todo)) \in Int
  BY <1>5
<1>13. Len(Tail(todo)) = 0 <=> m = 6 + job.reps
  BY <1>1, <1>9, <1>10, <1>11, <1>12, Zenon
<1> QED
  BY <1>1, <1>2, <1>4, <1>6, <1>7, <1>8, <1>9, <1>13, Zenon

LEMMA NextByte ==
    ASSUME Types, NEW e \in Place(offered), NEW p \in Nat, NEW m \in Nat, Putting(e, p, m),
           todo # <<>>, Head(todo)[1] # "sum"
    PROVE  /\ BytesPut(m) \in 0 .. 5 + job.reps
           /\ ByteOf(Head(todo)) = Wire(FrameOf(job.reps, job.info))[BytesPut(m) + 1]
           /\ ~Skipped(Head(todo))
<1> DEFINE r == job.reps
           s == Steps(r)
           f == FrameOf(r, job.info)
<1>1. /\ m \in 0 .. 6 + r /\ r \in Nat /\ r \in Reps /\ Head(todo) = s[m + 1] /\ m # 5 + r
      /\ job.info \in Info
  BY StepByte DEF Types
<1>2. /\ s[1] = <<"lo", 0>> /\ s[2] = <<"hi", 0>>
      /\ s[3] = <<"dst", 0>> /\ s[4] = <<"src", 0>>
      /\ \A j \in 1 .. r : s[4 + j] = <<"rep", j>>
      /\ s[5 + r] = <<"info", 0>> /\ s[7 + r] = <<"fcs", 0>>
  BY <1>1, StepsFacts
<1>3. /\ f \in Frame /\ Len(f) = 4 + r /\ f[1] = Dst /\ f[2] = Src
      /\ \A j \in 1 .. r : f[2 + j] = Repeater
      /\ f[3 + r] = job.info /\ f[4 + r] = FcsGood
  BY <1>1, FrameFacts
<1>4. /\ Wire(f)[1] = LengthLo(4 + r) /\ Wire(f)[2] = LengthHi(4 + r)
      /\ \A b \in 1 .. 4 + r : Wire(f)[b + 2] = f[b]
  <2> HIDE DEF f
  <2> QED
    BY <1>3, WireFacts
<1>5. /\ job.kind = "unproto" => repeaters = r
      /\ m = 6 + r => sniffer = "main"
  BY Zenon DEF Putting
<1>6. PktLen(r) = 4 + r
  BY DEF PktLen
<1>7. BytesPut(m) = IF m = 6 + r THEN m - 1 ELSE m
  BY DEF BytesPut
<1> DEFINE w == Wire(f)
           lo == LengthLo(4 + r)
           hi == LengthHi(4 + r)
<1>8. /\ w[1] = lo /\ w[2] = hi /\ w[3] = Dst /\ w[4] = Src
      /\ \A j \in 1 .. r : w[4 + j] = Repeater
      /\ w[5 + r] = job.info /\ w[6 + r] = FcsGood
  <2>0. \A k \in Nat :
            /\ 1 \in 1 .. 4 + k /\ 2 \in 1 .. 4 + k /\ 3 + k \in 1 .. 4 + k /\ 4 + k \in 1 .. 4 + k
            /\ (3 + k) + 2 = 5 + k /\ (4 + k) + 2 = 6 + k /\ 1 + 2 = 3 /\ 2 + 2 = 4
            /\ \A j \in 1 .. k : 2 + j \in 1 .. 4 + k /\ (2 + j) + 2 = 4 + j
    OBVIOUS
  <2>1. /\ 1 \in 1 .. 4 + r /\ 2 \in 1 .. 4 + r /\ 3 + r \in 1 .. 4 + r /\ 4 + r \in 1 .. 4 + r
        /\ (3 + r) + 2 = 5 + r /\ (4 + r) + 2 = 6 + r /\ 1 + 2 = 3 /\ 2 + 2 = 4
        /\ \A j \in 1 .. r : 2 + j \in 1 .. 4 + r /\ (2 + j) + 2 = 4 + j
    BY <1>1, <2>0, Zenon
  <2>2. w[3] = f[1] /\ w[4] = f[2] /\ w[5 + r] = f[3 + r] /\ w[6 + r] = f[4 + r]
    BY <1>4, <2>1
  <2>3. \A j \in 1 .. r : w[4 + j] = f[2 + j]
    BY <1>4, <2>1
  <2> HIDE DEF w, f
  <2> QED
    BY <1>3, <1>4, <2>2, <2>3 DEF w
<1>9. \A x : x[1] = "rep" => ByteOf(x) = Repeater
  BY DEF ByteOf
<1>10. /\ \A x : x[1] = "lo" => ByteOf(x) = lo
       /\ \A x : x[1] = "hi" => ByteOf(x) = hi
       /\ \A x : x[1] = "dst" => ByteOf(x) = Dst
       /\ \A x : x[1] = "src" => ByteOf(x) = Src
       /\ \A x : x[1] = "info" => ByteOf(x) = job.info
       /\ \A x : x[1] = "fcs" /\ sniffer = "main" => ByteOf(x) = FcsGood
  BY <1>6 DEF ByteOf
<1>11. \A x : Skipped(x) => x[1] = "rep" /\ job.kind = "unproto" /\ x[2] > repeaters
  BY Zenon DEF Skipped
<1>12. BytesPut(m) \in 0 .. 5 + r
  BY <1>1, <1>7
<1> DEFINE h == Head(todo)
<1>13. h = s[m + 1]
  BY <1>1
<1> HIDE DEF r, s, f, w, lo, hi, h, Dst, Src, Repeater, FcsGood
<1>20. SUFFICES ByteOf(h) = w[BytesPut(m) + 1] /\ ~Skipped(h)
  BY <1>12 DEF w, f, r, h
<1>14. CASE m < 4
  <2>1. BytesPut(m) = m /\ m \in {0, 1, 2, 3}
    BY <1>1, <1>7, <1>14
  <2>2. /\ m = 0 => h[1] = "lo" /\ ByteOf(h) = w[1]
        /\ m = 1 => h[1] = "hi" /\ ByteOf(h) = w[2]
        /\ m = 2 => h[1] = "dst" /\ ByteOf(h) = w[3]
        /\ m = 3 => h[1] = "src" /\ ByteOf(h) = w[4]
    BY <1>2, <1>8, <1>10, <1>13
  <2>3. h[1] # "rep"
    BY <2>1, <2>2
  <2> QED
    BY <1>11, <2>1, <2>2, <2>3
<1>15. CASE m \in 4 .. 3 + r
  <2>1. /\ m - 3 \in 1 .. r /\ m + 1 = 4 + (m - 3) /\ BytesPut(m) = m
    BY <1>1, <1>7, <1>15
  <2>2. s[4 + (m - 3)] = <<"rep", m - 3>> /\ w[4 + (m - 3)] = Repeater
    BY <1>2, <1>8, <2>1
  <2>3. h[1] = "rep" /\ h[2] = m - 3 /\ w[BytesPut(m) + 1] = Repeater
    BY <1>13, <2>1, <2>2
  <2>4. ~Skipped(h)
    <3>1. SUFFICES ASSUME Skipped(h) PROVE FALSE
      OBVIOUS
    <3>2. job.kind = "unproto" /\ h[2] > repeaters
      BY <1>11, <3>1
    <3>3. repeaters = r
      BY <1>5, <3>2
    <3> QED
      BY <1>1, <2>1, <2>3, <3>2, <3>3
  <2> QED
    BY <1>9, <2>3, <2>4
<1>16. CASE m = 4 + r
  <2>1. m + 1 = 5 + r /\ BytesPut(m) = m
    BY <1>1, <1>7, <1>16
  <2>2. h[1] = "info" /\ w[BytesPut(m) + 1] = job.info
    BY <1>2, <1>8, <1>13, <2>1
  <2> QED
    BY <1>10, <1>11, <2>2
<1>17. CASE m = 6 + r
  <2>1. m + 1 = 7 + r /\ BytesPut(m) + 1 = 6 + r /\ sniffer = "main"
    BY <1>1, <1>5, <1>7, <1>17
  <2>2. h[1] = "fcs" /\ w[BytesPut(m) + 1] = FcsGood
    BY <1>2, <1>8, <1>13, <2>1
  <2> QED
    BY <1>10, <1>11, <2>1, <2>2
<1> QED
  BY <1>1, <1>14, <1>15, <1>16, <1>17

LEMMA PutByteGood ==
    ASSUME Types, ~disturbed, NEW e \in Place(offered), NEW p \in Nat, NEW m \in Nat,
           Whole(e, p, m), PutByte
    PROVE  Good'
<1>1. /\ todo # <<>> /\ Head(todo)[1] # "sum" /\ todo' = Tail(todo)
      /\ IF Skipped(Head(todo)) THEN UNCHANGED send_queue ELSE TryAdd(ByteOf(Head(todo)))
      /\ UNCHANGED <<repeaters, sniffer, job, sending, send_len, sent, offered, taken>>
  BY Zenon DEF PutByte, consumer
<1>2. Ends(offered, e) /\ Carries(send_queue, offered, e, p) /\ Taking(e, p) /\ Putting(e, p, m)
  BY Zenon DEF Whole
<1>3. /\ BytesPut(m) \in 0 .. 5 + job.reps /\ ~Skipped(Head(todo))
      /\ ByteOf(Head(todo)) = Wire(FrameOf(job.reps, job.info))[BytesPut(m) + 1]
  BY <1>1, <1>2, NextByte
<1>4. /\ m \in 0 .. 6 + job.reps /\ job.reps \in Nat
      /\ Head(todo)[1] = "sum" <=> m = 5 + job.reps
      /\ Tail(todo) = <<>> <=> m = 6 + job.reps
      /\ Len(Tail(todo)) = 7 + job.reps - (m + 1)
      /\ \A i \in 1 .. Len(Tail(todo)) : Tail(todo)[i] = Steps(job.reps)[m + 1 + i]
  BY <1>1, <1>2, StepByte
<1>5. /\ Len(offered) >= 1 /\ offered[Len(offered)] = FrameOf(job.reps, job.info)
      /\ job.kind = "unproto" => repeaters = job.reps
      /\ p + Len(send_queue) = e[Len(offered) - 1] + BytesPut(m)
      /\ Len(send_queue) + (6 + job.reps - BytesPut(m)) <= SendQueueLen
  BY <1>1, <1>2, Zenon DEF Putting
<1>6. /\ offered \in Seq(Frame) /\ send_queue \in Seq(Byte) /\ Len(offered) \in Nat
      /\ Len(send_queue) \in Nat /\ SendQueueLen \in Nat
  BY Sizes DEF Types
<1>7. ByteOf(Head(todo)) \in Byte
  BY <1>1, ByteTyped
<1> DEFINE n == Len(offered)
           r == job.reps
           c == BytesPut(m)
           l == Len(send_queue)
<1>8. e[n - 1] \in Nat /\ e[n] \in Nat /\ e[n] = e[n - 1] + (r + 4) + 2
  <2>1. n \in 1 .. n
    BY <1>5, <1>6
  <2>2. Len(offered[n]) = 4 + r
    BY <1>5, <1>6, FrameFacts DEF Types
  <2> QED
    BY <1>2, <1>4, <1>6, <2>1, <2>2, PlaceOf, SMTT(30)
<1>9. send_queue' = Append(send_queue, ByteOf(Head(todo)))
  <2>1. l + (6 + r - c) <= SendQueueLen /\ l \in Nat /\ c \in 0 .. 5 + r /\ r \in Nat
    BY <1>3, <1>4, <1>5, <1>6
  <2> HIDE DEF l, r, c
  <2>2. SendQueueLen - l > 0
    BY <1>6, <2>1
  <2>3. send_queue_free > 0
    BY <2>2 DEF send_queue_free, l
  <2> QED
    BY <1>1, <1>3, <2>3, Zenon DEF TryAdd
<1>10. Len(send_queue') = l + 1
  BY <1>6, <1>7, <1>9, Longer
<1>11. Carries(send_queue', offered, e, p)
  <2>1. Len(offered[n]) = 4 + r
    BY <1>5, <1>6, FrameFacts DEF Types
  <2>2. c \in 0 .. Len(offered[n]) + 1
    BY <1>3, <1>4, <2>1
  <2>3. ByteOf(Head(todo)) = Wire(offered[n])[c + 1]
    BY <1>3, <1>5
  <2> QED
    BY <1>2, <1>5, <1>6, <1>7, <1>9, <2>2, <2>3, CarriesByte
<1>12. Taking(e, p)'
  BY <1>1, <1>2, Zenon DEF Taking
<1> DEFINE c2 == BytesPut(m + 1)
<1>13. m # 5 + r
  BY <1>1, <1>4, Zenon
<1>14. c2 = IF m + 1 = 6 + r THEN m ELSE m + 1
  BY <1>4 DEF BytesPut
<1>15. c = IF m = 6 + r THEN m - 1 ELSE m
  BY DEF BytesPut
<1>16. c2' = c2
  BY <1>1 DEF BytesPut
<1>17. /\ m # 6 + r => c2 = c + 1 /\ m + 1 \in 0 .. 6 + r
       /\ m = 6 + r => c = 5 + r
       /\ m + 1 # 6 + r
  BY <1>4, <1>13, <1>14, <1>15, SMTT(30)
<1>18. Putting(e, p, m + 1)'
  <2>1. CASE m = 6 + r
    <3>1. todo' = <<>>
      BY <1>1, <1>4, <2>1, Zenon
    <3>2. p + Len(send_queue') = e[n]
      <4>1. p + l = e[n - 1] + c /\ c = 5 + r /\ l \in Nat /\ r \in Nat
        BY <1>4, <1>5, <1>6, <1>17, <2>1
      <4> HIDE DEF l, r, c, n
      <4> QED
        BY <1>8, <1>10, <4>1, SMTT(30)
    <3> QED
      BY <1>1, <3>1, <3>2 DEF Putting
  <2>2. CASE m # 6 + r
    <3>1. m + 1 \in 0 .. 6 + r /\ c2 = c + 1 /\ m + 1 # 6 + r
      BY <1>17, <2>2
    <3>2. /\ p + Len(send_queue') = e[n - 1] + c2
          /\ Len(send_queue') + (6 + r - c2) <= SendQueueLen
      <4>1. /\ p + l = e[n - 1] + c /\ l \in Nat /\ r \in Nat /\ c \in 0 .. 5 + r
            /\ l + (6 + r - c) <= SendQueueLen
        BY <1>3, <1>4, <1>5, <1>6
      <4>2. e[n - 1] \in Nat /\ Len(send_queue') = l + 1 /\ c2 = c + 1
        BY <1>8, <1>10, <3>1
      <4> DEFINE x == e[n - 1]
                 k == Len(send_queue')
      <4>3. x \in Nat /\ p + l = x + c /\ k = l + 1
        BY <4>1, <4>2
      <4> HIDE DEF l, r, c, c2, x, k
      <4>4. p + k = x + c2
        BY <4>1, <4>2, <4>3
      <4>5. k + (6 + r - c2) <= SendQueueLen
        BY <1>6, <4>1, <4>2, <4>3
      <4> QED
        BY <4>4, <4>5 DEF x, k
    <3>3. Len(todo') = 7 + r - (m + 1)
      BY <1>1, <1>4
    <3>4. \A i \in 1 .. Len(todo') : todo'[i] = Steps(r)[m + 1 + i]
      BY <1>1, <1>4, Zenon
    <3>5. BytesPut(m + 1)' = c2 /\ todo' # <<>>
      BY <1>1, <1>4, <1>16, <2>2, Zenon
    <3> HIDE DEF c2
    <3>6. job' = job /\ offered' = offered /\ repeaters' = repeaters
      BY <1>1
    <3>7. /\ m + 1 \in 0 .. 6 + job'.reps
          /\ Len(todo') = 7 + job'.reps - (m + 1)
          /\ \A i \in 1 .. Len(todo') : todo'[i] = Steps(job'.reps)[m + 1 + i]
      BY <3>1, <3>3, <3>4, <3>6, Zenon
    <3>8. /\ Len(offered') >= 1
          /\ offered'[Len(offered')] = FrameOf(job'.reps, job'.info)
          /\ job'.kind = "unproto" => repeaters' = job'.reps
      BY <1>5, <3>6, Zenon
    <3>9. m + 1 = 6 + job'.reps => sniffer' = "main"
      BY <3>1, <3>6, Zenon
    <3>10. /\ p + Len(send_queue') = e[Len(offered') - 1] + BytesPut(m + 1)'
           /\ Len(send_queue') + (6 + job'.reps - BytesPut(m + 1)') <= SendQueueLen
      BY <3>2, <3>5, <3>6, Zenon
    <3> QED
      BY <3>5, <3>7, <3>8, <3>9, <3>10, Zenon DEF Putting
  <2> QED
    BY <2>1, <2>2
<1>19. m + 1 \in Nat /\ e \in Place(offered')
  BY <1>1
<1>20. Whole(e, p, m + 1)'
  BY <1>1, <1>2, <1>11, <1>12, <1>18 DEF Whole
<1> QED
  BY <1>19, <1>20, Zenon DEF Good

LEMMA SumFcsGood ==
    ASSUME Types, ~disturbed, NEW e \in Place(offered), NEW p \in Nat, NEW m \in Nat,
           Whole(e, p, m), SumFcs
    PROVE  Good'
<1>1. /\ todo # <<>> /\ Head(todo)[1] = "sum" /\ todo' = Tail(todo) /\ sniffer' = "main"
      /\ UNCHANGED <<send_queue, repeaters, job, sending, send_len, sent, offered, taken>>
  BY Zenon DEF SumFcs, consumer
<1>2. Ends(offered, e) /\ Carries(send_queue, offered, e, p) /\ Taking(e, p) /\ Putting(e, p, m)
  BY Zenon DEF Whole
<1> DEFINE r == job.reps
<1>3. /\ r \in Nat /\ m = 5 + r /\ Tail(todo) # <<>>
      /\ Len(Tail(todo)) = 7 + r - (m + 1)
      /\ \A i \in 1 .. Len(Tail(todo)) : Tail(todo)[i] = Steps(r)[m + 1 + i]
  <2>1. /\ r \in Nat
        /\ Head(todo)[1] = "sum" <=> m = 5 + r
        /\ Tail(todo) = <<>> <=> m = 6 + r
        /\ Len(Tail(todo)) = 7 + r - (m + 1)
        /\ \A i \in 1 .. Len(Tail(todo)) : Tail(todo)[i] = Steps(r)[m + 1 + i]
    BY <1>1, <1>2, StepByte
  <2>2. m = 5 + r
    BY <1>1, <2>1, Zenon
  <2>3. m # 6 + r
    BY <2>1, <2>2
  <2> QED
    BY <2>1, <2>2, <2>3, Zenon
<1>4. /\ Len(offered) >= 1 /\ offered[Len(offered)] = FrameOf(r, job.info)
      /\ job.kind = "unproto" => repeaters = r
      /\ p + Len(send_queue) = e[Len(offered) - 1] + BytesPut(m)
      /\ Len(send_queue) + (6 + r - BytesPut(m)) <= SendQueueLen
  BY <1>1, <1>2, Zenon DEF Putting
<1>5. BytesPut(m + 1)' = BytesPut(m) /\ m + 1 \in 0 .. 6 + r
  <2>0. \A k, x \in Nat : x = 5 + k =>
            x + 1 = 6 + k /\ x # 6 + k /\ x + 1 - 1 = x /\ x + 1 \in 0 .. 6 + k
    OBVIOUS
  <2>1. m + 1 = 6 + r /\ m # 6 + r /\ m + 1 - 1 = m /\ m + 1 \in 0 .. 6 + r
    BY <1>3, <2>0, Zenon
  <2>2. BytesPut(m) = m
    BY <2>1 DEF BytesPut
  <2>3. BytesPut(m + 1)' = m + 1 - 1
    BY <1>1, <2>1 DEF BytesPut
  <2> QED
    BY <2>1, <2>2, <2>3
<1>6. Putting(e, p, m + 1)'
  <2>1. Len(todo') = 7 + r - (m + 1) /\ todo' # <<>>
    BY <1>1, <1>3
  <2>2. \A i \in 1 .. Len(todo') : todo'[i] = Steps(r)[m + 1 + i]
    BY <1>1, <1>3, Zenon
  <2> QED
    BY <1>1, <1>4, <1>5, <2>1, <2>2, Zenon DEF Putting
<1>7. Taking(e, p)'
  BY <1>1, <1>2, Zenon DEF Taking
<1>8. Whole(e, p, m + 1)' /\ m + 1 \in Nat /\ e \in Place(offered')
  BY <1>1, <1>2, <1>6, <1>7 DEF Whole
<1> QED
  BY <1>8, Zenon DEF Good

\* The queue of send() is a frame boundary, or empty.
LEMMA NextFrame ==
    ASSUME Types, NEW e \in Place(offered), NEW p \in Nat, NEW m \in Nat, Whole(e, p, m),
           Running, ~sending, send_queue # <<>>
    PROVE  /\ Len(taken) < Len(offered) /\ p = e[Len(taken)]
           /\ Len(send_queue) >= Len(offered[Len(taken) + 1]) + 2
           /\ \A b \in 1 .. Len(offered[Len(taken) + 1]) + 2 :
                  send_queue[b] = Wire(offered[Len(taken) + 1])[b]
<1> DEFINE n == Len(offered)
           k == Len(taken)
           l == Len(send_queue)
<1>1. Ends(offered, e) /\ Carries(send_queue, offered, e, p) /\ Taking(e, p) /\ Putting(e, p, m)
  BY Zenon DEF Whole
<1>2. p + l = e[n] /\ k <= n /\ p = e[k]
  BY <1>1, Zenon DEF Putting, Taking, Running
<1>3. /\ n \in Nat /\ k \in Nat /\ l \in Nat /\ l >= 1 /\ offered \in Seq(Frame)
  BY EmptySeq DEF Types
<1>4. \A j \in 0 .. n : e[j] \in Nat
  BY Zenon DEF Place
<1> HIDE DEF n, k, l
<1>5. k < n
  <2>1. SUFFICES ASSUME k = n PROVE FALSE
    BY <1>2, <1>3
  <2>2. n \in 0 .. n /\ e[n] \in Nat
    BY <1>3, <1>4
  <2> QED
    BY <1>2, <1>3, <2>1, <2>2
<1>6. k + 1 \in 1 .. n /\ (k + 1) - 1 = k
  BY <1>3, <1>5
<1>7. /\ e[k] \in Nat /\ e[k + 1] \in Nat /\ e[n] \in Nat
      /\ Len(offered[k + 1]) \in Nat
      /\ e[k + 1] = e[k] + Len(offered[k + 1]) + 2 /\ e[k + 1] <= e[n]
  BY <1>1, <1>3, <1>6, PlaceOf DEF n
<1> DEFINE x == e[k]
           y == e[k + 1]
           z == e[n]
           c == Len(offered[k + 1])
<1>70. /\ x \in Nat /\ y \in Nat /\ z \in Nat /\ c \in Nat /\ y = x + c + 2 /\ y <= z
       /\ p + l = z /\ p = x /\ e[(k + 1) - 1] = x
  BY <1>2, <1>6, <1>7
<1> HIDE DEF x, y, z, c
<1>71. l >= c + 2
  BY <1>3, <1>70
<1>8. l >= Len(offered[k + 1]) + 2
  BY <1>71 DEF c
<1>9. ASSUME NEW b \in 1 .. Len(offered[k + 1]) + 2
      PROVE  send_queue[b] = Wire(offered[k + 1])[b]
  <2>0. b \in 1 .. c + 2
    BY DEF c
  <2>01. x + b - p = b /\ b \in 1 .. l
    BY <1>3, <1>70, <1>71, <2>0
  <2>1. e[(k + 1) - 1] + b - p = b /\ b \in 1 .. l
    BY <1>70, <2>01
  <2>2. e[(k + 1) - 1] + b - p \in 1 .. Len(send_queue)
    BY <2>1 DEF l
  <2>3. send_queue[e[(k + 1) - 1] + b - p] = Wire(offered[k + 1])[b]
    BY <1>1, <1>6, <2>2 DEF Carries, n
  <2> QED
    BY <2>1, <2>3
<1> QED
  BY <1>2, <1>5, <1>8, <1>9 DEF n, k, l

LEMMA DataStartGood ==
    ASSUME Types, ~disturbed, NEW e \in Place(offered), NEW p \in Nat, NEW m \in Nat,
           Whole(e, p, m), DataStart
    PROVE  Good'
<1>1. /\ Running /\ ~sending /\ Len(send_queue) >= 3
      /\ send_len' = LengthOf(send_queue[1], send_queue[2]) - 1
      /\ sent' = <<send_queue[3]>>
      /\ send_queue' = SubSeq(send_queue, 4, Len(send_queue))
      /\ sending'
      /\ UNCHANGED <<repeaters, sniffer, todo, job, offered, taken>>
  BY Zenon DEF DataStart, producer
<1>2. Ends(offered, e) /\ Carries(send_queue, offered, e, p) /\ Taking(e, p) /\ Putting(e, p, m)
  BY Zenon DEF Whole
<1> DEFINE k == Len(taken)
           f == offered[k + 1]
<1>3. /\ offered \in Seq(Frame) /\ send_queue \in Seq(Byte) /\ Len(offered) \in Nat
      /\ k \in Nat /\ Len(send_queue) \in Nat /\ Len(send_queue) <= SendQueueLen
      /\ send_queue # <<>> /\ todo = <<>>
  BY <1>1, EmptySeq DEF Types, Running
<1>4. /\ k < Len(offered) /\ p = e[k] /\ Len(send_queue) >= Len(f) + 2
      /\ \A b \in 1 .. Len(f) + 2 : send_queue[b] = Wire(f)[b]
  BY <1>1, <1>3, NextFrame
<1>5. f \in Frame
  BY <1>3, <1>4
<1>6. /\ Len(f) \in Nat /\ Len(f) >= 1 /\ f \in Seq(Byte)
      /\ Wire(f)[1] = LengthLo(Len(f)) /\ Wire(f)[2] = LengthHi(Len(f))
      /\ \A b \in 1 .. Len(f) : Wire(f)[b + 2] = f[b]
  <2> HIDE DEF f
  <2> QED
    BY <1>5, WireFacts DEF Frame
<1>7. send_len' = Len(f) - 1
  <2>1. Len(f) < Radix * Radix
    BY <1>3, <1>4, <1>6, Sizes
  <2>2. LengthOf(LengthLo(Len(f)), LengthHi(Len(f))) = Len(f)
    BY <1>6, <2>1, LengthBack
  <2>3. 1 \in 1 .. Len(f) + 2 /\ 2 \in 1 .. Len(f) + 2
    BY <1>6
  <2> QED
    BY <1>1, <1>4, <1>6, <2>2, <2>3
<1>8. sent' = <<f[1]>>
  <2>1. 3 \in 1 .. Len(f) + 2 /\ 1 \in 1 .. Len(f) /\ 1 + 2 = 3
    BY <1>6
  <2>2. send_queue[3] = f[1]
    BY <1>4, <1>6, <2>1
  <2> QED
    BY <1>1, <2>2
<1>9. /\ send_queue' \in Seq(Byte) /\ Len(send_queue') = Len(send_queue) - 3
      /\ \A b \in 1 .. Len(send_queue') : send_queue'[b] = send_queue[b + 3]
  BY <1>1, <1>3, Shorter
<1>10. Carries(send_queue', offered, e, p + 3)
  BY <1>2, <1>3, <1>9, CarriesTake
<1>11. Taking(e, p + 3)'
  <2>1. \A j \in 1 .. k : taken[j] = offered[j]
    BY <1>2, Zenon DEF Taking
  <2>2. Len(sent') = 1 /\ sent'[1] = f[1]
    BY <1>8
  <2>3. e[k] \in Nat
    <3>1. k \in 0 .. Len(offered)
      BY <1>3, <1>4
    <3> QED
      BY <3>1 DEF Place
  <2>4. p + 3 = e[k] + 2 + Len(sent')
    BY <1>4, <2>2, <2>3
  <2>5. Len(sent') + send_len' = Len(f) /\ send_len' >= 0 /\ Len(sent') >= 1
    BY <1>6, <1>7, <2>2
  <2>6. \A b \in 1 .. Len(sent') : sent'[b] = f[b]
    BY <2>2
  <2>7. k <= Len(offered)
    BY <1>3, <1>4
  <2> QED
    BY <1>1, <1>4, <2>1, <2>4, <2>5, <2>6, <2>7, Zenon DEF Taking
<1>12. Putting(e, p + 3, m)'
  <2>1. p + Len(send_queue) = e[Len(offered)]
    BY <1>2, <1>3, Zenon DEF Putting
  <2>2. p + 3 + Len(send_queue') = e[Len(offered)]
    BY <1>3, <1>9, <2>1
  <2> QED
    BY <1>1, <1>3, <2>2, Zenon DEF Putting
<1>13. Whole(e, p + 3, m)' /\ p + 3 \in Nat /\ e \in Place(offered')
  BY <1>1, <1>2, <1>10, <1>11, <1>12 DEF Whole
<1> QED
  BY <1>13, Zenon DEF Good

LEMMA DataGood ==
    ASSUME Types, ~disturbed, NEW e \in Place(offered), NEW p \in Nat, NEW m \in Nat,
           Whole(e, p, m), Data
    PROVE  Good'
<1>1. /\ Running /\ sending /\ send_len > 0 /\ send_queue # <<>>
      /\ sent' = Append(sent, Head(send_queue)) /\ send_queue' = Tail(send_queue)
      /\ send_len' = send_len - 1
      /\ UNCHANGED <<repeaters, sniffer, todo, job, sending, offered, taken>>
  BY Zenon DEF Data, producer
<1>2. Ends(offered, e) /\ Carries(send_queue, offered, e, p) /\ Taking(e, p) /\ Putting(e, p, m)
  BY Zenon DEF Whole
<1> DEFINE k == Len(taken)
           f == offered[k + 1]
           s == Len(sent)
<1>3. /\ offered \in Seq(Frame) /\ send_queue \in Seq(Byte) /\ Len(offered) \in Nat
      /\ k \in Nat /\ Len(send_queue) \in Nat /\ Len(send_queue) >= 1
      /\ todo = <<>> /\ sent \in Seq(Byte) /\ s \in Nat /\ send_len \in Int
  BY <1>1, EmptySeq DEF Types, Running
<1>4. /\ k < Len(offered) /\ p = e[k] + 2 + s /\ s >= 1 /\ send_len >= 0
      /\ s + send_len = Len(f) /\ \A b \in 1 .. s : sent[b] = f[b]
      /\ \A j \in 1 .. k : taken[j] = offered[j]
  BY <1>1, <1>2, Zenon DEF Taking
<1>5. k + 1 \in 1 .. Len(offered) /\ f \in Frame /\ (k + 1) - 1 = k
  BY <1>3, <1>4
<1>6. /\ Len(f) \in Nat /\ \A b \in 1 .. Len(f) : Wire(f)[b + 2] = f[b]
  <2> HIDE DEF f
  <2> QED
    BY <1>5, WireFacts
<1>7. e[k] \in Nat
  <2>1. k \in 0 .. Len(offered)
    BY <1>3, <1>4
  <2> QED
    BY <2>1 DEF Place
<1>8. send_queue[1] = f[s + 1]
  <2> HIDE DEF f, s, k
  <2>1. s + 1 \in 1 .. Len(f) /\ s + 3 \in 1 .. Len(f) + 2 /\ (s + 1) + 2 = s + 3
    BY <1>1, <1>3, <1>4, <1>6
  <2>20. \A x, y \in Nat : x + (y + 3) - (x + 2 + y) = 1
    OBVIOUS
  <2>21. e[k] + (s + 3) - p = 1
    BY <1>3, <1>4, <1>7, <2>20, Zenon DEF s
  <2>2. e[(k + 1) - 1] + (s + 3) - p = 1 /\ 1 \in 1 .. Len(send_queue)
    BY <1>3, <1>5, <2>21
  <2>3. send_queue[e[(k + 1) - 1] + (s + 3) - p] = Wire(f)[s + 3]
    BY <1>2, <1>5, <2>1, <2>2 DEF Carries, f
  <2> QED
    BY <1>6, <2>1, <2>2, <2>3
<1>9. /\ Head(send_queue) = send_queue[1] /\ send_queue' \in Seq(Byte)
      /\ Len(send_queue') = Len(send_queue) - 1
      /\ \A b \in 1 .. Len(send_queue') : send_queue'[b] = send_queue[b + 1]
      /\ Head(send_queue) \in Byte
  BY <1>1, <1>3
<1>10. Carries(send_queue', offered, e, p + 1)
  BY <1>2, <1>3, <1>9, CarriesTake
<1>11. /\ Len(sent') = s + 1 /\ sent'[s + 1] = f[s + 1]
       /\ \A b \in 1 .. s : sent'[b] = sent[b]
  BY <1>1, <1>3, <1>8, <1>9, Longer
<1>12. Taking(e, p + 1)'
  <2>1. \A b \in 1 .. Len(sent') : sent'[b] = f[b]
    <3> TAKE b \in 1 .. Len(sent')
    <3>1. b \in 1 .. s \/ b = s + 1
      BY <1>3, <1>11
    <3> QED
      BY <1>4, <1>11, <3>1
  <2>2. /\ p + 1 = e[k] + 2 + Len(sent') /\ Len(sent') >= 1 /\ k <= Len(offered)
        /\ Len(sent') + send_len' = Len(f) /\ send_len' >= 0
    <3> DEFINE x == e[k]
               c == Len(f)
    <3>1. /\ x \in Nat /\ c \in Nat /\ s \in Nat /\ s >= 1 /\ send_len \in Int
          /\ p = x + 2 + s /\ s + send_len = c /\ send_len > 0
          /\ Len(sent') = s + 1 /\ send_len' = send_len - 1
          /\ k < Len(offered) /\ k \in Nat /\ Len(offered) \in Nat
      BY <1>1, <1>3, <1>4, <1>6, <1>7, <1>11, Zenon
    <3> HIDE DEF s, f, k, x, c
    <3>2. /\ p + 1 = x + 2 + Len(sent') /\ Len(sent') >= 1 /\ k <= Len(offered)
          /\ Len(sent') + send_len' = c /\ send_len' >= 0
      BY <3>1
    <3> QED
      BY <3>2 DEF x, c
  <2> QED
    BY <1>1, <1>4, <2>1, <2>2, Zenon DEF Taking
<1>13. Putting(e, p + 1, m)'
  <2>1. p + Len(send_queue) = e[Len(offered)]
    BY <1>2, <1>3, Zenon DEF Putting
  <2>2. p + 1 + Len(send_queue') = e[Len(offered)]
    BY <1>3, <1>9, <2>1
  <2> QED
    BY <1>1, <1>3, <2>2, Zenon DEF Putting
<1>14. Whole(e, p + 1, m)' /\ p + 1 \in Nat /\ e \in Place(offered')
  BY <1>1, <1>2, <1>10, <1>12, <1>13 DEF Whole
<1> QED
  BY <1>14, Zenon DEF Good

LEMMA DataEndGood ==
    ASSUME Types, ~disturbed, NEW e \in Place(offered), NEW p \in Nat, NEW m \in Nat,
           Whole(e, p, m), DataEnd
    PROVE  Good'
<1>1. /\ Running /\ sending /\ send_len <= 0 /\ taken' = Append(taken, sent) /\ ~sending'
      /\ UNCHANGED <<send_queue, repeaters, sniffer, todo, job, offered>>
  BY Zenon DEF DataEnd, producer
<1>2. Ends(offered, e) /\ Carries(send_queue, offered, e, p) /\ Taking(e, p) /\ Putting(e, p, m)
  BY Zenon DEF Whole
<1> DEFINE k == Len(taken)
           f == offered[k + 1]
           s == Len(sent)
<1>3. /\ offered \in Seq(Frame) /\ Len(offered) \in Nat /\ k \in Nat /\ taken \in Seq(Seq(Byte))
      /\ sent \in Seq(Byte) /\ s \in Nat /\ send_len \in Int /\ todo = <<>>
  BY <1>1 DEF Types, Running
<1>4. /\ k < Len(offered) /\ p = e[k] + 2 + s /\ send_len >= 0
      /\ s + send_len = Len(f) /\ \A b \in 1 .. s : sent[b] = f[b]
      /\ \A j \in 1 .. k : taken[j] = offered[j]
  BY <1>1, <1>2, Zenon DEF Taking
<1>5. k + 1 \in 1 .. Len(offered) /\ f \in Seq(Byte) /\ (k + 1) - 1 = k
  BY <1>3, <1>4 DEF Frame
<1>6. s = Len(f)
  <2>1. send_len = 0
    BY <1>1, <1>3, <1>4
  <2> HIDE DEF s, f
  <2> QED
    BY <1>3, <1>4, <2>1
<1>7. sent = f
  BY <1>3, <1>4, <1>5, <1>6, SeqEqual
<1>8. /\ Len(taken') = k + 1 /\ taken'[k + 1] = f
      /\ \A j \in 1 .. k : taken'[j] = taken[j]
  BY <1>1, <1>3, <1>7, Longer
<1>9. p = e[k + 1]
  <2>1. e[k + 1] = e[k] + Len(f) + 2 /\ e[k] \in Nat /\ Len(f) \in Nat
    BY <1>2, <1>3, <1>5, PlaceOf
  <2> DEFINE x == e[k]
             y == e[k + 1]
             c == Len(f)
  <2>2. y = x + c + 2 /\ p = x + 2 + c /\ x \in Nat /\ c \in Nat
    BY <1>4, <1>6, <2>1
  <2> HIDE DEF x, y, c
  <2>3. p = y
    BY <2>2
  <2> QED
    BY <2>3 DEF y
<1>10. Taking(e, p)'
  <2>1. \A j \in 1 .. Len(taken') : taken'[j] = offered[j]
    <3> TAKE j \in 1 .. Len(taken')
    <3>1. j \in 1 .. k \/ j = k + 1
      BY <1>3, <1>8
    <3> QED
      BY <1>4, <1>8, <3>1
  <2>2. Len(taken') <= Len(offered)
    BY <1>5, <1>8
  <2> QED
    BY <1>1, <1>8, <1>9, <2>1, <2>2, Zenon DEF Taking
<1>11. Putting(e, p, m)'
  BY <1>1, <1>2, <1>3, Zenon DEF Putting
<1>12. Whole(e, p, m)' /\ e \in Place(offered')
  BY <1>1, <1>2, <1>10, <1>11 DEF Whole
<1> QED
  BY <1>12, Zenon DEF Good

LEMMA UsbUnprotoGood ==
    ASSUME Types, ~disturbed, NEW e \in Place(offered), NEW p \in Nat, NEW m \in Nat,
           Whole(e, p, m), NEW reps \in Reps, UsbUnproto(reps), ~disturbed'
    PROVE  Good'
<1>1. /\ todo = <<>>
      /\ UNCHANGED <<send_queue, sniffer, todo, job, sending, send_len, sent, offered, taken>>
  BY Zenon DEF UsbUnproto, Disturb, producer, consumer
<1>2. Ends(offered, e) /\ Carries(send_queue, offered, e, p) /\ Taking(e, p) /\ Putting(e, p, m)
  BY Zenon DEF Whole
<1>3. Taking(e, p)'
  BY <1>1, <1>2, Zenon DEF Taking
<1>4. Putting(e, p, m)'
  BY <1>1, <1>2, Zenon DEF Putting
<1>5. Whole(e, p, m)' /\ e \in Place(offered')
  BY <1>1, <1>2, <1>3, <1>4 DEF Whole
<1> QED
  BY <1>5, Zenon DEF Good

\* Undisturbed, send() never runs out of bytes in the middle of a frame.
LEMMA NoUnderrun ==
    ASSUME Types, NEW e \in Place(offered), NEW p \in Nat, NEW m \in Nat, Whole(e, p, m),
           Running
    PROVE  /\ ~sending => Len(send_queue) \notin 1 .. 2
           /\ sending /\ send_len > 0 => send_queue # <<>>
<1>1. Ends(offered, e) /\ Taking(e, p) /\ Putting(e, p, m)
  BY Zenon DEF Whole
<1> DEFINE k == Len(taken)
           n == Len(offered)
           l == Len(send_queue)
<1>2. /\ offered \in Seq(Frame) /\ n \in Nat /\ k \in Nat /\ l \in Nat
      /\ Len(sent) \in Nat /\ send_len \in Int
      /\ send_queue = <<>> => l = 0
  BY DEF Types
<1>3. ASSUME ~sending, l \in 1 .. 2 PROVE FALSE
  <2>0. 0 \notin 1 .. 2
    OBVIOUS
  <2>1. send_queue # <<>>
    BY <1>2, <1>3, <2>0, Zenon
  <2>2. k < n /\ l >= Len(offered[k + 1]) + 2
    BY <1>3, <2>1, NextFrame
  <2>3. Len(offered[k + 1]) \in Nat /\ Len(offered[k + 1]) >= 1
    BY <1>2, <2>2, WireFacts
  <2> HIDE DEF l
  <2> QED
    BY <1>3, <2>2, <2>3
<1>4. ASSUME sending, send_len > 0, send_queue = <<>> PROVE FALSE
  <2> DEFINE x == e[k]
             y == e[k + 1]
             z == e[n]
             c == Len(offered[k + 1])
             s == Len(sent)
  <2>1. k < n /\ p = x + 2 + s /\ s + send_len = c /\ p + l = z
    BY <1>1, <1>4, Zenon DEF Taking, Putting, Running
  <2>2. k + 1 \in 1 .. n /\ (k + 1) - 1 = k
    BY <1>2, <2>1
  <2>3. /\ x \in Nat /\ y \in Nat /\ z \in Nat /\ c \in Nat /\ y = x + c + 2 /\ y <= z
    BY <1>1, <1>2, <2>2, PlaceOf
  <2>4. l = 0 /\ s \in Nat /\ send_len \in Int /\ send_len > 0
    BY <1>2, <1>4
  <2> HIDE DEF x, y, z, c, s, l, k, n
  <2> QED
    BY <2>1, <2>3, <2>4
<1> QED
  BY <1>3, <1>4

LEMMA GoodNext == Types /\ Good /\ [Next]_vars => Good'
<1> SUFFICES ASSUME Types, Good, [Next]_vars PROVE Good'
  OBVIOUS
<1> SUFFICES ASSUME ~disturbed' PROVE Good'
  BY Zenon DEF Good
<1>0. ASSUME ~disturbed
      PROVE  \E e \in Place(offered), p \in Nat, m \in Nat : Whole(e, p, m)
  BY <1>0, Zenon DEF Good
<1>1. ASSUME NEW kind \in Kind, NEW reps \in Reps, NEW info \in Info,
             kind = "unproto" => repeaters = reps, Begin(kind, reps, info)
      PROVE  Good'
  <2>1. ~disturbed
    BY <1>1, Zenon DEF Begin
  <2> QED
    BY <1>0, <1>1, <2>1, BeginGood, Zenon
<1>2. CASE PutByte
  <2>1. ~disturbed
    BY <1>2, Zenon DEF PutByte
  <2> QED
    BY <1>0, <1>2, <2>1, PutByteGood, Zenon
<1>3. CASE SumFcs
  <2>1. ~disturbed
    BY <1>3, Zenon DEF SumFcs
  <2> QED
    BY <1>0, <1>3, <2>1, SumFcsGood, Zenon
<1>4. ASSUME NEW info \in Info, UsbSend(info)
      PROVE  Good'
  <2>1. ~disturbed
    BY <1>4, Zenon DEF UsbSend, Disturb
  <2> QED
    BY <1>0, <1>4, <2>1, UsbSendGood, Zenon
<1>5. ASSUME NEW reps \in Reps, UsbUnproto(reps)
      PROVE  Good'
  <2>1. ~disturbed
    BY <1>5, Zenon DEF UsbUnproto, Disturb
  <2> QED
    BY <1>0, <1>5, <2>1, UsbUnprotoGood, Zenon
<1>6. CASE SeeEmpty
  <2>1. /\ offered' = <<>> /\ taken' = <<>> /\ send_queue' = <<>> /\ todo' = <<>>
        /\ sending' = FALSE
    <3>1. ~sending /\ sending' = sending /\ sending \in BOOLEAN
      BY <1>6, Zenon DEF SeeEmpty, consumer, Types
    <3> QED
      BY <1>6, <3>1, Zenon DEF SeeEmpty, Forget, Running, producer
  <2> QED
    BY <2>1, GoodAgain, Zenon
<1>7. CASE DataStart
  <2>1. ~disturbed
    BY <1>7, Zenon DEF DataStart
  <2> QED
    BY <1>0, <1>7, <2>1, DataStartGood, Zenon
<1>8. CASE DataStartUnderrun
  <2>0. disturbed
    <3>1. SUFFICES ASSUME ~disturbed PROVE FALSE
      OBVIOUS
    <3>2. Running /\ ~sending /\ Len(send_queue) \in 1 .. 2
      BY <1>8, Zenon DEF DataStartUnderrun
    <3> QED
      BY <1>0, <3>1, <3>2, NoUnderrun, Zenon
  <2>1. /\ offered' = <<>> /\ taken' = <<>> /\ send_queue' = <<>> /\ todo' = <<>>
        /\ sending' = FALSE
    <3>1. ~sending /\ sending' = sending /\ sending \in BOOLEAN
      BY <1>8, Zenon DEF DataStartUnderrun, consumer, Types
    <3> QED
      BY <1>8, <2>0, <3>1, Zenon DEF DataStartUnderrun, Resync, Forget, Running, producer
  <2> QED
    BY <2>1, GoodAgain, Zenon
<1>9. CASE Data
  <2>1. ~disturbed
    BY <1>9, Zenon DEF Data
  <2> QED
    BY <1>0, <1>9, <2>1, DataGood, Zenon
<1>10. CASE DataEnd
  <2>1. ~disturbed
    BY <1>10, Zenon DEF DataEnd
  <2> QED
    BY <1>0, <1>10, <2>1, DataEndGood, Zenon
<1>11. CASE DataUnderrun
  <2>0. disturbed
    <3>1. SUFFICES ASSUME ~disturbed PROVE FALSE
      OBVIOUS
    <3>2. Running /\ sending /\ send_len > 0 /\ send_queue = <<>>
      BY <1>11, Zenon DEF DataUnderrun
    <3> QED
      BY <1>0, <3>1, <3>2, NoUnderrun, Zenon
  <2>1. /\ offered' = <<>> /\ taken' = <<>> /\ send_queue' = <<>> /\ todo' = <<>>
        /\ sending' = FALSE
    BY <1>11, <2>0, Zenon DEF DataUnderrun, Resync, Forget, Running, producer
  <2> QED
    BY <2>1, GoodAgain, Zenon
<1>12. CASE UNCHANGED vars
  <2>1. /\ UNCHANGED <<send_queue, repeaters, sniffer, todo, job, sending, send_len, sent>>
        /\ UNCHANGED <<offered, taken>> /\ disturbed' = disturbed
    BY <1>12, Zenon DEF vars
  <2>2. ~disturbed
    BY <2>1, Zenon
  <2>3. PICK e \in Place(offered), p \in Nat, m \in Nat : Whole(e, p, m)
    BY <1>0, <2>2, Zenon
  <2>4. Taking(e, p)'
    BY <2>1, <2>3, Zenon DEF Whole, Taking
  <2>5. Putting(e, p, m)'
    <3>1. Putting(e, p, m)
      BY <2>3, Zenon DEF Whole
    <3>2. BytesPut(m)' = BytesPut(m)
      BY <2>1 DEF BytesPut
    <3> QED
      BY <2>1, <3>1, <3>2, Zenon DEF Putting
  <2>6. Whole(e, p, m)' /\ e \in Place(offered')
    BY <2>1, <2>3, <2>4, <2>5 DEF Whole
  <2> QED
    BY <2>6, Zenon DEF Good
<1>13. ASSUME NEW info \in Info, SendUnproto(info)
       PROVE  Good'
  <2>1. "unproto" \in Kind /\ repeaters \in Reps
    BY DEF Kind, Types
  <2> QED
    BY <1>1, <1>13, <2>1, Zenon DEF SendUnproto
<1>14. ASSUME NEW reps \in Reps, NEW info \in Info, SendPacket(reps, info)
       PROVE  Good'
  <2>1. "packet" \in Kind /\ "packet" # "unproto"
    BY DEF Kind
  <2> QED
    BY <1>1, <1>14, <2>1, Zenon DEF SendPacket
<1> QED
  BY <1>2, <1>3, <1>4, <1>5, <1>6, <1>7, <1>8, <1>9, <1>10, <1>11, <1>12, <1>13, <1>14,
     Zenon
     DEF Next, Reps
-----------------------------------------------------------------------------
(* Theorems *)

LEMMA Always == Spec => [](Types /\ Good)
<1>1. Init => Types /\ Good
  BY TypesInit, GoodInit
<1>2. Types /\ Good /\ [Next]_vars => (Types /\ Good)'
  BY TypesNext, GoodNext
<1> QED
  BY <1>1, <1>2, PTL DEF Spec

\* The queue never holds more than SEND_QUEUE_LEN bytes, all of them bytes, and
\* the producers and send() keep their variables in range, torn frames or not.
THEOREM TypeCorrect == Spec => []TypeOK
BY Always, TypesOK, PTL

LEMMA Prefix ==
    ASSUME Types, Good
    PROVE  FramesIntact
<1> SUFFICES ASSUME ~disturbed PROVE IsPrefix(taken, offered)
  BY Zenon DEF FramesIntact
<1>1. Len(taken) <= Len(offered) /\ \A j \in 1 .. Len(taken) : taken[j] = offered[j]
  BY Zenon DEF Good, Whole, Taking
<1>2. offered \in Seq(Frame) /\ taken \in Seq(Seq(Byte)) /\ offered \in Seq(Seq(Byte))
  BY DEF Types, Frame
<1> DEFINE k == Len(taken)
<1>3. SubSeq(taken, 1, k) = SubSeq(offered, 1, k)
  <2>1. k \in Nat /\ Len(offered) \in Nat
    BY <1>2
  <2>2. /\ SubSeq(taken, 1, k) = [j \in 1 .. k |-> taken[j]]
        /\ SubSeq(offered, 1, k) = [j \in 1 .. k |-> offered[j]]
    BY <1>1, <1>2, <2>1
  <2> QED
    BY <1>1, <2>2
<1> QED
  BY <1>1, <1>3, Zenon DEF IsPrefix

\* send() takes out of the queue the frames the producers put in, whole and in
\* order, unless an interrupt ran inside a main-loop producer since the queue
\* was last seen empty: for every size of the queue up to 64 KB, every number of
\* repeaters and any traffic.
THEOREM SendsFramesIntact == Spec => []FramesIntact
BY Always, Prefix, PTL

LEMMA AllSent ==
    ASSUME Types, Good
    PROVE  NothingLost
<1> SUFFICES ASSUME ~disturbed, Running, ~sending, send_queue = <<>>
             PROVE  taken = offered
  BY Zenon DEF NothingLost
<1>1. PICK e \in Place(offered), p \in Nat, m \in Nat : Whole(e, p, m)
  BY Zenon DEF Good
<1>2. Ends(offered, e) /\ Taking(e, p) /\ Putting(e, p, m)
  BY <1>1, Zenon DEF Whole
<1> DEFINE k == Len(taken)
           n == Len(offered)
<1>3. /\ offered \in Seq(Frame) /\ taken \in Seq(Seq(Byte)) /\ offered \in Seq(Seq(Byte))
      /\ k \in Nat /\ n \in Nat /\ Len(send_queue) = 0
  BY DEF Types, Frame
<1>4. /\ p = e[k] /\ p + Len(send_queue) = e[n] /\ k <= n
      /\ \A j \in 1 .. k : taken[j] = offered[j]
  BY <1>2, Zenon DEF Taking, Putting, Running
<1>5. k = n
  <2>1. SUFFICES ASSUME k < n PROVE FALSE
    BY <1>3, <1>4
  <2> DEFINE x == e[k]
             y == e[k + 1]
             z == e[n]
             c == Len(offered[k + 1])
  <2>2. k + 1 \in 1 .. n /\ (k + 1) - 1 = k
    BY <1>3, <2>1
  <2>3. /\ x \in Nat /\ y \in Nat /\ z \in Nat /\ c \in Nat /\ y = x + c + 2 /\ y <= z
    BY <1>2, <1>3, <2>2, PlaceOf
  <2>4. x = z
    BY <1>3, <1>4, <2>3
  <2> HIDE DEF x, y, z, c
  <2> QED
    BY <2>3, <2>4
<1> QED
  BY <1>3, <1>4, <1>5, SeqEqual

\* Whatever passed the check of free space has been sent when the queue is
\* empty and both sides are at rest: no frame is lost to a full queue or cut by
\* an underrun.
THEOREM LosesNothing == Spec => []NothingLost
BY Always, AllSent, PTL
=============================================================================
