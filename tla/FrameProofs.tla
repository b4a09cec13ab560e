----------------------------- MODULE FrameProofs -----------------------------
(***************************************************************************)
(* Frames on their way: what the receiver finds of a frame, proved for     *)
(* frames of any bytes and any length, any buffer, any noise and any       *)
(* number of transmissions; and, below, the order in which a frame is      *)
(* repeated.                                                               *)
(*                                                                         *)
(* The receiver: the argument follows the bits.  Once a flag has been      *)
(* heard in step (InStep, FlagHeard) every bit heard is the bit sent, and  *)
(* the last bits heard are a zero and as many ones as send_byte counts     *)
(* (Ones), so that neither a flag nor the end of a frame is heard within   *)
(* one, and a zero is dropped exactly where one was stuffed.  Hence the    *)
(* receiver holds the bytes that were sent and, of the one being sent, the *)
(* bits that were (Heard, InByte); a frame beyond its buffer leaves it     *)
(* waiting for a flag.  How long a block becomes is a matter of counting   *)
(* (Samples): a stuffed zero takes five ones, four at most from the byte   *)
(* before.                                                                 *)
(***************************************************************************)
EXTENDS Hdlc, Digipeater, SequenceTheorems, TLAPS

\* What the transmitter is about: a flag is sent as it is, in a byte of data a
\* zero is pending (Pending) after five ones.
Pending == cnt_one = 5
FlagByte == {382, 191, 95, 47, 23, 11, 5, 2, 1}

Sending ==
    /\ phase = "flag" => byte \in FlagByte /\ bit = byte % 2
    /\ phase = "data" =>
         /\ IF Pending THEN bit = 0 /\ byte % 2 = 1 /\ byte > 1 ELSE bit = byte % 2
         /\ Len(frame) >= 1
    /\ phase = "ready" => byte = 1 /\ cnt_one <= 4
    /\ phase \in {"data", "ready"} => flags >= 1
    /\ phase = "noise" => flags = 0 /\ frame = <<>> /\ byte = 1
    /\ frame # <<>> => flags >= 1
    /\ frame # <<>> /\ phase = "flag" => cnt_one <= 4

\* Only at the first bit of a transmission the receiver may have heard another tone.
InStep ==
    phase = "noise" \/ (phase = "flag" /\ flags = 0 /\ byte = 382) \/ nrzi = level

\* The last bits heard are a zero and c ones.
Ones(c, f) ==
    /\ c = 0 => f % 2 = 0
    /\ c = 1 => f % 4 = 1
    /\ c = 2 => f % 8 = 3
    /\ c = 3 => f % 16 = 7
    /\ c = 4 => f % 32 = 15
    /\ c = 5 => f % 64 = 31

\* A flag is being heard; nobody can miss it.
FlagHeard ==
    phase = "flag" /\ flags >= 1 =>
        /\ byte = 191 => Ones(0, flag)
        /\ byte = 95 => Ones(1, flag)
        /\ byte = 47 => Ones(2, flag)
        /\ byte = 23 => Ones(3, flag)
        /\ byte = 11 => Ones(4, flag)
        /\ byte = 5 => Ones(5, flag)
        /\ byte = 2 => flag % 128 = 63 /\ state = "FLAG"
        /\ byte = 1 => flag = 126 /\ state = "DATA" /\ data = <<>> /\ data_bit_cnt = 0

\* The first n bytes of the frame, and c bits of the next, have been heard.
Fits(n) == n <= DataLen
HoldsAt(st, k, dd, fr, n, c) ==
    IF Fits(n)
      THEN st = "DATA" /\ k = c /\ Len(dd) = n /\ \A i \in 1 .. n : dd[i] = fr[i]
      ELSE st = "FLAG"
Holds(n, c) == HoldsAt(state, data_bit_cnt, data, frame, n, c)

\* r bits of a byte, 2^r, 2^(8 - r).
Powers == {<<0, 1, 256>>, <<1, 2, 128>>, <<2, 4, 64>>, <<3, 8, 32>>, <<4, 16, 16>>,
           <<5, 32, 8>>, <<6, 64, 4>>, <<7, 128, 2>>, <<8, 256, 1>>}

\* What is left of the byte after the bits that were sent.
Left == IF Pending THEN byte \div 2 ELSE byte

InByte(r, p, q) ==
    \E lo \in 0 .. 255 :
        /\ lo < p /\ frame[Len(frame)] + 256 = Left * p + lo
        /\ IF r < 8 THEN /\ Holds(Len(frame) - 1, r)
                         /\ Fits(Len(frame) - 1) => data_byte \div q = lo
                    ELSE Holds(Len(frame), 0)

Heard ==
    flags = 2 =>
      /\ phase = "ready" => Ones(cnt_one, flag) /\ got = <<>> /\ Holds(Len(frame), 0)
      /\ phase = "data" => /\ Ones(cnt_one, flag) /\ got = <<>>
                           /\ \E t \in Powers : InByte(t[1], t[2], t[3])
      /\ phase = "flag" /\ frame # <<>> =>
           /\ byte = 382 => Ones(cnt_one, flag) /\ got = <<>> /\ Holds(Len(frame), 0)
           /\ byte = 191 => got = <<>> /\ Holds(Len(frame), 1)
           /\ byte = 95 => got = <<>> /\ Holds(Len(frame), 2)
           /\ byte = 47 => got = <<>> /\ Holds(Len(frame), 3)
           /\ byte = 23 => got = <<>> /\ Holds(Len(frame), 4)
           /\ byte = 11 => got = <<>> /\ Holds(Len(frame), 5)
           /\ byte = 5 => got = <<>> /\ Holds(Len(frame), 6)
           /\ byte \in {2, 1} => got = IF Fits(Len(frame)) THEN <<frame>> ELSE <<>>

\* Samples of the block: one for each bit, and one for each zero stuffed, for
\* which there were five ones, four of them at most from the byte before.
Samples ==
    /\ phase = "flag" =>
         <<byte, idx>> \in {<<382, 0>>, <<191, 1>>, <<95, 2>>, <<47, 3>>, <<23, 4>>,
                           <<11, 5>>, <<5, 6>>, <<2, 7>>, <<1, 8>>}
    /\ phase = "data" =>
         \E t \in Powers :
            /\ t[3] <= Left /\ Left < 2 * t[3] /\ idx >= t[1]
            /\ 5 * (idx - t[1]) + cnt_one <= t[1] + 4
    /\ idx <= 10

Inv == Sending /\ InStep /\ FlagHeard /\ Heard /\ Samples

\* TypeOK, the bound of idx apart.
Types ==
    /\ phase \in {"noise", "flag", "data", "ready"}
    /\ byte \in 1 .. 511 /\ bit \in {0, 1} /\ cnt_one \in 0 .. 5
    /\ level \in {0, 1} /\ idx \in Nat
    /\ flags \in 0 .. 2 /\ frame \in Seq(Byte)
    /\ noise \in 0 .. MaxNoise /\ stops \in 0 .. MaxStops
    /\ nrzi \in {0, 1} /\ flag \in 0 .. 255 /\ state \in {"FLAG", "DATA"}
    /\ data \in Seq(0 .. 255) /\ Len(data) <= DataLen
    /\ data_byte \in 0 .. 255 /\ data_bit_cnt \in 0 .. 7
    /\ got \in Seq(Seq(0 .. 255))
-----------------------------------------------------------------------------
(* The receiver *)

\* Empty sequences.
LEMMA Nothing == \A S : <<>> \in Seq(S)
  BY Zenon, EmptySeq

\* What is pushed is a byte again.
LEMMA PushType ==
  ASSUME NEW d \in 0 .. 255, NEW b \in {0, 1}
  PROVE  (d \div 2) + 128 * b \in 0 .. 255
  BY SMT

\* Whatever is heard, the receiver's variables keep their types.
LEMMA DecodeTypes ==
  ASSUME Types, NEW b \in {0, 1}, DecodeBit(b)
  PROVE  /\ flag' \in 0 .. 255 /\ state' \in {"FLAG", "DATA"}
         /\ data' \in Seq(0 .. 255) /\ Len(data') <= DataLen
         /\ data_byte' \in 0 .. 255 /\ data_bit_cnt' \in 0 .. 7
         /\ got' \in Seq(Seq(0 .. 255))
<1>1. flag' \in 0 .. 255
  <2>1. flag' = (2 * flag + b) % 256
    BY Zenon DEF DecodeBit
  <2>2. flag \in 0 .. 255
    BY DEF Types
  <2> QED
    BY <2>1, <2>2, SMT
<1>2. state' \in {"FLAG", "DATA"}
  BY SMT DEF DecodeBit, Types
<1>3. Push(b) \in 0 .. 255
  BY PushType DEF Types, Push
<1>4. \/ data' = <<>> \/ data' = data
      \/ Len(data) # DataLen /\ data' = Append(data, Push(b))
  BY SMT DEF DecodeBit
<1>5. data' \in Seq(0 .. 255) /\ Len(data') <= DataLen
  <2>1. CASE data' = <<>>
    BY <2>1, HdlcAssumption
  <2>2. CASE data' = data
    BY <2>2 DEF Types
  <2>3. CASE Len(data) # DataLen /\ data' = Append(data, Push(b))
    <3>1. data \in Seq(0 .. 255) /\ Len(data) <= DataLen
      BY DEF Types
    <3>2. /\ Append(data, Push(b)) \in Seq(0 .. 255)
          /\ Len(Append(data, Push(b))) = Len(data) + 1
      BY <3>1, <1>3, AppendProperties
    <3>3. Len(data) \in Nat
      BY <3>1, LenProperties
    <3> QED
      BY <2>3, <3>1, <3>2, <3>3, HdlcAssumption
  <2> QED
    BY <1>4, <2>1, <2>2, <2>3
<1>6. data_byte' \in 0 .. 255
  BY <1>3, SMT DEF DecodeBit, Types
<1>7. data_bit_cnt' \in 0 .. 7
  BY SMTT(30) DEF DecodeBit, Types
<1>8. got' \in Seq(Seq(0 .. 255))
  <2>1. got' = got \/ got' = Append(got, data)
    BY Zenon DEF DecodeBit
  <2>2. got \in Seq(Seq(0 .. 255)) /\ data \in Seq(0 .. 255)
    BY DEF Types
  <2>3. Append(got, data) \in Seq(Seq(0 .. 255))
    BY <2>2, AppendProperties
  <2> QED
    BY <2>1, <2>2, <2>3
<1> QED
  BY <1>1, <1>2, <1>5, <1>6, <1>7, <1>8

\* A bit of data: neither a flag nor a stuffed zero.
LEMMA DecodeData ==
  ASSUME Types, NEW b \in {0, 1}, DecodeBit(b),
         flag' # 126, flag' % 64 # 62, flag' % 64 # 63
  PROVE  /\ got' = got
         /\ state = "FLAG" => state' = "FLAG"
         /\ state = "DATA" /\ data_bit_cnt # 7 =>
              /\ state' = "DATA" /\ data' = data /\ data_byte' = Push(b)
              /\ data_bit_cnt' = data_bit_cnt + 1
         /\ state = "DATA" /\ data_bit_cnt = 7 /\ Len(data) # DataLen =>
              /\ state' = "DATA" /\ data' = Append(data, Push(b))
              /\ data_bit_cnt' = 0
         /\ state = "DATA" /\ data_bit_cnt = 7 /\ Len(data) = DataLen =>
              state' = "FLAG"
  BY SMTT(30) DEF DecodeBit, Types, Destuff, AX25_FLAG

\* A stuffed zero changes nothing.
LEMMA DecodeStuffed ==
  ASSUME Types, NEW b \in {0, 1}, DecodeBit(b), flag' # 126, flag' % 64 = 62
  PROVE  /\ got' = got /\ state' = state /\ data' = data
         /\ data_byte' = data_byte /\ data_bit_cnt' = data_bit_cnt
  BY SMT DEF DecodeBit, Types, Destuff, AX25_FLAG

\* Six ones end a frame.
LEMMA DecodeEnd ==
  ASSUME Types, NEW b \in {0, 1}, DecodeBit(b), flag' % 64 = 63
  PROVE  /\ state' = "FLAG"
         /\ state = "DATA" => got' = Append(got, data)
         /\ state = "FLAG" => got' = got
  BY SMT DEF DecodeBit, Types, Destuff, AX25_FLAG

\* A flag begins one.
LEMMA DecodeFlag ==
  ASSUME Types, NEW b \in {0, 1}, DecodeBit(b), flag' = 126, state = "FLAG"
  PROVE  state' = "DATA" /\ data' = <<>> /\ data_bit_cnt' = 0 /\ got' = got
  BY SMT DEF DecodeBit, Types, Destuff, AX25_FLAG

\* The last bits heard: a zero starts the count again, a one adds to it.
LEMMA OneMore ==
  ASSUME NEW f \in 0 .. 255, NEW b \in {0, 1}, NEW g, g = (2 * f + b) % 256,
         NEW c \in 0 .. 5, Ones(c, f)
  PROVE  /\ b = 0 => Ones(0, g)
         /\ b = 1 /\ c <= 4 => Ones(c + 1, g)
         /\ c <= 4 => g # 126 /\ g % 64 # 62 /\ g % 64 # 63
         /\ c = 5 /\ b = 0 => g # 126 /\ g % 64 = 62
         /\ c = 5 /\ b = 1 => g % 128 = 63 /\ g % 64 = 63
<1>1. CASE c = 0 BY <1>1, SMT DEF Ones
<1>2. CASE c = 1 BY <1>2, SMT DEF Ones
<1>3. CASE c = 2 BY <1>3, SMT DEF Ones
<1>4. CASE c = 3 BY <1>4, SMT DEF Ones
<1>5. CASE c = 4 BY <1>5, SMT DEF Ones
<1>6. CASE c = 5 BY <1>6, SMT DEF Ones
<1> QED
  BY <1>1, <1>2, <1>3, <1>4, <1>5, <1>6

\* After four ones at most, neither a flag, nor a stuffed zero, nor an end.
LEMMA NoFlag ==
  ASSUME NEW f \in 0 .. 255, NEW b \in {0, 1}, NEW c \in 0 .. 4, Ones(c, f)
  PROVE  /\ (2 * f + b) % 256 # 126 /\ ((2 * f + b) % 256) % 64 # 62
         /\ ((2 * f + b) % 256) % 64 # 63
<1>1. CASE c = 0 BY <1>1, SMT DEF Ones
<1>2. CASE c = 1 BY <1>2, SMT DEF Ones
<1>3. CASE c = 2 BY <1>3, SMT DEF Ones
<1>4. CASE c = 3 BY <1>4, SMT DEF Ones
<1>5. CASE c = 4 BY <1>5, SMT DEF Ones
<1> QED
  BY <1>1, <1>2, <1>3, <1>4, <1>5

\* One more bit of a byte: r bits of x were lo, its next is b.
BitsOf(t, x, l, lo) == lo < t[2] /\ x + 256 = l * t[2] + lo
NextBit(t, u, x, l, lo, d, b, h) ==
    /\ u[1] = t[1] + 1 /\ h < u[2]
    /\ x + 256 = (l \div 2) * u[2] + h
    /\ d \div t[3] = lo => ((d \div 2) + 128 * b) \div u[3] = h
BitOn(t, x, l, lo, d, b) ==
    \E u \in Powers : \E h \in 0 .. 255 : NextBit(t, u, x, l, lo, d, b, h)

LEMMA OneBitOn ==
  ASSUME NEW t \in Powers, t[1] # 8, NEW x \in 0 .. 255, NEW l \in Nat,
         NEW lo \in 0 .. 255, BitsOf(t, x, l, lo),
         NEW d \in 0 .. 255, NEW b, b = l % 2
  PROVE  BitOn(t, x, l, lo, d, b)
<1> USE DEF BitOn
<1> DEFINE h == lo + b * t[2]
<1>1. CASE t = <<0, 1, 256>>
  <2>1. t[1] = 0 /\ t[2] = 1 /\ t[3] = 256
    BY <1>1
  <2>2. /\ h \in 0 .. 255 /\ h < 2 /\ x + 256 = (l \div 2) * 2 + h
        /\ d \div 256 = lo => ((d \div 2) + 128 * b) \div 128 = h
    BY <2>1, SMT DEF BitsOf
  <2> HIDE DEF h
  <2> <<1, 2, 128>> \in Powers
    BY DEF Powers
  <2> h \in 0 .. 255
    BY <2>2
  <2> WITNESS <<1, 2, 128>> \in Powers, h \in 0 .. 255
  <2> QED
    BY <2>1, <2>2 DEF NextBit
<1>2. CASE t = <<1, 2, 128>>
  <2>1. t[1] = 1 /\ t[2] = 2 /\ t[3] = 128
    BY <1>2
  <2>2. /\ h \in 0 .. 255 /\ h < 4 /\ x + 256 = (l \div 2) * 4 + h
        /\ d \div 128 = lo => ((d \div 2) + 128 * b) \div 64 = h
    BY <2>1, SMT DEF BitsOf
  <2> HIDE DEF h
  <2> <<2, 4, 64>> \in Powers
    BY DEF Powers
  <2> h \in 0 .. 255
    BY <2>2
  <2> WITNESS <<2, 4, 64>> \in Powers, h \in 0 .. 255
  <2> QED
    BY <2>1, <2>2 DEF NextBit
<1>3. CASE t = <<2, 4, 64>>
  <2>1. t[1] = 2 /\ t[2] = 4 /\ t[3] = 64
    BY <1>3
  <2>2. /\ h \in 0 .. 255 /\ h < 8 /\ x + 256 = (l \div 2) * 8 + h
        /\ d \div 64 = lo => ((d \div 2) + 128 * b) \div 32 = h
    BY <2>1, SMT DEF BitsOf
  <2> HIDE DEF h
  <2> <<3, 8, 32>> \in Powers
    BY DEF Powers
  <2> h \in 0 .. 255
    BY <2>2
  <2> WITNESS <<3, 8, 32>> \in Powers, h \in 0 .. 255
  <2> QED
    BY <2>1, <2>2 DEF NextBit
<1>4. CASE t = <<3, 8, 32>>
  <2>1. t[1] = 3 /\ t[2] = 8 /\ t[3] = 32
    BY <1>4
  <2>2. /\ h \in 0 .. 255 /\ h < 16 /\ x + 256 = (l \div 2) * 16 + h
        /\ d \div 32 = lo => ((d \div 2) + 128 * b) \div 16 = h
    BY <2>1, SMT DEF BitsOf
  <2> HIDE DEF h
  <2> <<4, 16, 16>> \in Powers
    BY DEF Powers
  <2> h \in 0 .. 255
    BY <2>2
  <2> WITNESS <<4, 16, 16>> \in Powers, h \in 0 .. 255
  <2> QED
    BY <2>1, <2>2 DEF NextBit
<1>5. CASE t = <<4, 16, 16>>
  <2>1. t[1] = 4 /\ t[2] = 16 /\ t[3] = 16
    BY <1>5
  <2>2. /\ h \in 0 .. 255 /\ h < 32 /\ x + 256 = (l \div 2) * 32 + h
        /\ d \div 16 = lo => ((d \div 2) + 128 * b) \div 8 = h
    BY <2>1, SMT DEF BitsOf
  <2> HIDE DEF h
  <2> <<5, 32, 8>> \in Powers
    BY DEF Powers
  <2> h \in 0 .. 255
    BY <2>2
  <2> WITNESS <<5, 32, 8>> \in Powers, h \in 0 .. 255
  <2> QED
    BY <2>1, <2>2 DEF NextBit
<1>6. CASE t = <<5, 32, 8>>
  <2>1. t[1] = 5 /\ t[2] = 32 /\ t[3] = 8
    BY <1>6
  <2>2. /\ h \in 0 .. 255 /\ h < 64 /\ x + 256 = (l \div 2) * 64 + h
        /\ d \div 8 = lo => ((d \div 2) + 128 * b) \div 4 = h
    BY <2>1, SMT DEF BitsOf
  <2> HIDE DEF h
  <2> <<6, 64, 4>> \in Powers
    BY DEF Powers
  <2> h \in 0 .. 255
    BY <2>2
  <2> WITNESS <<6, 64, 4>> \in Powers, h \in 0 .. 255
  <2> QED
    BY <2>1, <2>2 DEF NextBit
<1>7. CASE t = <<6, 64, 4>>
  <2>1. t[1] = 6 /\ t[2] = 64 /\ t[3] = 4
    BY <1>7
  <2>2. /\ h \in 0 .. 255 /\ h < 128 /\ x + 256 = (l \div 2) * 128 + h
        /\ d \div 4 = lo => ((d \div 2) + 128 * b) \div 2 = h
    BY <2>1, SMT DEF BitsOf
  <2> HIDE DEF h
  <2> <<7, 128, 2>> \in Powers
    BY DEF Powers
  <2> h \in 0 .. 255
    BY <2>2
  <2> WITNESS <<7, 128, 2>> \in Powers, h \in 0 .. 255
  <2> QED
    BY <2>1, <2>2 DEF NextBit
<1>8. CASE t = <<7, 128, 2>>
  <2>1. t[1] = 7 /\ t[2] = 128 /\ t[3] = 2
    BY <1>8
  <2>2. /\ h \in 0 .. 255 /\ h < 256 /\ x + 256 = (l \div 2) * 256 + h
        /\ d \div 2 = lo => ((d \div 2) + 128 * b) \div 1 = h
    BY <2>1, SMT DEF BitsOf
  <2> HIDE DEF h
  <2> <<8, 256, 1>> \in Powers
    BY DEF Powers
  <2> h \in 0 .. 255
    BY <2>2
  <2> WITNESS <<8, 256, 1>> \in Powers, h \in 0 .. 255
  <2> QED
    BY <2>1, <2>2 DEF NextBit
<1>9. t # <<8, 256, 1>>
  OBVIOUS
<1> HIDE DEF BitOn
<1> QED
  BY <1>1, <1>2, <1>3, <1>4, <1>5, <1>6, <1>7, <1>8, <1>9, Zenon DEF Powers

\* From one power to the next.
LEMMA NextPower ==
  ASSUME NEW t \in Powers, t[1] # 8
  PROVE  \E u \in Powers : u[1] = t[1] + 1 /\ t[3] = 2 * u[3] /\ u[3] \in Nat
<1>1. CASE t = <<0, 1, 256>>
  <2> <<1, 2, 128>> \in Powers
    BY DEF Powers
  <2> WITNESS <<1, 2, 128>> \in Powers
  <2> QED
    BY <1>1
<1>2. CASE t = <<1, 2, 128>>
  <2> <<2, 4, 64>> \in Powers
    BY DEF Powers
  <2> WITNESS <<2, 4, 64>> \in Powers
  <2> QED
    BY <1>2
<1>3. CASE t = <<2, 4, 64>>
  <2> <<3, 8, 32>> \in Powers
    BY DEF Powers
  <2> WITNESS <<3, 8, 32>> \in Powers
  <2> QED
    BY <1>3
<1>4. CASE t = <<3, 8, 32>>
  <2> <<4, 16, 16>> \in Powers
    BY DEF Powers
  <2> WITNESS <<4, 16, 16>> \in Powers
  <2> QED
    BY <1>4
<1>5. CASE t = <<4, 16, 16>>
  <2> <<5, 32, 8>> \in Powers
    BY DEF Powers
  <2> WITNESS <<5, 32, 8>> \in Powers
  <2> QED
    BY <1>5
<1>6. CASE t = <<5, 32, 8>>
  <2> <<6, 64, 4>> \in Powers
    BY DEF Powers
  <2> WITNESS <<6, 64, 4>> \in Powers
  <2> QED
    BY <1>6
<1>7. CASE t = <<6, 64, 4>>
  <2> <<7, 128, 2>> \in Powers
    BY DEF Powers
  <2> WITNESS <<7, 128, 2>> \in Powers
  <2> QED
    BY <1>7
<1>8. CASE t = <<7, 128, 2>>
  <2> <<8, 256, 1>> \in Powers
    BY DEF Powers
  <2> WITNESS <<8, 256, 1>> \in Powers
  <2> QED
    BY <1>8
<1>9. t # <<8, 256, 1>>
  OBVIOUS
<1> QED
  BY <1>1, <1>2, <1>3, <1>4, <1>5, <1>6, <1>7, <1>8, <1>9, Zenon DEF Powers
-----------------------------------------------------------------------------
IInv == Types /\ Inv

\* It holds at the start.
LEMMA InitOK == Init => IInv
<1> SUFFICES ASSUME Init PROVE IInv
  OBVIOUS
<1>1. Types
  BY HdlcAssumption, Nothing DEF Init, Types
<1>2. Inv
  BY DEF Init, Inv, Sending, InStep, FlagHeard, Heard, Samples
<1> QED
  BY <1>1, <1>2 DEF IInv

\* Noise is heard only by the receiver.
LEMMA NoiseOK ==
  ASSUME IInv, NEW v \in {0, 1}, Noise(v)
  PROVE  IInv'
<1>1. PICK b \in {0, 1} : DecodeBit(b) /\ nrzi' = v
  BY Zenon DEF Noise, Hear
<1>2. Types
  BY DEF IInv
<1>3. Types'
  <2>1. /\ flag' \in 0 .. 255 /\ state' \in {"FLAG", "DATA"}
        /\ data' \in Seq(0 .. 255) /\ Len(data') <= DataLen
        /\ data_byte' \in 0 .. 255 /\ data_bit_cnt' \in 0 .. 7
        /\ got' \in Seq(Seq(0 .. 255))
    BY <1>1, <1>2, DecodeTypes, Zenon
  <2>2. noise' \in 0 .. MaxNoise
    BY <1>2, HdlcAssumption DEF Noise, Types
  <2> QED
    BY <1>1, <1>2, <2>1, <2>2 DEF Types, Noise, sender
<1>4. Inv'
  BY DEF IInv, Inv, Sending, InStep, FlagHeard, Heard, Samples, Noise, sender, Pending
<1> QED
  BY <1>3, <1>4 DEF IInv

\* A flag begins where nothing of a frame has been sent.
LEMMA SendFlagOK ==
  ASSUME IInv, SendFlag
  PROVE  IInv'
<1>1. /\ byte' = 382 /\ bit' = 0 /\ idx' = 0 /\ phase' = "flag" /\ frame = <<>>
      /\ phase \in {"noise", "ready"}
      /\ UNCHANGED <<cnt_one, level, flags, frame, noise, stops, nrzi, flag,
                     state, data, data_byte, data_bit_cnt, got>>
  BY SMT DEF SendFlag, Begin, AX25_FLAG, receiver
<1>2. Types'
  BY <1>1 DEF IInv, Types
<1>3. Sending' /\ InStep' /\ Samples'
  BY <1>1 DEF IInv, Inv, Types, Sending, FlagByte, InStep, Samples
<1>4. FlagHeard' /\ Heard'
  BY <1>1 DEF FlagHeard, Heard
<1> QED
  BY <1>2, <1>3, <1>4 DEF IInv, Inv

\* The flag after a frame: all of the frame has been heard.
LEMMA CloseFrameOK ==
  ASSUME IInv, CloseFrame
  PROVE  IInv'
<1>1. /\ byte' = 382 /\ bit' = 0 /\ idx' = 0 /\ phase' = "flag" /\ frame # <<>>
      /\ phase = "ready"
      /\ UNCHANGED <<cnt_one, level, flags, frame, noise, stops, nrzi, flag,
                     state, data, data_byte, data_bit_cnt, got>>
  BY SMT DEF CloseFrame, Begin, AX25_FLAG, receiver
<1>2. Types'
  BY <1>1 DEF IInv, Types
<1>3. Sending' /\ InStep' /\ Samples'
  BY <1>1 DEF IInv, Inv, Types, Sending, FlagByte, InStep, Samples
<1>4. FlagHeard'
  BY <1>1 DEF FlagHeard
<1>5. flags = 2 => Ones(cnt_one, flag) /\ got = <<>> /\ Holds(Len(frame), 0)
  BY <1>1 DEF IInv, Inv, Heard
<1>6. Heard'
  BY <1>1, <1>5 DEF Heard, Ones, Holds, HoldsAt, Fits
<1> QED
  BY <1>2, <1>3, <1>4, <1>6 DEF IInv, Inv

\* Between two bytes the transmission can end.
LEMMA StopOK ==
  ASSUME IInv, Stop
  PROVE  IInv'
<1>1. Types'
  BY HdlcAssumption, Nothing DEF IInv, Types, Stop, receiver
<1>2. Inv'
  BY DEF Inv, Sending, InStep, FlagHeard, Heard, Samples, Stop
<1> QED
  BY <1>1, <1>2 DEF IInv

\* The first byte of a frame, or one more of them.
LEMMA SendDataOK ==
  ASSUME IInv, NEW b \in Byte, SendData(b)
  PROVE  IInv'
<1> b \in 0 .. 255
  BY HdlcAssumption
<1>1. /\ byte' = b + 256 /\ bit' = b % 2 /\ idx' = 0 /\ phase' = "data"
      /\ frame' = Append(frame, b) /\ phase = "ready"
      /\ UNCHANGED <<cnt_one, level, flags, noise, stops, nrzi, flag,
                     state, data, data_byte, data_bit_cnt, got>>
  BY SMT DEF SendData, Begin, receiver
<1>2. /\ frame \in Seq(Byte) /\ frame' \in Seq(Byte) /\ Len(frame') = Len(frame) + 1
      /\ frame'[Len(frame')] = b
      /\ \A i \in 1 .. Len(frame) : frame'[i] = frame[i]
      /\ Len(frame) \in Nat
  BY <1>1, AppendProperties, LenProperties DEF IInv, Types
<1>3. cnt_one \in 0 .. 4 /\ flags >= 1
  BY <1>1, SMT DEF IInv, Inv, Types, Sending
<1>4. ~Pending /\ ~Pending' /\ Left' = b + 256
  BY <1>1, <1>3, SMT DEF Pending, Left
<1>5. Types'
  BY <1>1, <1>2 DEF IInv, Types
<1>6. Sending' /\ InStep' /\ FlagHeard'
  <2>1. frame' # <<>>
    BY <1>2, EmptySeq
  <2> QED
    BY <1>1, <1>2, <1>3, <1>4, <2>1, SMT DEF IInv, Inv, Types, Sending, InStep, FlagHeard
<1>7. Heard'
  <2> SUFFICES ASSUME flags = 2
               PROVE  /\ Ones(cnt_one', flag') /\ got' = <<>>
                      /\ \E t \in Powers : InByte(t[1], t[2], t[3])'
    BY <1>1 DEF Heard
  <2>1. Ones(cnt_one, flag) /\ got = <<>> /\ Holds(Len(frame), 0)
    BY <1>1 DEF IInv, Inv, Heard
  <2>2. InByte(0, 1, 256)'
    <3>1. /\ 0 \in 0 .. 255 /\ 0 < 1
          /\ frame'[Len(frame')] + 256 = Left' * 1 + 0
      BY <1>2, <1>4
    <3>2. Holds(Len(frame) - 1, 0)'
      <4>1. Len(frame') - 1 = Len(frame)
        BY <1>2
      <4>2. HoldsAt(state, data_bit_cnt, data, frame, Len(frame), 0)
        BY <2>1 DEF Holds
      <4>3. HoldsAt(state, data_bit_cnt, data, frame', Len(frame), 0)
        BY <1>2, <4>2, Zenon DEF HoldsAt
      <4> QED
        BY <1>1, <4>1, <4>3, Zenon DEF Holds
    <3>3. data_byte' \div 256 = 0
      BY <1>1 DEF IInv, Types
    <3>4. 0 < 8
      OBVIOUS
    <3> QED
      BY <3>1, <3>2, <3>3, <3>4, Zenon DEF InByte
  <2>3. <<0, 1, 256>> \in Powers
    BY DEF Powers
  <2> QED
    BY <1>1, <2>1, <2>2, <2>3
<1>8. Samples'
  <2>1. <<0, 1, 256>> \in Powers
    BY DEF Powers
  <2>2. 256 <= Left' /\ Left' < 2 * 256
    BY <1>4
  <2> QED
    BY <1>1, <1>3, <1>4, <2>1, <2>2 DEF Samples
<1> QED
  BY <1>5, <1>6, <1>7, <1>8 DEF IInv, Inv

\* A byte of data has been sent: eight bits of it have been heard.
LEMMA DataSentOK ==
  ASSUME IInv, DataSent
  PROVE  IInv'
<1>1. /\ phase = "data" /\ byte = 1 /\ phase' = "ready"
      /\ UNCHANGED <<byte, bit, cnt_one, idx, level, flags, frame, noise, stops, nrzi, flag,
                     state, data, data_byte, data_bit_cnt, got>>
  BY SMT DEF DataSent, receiver, sender
<1>2. Types'
  BY <1>1 DEF IInv, Types
<1>3. ~Pending /\ Left = 1 /\ cnt_one <= 4 /\ flags >= 1
  BY <1>1, SMT DEF IInv, Inv, Types, Sending, Pending, Left
<1>4. Sending' /\ InStep' /\ FlagHeard' /\ Samples'
  BY <1>1, <1>3 DEF IInv, Inv, Types, Sending, InStep, FlagHeard, Samples
<1>5. ASSUME flags = 2 PROVE Holds(Len(frame), 0)
  <2>1. PICK t \in Powers : InByte(t[1], t[2], t[3])
    BY <1>1, <1>5 DEF IInv, Inv, Heard
  <2>2. frame[Len(frame)] \in 0 .. 255
    <3>1. frame \in Seq(Byte) /\ Len(frame) >= 1 /\ Len(frame) \in Nat
      BY <1>1, LenProperties DEF IInv, Inv, Types, Sending
    <3>2. frame[Len(frame)] \in Byte
      BY <3>1, ElementOfSeq
    <3> QED
      BY <3>2, HdlcAssumption
  <2>3. t[1] = 8
    <3>1. PICK lo \in 0 .. 255 : lo < t[2] /\ frame[Len(frame)] + 256 = 1 * t[2] + lo
      BY <1>3, <2>1 DEF InByte
    <3>2. t[2] > 128
      <4>1. t[2] \in Nat
        BY DEF Powers
      <4>2. \A x, y, z \in Nat : z < y /\ x + 256 = 1 * y + z => y > 128
        OBVIOUS
      <4>3. frame[Len(frame)] \in Nat /\ lo \in Nat
        <5>1. \A z \in 0 .. 255 : z \in Nat
          OBVIOUS
        <5> QED
          BY <2>2, <5>1, Zenon
      <4> QED
        BY <3>1, <4>1, <4>2, <4>3, Zenon
    <3> QED
      BY <3>2 DEF Powers
  <2> QED
    BY <2>1, <2>3 DEF InByte
<1>6. Heard'
  BY <1>1, <1>5 DEF IInv, Inv, Heard, Ones, Holds, HoldsAt, Fits
<1> QED
  BY <1>2, <1>4, <1>6 DEF IInv, Inv

\* After a flag nothing has been found, and nothing is forgotten of a frame.
LEMMA FlagSentOK ==
  ASSUME IInv, FlagSent
  PROVE  IInv'
<1>1. /\ phase = "flag" /\ byte = 1 /\ phase' = "ready"
      /\ cnt_one' = 0 /\ frame' = <<>> /\ got' = <<>>
      /\ flags' = IF flags = 2 THEN 2 ELSE flags + 1
      /\ UNCHANGED <<byte, bit, idx, level, noise, stops, nrzi, flag,
                     state, data, data_byte, data_bit_cnt>>
  BY SMT DEF FlagSent, receiver
<1>2. Types'
  BY <1>1, Nothing DEF IInv, Types
<1>3. Sending' /\ InStep' /\ FlagHeard' /\ Samples'
  BY <1>1, SMTT(30) DEF IInv, Inv, Types, Sending, InStep, FlagHeard, Samples
<1>4. Heard'
  <2>1. flags' = 2 => flag = 126 /\ state = "DATA" /\ data = <<>> /\ data_bit_cnt = 0
    BY <1>1 DEF IInv, Inv, Types, FlagHeard
  <2>2. Len(frame') = 0 /\ (data = <<>> => Len(data) = 0)
    BY <1>1
  <2>3. Fits(0)
    BY HdlcAssumption DEF Fits
  <2> QED
    BY <1>1, <2>1, <2>2, <2>3 DEF Heard, Holds, HoldsAt, Ones, Fits
<1> QED
  BY <1>2, <1>3, <1>4 DEF IInv, Inv
-----------------------------------------------------------------------------
(* One turn of send_byte's loop *)

\* What it does to the transmitter, and which bit the receiver hears: the one
\* that is sent, if it is in step.
LEMMA Turn ==
  ASSUME IInv, SendBit
  PROVE  /\ byte > 1 /\ idx' = idx + 1 /\ cnt_one' = NextCount
         /\ level' \in {0, 1} /\ nrzi' = level'
         /\ UNCHANGED <<phase, flags, frame, noise, stops>>
         /\ phase \in {"flag", "data"}
         /\ Stuff => bit' = 0 /\ byte' = byte
         /\ ~Stuff => byte' = byte \div 2 /\ bit' = (byte \div 2) % 2
         /\ \E b \in {0, 1} : DecodeBit(b) /\ (nrzi = level => b = bit)
<1>1. /\ byte > 1 /\ level' = IF bit = 0 THEN 1 - level ELSE level
      /\ idx' = idx + 1 /\ cnt_one' = NextCount
      /\ UNCHANGED <<phase, flags, frame, noise, stops>>
      /\ DecodeBit(IF level' = nrzi THEN 1 ELSE 0) /\ nrzi' = level'
  BY Zenon DEF SendBit, Hear
<1>2. /\ Stuff => bit' = 0 /\ byte' = byte
      /\ ~Stuff => byte' = byte \div 2 /\ bit' = (byte \div 2) % 2
  BY Zenon DEF SendBit
<1>3. level \in {0, 1} /\ bit \in {0, 1} /\ nrzi \in {0, 1}
      /\ phase \in {"noise", "flag", "data", "ready"}
  BY DEF IInv, Types
<1>4. level' \in {0, 1} /\ (nrzi = level => (IF level' = nrzi THEN 1 ELSE 0) = bit)
  BY <1>1, <1>3
<1>5. phase \in {"flag", "data"}
  BY <1>1, <1>3 DEF IInv, Inv, Sending
<1>6. \E b \in {0, 1} : DecodeBit(b) /\ (nrzi = level => b = bit)
  <2> DEFINE b == IF level' = nrzi THEN 1 ELSE 0
  <2>1. b \in {0, 1}
    OBVIOUS
  <2>2. DecodeBit(b) /\ (nrzi = level => b = bit)
    BY <1>1, <1>4, Zenon
  <2> HIDE DEF b
  <2> QED
    BY <2>1, <2>2, Zenon
<1> QED
  BY <1>1, <1>2, <1>4, <1>5, <1>6, Zenon

\* A byte of data: unless a zero is pending, its next bit is sent.
LEMMA DataTurn ==
  ASSUME IInv, SendBit, phase = "data"
  PROVE  /\ Left \in Nat /\ Left' \in Nat
         /\ Pending => bit = 0 /\ Left' = Left /\ cnt_one' = 0 /\ ~Pending'
         /\ ~Pending => /\ bit = Left % 2 /\ Left > 1 /\ Left' = Left \div 2
                        /\ cnt_one' = IF bit = 1 THEN cnt_one + 1 ELSE 0
         /\ cnt_one' \in 0 .. 5 /\ byte' \in 1 .. 511 /\ bit' \in {0, 1}
         /\ IF Pending' THEN bit' = 0 /\ byte' % 2 = 1 /\ byte' > 1
                        ELSE bit' = byte' % 2
<1>1. /\ byte > 1 /\ cnt_one' = NextCount
      /\ Stuff => bit' = 0 /\ byte' = byte
      /\ ~Stuff => byte' = byte \div 2 /\ bit' = (byte \div 2) % 2
  BY Turn
<1>2. byte \in 1 .. 511 /\ bit \in {0, 1} /\ cnt_one \in 0 .. 5
      /\ IF Pending THEN bit = 0 /\ byte % 2 = 1 /\ byte > 1 ELSE bit = byte % 2
  BY DEF IInv, Inv, Types, Sending
<1>3. /\ cnt_one' = IF bit = 1 THEN cnt_one + 1 ELSE 0
      /\ Stuff <=> (bit = 1 /\ cnt_one + 1 >= 5)
  BY <1>1 DEF NextCount, Stuff, BitStuffing, BIT_STUFF_BITS
<1>4. CASE Pending
  <2>1. bit = 0 /\ cnt_one' = 0 /\ byte' = byte \div 2 /\ bit' = (byte \div 2) % 2
    BY <1>1, <1>2, <1>3, <1>4
  <2> QED
    BY <1>1, <1>2, <1>4, <2>1 DEF Pending, Left
<1>5. CASE ~Pending
  <2>1. bit = byte % 2 /\ cnt_one \in 0 .. 4
    BY <1>2, <1>5 DEF Pending
  <2>2. CASE bit = 1 /\ cnt_one = 4
    <3>1. cnt_one' = 5 /\ bit' = 0 /\ byte' = byte
      BY <1>1, <1>3, <2>2
    <3> QED
      BY <1>1, <1>2, <1>5, <2>1, <2>2, <3>1 DEF Pending, Left
  <2>3. CASE ~(bit = 1 /\ cnt_one = 4)
    <3>1. /\ cnt_one' = IF bit = 1 THEN cnt_one + 1 ELSE 0
          /\ cnt_one' # 5 /\ byte' = byte \div 2 /\ bit' = (byte \div 2) % 2
      BY <1>1, <1>2, <1>3, <2>1, <2>3
    <3> QED
      BY <1>1, <1>2, <1>5, <2>1, <3>1 DEF Pending, Left
  <2> QED
    BY <2>2, <2>3
<1> QED
  BY <1>4, <1>5

\* A flag goes out as it is.
LEMMA FlagTurn ==
  ASSUME IInv, SendBit, phase = "flag"
  PROVE  /\ byte \in FlagByte \ {1} /\ bit = byte % 2
         /\ byte' = byte \div 2 /\ bit' = byte' % 2 /\ cnt_one' = cnt_one
         /\ byte' \in FlagByte
<1>1. /\ byte > 1 /\ cnt_one' = NextCount
      /\ Stuff => bit' = 0 /\ byte' = byte
      /\ ~Stuff => byte' = byte \div 2 /\ bit' = (byte \div 2) % 2
  BY Turn
<1>2. ~Stuff /\ NextCount = cnt_one
  BY DEF Stuff, NextCount, BitStuffing
<1>3. byte \in FlagByte /\ bit = byte % 2
  BY DEF IInv, Inv, Sending
<1> QED
  BY <1>1, <1>2, <1>3 DEF FlagByte

\* The types.
LEMMA TurnTypes ==
  ASSUME IInv, SendBit
  PROVE  Types'
<1>1. Types
  BY DEF IInv
<1>2. /\ flag' \in 0 .. 255 /\ state' \in {"FLAG", "DATA"}
      /\ data' \in Seq(0 .. 255) /\ Len(data') <= DataLen
      /\ data_byte' \in 0 .. 255 /\ data_bit_cnt' \in 0 .. 7
      /\ got' \in Seq(Seq(0 .. 255))
  BY <1>1, Turn, DecodeTypes, Zenon
<1>3. /\ idx' = idx + 1 /\ level' \in {0, 1} /\ nrzi' = level'
      /\ UNCHANGED <<phase, flags, frame, noise, stops>> /\ phase \in {"flag", "data"}
  BY Turn
<1>4. cnt_one' \in 0 .. 5 /\ byte' \in 1 .. 511 /\ bit' \in {0, 1}
  <2>1. CASE phase = "flag"
    BY <1>1, <2>1, FlagTurn DEF Types, FlagByte
  <2>2. CASE phase = "data"
    BY <2>2, DataTurn
  <2> QED
    BY <1>3, <2>1, <2>2
<1> QED
  BY <1>1, <1>2, <1>3, <1>4 DEF Types

\* The transmitter, and the length of the block.
LEMMA TurnSends ==
  ASSUME IInv, SendBit
  PROVE  Sending' /\ InStep' /\ Samples'
<1>1. /\ idx' = idx + 1 /\ nrzi' = level'
      /\ UNCHANGED <<phase, flags, frame, noise, stops>> /\ phase \in {"flag", "data"}
  BY Turn
<1>2. InStep'
  BY <1>1 DEF InStep
<1>3. Sending'
  <2>1. CASE phase = "flag"
    BY <1>1, <2>1, FlagTurn DEF IInv, Inv, Sending
  <2>2. CASE phase = "data"
    BY <1>1, <2>2, DataTurn DEF IInv, Inv, Sending
  <2> QED
    BY <1>1, <2>1, <2>2
<1>4. Samples'
  <2>1. CASE phase = "flag"
    BY <1>1, <2>1, FlagTurn, SMT DEF IInv, Inv, Samples
  <2>2. CASE phase = "data"
    <3> DEFINE ones == IF Pending THEN 5 ELSE cnt_one
    <3>1. PICK t \in Powers :
             /\ t[3] <= Left /\ Left < 2 * t[3] /\ idx >= t[1]
             /\ 5 * (idx - t[1]) + cnt_one <= t[1] + 4
      BY <2>2, SMT DEF IInv, Inv, Samples, Pending
    <3>2. \E u \in Powers :
             /\ u[3] <= Left' /\ Left' < 2 * u[3] /\ idx' >= u[1]
             /\ 5 * (idx' - u[1]) + cnt_one' <= u[1] + 4
      <4>1. t[1] \in 0 .. 8 /\ t[3] \in Nat /\ t[3] >= 1 /\ (t[1] = 8 => t[3] = 1)
        BY DEF Powers
      <4>2. idx \in Nat /\ cnt_one \in 0 .. 5
        BY DEF IInv, Types
      <4>3. CASE Pending
        <5>1. cnt_one = 5 /\ cnt_one' = 0 /\ Left' = Left
          BY <2>2, <4>3, DataTurn DEF Pending
        <5>2. idx' >= t[1] /\ 5 * (idx' - t[1]) + cnt_one' <= t[1] + 4
          BY <1>1, <3>1, <4>1, <4>2, <5>1
        <5> QED
          BY <3>1, <5>1, <5>2
      <4>4. CASE ~Pending
        <5>1. /\ Left \in Nat /\ Left > 1 /\ Left' = Left \div 2
              /\ cnt_one' \in 0 .. 5 /\ cnt_one' <= cnt_one + 1
          BY <2>2, <4>2, <4>4, DataTurn
        <5>2. t[1] # 8
          BY <3>1, <4>1, <5>1
        <5>3. PICK u \in Powers : u[1] = t[1] + 1 /\ t[3] = 2 * u[3] /\ u[3] \in Nat
          BY <5>2, NextPower
        <5>4. u[3] <= Left' /\ Left' < 2 * u[3]
          BY <3>1, <5>1, <5>3
        <5>5. idx' >= u[1] /\ 5 * (idx' - u[1]) + cnt_one' <= u[1] + 4
          BY <1>1, <3>1, <4>1, <4>2, <5>1, <5>3
        <5> QED
          BY <5>4, <5>5
      <4> QED
        BY <4>3, <4>4
    <3>3. idx' <= 10
      <4>1. PICK u \in Powers : 5 * (idx' - u[1]) + cnt_one' <= u[1] + 4
        BY <3>2
      <4>2. u[1] \in 0 .. 8
        BY DEF Powers
      <4>3. idx' \in Nat /\ cnt_one' \in 0 .. 5
        BY TurnTypes DEF Types
      <4> QED
        BY <4>1, <4>2, <4>3
    <3> QED
      BY <1>1, <2>2, <3>2, <3>3, SMT DEF Samples, Pending
  <2> QED
    BY <1>1, <2>1, <2>2
<1> QED
  BY <1>2, <1>3, <1>4

\* A flag is heard: its zero, its six ones, and the zero that shows it.
LEMMA TurnFlagHeard ==
  ASSUME IInv, SendBit
  PROVE  FlagHeard'
<1> SUFFICES ASSUME phase = "flag", flags >= 1
             PROVE  /\ byte' = 191 => Ones(0, flag')
                    /\ byte' = 95 => Ones(1, flag')
                    /\ byte' = 47 => Ones(2, flag')
                    /\ byte' = 23 => Ones(3, flag')
                    /\ byte' = 11 => Ones(4, flag')
                    /\ byte' = 5 => Ones(5, flag')
                    /\ byte' = 2 => flag' % 128 = 63 /\ state' = "FLAG"
                    /\ byte' = 1 => /\ flag' = 126 /\ state' = "DATA"
                                    /\ data' = <<>> /\ data_bit_cnt' = 0
  BY Turn DEF FlagHeard, Ones
<1> DEFINE g == flag'
<1>1. /\ byte \in FlagByte \ {1} /\ bit = byte % 2 /\ byte' = byte \div 2
  BY FlagTurn
<1>2. PICK b \in {0, 1} : DecodeBit(b) /\ (nrzi = level => b = bit)
  BY Turn
<1>3. g = (2 * flag + b) % 256 /\ flag \in 0 .. 255
  <2>1. g = (2 * flag + b) % 256
    BY <1>2, Zenon DEF DecodeBit
  <2>2. flag \in 0 .. 255
    BY DEF IInv, Types
  <2> QED
    BY <2>1, <2>2
<1>4. b = bit
  <2>1. nrzi = level
    BY DEF IInv, Inv, InStep
  <2> QED
    BY <1>2, <2>1
<1>5. Types /\ FlagHeard
  BY DEF IInv, Inv
<1>6. CASE byte = 382
  <2>1. byte' = 191 /\ b = 0
    BY <1>1, <1>4, <1>6
  <2>2. g % 2 = 0
    BY <1>3, <2>1
  <2> QED
    BY <2>1, <2>2 DEF Ones
<1>7. ASSUME NEW c \in 0 .. 4, NEW d, d = c + 1, Ones(c, flag), b = 1
      PROVE  Ones(d, g)
  <2>1. c \in 0 .. 5 /\ c <= 4
    OBVIOUS
  <2> HIDE DEF g
  <2> QED
    BY <1>3, <1>7, <2>1, OneMore
<1>8. CASE byte = 5
  <2>1. Ones(5, flag)
    BY <1>5, <1>8 DEF FlagHeard
  <2>2. byte' = 2 /\ b = 1
    BY <1>1, <1>4, <1>8
  <2>3. g % 128 = 63 /\ g % 64 = 63
    <3>1. flag % 64 = 31
      BY <2>1 DEF Ones
    <3> HIDE DEF g
    <3> QED
      BY <1>3, <2>2, <3>1
  <2>4. state' = "FLAG"
    BY <1>2, <1>5, <2>3, DecodeEnd
  <2> QED
    BY <2>2, <2>3, <2>4
<1>9. CASE byte = 2
  <2>1. flag % 128 = 63 /\ state = "FLAG"
    BY <1>5, <1>9 DEF FlagHeard
  <2>2. byte' = 1 /\ b = 0
    BY <1>1, <1>4, <1>9
  <2>3. g = 126
    BY <1>3, <2>1, <2>2
  <2>4. state' = "DATA" /\ data' = <<>> /\ data_bit_cnt' = 0
    BY <1>2, <1>5, <2>1, <2>3, DecodeFlag
  <2> QED
    BY <2>2, <2>3, <2>4
<1>10. CASE byte = 191
  <2>1. Ones(0, flag)
    BY <1>5, <1>10 DEF FlagHeard
  <2>2. byte' = 95 /\ b = 1
    BY <1>1, <1>4, <1>10
  <2>3. 0 \in 0 .. 4 /\ 1 = 0 + 1
    OBVIOUS
  <2>4. Ones(1, g)
    BY <1>7, <2>1, <2>2, <2>3
  <2> QED
    BY <2>2, <2>4
<1>11. CASE byte = 95
  <2>1. Ones(1, flag)
    BY <1>5, <1>11 DEF FlagHeard
  <2>2. byte' = 47 /\ b = 1
    BY <1>1, <1>4, <1>11
  <2>3. 1 \in 0 .. 4 /\ 2 = 1 + 1
    OBVIOUS
  <2>4. Ones(2, g)
    BY <1>7, <2>1, <2>2, <2>3
  <2> QED
    BY <2>2, <2>4
<1>12. CASE byte = 47
  <2>1. Ones(2, flag)
    BY <1>5, <1>12 DEF FlagHeard
  <2>2. byte' = 23 /\ b = 1
    BY <1>1, <1>4, <1>12
  <2>3. 2 \in 0 .. 4 /\ 3 = 2 + 1
    OBVIOUS
  <2>4. Ones(3, g)
    BY <1>7, <2>1, <2>2, <2>3
  <2> QED
    BY <2>2, <2>4
<1>13. CASE byte = 23
  <2>1. Ones(3, flag)
    BY <1>5, <1>13 DEF FlagHeard
  <2>2. byte' = 11 /\ b = 1
    BY <1>1, <1>4, <1>13
  <2>3. 3 \in 0 .. 4 /\ 4 = 3 + 1
    OBVIOUS
  <2>4. Ones(4, g)
    BY <1>7, <2>1, <2>2, <2>3
  <2> QED
    BY <2>2, <2>4
<1>14. CASE byte = 11
  <2>1. Ones(4, flag)
    BY <1>5, <1>14 DEF FlagHeard
  <2>2. byte' = 5 /\ b = 1
    BY <1>1, <1>4, <1>14
  <2>3. 4 \in 0 .. 4 /\ 5 = 4 + 1
    OBVIOUS
  <2>4. Ones(5, g)
    BY <1>7, <2>1, <2>2, <2>3
  <2> QED
    BY <2>2, <2>4
<1> QED
  BY <1>1, <1>6, <1>8, <1>9, <1>10, <1>11, <1>12, <1>13, <1>14 DEF FlagByte

\* What the receiver holds of a frame, and one bit of the next byte.
LEMMA HoldsOn ==
  ASSUME Types, NEW b \in {0, 1}, DecodeBit(b),
         flag' # 126, flag' % 64 # 62, flag' % 64 # 63,
         NEW n \in Nat, NEW c \in 0 .. 6, Holds(n, c), NEW d, d = c + 1
  PROVE  /\ HoldsAt(state', data_bit_cnt', data', frame, n, d)
         /\ got' = got
         /\ Fits(n) => data_byte' = Push(b)
<1>1. /\ got' = got
      /\ state = "FLAG" => state' = "FLAG"
      /\ state = "DATA" /\ data_bit_cnt # 7 =>
           /\ state' = "DATA" /\ data' = data /\ data_byte' = Push(b)
           /\ data_bit_cnt' = data_bit_cnt + 1
  BY DecodeData
<1>2. CASE Fits(n)
  <2>1. /\ state = "DATA" /\ data_bit_cnt = c /\ Len(data) = n
        /\ \A i \in 1 .. n : data[i] = frame[i]
    BY <1>2, Zenon DEF Holds, HoldsAt
  <2>2. c # 7
    OBVIOUS
  <2>3. state' = "DATA" /\ data' = data /\ data_byte' = Push(b) /\ data_bit_cnt' = d
    BY <1>1, <2>1, <2>2, Zenon
  <2> QED
    BY <1>1, <1>2, <2>1, <2>3, Zenon DEF HoldsAt
<1>3. CASE ~Fits(n)
  BY <1>1, <1>3, Zenon DEF Holds, HoldsAt
<1> QED
  BY <1>2, <1>3

\* The flag that ends a frame: the receiver takes its first six bits for data,
\* then finds the frame.
LEMMA TurnFlagEnds ==
  ASSUME IInv, SendBit, phase = "flag"
  PROVE  Heard'
<1> DEFINE g == flag'
           n == Len(frame)
<1> SUFFICES ASSUME flags = 2, frame # <<>>
             PROVE  /\ byte' = 191 => got' = <<>> /\ Holds(n, 1)'
                    /\ byte' = 95 => got' = <<>> /\ Holds(n, 2)'
                    /\ byte' = 47 => got' = <<>> /\ Holds(n, 3)'
                    /\ byte' = 23 => got' = <<>> /\ Holds(n, 4)'
                    /\ byte' = 11 => got' = <<>> /\ Holds(n, 5)'
                    /\ byte' = 5 => got' = <<>> /\ Holds(n, 6)'
                    /\ byte' \in {2, 1} => got' = IF Fits(n) THEN <<frame>> ELSE <<>>
                    /\ byte' # 382
  <2>1. frame' = frame /\ flags' = flags /\ phase' = "flag"
    BY Turn
  <2>2. n' = n
    BY <2>1
  <2> HIDE DEF n
  <2> QED
    BY <2>1, <2>2, Zenon, SMTT(30) DEF Heard, n
<1>1. /\ byte \in FlagByte \ {1} /\ bit = byte % 2 /\ byte' = byte \div 2 /\ frame' = frame
  BY FlagTurn, Turn
<1>2. PICK b \in {0, 1} : DecodeBit(b) /\ (nrzi = level => b = bit)
  BY Turn
<1>3. g = (2 * flag + b) % 256 /\ flag \in 0 .. 255
  <2>1. g = (2 * flag + b) % 256
    BY <1>2, Zenon DEF DecodeBit
  <2>2. flag \in 0 .. 255
    BY DEF IInv, Types
  <2> QED
    BY <2>1, <2>2
<1>4. b = bit
  <2>1. nrzi = level
    BY DEF IInv, Inv, InStep
  <2> QED
    BY <1>2, <2>1
<1>5. Types /\ FlagHeard /\ Heard
  BY DEF IInv, Inv
<1>6. n \in Nat /\ flags >= 1
  BY <1>5, LenProperties DEF Types
<1>7. ASSUME NEW o \in 0 .. 4, Ones(o, flag), NEW c \in 0 .. 6, Holds(n, c),
             got = <<>>, NEW d, d = c + 1
      PROVE  got' = <<>> /\ Holds(n, d)'
  <2>0. Ones(o, flag)
    BY <1>7
  <2>1. o \in 0 .. 5 /\ o <= 4
    OBVIOUS
  <2>2. flag' # 126 /\ flag' % 64 # 62 /\ flag' % 64 # 63
    <3> HIDE DEF n
    <3>1. g # 126 /\ g % 64 # 62 /\ g % 64 # 63
      <4> HIDE DEF g
      <4> QED
        BY <1>3, <2>0, NoFlag, SMTT(30)
    <3> QED
      BY <3>1
  <2> HIDE DEF n
  <2>3. HoldsAt(state', data_bit_cnt', data', frame, n, d) /\ got' = got
    BY <1>2, <1>5, <1>6, <1>7, <2>2, HoldsOn
  <2> QED
    BY <1>1, <1>7, <2>3, Zenon DEF Holds, n
<1>8. CASE byte = 382
  <2>1. cnt_one \in 0 .. 4 /\ Ones(cnt_one, flag) /\ got = <<>> /\ Holds(n, 0)
    <3>1. cnt_one <= 4 /\ cnt_one \in 0 .. 5
      BY <1>5 DEF IInv, Inv, Sending, Types
    <3>2. Ones(cnt_one, flag) /\ got = <<>> /\ Holds(n, 0)
      BY <1>5, <1>8, Zenon DEF Heard
    <3> QED
      BY <3>1, <3>2
  <2>2. byte' = 191 /\ 0 \in 0 .. 6 /\ 1 = 0 + 1
    BY <1>1, <1>8
  <2>3. got' = <<>> /\ Holds(n, 1)'
    BY <1>7, <2>1, <2>2, Zenon
  <2> QED
    BY <2>2, <2>3
<1>9. CASE byte = 191
  <2>1. Ones(0, flag) /\ got = <<>> /\ Holds(n, 1)
    BY <1>5, <1>6, <1>9, Zenon DEF Heard, FlagHeard
  <2>2. byte' = 95 /\ 0 \in 0 .. 4 /\ 1 \in 0 .. 6 /\ 2 = 1 + 1
    BY <1>1, <1>9
  <2>3. got' = <<>> /\ Holds(n, 2)'
    BY <1>7, <2>1, <2>2, Zenon
  <2> QED
    BY <2>2, <2>3
<1>10. CASE byte = 95
  <2>1. Ones(1, flag) /\ got = <<>> /\ Holds(n, 2)
    BY <1>5, <1>6, <1>10, Zenon DEF Heard, FlagHeard
  <2>2. byte' = 47 /\ 1 \in 0 .. 4 /\ 2 \in 0 .. 6 /\ 3 = 2 + 1
    BY <1>1, <1>10
  <2>3. got' = <<>> /\ Holds(n, 3)'
    BY <1>7, <2>1, <2>2, Zenon
  <2> QED
    BY <2>2, <2>3
<1>11. CASE byte = 47
  <2>1. Ones(2, flag) /\ got = <<>> /\ Holds(n, 3)
    BY <1>5, <1>6, <1>11, Zenon DEF Heard, FlagHeard
  <2>2. byte' = 23 /\ 2 \in 0 .. 4 /\ 3 \in 0 .. 6 /\ 4 = 3 + 1
    BY <1>1, <1>11
  <2>3. got' = <<>> /\ Holds(n, 4)'
    BY <1>7, <2>1, <2>2, Zenon
  <2> QED
    BY <2>2, <2>3
<1>12. CASE byte = 23
  <2>1. Ones(3, flag) /\ got = <<>> /\ Holds(n, 4)
    BY <1>5, <1>6, <1>12, Zenon DEF Heard, FlagHeard
  <2>2. byte' = 11 /\ 3 \in 0 .. 4 /\ 4 \in 0 .. 6 /\ 5 = 4 + 1
    BY <1>1, <1>12
  <2>3. got' = <<>> /\ Holds(n, 5)'
    BY <1>7, <2>1, <2>2, Zenon
  <2> QED
    BY <2>2, <2>3
<1>13. CASE byte = 11
  <2>1. Ones(4, flag) /\ got = <<>> /\ Holds(n, 5)
    BY <1>5, <1>6, <1>13, Zenon DEF Heard, FlagHeard
  <2>2. byte' = 5 /\ 4 \in 0 .. 4 /\ 5 \in 0 .. 6 /\ 6 = 5 + 1
    BY <1>1, <1>13
  <2>3. got' = <<>> /\ Holds(n, 6)'
    BY <1>7, <2>1, <2>2, Zenon
  <2> QED
    BY <2>2, <2>3
<1>14. CASE byte = 5
  <2>1. Ones(5, flag) /\ got = <<>> /\ Holds(n, 6)
    BY <1>5, <1>6, <1>14, Zenon DEF Heard, FlagHeard
  <2>2. byte' = 2 /\ b = 1
    BY <1>1, <1>4, <1>14
  <2>3. flag' % 64 = 63
    <3>1. flag % 64 = 31
      BY <2>1 DEF Ones
    <3> QED
      BY <1>3, <2>2, <3>1
  <2>4. /\ state = "DATA" => got' = Append(got, data)
        /\ state = "FLAG" => got' = got
    BY <1>2, <1>5, <2>3, DecodeEnd
  <2>5. got' = IF Fits(n) THEN <<frame>> ELSE <<>>
    <3>1. CASE Fits(n)
      <4>1. /\ state = "DATA" /\ Len(data) = n /\ \A i \in 1 .. n : data[i] = frame[i]
        BY <2>1, <3>1, Zenon DEF Holds, HoldsAt
      <4>2. data = frame
        <5>1. data \in Seq(0 .. 255) /\ frame \in Seq(0 .. 255)
          <6>1. data \in Seq(0 .. 255) /\ frame \in Seq(Byte)
            BY <1>5 DEF Types
          <6>2. Byte \subseteq 0 .. 255
            BY HdlcAssumption
          <6>3. frame \in Seq(0 .. 255)
            BY <6>1, <6>2, SeqMonotonic, ZenonT(40)
          <6> QED
            BY <6>1, <6>3
        <5> QED
          BY <4>1, <5>1, SeqEqual
      <4>3. Append(<<>>, frame) = <<frame>>
        OBVIOUS
      <4> QED
        BY <2>1, <2>4, <3>1, <4>1, <4>2, <4>3, Zenon
    <3>2. CASE ~Fits(n)
      BY <2>1, <2>4, <3>2, Zenon DEF Holds, HoldsAt
    <3> QED
      BY <3>1, <3>2
  <2> QED
    BY <2>2, <2>5
<1>15. CASE byte = 2
  <2>1. got = IF Fits(n) THEN <<frame>> ELSE <<>>
    <3>1. byte \in {2, 1}
      BY <1>15
    <3> QED
      BY <1>5, <3>1, Zenon DEF Heard
  <2>2. flag % 128 = 63 /\ state = "FLAG"
    BY <1>5, <1>6, <1>15, Zenon DEF FlagHeard
  <2>3. byte' = 1 /\ b = 0
    BY <1>1, <1>4, <1>15
  <2>4. flag' = 126
    BY <1>3, <2>2, <2>3
  <2>5. got' = got
    BY <1>2, <1>5, <2>2, <2>4, DecodeFlag
  <2> QED
    BY <2>1, <2>3, <2>5
<1> QED
  BY <1>1, <1>8, <1>9, <1>10, <1>11, <1>12, <1>13, <1>14, <1>15 DEF FlagByte

\* A byte of data: each of its bits is held once heard, a stuffed zero is not.
LEMMA TurnDataHeard ==
  ASSUME IInv, SendBit, phase = "data"
  PROVE  Heard'
<1> SUFFICES ASSUME flags = 2
             PROVE  /\ Ones(cnt_one, flag)' /\ got' = <<>>
                    /\ \E t \in Powers : InByte(t[1], t[2], t[3])'
  BY Turn, Zenon DEF Heard
<1> DEFINE g == flag'
           n == Len(frame) - 1
           x == frame[Len(frame)]
<1>1. PICK b \in {0, 1} : DecodeBit(b) /\ (nrzi = level => b = bit)
  BY Turn
<1>2. g = (2 * flag + b) % 256 /\ flag \in 0 .. 255
  <2>1. g = (2 * flag + b) % 256
    BY <1>1, Zenon DEF DecodeBit
  <2>2. flag \in 0 .. 255
    BY DEF IInv, Types
  <2> QED
    BY <2>1, <2>2
<1>9. b = bit
  <2>1. nrzi = level
    BY DEF IInv, Inv, InStep
  <2> QED
    BY <1>1, <2>1
<1>3. /\ Types /\ frame' = frame /\ cnt_one \in 0 .. 5 /\ data_byte \in 0 .. 255
      /\ n \in Nat /\ n + 1 = Len(frame) /\ frame[Len(frame)] = x /\ x \in 0 .. 255
  <2>1. frame \in Seq(Byte) /\ Len(frame) >= 1 /\ Len(frame) \in Nat
    BY LenProperties DEF IInv, Inv, Types, Sending
  <2>2. x \in Byte
    BY <2>1, ElementOfSeq
  <2>3. x \in 0 .. 255
    BY <2>2, HdlcAssumption
  <2>4. Types /\ cnt_one \in 0 .. 5 /\ data_byte \in 0 .. 255
    BY DEF IInv, Types
  <2>5. n \in Nat /\ n + 1 = Len(frame)
    BY <2>1
  <2>6. frame' = frame
    BY Turn
  <2> HIDE DEF n, x
  <2>7. frame[Len(frame)] = x
    BY DEF x
  <2> QED
    BY <2>3, <2>4, <2>5, <2>6, <2>7, Zenon
<1>4. Ones(cnt_one, flag) /\ got = <<>>
  BY Zenon DEF IInv, Inv, Heard
<1>5. PICK t \in Powers : InByte(t[1], t[2], t[3])
  BY Zenon DEF IInv, Inv, Heard
<1>6. PICK lo \in 0 .. 255 :
        /\ lo < t[2] /\ x + 256 = Left * t[2] + lo
        /\ t[1] < 8 => Holds(n, t[1]) /\ (Fits(n) => data_byte \div t[3] = lo)
        /\ ~(t[1] < 8) => Holds(Len(frame), 0)
  BY <1>5, Zenon DEF InByte
<1> HIDE DEF n, x
<1>7. CASE Pending
  <2>1. bit = 0 /\ cnt_one = 5 /\ cnt_one' = 0 /\ Left' = Left
    BY <1>7, DataTurn DEF Pending
  <2>2. Ones(0, g) /\ g # 126 /\ g % 64 = 62
    <3> HIDE DEF g
    <3>1. flag % 64 = 31 /\ b = 0
      BY <1>4, <1>9, <2>1 DEF Ones
    <3>2. g % 2 = 0 /\ g # 126 /\ g % 64 = 62
      BY <1>2, <3>1
    <3> QED
      BY <3>2 DEF Ones
  <2>3. /\ got' = got /\ state' = state /\ data' = data
        /\ data_byte' = data_byte /\ data_bit_cnt' = data_bit_cnt
    BY <1>1, <1>3, <2>2, DecodeStuffed
  <2>4. InByte(t[1], t[2], t[3])'
    BY <1>3, <1>5, <2>1, <2>3, Zenon DEF InByte, Holds
  <2> QED
    BY <1>4, <2>1, <2>2, <2>3, <2>4
<1>8. CASE ~Pending
  <2>1. /\ bit = Left % 2 /\ Left > 1 /\ Left \in Nat /\ Left' = Left \div 2
        /\ cnt_one' = IF bit = 1 THEN cnt_one + 1 ELSE 0
    BY <1>8, DataTurn
  <2>2. cnt_one \in 0 .. 4
    BY <1>3, <1>8 DEF Pending
  <2>3. g # 126 /\ g % 64 # 62 /\ g % 64 # 63
    <3>1. PICK o \in 0 .. 4 : o = cnt_one
      BY <2>2
    <3>2. Ones(o, flag)
      BY <1>4, <3>1
    <3> HIDE DEF g
    <3> QED
      BY <1>2, <3>2, NoFlag
  <2>4. Ones(cnt_one', g)
    <3>1. CASE bit = 0
      <4>1. cnt_one' = 0
        BY <2>1, <3>1
      <4> HIDE DEF g
      <4>2. g % 2 = 0
        BY <1>2, <1>9, <3>1
      <4>3. Ones(0, g)
        BY <4>2 DEF Ones
      <4> QED
        BY <4>1, <4>3, Zenon
    <3>2. CASE bit = 1
      <4>1. cnt_one' = cnt_one + 1 /\ cnt_one <= 4
        BY <2>1, <2>2, <3>2
      <4> HIDE DEF g
      <4>2. Ones(cnt_one + 1, g)
        BY <1>2, <1>3, <1>4, <1>9, <3>2, <4>1, OneMore
      <4> QED
        BY <4>1, <4>2, Zenon
    <3> QED
      BY <1>9, <3>1, <3>2
  <2>5. t[1] \in 0 .. 7 /\ t[1] # 8 /\ t[1] < 8
    <3>1. t[1] \in 0 .. 8 /\ (t[1] = 8 => t[2] = 256)
      BY DEF Powers
    <3>2. \A l, y, z \in Nat : l > 1 /\ y + 256 = l * 256 + z => y > 255
      OBVIOUS
    <3>3. x \in Nat /\ lo \in Nat /\ ~(x > 255) /\ x + 256 = Left * t[2] + lo
      BY <1>3, <1>6
    <3>4. t[2] # 256
      <4> SUFFICES ASSUME t[2] = 256 PROVE FALSE
        OBVIOUS
      <4>1. x + 256 = Left * 256 + lo
        BY <3>3
      <4> QED
        BY <2>1, <3>2, <3>3, <4>1
    <3> QED
      BY <3>1, <3>4
  <2>6. Holds(n, t[1]) /\ (Fits(n) => data_byte \div t[3] = lo)
    BY <1>6, <2>5
  <2>7. PICK u \in Powers : \E h \in 0 .. 255 :
            /\ u[1] = t[1] + 1 /\ h < u[2]
            /\ x + 256 = (Left \div 2) * u[2] + h
            /\ Fits(n) => ((data_byte \div 2) + 128 * b) \div u[3] = h
    <3>1. b = Left % 2
      BY <1>9, <2>1
    <3>2. PICK u \in Powers : \E h \in 0 .. 255 :
            /\ u[1] = t[1] + 1 /\ h < u[2]
            /\ x + 256 = (Left \div 2) * u[2] + h
            /\ data_byte \div t[3] = lo => ((data_byte \div 2) + 128 * b) \div u[3] = h
      <4>1. PICK l \in Nat : l = Left
        BY <2>1
      <4>2. PICK y \in 0 .. 255 : y = x
        BY <1>3
      <4>3. PICK d \in 0 .. 255 : d = data_byte
        BY <1>3
      <4>4. lo < t[2] /\ y + 256 = l * t[2] + lo /\ b = l % 2 /\ t[1] # 8
        BY <1>6, <2>5, <3>1, <4>1, <4>2
      <4>5. BitOn(t, y, l, lo, d, b)
        BY <4>4, OneBitOn DEF BitsOf
      <4> QED
        BY <4>1, <4>2, <4>3, <4>5, Zenon DEF BitOn, NextBit
    <3> QED
      BY <2>6, <3>2, Zenon
  <2>8. PICK h \in 0 .. 255 :
            /\ u[1] = t[1] + 1 /\ h < u[2]
            /\ x + 256 = Left' * u[2] + h
            /\ Fits(n) => Push(b) \div u[3] = h
    BY <2>1, <2>7, Zenon DEF Push
  <2>9. CASE t[1] # 7
    <3>1. t[1] \in 0 .. 6 /\ u[1] < 8
      BY <2>5, <2>8, <2>9
    <3>2. /\ HoldsAt(state', data_bit_cnt', data', frame, n, u[1])
          /\ got' = got
          /\ Fits(n) => data_byte' = Push(b)
      BY <1>1, <1>3, <2>3, <2>6, <2>8, <3>1, HoldsOn, SMTT(30)
    <3>3. InByte(u[1], u[2], u[3])'
      BY <1>3, <2>8, <3>1, <3>2, Zenon DEF InByte, Holds, n, x
    <3> QED
      BY <1>4, <2>4, <3>2, <3>3, Zenon
  <2>10. CASE t[1] = 7
    <3>1. u[1] = 8 /\ u[2] = 256 /\ u[3] = 1 /\ ~(u[1] < 8)
      <4>1. u[1] = 8
        BY <2>8, <2>10
      <4> QED
        BY <4>1 DEF Powers
    <3>2. h = x
      <4>1. PICK l \in Nat : l = Left'
        BY <2>1
      <4>2. PICK y \in 0 .. 255 : y = x
        BY <1>3
      <4>3. y + 256 = l * 256 + h
        BY <2>8, <3>1, <4>1, <4>2
      <4>4. l = 0 \/ l = 1 \/ l >= 2
        OBVIOUS
      <4>5. h = y
        BY <4>3, <4>4
      <4> QED
        BY <4>2, <4>5
    <3>3. Fits(n) => Push(b) = x
      <4>1. Push(b) \in 0 .. 255
        BY <1>3, PushType DEF Push
      <4> QED
        BY <2>8, <3>1, <3>2, <4>1
    <3>4. /\ got' = got
          /\ state = "FLAG" => state' = "FLAG"
          /\ state = "DATA" /\ data_bit_cnt = 7 /\ Len(data) # DataLen =>
              /\ state' = "DATA" /\ data' = Append(data, Push(b))
              /\ data_bit_cnt' = 0
          /\ state = "DATA" /\ data_bit_cnt = 7 /\ Len(data) = DataLen =>
              state' = "FLAG"
      BY <1>1, <1>3, <2>3, DecodeData
    <3>5. HoldsAt(state', data_bit_cnt', data', frame, n + 1, 0)
      <4>1. Fits(n) => /\ state = "DATA" /\ data_bit_cnt = 7 /\ Len(data) = n
                       /\ \A i \in 1 .. n : data[i] = frame[i]
        BY <2>6, <2>10, Zenon DEF Holds, HoldsAt
      <4>2. ~Fits(n) => state = "FLAG"
        BY <2>6, Zenon DEF Holds, HoldsAt
      <4>3. DataLen \in Nat
        BY HdlcAssumption
      <4>4. CASE n < DataLen
        <5>1. Fits(n) /\ Fits(n + 1) /\ n # DataLen
          BY <1>3, <4>3, <4>4 DEF Fits
        <5>2. state' = "DATA" /\ data' = Append(data, x) /\ data_bit_cnt' = 0
          BY <3>3, <3>4, <4>1, <5>1, Zenon
        <5>3. /\ Len(data') = n + 1 /\ data'[n + 1] = x
              /\ \A i \in 1 .. n : data'[i] = frame[i]
          <6>1. data \in Seq(0 .. 255) /\ Len(data) = n
            BY <1>3, <4>1, <5>1 DEF Types
          <6>2. /\ Len(data') = n + 1 /\ data'[n + 1] = x
                /\ \A i \in 1 .. n : data'[i] = data[i]
            BY <1>3, <5>2, <6>1, AppendProperties
          <6> QED
            BY <4>1, <5>1, <6>2, Zenon
        <5>4. \A i \in 1 .. n + 1 : i = n + 1 \/ i \in 1 .. n
          BY <1>3
        <5>5. frame[n + 1] = x
          BY <1>3
        <5> QED
          BY <5>1, <5>2, <5>3, <5>4, <5>5, Zenon DEF HoldsAt
      <4>5. CASE n = DataLen
        <5>1. Fits(n) /\ ~Fits(n + 1)
          BY <1>3, <4>3, <4>5 DEF Fits
        <5>2. state' = "FLAG"
          BY <3>4, <4>1, <4>5, <5>1
        <5> QED
          BY <5>1, <5>2, Zenon DEF HoldsAt
      <4>6. CASE n > DataLen
        <5>1. ~Fits(n) /\ ~Fits(n + 1)
          BY <1>3, <4>3, <4>6 DEF Fits
        <5>2. state' = "FLAG"
          BY <3>4, <4>2, <5>1
        <5> QED
          BY <5>1, <5>2, Zenon DEF HoldsAt
      <4> QED
        BY <1>3, <4>3, <4>4, <4>5, <4>6
    <3>6. InByte(u[1], u[2], u[3])'
      <4>1. HoldsAt(state', data_bit_cnt', data', frame, Len(frame), 0)
        BY <1>3, <3>5, Zenon
      <4> QED
        BY <1>3, <2>8, <3>1, <4>1, Zenon DEF InByte, Holds, n, x
    <3> QED
      BY <1>4, <2>4, <3>4, <3>6, Zenon
  <2> QED
    BY <2>9, <2>10
<1> QED
  BY <1>7, <1>8
-----------------------------------------------------------------------------
LEMMA SendBitOK ==
  ASSUME IInv, SendBit
  PROVE  IInv'
<1>1. phase \in {"flag", "data"}
  BY Turn
<1>2. Heard'
  BY <1>1, TurnFlagEnds, TurnDataHeard
<1> QED
  BY <1>2, TurnTypes, TurnSends, TurnFlagHeard DEF IInv, Inv

\* IInv is inductive.
LEMMA NextOK == IInv /\ [Next]_vars => IInv'
<1> SUFFICES ASSUME IInv, [Next]_vars PROVE IInv'
  OBVIOUS
<1>1. CASE \E v \in {0, 1} : Noise(v)
  BY <1>1, NoiseOK
<1>2. CASE SendFlag
  BY <1>2, SendFlagOK
<1>3. CASE CloseFrame
  BY <1>3, CloseFrameOK
<1>4. CASE \E b \in Byte : SendData(b)
  BY <1>4, SendDataOK
<1>5. CASE SendBit
  BY <1>5, SendBitOK
<1>6. CASE FlagSent
  BY <1>6, FlagSentOK
<1>7. CASE DataSent
  BY <1>7, DataSentOK
<1>8. CASE Stop
  BY <1>8, StopOK
<1>9. CASE UNCHANGED vars
  <2> USE <1>9 DEF vars
  <2>1. Types' = Types
    BY DEF Types
  <2>2. Sending' = Sending /\ InStep' = InStep
    BY DEF Sending, InStep, Pending
  <2>3. FlagHeard' = FlagHeard /\ Samples' = Samples
    BY DEF FlagHeard, Samples, Left, Pending
  <2>4. Heard' = Heard
    BY DEF Heard, InByte, Holds, Left, Pending
  <2> QED
    BY <2>1, <2>2, <2>3, <2>4, Zenon DEF IInv, Inv
<1> QED
  BY <1>1, <1>2, <1>3, <1>4, <1>5, <1>6, <1>7, <1>8, <1>9 DEF Next

LEMMA Always == Spec => []IInv
  BY InitOK, NextOK, PTL DEF Spec
-----------------------------------------------------------------------------
\* When the flag that ends a frame has been sent, the receiver has found that
\* frame and no other (decode_bit and send_byte): for bytes, lengths, noise and
\* cut transmissions of every kind, whatever the sizes of buffer and block.
THEOREM FindsTheFrame == Spec => []FrameFound
<1>1. IInv => FrameFound
  <2> SUFFICES ASSUME IInv, phase = "flag", frame # <<>>, byte = 1, flags = 2
               PROVE  got = IF Len(frame) <= DataLen THEN <<frame>> ELSE <<>>
    BY DEF FrameFound
  <2>1. byte \in {2, 1}
    OBVIOUS
  <2> QED
    BY <2>1, Zenon DEF IInv, Inv, Heard, Fits
<1> QED
  BY <1>1, Always, PTL

\* Eight bits of a byte and the zeros stuffed among them fill ten samples at
\* most: a block of CONTROL_N samples, ten in the code, has room for them.
THEOREM BlockHasRoom == ASSUME ControlN >= 10 PROVE Spec => []FitsBlock
<1>1. IInv => FitsBlock
  BY HdlcAssumption DEF IInv, Inv, Types, Samples, FitsBlock
<1> QED
  BY <1>1, Always, PTL

\* The variables keep their types, the sample count within the block among them.
THEOREM TypeCorrect == ASSUME ControlN >= 10 PROVE Spec => []TypeOK
<1>1. IInv => TypeOK
  BY HdlcAssumption DEF IInv, Inv, Types, Samples, TypeOK, BIT_STUFF_BITS
<1> QED
  BY <1>1, Always, PTL
-----------------------------------------------------------------------------
(* The digipeater: frames take their hops in order (HopsInOrder) in every net *)
(* of stations, for every choice of call signs and aliases.  On its own       *)
(* HopsInOrder is not inductive: it says nothing of the frames that wait in a *)
(* queue, which are transmitted next.  The invariant says the same of them.   *)

OnPath(s, f) == \E e \in Frames, k \in 0 .. Len(f.slots) : f = WithMarks(e, k) /\ AtHop(s, e, k)

QueuesTyped == send_queue \in [Station -> Seq(Ax25)]
AirTyped == air \subseteq [by : Station, frame : Ax25]
Waits(q, f) == \E i \in 1 .. Len(q) : q[i] = f
QueuesOnPath == \A s \in Station, f \in Ax25 : Waits(send_queue[s], f) => OnPath(s, f)

DigiIInv == QueuesTyped /\ AirTyped /\ QueuesOnPath /\ HopsInOrder
-----------------------------------------------------------------------------
(* Frames and their marks *)

MarkedSlot(x) == [call |-> x.call, h |-> TRUE]

\* Setting the H bit is all that marking does.
LEMMA MarkedSlotFacts ==
    ASSUME NEW x \in Slot
    PROVE  MarkedSlot(x) \in Slot /\ [x EXCEPT !.h = TRUE] = MarkedSlot(x)
<1> DEFINE y == [x EXCEPT !.h = TRUE]
<1>1. x.call \in STRING /\ y \in Slot /\ y.call = x.call /\ y.h = TRUE
  BY DEF Slot
<1>2. MarkedSlot(x) \in Slot /\ MarkedSlot(x).call = x.call /\ MarkedSlot(x).h = TRUE
  BY <1>1 DEF MarkedSlot, Slot
<1>3. \A a, b \in Slot : a.call = b.call /\ a.h = b.h => a = b
  BY DEF Slot
<1> HIDE DEF y
<1> QED
  BY <1>1, <1>2, <1>3, Zenon DEF y

\* Marks change nothing but H bits.
LEMMA WithMarksFacts ==
    ASSUME NEW f \in Ax25, NEW k \in Nat
    PROVE  /\ WithMarks(f, k) \in Ax25
           /\ WithMarks(f, k).digis = f.digis /\ WithMarks(f, k).ui = f.ui
           /\ WithMarks(f, k).src = f.src
           /\ WithMarks(f, k).slots =
                [i \in 1 .. Len(f.slots) |-> IF i <= k THEN MarkedSlot(f.slots[i]) ELSE f.slots[i]]
           /\ Len(WithMarks(f, k).slots) = Len(f.slots)
<1>1. f.slots \in Seq(Slot) /\ DOMAIN f.slots = 1 .. Len(f.slots) /\ Len(f.slots) \in Nat
  BY DEF Ax25
<1>2. \A i \in 1 .. Len(f.slots) : f.slots[i] \in Slot
  BY <1>1
<1>3. \A i \in 1 .. Len(f.slots) : [f.slots[i] EXCEPT !.h = TRUE] = MarkedSlot(f.slots[i])
  BY <1>2, MarkedSlotFacts, Zenon
<1> DEFINE slots == [i \in 1 .. Len(f.slots) |->
                       IF i <= k THEN MarkedSlot(f.slots[i]) ELSE f.slots[i]]
<1>4. [i \in DOMAIN f.slots |-> IF i <= k THEN [f.slots[i] EXCEPT !.h = TRUE] ELSE f.slots[i]] = slots
  BY <1>1, <1>3, Zenon
<1>5. \A i \in 1 .. Len(f.slots) : slots[i] \in Slot
  <2>1. \A x \in Slot : MarkedSlot(x) \in Slot
    BY MarkedSlotFacts, Zenon
  <2> QED
    BY <1>2, <2>1, Zenon
<1>6. slots \in Seq(Slot) /\ Len(slots) = Len(f.slots)
  <2> HIDE DEF slots
  <2>1. slots \in [1 .. Len(f.slots) -> Slot]
    BY <1>5 DEF slots
  <2> QED
    BY <1>1, <2>1
<1>7. WithMarks(f, k) = [f EXCEPT !.slots = slots]
  BY <1>4, Zenon DEF WithMarks
<1> HIDE DEF slots
<1> QED
  BY <1>6, <1>7 DEF Ax25, slots

\* Frames are equal if their parts are.
LEMMA Ax25Equal ==
    ASSUME NEW f \in Ax25, NEW g \in Ax25,
           g.ui = f.ui, g.src = f.src, g.digis = f.digis, g.slots = f.slots
    PROVE  g = f
<1>1. ASSUME NEW e \in Ax25
      PROVE  e = [ui |-> e.ui, src |-> e.src, digis |-> e.digis, slots |-> e.slots]
  BY DEF Ax25
<1> QED
  BY <1>1, Zenon

\* No marks.
LEMMA NoMarks ==
    ASSUME NEW f \in Ax25
    PROVE  WithMarks(f, 0) = f
<1>1. f.slots \in Seq(Slot)
  BY DEF Ax25
<1>2. f.slots = [i \in 1 .. Len(f.slots) |-> f.slots[i]]
  BY <1>1
<1>3. [i \in 1 .. Len(f.slots) |-> IF i <= 0 THEN MarkedSlot(f.slots[i]) ELSE f.slots[i]] =
      [i \in 1 .. Len(f.slots) |-> f.slots[i]]
  <2>1. \A i \in 1 .. Len(f.slots) : ~(i <= 0)
    OBVIOUS
  <2> QED
    BY <2>1, Zenon
<1>4. WithMarks(f, 0).slots = f.slots
  BY <1>2, <1>3, WithMarksFacts, Zenon
<1> QED
  BY <1>4, WithMarksFacts, Ax25Equal

\* Marking one slot.
LEMMA MarkFacts ==
    ASSUME NEW f \in Ax25, NEW i \in 1 .. Len(f.slots)
    PROVE  /\ Mark(f, i) \in Ax25
           /\ Mark(f, i).digis = f.digis /\ Mark(f, i).ui = f.ui /\ Mark(f, i).src = f.src
           /\ Mark(f, i).slots =
                [j \in 1 .. Len(f.slots) |-> IF j = i THEN MarkedSlot(f.slots[j]) ELSE f.slots[j]]
<1> DEFINE slot == [f.slots[i] EXCEPT !.h = TRUE]
           slots == [f.slots EXCEPT ![i] = slot]
<1>1. f.slots \in Seq(Slot) /\ Len(f.slots) \in Nat /\ DOMAIN f.slots = 1 .. Len(f.slots)
  BY DEF Ax25
<1>2. f.slots[i] \in Slot
  BY <1>1
<1>3. slot = MarkedSlot(f.slots[i]) /\ slot \in Slot
  BY <1>2, MarkedSlotFacts, Zenon
<1>4. Mark(f, i) = [f EXCEPT !.slots = slots]
  BY <1>1 DEF Mark
<1> HIDE DEF slot
<1>5. slots \in Seq(Slot)
  BY <1>1, <1>3
<1>6. slots = [j \in 1 .. Len(f.slots) |-> IF j = i THEN MarkedSlot(f.slots[j]) ELSE f.slots[j]]
  BY <1>1, <1>3, Zenon
<1> HIDE DEF slots
<1>7. /\ Mark(f, i) \in Ax25 /\ Mark(f, i).slots = slots
      /\ Mark(f, i).digis = f.digis /\ Mark(f, i).ui = f.ui /\ Mark(f, i).src = f.src
  BY <1>4, <1>5 DEF Ax25
<1> QED
  BY <1>6, <1>7

\* What a station repeats of a frame e with its first k slots marked: the frame with
\* all slots marked up to the next one that was not, which is one of the station's
\* call signs.
LEMMA NextHop ==
    ASSUME NEW e \in Ax25, NEW k \in Nat, NEW s \in Station,
           NEW f \in Ax25, f = WithMarks(e, k),
           NEW g \in Digipeat(s, f)
    PROVE  \E i \in 1 .. Len(f.slots) :
             /\ g \in Ax25 /\ Len(g.slots) = Len(f.slots)
             /\ g = WithMarks(e, i) /\ g = Mark(f, i) /\ IsNext(f, i)
             /\ i < MAX_DIGIPEATER
             /\ ~e.slots[i].h /\ e.slots[i].call \in Calls[s]
<1>1. PICK i \in Unmarked(f) :
        IsNext(f, i) /\ i < MAX_DIGIPEATER /\ f.slots[i].call \in Calls[s] /\ g = Mark(f, i)
  BY Zenon DEF Digipeat
<1> DEFINE n == Len(f.slots)
<1>2. f.slots \in Seq(Slot) /\ n \in Nat /\ DOMAIN f.slots = 1 .. n
  BY DEF Ax25
<1>3. e.slots \in Seq(Slot) /\ Len(e.slots) = n
  BY WithMarksFacts DEF Ax25
<1>4. \A j \in 1 .. n : f.slots[j] = IF j <= k THEN MarkedSlot(e.slots[j]) ELSE e.slots[j]
  <2>1. f.slots = [j \in 1 .. Len(e.slots) |-> IF j <= k THEN MarkedSlot(e.slots[j]) ELSE e.slots[j]]
    BY WithMarksFacts, Zenon
  <2> QED
    BY <1>3, <2>1
<1>5. i \in 1 .. n /\ ~f.slots[i].h
  BY <1>1, <1>2, Zenon DEF Unmarked
<1>6. \A x : MarkedSlot(x).h = TRUE /\ MarkedSlot(x).call = x.call
  BY DEF MarkedSlot
<1>7. i > k
  <2>1. ~(i <= k)
    BY <1>4, <1>5, <1>6, Zenon
  <2> QED
    BY <1>5, <2>1
<1>8. f.slots[i] = e.slots[i] /\ ~e.slots[i].h /\ e.slots[i].call \in Calls[s]
  <2>1. ~(i <= k)
    BY <1>5, <1>7
  <2> QED
    BY <1>1, <1>4, <1>5, <2>1, Zenon
<1>9. \A j \in 1 .. n : j < i => f.slots[j].h
  <2>1. \A j \in Unmarked(f) : i <= j
    BY <1>1, Zenon DEF IsNext
  <2>2. \A j \in 1 .. n : j < i => j \notin Unmarked(f)
    BY <1>5, <2>1
  <2> QED
    BY <1>2, <2>2, Zenon DEF Unmarked
<1>10. \A j \in 1 .. n : e.slots[j] \in Slot
  BY <1>3
<1>11. \A x \in Slot : x.h => MarkedSlot(x) = x
  BY DEF MarkedSlot, Slot
<1>12. ASSUME NEW j \in 1 .. n
       PROVE  (IF j = i THEN MarkedSlot(f.slots[j]) ELSE f.slots[j]) =
              (IF j <= i THEN MarkedSlot(e.slots[j]) ELSE e.slots[j])
  <2>1. CASE j = i
    <3>1. j <= i
      BY <1>5, <2>1
    <3> QED
      BY <1>8, <2>1, <3>1, Zenon
  <2>2. CASE j < i
    <3>1. j <= i /\ j # i
      BY <1>5, <2>2
    <3>2. f.slots[j] = MarkedSlot(e.slots[j])
      <4>1. CASE j <= k
        BY <1>4, <4>1, Zenon
      <4>2. CASE ~(j <= k)
        <5>1. f.slots[j] = e.slots[j] /\ f.slots[j].h
          BY <1>4, <1>9, <2>2, <4>2, Zenon
        <5> QED
          BY <1>10, <1>11, <5>1, Zenon
      <4> QED
        BY <4>1, <4>2
    <3> QED
      BY <3>1, <3>2, Zenon
  <2>3. CASE j > i
    <3>1. ~(j <= i) /\ j # i /\ ~(j <= k)
      BY <1>5, <1>7, <2>3
    <3> QED
      BY <1>4, <3>1, Zenon
  <2> QED
    BY <1>5, <2>1, <2>2, <2>3
<1>13. i \in Nat
  BY <1>5
<1>14. /\ Mark(f, i) \in Ax25
       /\ Mark(f, i).digis = f.digis /\ Mark(f, i).ui = f.ui /\ Mark(f, i).src = f.src
       /\ Mark(f, i).slots =
            [j \in 1 .. n |-> IF j = i THEN MarkedSlot(f.slots[j]) ELSE f.slots[j]]
  BY <1>5, MarkFacts
<1>15. /\ WithMarks(e, i) \in Ax25
       /\ WithMarks(e, i).digis = e.digis /\ WithMarks(e, i).ui = e.ui
       /\ WithMarks(e, i).src = e.src
       /\ WithMarks(e, i).slots =
            [j \in 1 .. n |-> IF j <= i THEN MarkedSlot(e.slots[j]) ELSE e.slots[j]]
       /\ Len(WithMarks(e, i).slots) = n
  BY <1>3, <1>13, WithMarksFacts
<1>16. f.digis = e.digis /\ f.ui = e.ui /\ f.src = e.src
  BY WithMarksFacts
<1>17. Mark(f, i).slots = WithMarks(e, i).slots
  BY <1>12, <1>14, <1>15, Zenon
<1>18. Mark(f, i) = WithMarks(e, i)
  BY <1>14, <1>15, <1>16, <1>17, Ax25Equal
<1> QED
  BY <1>1, <1>5, <1>8, <1>14, <1>15, <1>18
-----------------------------------------------------------------------------
(* The invariant *)

\* A frame that is on its path stays so when more has been transmitted.
LEMMA StaysOnPath ==
    ASSUME NEW s, NEW f, OnPath(s, f), air \subseteq air'
    PROVE  OnPath(s, f)'
<1>1. PICK e \in Frames, k \in 0 .. Len(f.slots) : f = WithMarks(e, k) /\ AtHop(s, e, k)
  BY Zenon DEF OnPath
<1>2. AtHop(s, e, k)'
  BY <1>1, Zenon DEF AtHop
<1> QED
  BY <1>1, <1>2, Zenon DEF OnPath

\* A frame as it is originated.
LEMMA OriginatedOnPath ==
    ASSUME NEW f \in Frames
    PROVE  f \in Ax25 /\ f.src \in Station /\ OnPath(f.src, f)'
<1>1. f \in Ax25
  BY DigipeaterAssumption, Zenon
<1>2. f.src \in Station /\ Len(f.slots) \in Nat
  BY <1>1 DEF Ax25
<1>3. WithMarks(f, 0) = f
  BY <1>1, NoMarks
<1>4. AtHop(f.src, f, 0)'
  BY Zenon DEF AtHop
<1>5. 0 \in 0 .. Len(f.slots)
  BY <1>2
<1> QED
  BY <1>1, <1>2, <1>3, <1>4, <1>5, Zenon DEF OnPath

\* A frame as it is repeated by a station that has heard it.
LEMMA RepeatedOnPath ==
    ASSUME NEW s \in Station, NEW r \in Station, <<r, s>> \in Hears,
           NEW f \in Ax25, OnPath(s, f), NEW g \in Digipeat(r, f),
           [by |-> s, frame |-> f] \in air'
    PROVE  g \in Ax25 /\ OnPath(r, g)'
<1>1. PICK e \in Frames, k \in 0 .. Len(f.slots) : f = WithMarks(e, k)
  BY Zenon DEF OnPath
<1>2. e \in Ax25 /\ k \in Nat
  BY DigipeaterAssumption, Zenon, SMTT(30) DEF Ax25
<1>3. PICK i \in 1 .. Len(f.slots) :
        /\ g \in Ax25 /\ Len(g.slots) = Len(f.slots)
        /\ g = WithMarks(e, i) /\ g = Mark(f, i) /\ IsNext(f, i)
        /\ i < MAX_DIGIPEATER
        /\ ~e.slots[i].h /\ e.slots[i].call \in Calls[r]
  BY <1>1, <1>2, NextHop, Zenon
<1>4. i # 0 /\ i \in 0 .. Len(g.slots)
  BY <1>3
<1>5. \E sent \in air' : /\ <<r, sent.by>> \in Hears
                         /\ IsNext(sent.frame, i) /\ Mark(sent.frame, i) = WithMarks(e, i)
  BY <1>3, Zenon
<1>6. AtHop(r, e, i)'
  BY <1>3, <1>4, <1>5, Zenon DEF AtHop
<1> QED
  BY <1>3, <1>4, <1>6, Zenon DEF OnPath

\* A queue with a frame added, if it fits, and without its first frame.
LEMMA QueuedFacts ==
    ASSUME NEW q \in Seq(Ax25), NEW f \in Ax25
    PROVE  /\ Queued(q, f) \in Seq(Ax25)
           /\ \A e : Waits(Queued(q, f), e) => Waits(q, e) \/ e = f
BY DEF Queued, Waits

LEMMA TailFacts ==
    ASSUME NEW q \in Seq(Ax25), q # <<>>
    PROVE  /\ Head(q) \in Ax25 /\ Waits(q, Head(q))
           /\ Tail(q) \in Seq(Ax25)
           /\ \A e : Waits(Tail(q), e) => Waits(q, e)
BY DEF Waits

LEMMA DigiInitIInv == DigiInit => DigiIInv
<1> SUFFICES ASSUME DigiInit PROVE DigiIInv
  OBVIOUS
<1>1. QueuesTyped
  BY DEF DigiInit, QueuesTyped
<1>2. AirTyped /\ HopsInOrder
  BY DEF DigiInit, AirTyped, HopsInOrder
<1>3. QueuesOnPath
  BY DEF DigiInit, QueuesOnPath, Waits
<1> QED
  BY <1>1, <1>2, <1>3 DEF DigiIInv

LEMMA OriginateIInv ==
    ASSUME DigiIInv, NEW f \in Frames, Originate(f)
    PROVE  DigiIInv'
<1>1. f \in Ax25 /\ f.src \in Station /\ OnPath(f.src, f)'
  BY OriginatedOnPath
<1>2. /\ send_queue' = [send_queue EXCEPT ![f.src] = Queued(@, f)]
      /\ air' = air
  BY DEF Originate
<1>3. send_queue \in [Station -> Seq(Ax25)]
  BY DEF DigiIInv, QueuesTyped
<1>4. \A s \in Station :
        send_queue'[s] = IF s = f.src THEN Queued(send_queue[s], f) ELSE send_queue[s]
  BY <1>2, <1>3, Zenon
<1>5. QueuesTyped'
  <2>1. Queued(send_queue[f.src], f) \in Seq(Ax25)
    BY <1>1, <1>3, QueuedFacts
  <2> QED
    BY <1>2, <1>3, <2>1, Zenon DEF QueuesTyped
<1>6. QueuesOnPath'
  <2> SUFFICES ASSUME NEW s \in Station, NEW e \in Ax25, Waits(send_queue[s], e)'
               PROVE  OnPath(s, e)'
    BY Zenon DEF QueuesOnPath
  <2>1. Waits(send_queue[s], e) \/ (e = f /\ s = f.src)
    <3>1. Waits(send_queue'[s], e)
      BY Zenon DEF Waits
    <3>2. send_queue[s] \in Seq(Ax25)
      BY <1>3
    <3>3. CASE s = f.src
      BY <1>1, <1>4, <3>1, <3>2, <3>3, QueuedFacts, SMTT(30)
    <3>4. CASE s # f.src
      BY <1>4, <3>1, <3>4
    <3> QED
      BY <3>3, <3>4
  <2>2. Waits(send_queue[s], e) => OnPath(s, e)
    BY Zenon DEF DigiIInv, QueuesOnPath
  <2>3. OnPath(s, e) => OnPath(s, e)'
    BY <1>2, StaysOnPath
  <2> QED
    BY <1>1, <2>1, <2>2, <2>3, Zenon
<1>7. HopsInOrder' /\ AirTyped'
  BY <1>2, Zenon DEF DigiIInv, HopsInOrder, AirTyped, AtHop
<1> QED
  BY <1>5, <1>6, <1>7 DEF DigiIInv

LEMMA TransmitIInv ==
    ASSUME DigiIInv, NEW s \in Station, Transmit(s)
    PROVE  DigiIInv'
<1>1. PICK heard \in SUBSET {r \in Station : <<r, s>> \in Hears} :
        LET f == Head(send_queue[s])
            repeats(r) == IF r \in heard THEN Digipeat(r, f) ELSE {} IN
        /\ send_queue[s] # <<>>
        /\ send_queue' = [r \in Station |->
             LET q == IF r = s THEN Tail(send_queue[r]) ELSE send_queue[r] IN
             IF repeats(r) = {} THEN q ELSE Queued(q, CHOOSE g \in repeats(r) : TRUE)]
        /\ air' = air \cup {[by |-> s, frame |-> f]}
  BY Zenon DEF Transmit
<1>2. \A r \in Station : send_queue[r] \in Seq(Ax25)
  BY DEF DigiIInv, QueuesTyped
<1>3. PICK f \in Ax25 : f = Head(send_queue[s]) /\ Waits(send_queue[s], f)
  BY <1>1, <1>2, TailFacts
<1>4. OnPath(s, f)
  BY <1>3, Zenon DEF DigiIInv, QueuesOnPath
<1> DEFINE sent == [by |-> s, frame |-> f]
           rest(r) == IF r = s THEN Tail(send_queue[r]) ELSE send_queue[r]
           repeats(r) == IF r \in heard THEN Digipeat(r, f) ELSE {}
           next(r) == IF repeats(r) = {} THEN rest(r)
                      ELSE Queued(rest(r), CHOOSE g \in repeats(r) : TRUE)
<1>5. air' = air \cup {sent} /\ air \subseteq air' /\ sent \in air'
  BY <1>1, <1>3, Zenon
<1>6. send_queue' = [r \in Station |-> next(r)]
  BY <1>1, <1>3
<1>7. ASSUME NEW r \in Station
      PROVE  /\ rest(r) \in Seq(Ax25)
             /\ \A e : Waits(rest(r), e) => Waits(send_queue[r], e)
  BY <1>1, <1>2, TailFacts
<1> HIDE DEF rest
<1>8. \A r \in Station : send_queue'[r] = next(r)
  BY <1>6, Zenon
<1>9. ASSUME NEW r \in Station
      PROVE  \/ send_queue'[r] = rest(r)
             \/ \E g \in Digipeat(r, f) :
                  <<r, s>> \in Hears /\ send_queue'[r] = Queued(rest(r), g)
  BY <1>8, Zenon
<1> HIDE DEF next
<1>10. ASSUME NEW r \in Station, NEW g \in Digipeat(r, f), <<r, s>> \in Hears
      PROVE  g \in Ax25 /\ OnPath(r, g)'
  BY <1>3, <1>4, <1>5, <1>10, RepeatedOnPath
<1>11. QueuesTyped'
  <2>1. ASSUME NEW r \in Station PROVE send_queue'[r] \in Seq(Ax25)
    BY <1>7, <1>9, <1>10, QueuedFacts
  <2> QED
    BY <2>1, <1>6, <1>8, Zenon DEF QueuesTyped
<1>12. QueuesOnPath'
  <2> SUFFICES ASSUME NEW r \in Station, NEW e \in Ax25, Waits(send_queue[r], e)'
               PROVE  OnPath(r, e)'
    BY Zenon DEF QueuesOnPath
  <2>1. Waits(send_queue'[r], e)
    BY Zenon DEF Waits
  <2>2. Waits(send_queue[r], e) => OnPath(r, e)'
    <3>1. Waits(send_queue[r], e) => OnPath(r, e)
      BY Zenon DEF DigiIInv, QueuesOnPath
    <3>2. OnPath(r, e) => OnPath(r, e)'
      BY <1>5, StaysOnPath
    <3> QED
      BY <3>1, <3>2
  <2>3. CASE send_queue'[r] = rest(r)
    BY <1>7, <2>1, <2>2, <2>3
  <2>4. ASSUME NEW g \in Digipeat(r, f), <<r, s>> \in Hears,
               send_queue'[r] = Queued(rest(r), g)
        PROVE  OnPath(r, e)'
    <3>1. g \in Ax25 /\ OnPath(r, g)'
      BY <1>10, <2>4
    <3>2. Waits(rest(r), e) \/ e = g
      BY <1>7, <2>1, <2>4, <3>1, QueuedFacts
    <3> QED
      BY <1>7, <2>2, <3>1, <3>2, Zenon
  <2> QED
    BY <1>9, <2>3, <2>4, Zenon
<1>13. AirTyped'
  <2>1. sent \in [by : Station, frame : Ax25]
    BY Zenon
  <2> QED
    BY <1>5, <2>1, Zenon DEF DigiIInv, AirTyped
<1>14. HopsInOrder'
  <2> SUFFICES ASSUME NEW t \in air' PROVE OnPath(t.by, t.frame)'
    BY Zenon DEF HopsInOrder, OnPath
  <2>1. CASE t \in air
    <3>1. OnPath(t.by, t.frame)
      BY <2>1, Zenon DEF DigiIInv, HopsInOrder, OnPath
    <3> QED
      BY <1>5, <3>1, StaysOnPath
  <2>2. CASE t = sent
    <3>1. t.by = s /\ t.frame = f
      BY <2>2, Zenon
    <3>2. OnPath(s, f) => OnPath(s, f)'
      BY <1>5, StaysOnPath
    <3> QED
      BY <1>4, <3>1, <3>2, Zenon
  <2> QED
    BY <1>5, <2>1, <2>2, Zenon
<1> QED
  BY <1>11, <1>12, <1>13, <1>14 DEF DigiIInv

LEMMA DigiNextIInv == DigiIInv /\ [DigiNext]_digiVars => DigiIInv'
<1> SUFFICES ASSUME DigiIInv, [DigiNext]_digiVars PROVE DigiIInv'
  OBVIOUS
<1>1. ASSUME NEW f \in Frames, Originate(f) PROVE DigiIInv'
  BY <1>1, OriginateIInv
<1>2. ASSUME NEW s \in Station, Transmit(s) PROVE DigiIInv'
  BY <1>2, TransmitIInv
<1>3. CASE UNCHANGED digiVars
  BY <1>3, Zenon, SMTT(30) DEF digiVars, DigiIInv, QueuesTyped, AirTyped, QueuesOnPath, Waits, OnPath,
                     HopsInOrder, AtHop
<1> QED
  BY <1>1, <1>2, <1>3, Zenon DEF DigiNext
-----------------------------------------------------------------------------
\* Every frame on the air is one that a station has originated, with its first k
\* slots marked and nothing else changed, transmitted by a station that slot k names
\* after it has heard the frame with slot k as the next one: digipeat() in a net of any
\* stations, however they share call signs, whatever the text of a frame reads like and
\* whatever is lost.
THEOREM HopsAreInOrder == DigiSpec => []HopsInOrder
<1>1. DigiIInv => HopsInOrder
  BY DEF DigiIInv
<1> QED
  BY <1>1, DigiInitIInv, DigiNextIInv, PTL DEF DigiSpec
=============================================================================
