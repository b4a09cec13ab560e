-------------------------------- MODULE Hdlc --------------------------------
(***************************************************************************)
(* From the bytes of one station to the bytes of another: send_byte        *)
(* (send.c:125-201) stuffs bits and codes them NRZI, decode_bit and the    *)
(* NRZI part of decode2 (decode.c:315-352, 384-385) undo it.  Bell 202     *)
(* modulation, demodulation and clock recovery are left out: a tone sent   *)
(* is the tone received, once per bit.  Between transmissions, and after   *)
(* one is cut off in the middle of a frame, the receiver hears noise.      *)
(*                                                                         *)
(* Whether the FCS of what the receiver has found is right is looked at    *)
(* only afterwards (output_packet), and is no business of this module.     *)
(***************************************************************************)
EXTENDS Naturals, Sequences

CONSTANTS
    Byte,           \* bytes that frames are made of
    MaxLen,         \* bound: bytes of a frame
    DataLen,        \* DATA_LEN, the receiver's buffer
    ControlN,       \* CONTROL_N, samples of a DMA block
    MaxNoise,       \* bound: bits of noise
    MaxStops        \* bound: transmissions that end

ASSUME HdlcAssumption ==
    /\ Byte \subseteq 0 .. 255 /\ Byte # {}
    /\ MaxLen \in Nat \ {0} /\ DataLen \in Nat \ {0}
    /\ ControlN \in Nat /\ MaxNoise \in Nat /\ MaxStops \in Nat

AX25_FLAG == 126
BIT_STUFF_BITS == 5

VARIABLES
    (* the transmitter *)
    phase,          \* noise, flag, data: what is on the air; ready: between two
                    \*   bytes, where data or another flag can follow
    byte,           \* bits of the byte still to send, with the sentinel
    bit, cnt_one, level,
    idx,            \* samples in the block
    flags,          \* history: flags sent in this transmission, up to two
    frame,          \* history: bytes of the frame so far
    noise, stops,   \* bits of noise and ends of transmissions so far
    (* the receiver *)
    nrzi, flag, state, data, data_byte, data_bit_cnt,
    got             \* history: what output_packet was called with since the
                    \*   frame began

vars == <<phase, byte, bit, cnt_one, level, idx, flags, frame, noise, stops,
          nrzi, flag, state, data, data_byte, data_bit_cnt, got>>

sender == <<byte, bit, cnt_one, idx>>
receiver == <<nrzi, flag, state, data, data_byte, data_bit_cnt>>

TypeOK ==
    /\ phase \in {"noise", "flag", "data", "ready"}
    /\ byte \in 1 .. 511 /\ bit \in {0, 1} /\ cnt_one \in 0 .. BIT_STUFF_BITS
    /\ level \in {0, 1} /\ idx \in 0 .. ControlN
    /\ flags \in 0 .. 2 /\ frame \in Seq(Byte) 
    /\ noise \in 0 .. MaxNoise /\ stops \in 0 .. MaxStops
    /\ nrzi \in {0, 1} /\ flag \in 0 .. 255 /\ state \in {"FLAG", "DATA"}
    /\ data \in Seq(0 .. 255) /\ Len(data) <= DataLen
    /\ data_byte \in 0 .. 255 /\ data_bit_cnt \in 0 .. 7
    /\ got \in Seq(Seq(0 .. 255))

Init ==
    /\ phase = "noise"
    /\ byte = 1 /\ bit = 0 /\ cnt_one = 0 /\ level = 0 /\ idx = 0
    /\ flags = 0 /\ frame = <<>> /\ noise = 0 /\ stops = 0
    /\ nrzi = 0 /\ flag = 0 /\ state = "FLAG"
    /\ data = <<>> /\ data_byte = 0 /\ data_bit_cnt = 0
    /\ got = <<>>
-----------------------------------------------------------------------------
(* The receiver *)

Push(b) == (data_byte \div 2) + 128 * b

\* A zero after five ones was stuffed.
Destuff(f) == f % 64 = 62

\* decode_bit(b); the state changes at a flag and when the buffer is full.
DecodeBit(b) ==
    LET f == (2 * flag + b) % 256
        whole == data_bit_cnt = 7
        Found == state = "FLAG" /\ f = AX25_FLAG
        End == state = "DATA" /\ f % 64 = 63
        Take == state = "DATA" /\ f % 64 # 63 /\ ~Destuff(f)
        Long == Take /\ whole /\ Len(data) = DataLen
    IN  /\ flag' = f
        /\ state' = CASE Found -> "DATA" [] End \/ Long -> "FLAG" [] OTHER -> state
        /\ data' = CASE Found -> <<>>
                     [] Take /\ whole /\ ~Long -> Append(data, Push(b))
                     [] OTHER -> data
        /\ data_byte' = IF Take THEN Push(b) ELSE data_byte
        /\ data_bit_cnt' = CASE Found -> 0
                             [] Take /\ ~Long -> (data_bit_cnt + 1) % 8
                             [] OTHER -> data_bit_cnt
        /\ got' = IF End THEN Append(got, data) ELSE got

\* decode2: a bit is one where the tone does not change.
Hear(v) ==
    /\ DecodeBit(IF v = nrzi THEN 1 ELSE 0)
    /\ nrzi' = v
-----------------------------------------------------------------------------
(* The transmitter *)

\* Nobody sends.
Noise(v) ==
    /\ phase = "noise"
    /\ noise < MaxNoise
    /\ noise' = noise + 1
    /\ Hear(v)
    /\ UNCHANGED <<phase, sender, level, flags, frame, stops>>

\* send_byte is called with b.
Begin(b) == byte' = b + 256 /\ bit' = b % 2 /\ idx' = 0

\* A flag, the first of a transmission or one more.
SendFlag ==
    /\ phase \in {"noise", "ready"} /\ frame = <<>>
    /\ Begin(AX25_FLAG)
    /\ phase' = "flag"
    /\ UNCHANGED <<cnt_one, level, flags, frame, noise, stops, receiver, got>>

\* A byte of the frame; its first one after a flag.
SendData(b) ==
    /\ phase = "ready" /\ Len(frame) < MaxLen
    /\ Begin(b)
    /\ phase' = "data"
    /\ frame' = Append(frame, b)
    /\ UNCHANGED <<cnt_one, level, flags, noise, stops, receiver, got>>

\* The flag that ends the frame, and may begin the next.
CloseFrame ==
    /\ phase = "ready" /\ frame # <<>>
    /\ Begin(AX25_FLAG)
    /\ phase' = "flag"
    /\ UNCHANGED <<cnt_one, level, flags, frame, noise, stops, receiver, got>>

BitStuffing == phase = "data"

StuffLate == BitStuffing /\ bit = 1 /\ cnt_one + 1 > BIT_STUFF_BITS
Stuff == BitStuffing /\ bit = 1 /\ cnt_one + 1 >= BIT_STUFF_BITS

NextCountSticky == IF BitStuffing /\ bit = 1 THEN cnt_one + 1 ELSE cnt_one

NextCount == IF ~BitStuffing THEN cnt_one ELSE IF bit = 1 THEN cnt_one + 1 ELSE 0

\* One turn of send_byte's loop: NRZI, a sample, bit stuffing.
SendBit ==
    /\ byte > 1
    /\ level' = IF bit = 0 THEN 1 - level ELSE level
    /\ Hear(level')
    /\ idx' = idx + 1
    /\ cnt_one' = NextCount
    /\ IF Stuff THEN bit' = 0 /\ UNCHANGED byte
                ELSE byte' = byte \div 2 /\ bit' = (byte \div 2) % 2
    /\ UNCHANGED <<phase, flags, frame, noise, stops>>

FlagSentCounting ==
    /\ phase = "flag" /\ byte = 1
    /\ phase' = "ready"
    /\ frame' = <<>> /\ got' = <<>>
    /\ flags' = IF flags = 2 THEN 2 ELSE flags + 1
    /\ UNCHANGED <<sender, level, noise, stops, receiver>>

\* A flag has been sent: SP_SEND_FLAGS clears the count.
FlagSent ==
    /\ phase = "flag" /\ byte = 1
    /\ cnt_one' = 0
    /\ phase' = "ready"
    /\ frame' = <<>> /\ got' = <<>>
    /\ flags' = IF flags = 2 THEN 2 ELSE flags + 1
    /\ UNCHANGED <<byte, bit, idx, level, noise, stops, receiver>>

DataSent ==
    /\ phase = "data" /\ byte = 1
    /\ phase' = "ready"
    /\ UNCHANGED <<sender, level, flags, frame, noise, stops, receiver, got>>

\* The transmission ends, after a flag or, cut off, between two samples.
Stop ==
    /\ phase # "noise"
    /\ stops < MaxStops
    /\ stops' = stops + 1
    /\ phase' = "noise"
    /\ byte' = 1 /\ bit' = 0 /\ idx' = 0
    /\ flags' = 0 /\ frame' = <<>> /\ got' = <<>>
    /\ UNCHANGED <<cnt_one, level, noise, receiver>>

Next ==
    \/ \E v \in {0, 1} : Noise(v)
    \/ SendFlag \/ CloseFrame
    \/ \E b \in Byte : SendData(b)
    \/ SendBit \/ FlagSent \/ DataSent \/ Stop

Spec == Init /\ [][Next]_vars
-----------------------------------------------------------------------------
(* Properties *)

\* When the flag that ends a frame has been sent, the receiver has found the
\* frame, once, bit for bit: whatever bytes it is made of, whatever noise or
\* torn frame came before, and if the flag before it also ended another frame.
\* Only the first flag of a transmission does not count, as its first bit
\* depends on the tone that was heard before.  A frame longer than DATA_LEN has
\* not been found.
FrameFound ==
    (phase = "flag" /\ frame # <<>> /\ byte = 1 /\ flags = 2) =>
        got = IF Len(frame) <= DataLen THEN <<frame>> ELSE <<>>

\* Bits stuffed into a byte fit its DMA block, end mark included.
FitsBlock == phase \in {"data", "flag"} => idx <= ControlN
=============================================================================
