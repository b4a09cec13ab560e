------------------------- MODULE TransmitterProofs -------------------------
(***************************************************************************)
(* Theorems about the transmit state machine, for every set of frames,     *)
(* every size of the send queue (that a 16-bit length can count), of the   *)
(* DAC queue and of TXDELAY, and all times.                                *)
(*                                                                         *)
(* The invariant is built in layers, each of which uses those before it:   *)
(* Modes, how calibrate mode, its timer and the state of send() go         *)
(* together at every place of the main loop; Sender, which bytes of which  *)
(* frame are still in the send queue; KeepsUp, how much of the pipe is     *)
(* filled while a transmission goes on and the main loop was not late;     *)
(* Stream, that what is in the pipe and what the listener has made of it   *)
(* so far are pieces of the frames offered, in order; and Complete, that   *)
(* without a late main loop none of these pieces is missing.               *)
(*                                                                         *)
(* Two hypotheses appear.  ~UsbConsole: CALIBRATE is given on the UART     *)
(* terminal (with the USB console the agreement of mode and state fails,   *)
(* which TLC shows).  FastEnough: between two calls of send() no more than *)
(* half the pipe is played, and no more than the leading flags; a main     *)
(* loop that is later than that is covered by HeardAsQueued alone.         *)
(***************************************************************************)
EXTENDS Transmitter, SequenceTheorems, TLAPS

\* What the proofs use of the constants.
LEMMA Sizes ==
    /\ Radix \in Nat /\ Radix > 1
    /\ PipeLen \in Nat /\ PipeLen > 0 /\ TxDelayFlags \in Nat /\ TxDelayFlags > 0
    /\ SendQueueLen \in Nat /\ SendQueueLen <= Radix * Radix
    /\ SlotTime \in Nat /\ AxHang \subseteq Nat /\ CalTimeout \in Nat
    /\ MaxStall \in Nat /\ MaxLate \in Nat
<1>1. /\ Radix \in Nat \ {0, 1} /\ PipeLen \in Nat \ {0} /\ TxDelayFlags \in Nat \ {0}
      /\ SendQueueLen \in Nat /\ SendQueueLen <= Radix * Radix
      /\ SlotTime \in Nat /\ AxHang \subseteq Nat /\ CalTimeout \in Nat
      /\ MaxStall \in Nat /\ MaxLate \in Nat
  BY TransmitterAssumption, RadixAssumption, Zenon
<1> QED
  BY <1>1

LEMMA AgeCapNat == AgeCap \in Nat
<1>1. \E m \in {SlotTime} \cup AxHang : \A n \in {SlotTime} \cup AxHang : n <= m
  BY TransmitterAssumption
<1>2. AgeCap \in {SlotTime} \cup AxHang
  BY <1>1, Zenon DEF AgeCap
<1> QED
  BY <1>2, Sizes

\* A clock that stops at its cap.
LEMMA AgedInRange ==
    ASSUME NEW cap \in Nat, NEW a \in 0 .. cap, NEW tick \in BOOLEAN, NEW counts \in BOOLEAN
    PROVE  Aged(a, cap, tick, counts) \in 0 .. cap
BY DEF Aged

\* The two bytes of a length give it back, if it fits them.
LEMMA LengthBack ==
    ASSUME NEW n \in Nat, n < Radix * Radix
    PROVE  /\ LengthLo(n) \in Byte /\ LengthHi(n) \in Byte
           /\ LengthOf(LengthLo(n), LengthHi(n)) = n
<1>1. Radix \in Nat /\ Radix > 1
  BY RadixAssumption
<1>2. /\ n \div Radix \in Nat /\ n % Radix \in 0 .. Radix - 1
      /\ n = Radix * (n \div Radix) + (n % Radix)
  BY <1>1
<1>3. n \div Radix < Radix
  <2>1. SUFFICES ASSUME n \div Radix >= Radix PROVE FALSE
    BY <1>1, <1>2
  <2>2. Radix * (n \div Radix) >= Radix * Radix
    BY <1>1, <1>2, <2>1
  <2> QED
    BY <1>1, <1>2, <2>2
<1>4. (n \div Radix) % Radix = n \div Radix
  BY <1>1, <1>2, <1>3
<1> QED
  BY <1>1, <1>2, <1>3, <1>4 DEF LengthLo, LengthHi, LengthOf, Byte

\* A frame in the queue: its length, then its bytes.
LEMMA WireFacts ==
    ASSUME NEW f \in Frame
    PROVE  /\ f \in Seq(Byte) /\ Len(f) \in Nat /\ Len(f) >= 1
           /\ Wire(f) \in Seq(Byte) /\ Len(Wire(f)) = Len(f) + 2
           /\ Wire(f)[1] = LengthLo(Len(f)) /\ Wire(f)[2] = LengthHi(Len(f))
           /\ \A b \in 1 .. Len(f) : Wire(f)[b + 2] = f[b]
<1>1. f \in Seq(Byte) /\ f # <<>>
  BY TransmitterAssumption DEF Byte
<1>2. Len(f) \in Nat /\ Len(f) >= 1
  BY <1>1
<1>3. LengthLo(Len(f)) \in Byte /\ LengthHi(Len(f)) \in Byte
  <2>1. \A n \in Nat : n % Radix \in Byte /\ n \div Radix \in Nat
    BY Sizes DEF Byte
  <2> QED
    BY <1>2, <2>1, Zenon DEF LengthLo, LengthHi
<1> HIDE DEF LengthLo, LengthHi
<1>4. <<LengthLo(Len(f)), LengthHi(Len(f))>> \in Seq(Byte)
  BY <1>3
<1> QED
  BY <1>1, <1>2, <1>3, <1>4 DEF Wire

\* What send_byte is given.
LEMMA Chunks ==
    ASSUME NEW nrzi \in BOOLEAN, NEW b \in Byte
    PROVE  /\ [Flag EXCEPT !.nrzi = nrzi] = [kind |-> "flag", byte |-> 0, nrzi |-> nrzi]
           /\ [kind |-> "flag", byte |-> 0, nrzi |-> nrzi] \in Chunk
           /\ [kind |-> "data", byte |-> b, nrzi |-> nrzi] \in Chunk
           /\ Cal \in Chunk
<1>1. 0 \in Byte
  BY Sizes DEF Byte
<1>2. Chunk = TxChunk
  BY TransmitterAssumption
<1>3. [Flag EXCEPT !.nrzi = nrzi] = [kind |-> "flag", byte |-> 0, nrzi |-> nrzi]
  BY DEF Flag
<1> QED
  BY <1>1, <1>2, <1>3, Zenon DEF TxChunk, Cal

LEMMA AcceptTyped ==
    ASSUME PipeTypeOK, NEW c \in Chunk, Accept(c)
    PROVE  PipeTypeOK'
BY Sizes DEF PipeTypeOK, Accept, HasRoom

\* The byte fetched from a queue, and what is left.
LEMMA QueueTyped ==
    ASSUME NEW q \in Seq(Byte), q # <<>>
    PROVE  /\ Head(q) \in Byte /\ Tail(q) \in Seq(Byte) /\ Len(Tail(q)) <= Len(q)
           /\ Len(q) >= 3 =>
                /\ q[3] \in Byte /\ LengthOf(q[1], q[2]) \in Nat
                /\ SubSeq(q, 4, Len(q)) \in Seq(Byte) /\ Len(SubSeq(q, 4, Len(q))) <= Len(q)
<1>1. \A m, n \in Byte : LengthOf(m, n) \in Nat
  BY Sizes DEF Byte, LengthOf
<1>2. Len(q) >= 3 => q[1] \in Byte /\ q[2] \in Byte /\ q[3] \in Byte
  OBVIOUS
<1>3. Head(q) \in Byte /\ Tail(q) \in Seq(Byte) /\ Len(Tail(q)) <= Len(q)
  OBVIOUS
<1>4. Len(q) >= 3 => SubSeq(q, 4, Len(q)) \in Seq(Byte) /\ Len(SubSeq(q, 4, Len(q))) <= Len(q)
  OBVIOUS
<1> QED
  BY <1>1, <1>2, <1>3, <1>4, Zenon
-----------------------------------------------------------------------------
(* Types *)

\* Every variable keeps its type: the queue and the pipe stay within their sizes,
\* whatever these are, and each chunk is one of a flag, a byte or a tone.
THEOREM TypeCorrect == Spec => []TypeOK
<1>1. Init => TypeOK
  <2> SUFFICES ASSUME Init PROVE TypeOK
    OBVIOUS
  <2>1. PipeTypeOK
    <3>1. <<>> \in Seq(Chunk) /\ Len(<<>>) = 0
      OBVIOUS
    <3>2. Len(<<>>) <= PipeLen
      BY <3>1, Sizes
    <3> QED
      BY <3>1, <3>2, Zenon DEF Init, PipeInit, PipeTypeOK
  <2>2. rx \in [open : BOOLEAN, got : Seq(Byte)]
    <3>1. <<>> \in Seq(Byte)
      OBVIOUS
    <3> QED
      BY <3>1, Zenon DEF Init, Closed
  <2>3. 0 \in Byte /\ 0 \in 0 .. AgeCap /\ 0 \in 0 .. CalTimeout /\ 0 \in 0 .. MaxLate /\ 0 \in Int
    BY AgeCapNat, Sizes DEF Byte
  <2>4. <<>> \in Seq(Byte) /\ <<>> \in Seq(Frame) /\ Len(<<>>) <= SendQueueLen
    BY Sizes
  <2> QED
    BY <2>1, <2>2, <2>3, <2>4, Zenon DEF Init, TypeOK, SendState, Pc
<1>2. TypeOK /\ [Next]_vars => TypeOK'
  <2> SUFFICES ASSUME TypeOK, [Next]_vars PROVE TypeOK'
    OBVIOUS
  <2> USE DEF TypeOK, SendState, Pc, queueVars, stateVars, timeVars, calVars, airVars,
              pipeVars, sendRest, consoleRest, dmaRest, In, Continue, Break
  <2>1. ASSUME NEW f \in Frame, Put(f)
        PROVE  TypeOK'
    <3>1. send_queue' \in Seq(Byte) /\ Len(send_queue') <= SendQueueLen /\ offered' \in Seq(Frame)
      BY <2>1, WireFacts, Sizes DEF Put
    <3> QED
      BY <2>1, <3>1 DEF Put, PipeTypeOK
  <2>2. ASSUME NEW tick \in BOOLEAN, Receive(tick)
        PROVE  TypeOK'
    <3>1. age' \in 0 .. AgeCap /\ cal_age' \in 0 .. CalTimeout
      <4>1. /\ (send_state \in {"WAIT_SLOTTIME", "PTT_HANG"}) \in BOOLEAN
            /\ (send_state = "CALIBRATE") \in BOOLEAN
        OBVIOUS
      <4> QED
        BY <2>2, <4>1, AgedInRange, AgeCapNat, Sizes, Zenon DEF Receive
    <3> QED
      BY <2>2, <3>1, Sizes DEF Receive, PipeTypeOK
  <2>3. CASE Rest
    BY <2>3 DEF Rest, PipeTypeOK
  <2>4. CASE ExitCalibrate
    BY <2>4 DEF ExitCalibrate, PipeTypeOK
  <2>5. CASE Idle
    BY <2>5 DEF Idle, PipeTypeOK
  <2>6. CASE LeaveIdle
    BY <2>6 DEF LeaveIdle, PipeTypeOK
  <2>7. CASE WaitClrCh
    BY <2>7 DEF WaitClrCh, PipeTypeOK
  <2>8. CASE PersistencePass
    BY <2>8 DEF PersistencePass, PipeTypeOK
  <2>9. CASE PersistenceFail
    BY <2>9, AgeCapNat DEF PersistenceFail, PipeTypeOK
  <2>10. CASE WaitSlotTime
    BY <2>10 DEF WaitSlotTime, PipeTypeOK
  <2>11. CASE PttOn
    BY <2>11, Sizes DEF PttOn, PipeTypeOK
  <2>12. CASE SendByteFull
    BY <2>12 DEF SendByteFull, PipeTypeOK
  <2>13. CASE SendFlag
    <3>1. [Flag EXCEPT !.nrzi = do_nrzi] \in Chunk
      BY Chunks, Zenon DEF TypeOK
    <3>2. PipeTypeOK'
      BY <2>13, <3>1, AcceptTyped, Zenon DEF SendFlag, TypeOK
    <3> QED
      BY <2>13, <3>2 DEF SendFlag
  <2>14. CASE FlagsSent
    BY <2>14, AgeCapNat DEF FlagsSent, PipeTypeOK
  <2>15. CASE DataStart
    <3>1. Len(send_queue) >= 3 => send_queue # <<>>
      OBVIOUS
    <3>2. <<>> \in Seq(Byte) /\ Len(<<>>) = 0
      OBVIOUS
    <3>3. /\ send_len' \in Int /\ send_data' \in Byte
          /\ send_queue' \in Seq(Byte) /\ Len(send_queue') <= SendQueueLen
      <4>1. CASE Len(send_queue) >= 3
        <5>1. /\ send_queue[3] \in Byte /\ LengthOf(send_queue[1], send_queue[2]) \in Nat
              /\ SubSeq(send_queue, 4, Len(send_queue)) \in Seq(Byte)
              /\ Len(SubSeq(send_queue, 4, Len(send_queue))) <= Len(send_queue)
          BY <4>1, <3>1, QueueTyped, Zenon
        <5>2. /\ send_len' = LengthOf(send_queue[1], send_queue[2]) - 1
              /\ send_data' = send_queue[3]
              /\ send_queue' = SubSeq(send_queue, 4, Len(send_queue))
          BY <2>15, <4>1, Zenon DEF DataStart
        <5> QED
          BY <5>1, <5>2, Sizes, SMTT(30)
      <4>2. CASE ~(Len(send_queue) >= 3)
        BY <2>15, <4>2, <3>2, Sizes DEF DataStart
      <4> QED
        BY <4>1, <4>2
    <3> QED
      BY <2>15, <3>3, Zenon DEF DataStart, PipeTypeOK
  <2>16. CASE Data
    <3>1. [kind |-> "data", byte |-> send_data, nrzi |-> do_nrzi] \in Chunk
      BY Chunks, Zenon DEF TypeOK
    <3>2. PipeTypeOK'
      BY <2>16, <3>1, AcceptTyped, Zenon DEF Data, TypeOK
    <3>3. /\ send_len' \in Int /\ send_data' \in Byte
          /\ send_queue' \in Seq(Byte) /\ Len(send_queue') <= SendQueueLen
      <4>1. send_queue # <<>> =>
              /\ Head(send_queue) \in Byte /\ Tail(send_queue) \in Seq(Byte)
              /\ Len(Tail(send_queue)) <= Len(send_queue)
        BY QueueTyped, Zenon
      <4>2. CASE send_queue # <<>>
        <5>1. /\ send_queue' = Tail(send_queue) /\ send_data' = Head(send_queue)
              /\ send_len' = send_len - 1
          BY <2>16, <4>2, Zenon DEF Data
        <5> QED
          BY <4>1, <4>2, <5>1, Sizes
      <4>3. CASE send_queue = <<>>
        BY <2>16, <4>3 DEF Data
      <4> QED
        BY <4>2, <4>3
    <3> QED
      BY <2>16, <3>2, <3>3, Zenon DEF Data
  <2>17. CASE DataEnd
    <3>1. [kind |-> "data", byte |-> send_data, nrzi |-> do_nrzi] \in Chunk
      BY Chunks, Zenon DEF TypeOK
    <3>2. PipeTypeOK'
      BY <2>17, <3>1, AcceptTyped, Zenon DEF DataEnd, TypeOK
    <3> QED
      BY <2>17, <3>2 DEF DataEnd
  <2>18. CASE HangNext
    BY <2>18 DEF HangNext, PipeTypeOK
  <2>19. CASE HangOver
    BY <2>19 DEF HangOver, PipeTypeOK
  <2>20. CASE HangFlag
    <3>1. [Flag EXCEPT !.nrzi = do_nrzi] \in Chunk
      BY Chunks, Zenon DEF TypeOK
    <3>2. PipeTypeOK'
      BY <2>20, <3>1, AcceptTyped, Zenon DEF HangFlag, TypeOK
    <3> QED
      BY <2>20, <3>2 DEF HangFlag
  <2>21. CASE CalibrateTone
    <3>1. Cal \in Chunk
      BY Chunks, Zenon DEF TypeOK
    <3>2. PipeTypeOK'
      BY <2>21, <3>1, AcceptTyped, Zenon DEF CalibrateTone, TypeOK
    <3> QED
      BY <2>21, <3>2 DEF CalibrateTone
  <2>22. CASE CalibrateTimeout
    BY <2>22 DEF CalibrateTimeout, PipeTypeOK
  <2>23. CASE CalibrateOff
    BY <2>23 DEF CalibrateOff, PipeTypeOK
  <2>24. CASE SendStart
    BY <2>24, ZenonT(40) DEF SendStart, Key, PipeTypeOK
  <2>25. CASE DmaFinish
    BY <2>25 DEF DmaFinish, Finish, PipeTypeOK
  <2>26. CASE DmaAdvance
    <3>1. Head(pipe) \in Chunk /\ Tail(pipe) \in Seq(Chunk) /\ Len(Tail(pipe)) <= PipeLen
      BY <2>26, Sizes DEF DmaAdvance, PipeTypeOK, Advance
    <3>5. PipeTypeOK'
      BY <2>26, <3>1, Zenon DEF DmaAdvance, PipeTypeOK, Advance
    <3>2. Head(pipe).byte \in Byte
      BY <3>1, TransmitterAssumption, Zenon DEF TxChunk
    <3>3. rx' \in [open : BOOLEAN, got : Seq(Byte)]
      <4>1. ASSUME NEW b \in Byte
            PROVE  Append(rx.got, b) \in Seq(Byte)
        OBVIOUS
      <4>2. <<>> \in Seq(Byte)
        OBVIOUS
      <4>3. ASSUME NEW b \in Byte
            PROVE  [rx EXCEPT !.got = Append(@, b)] \in [open : BOOLEAN, got : Seq(Byte)]
        BY <4>1, Zenon
      <4>4. Closed \in [open : BOOLEAN, got : Seq(Byte)]
        BY <4>2, Zenon DEF Closed
      <4>5. [open |-> TRUE, got |-> <<>>] \in [open : BOOLEAN, got : Seq(Byte)]
        BY <4>2, Zenon
      <4>6. Listen(Head(pipe))
        BY <2>26, Zenon DEF DmaAdvance
      <4> QED
        BY <3>2, <4>3, <4>4, <4>5, <4>6, Zenon DEF Listen
    <3>4. stall' \in 0 .. MaxLate /\ late' \in BOOLEAN
      BY <2>26, Sizes DEF DmaAdvance, BlockStarts
    <3> QED
      BY <2>26, <3>3, <3>4, <3>5 DEF DmaAdvance
  <2>27. CASE DmaRelease
    <3>1. PipeTypeOK' /\ rx' \in [open : BOOLEAN, got : Seq(Byte)]
      <4>1. <<>> \in Seq(Byte)
        OBVIOUS
      <4> QED
        BY <2>27, <4>1, Zenon DEF DmaRelease, PipeTypeOK, Release, Closed
    <3>2. stall' \in 0 .. MaxLate /\ late' \in BOOLEAN
      BY <2>27, Sizes DEF DmaRelease, BlockStarts
    <3> QED
      BY <2>27, <3>1, <3>2 DEF DmaRelease
  <2>28. CASE CmdCalibrate
    <3>1. /\ send_state' = "CALIBRATE" /\ do_nrzi' = FALSE /\ calibrate_mode' = TRUE
          /\ cal_age' = 0 /\ UNCHANGED consoleRest
      BY <2>28, Zenon DEF CmdCalibrate
    <3>2. 0 \in 0 .. CalTimeout
      BY Sizes
    <3> QED
      BY <3>1, <3>2, Zenon DEF PipeTypeOK
  <2>29. CASE CtrlC
    BY <2>29, Sizes DEF CtrlC, ConsoleTurn, PipeTypeOK
  <2>30. CASE ToggleTone
    BY <2>30, Sizes DEF ToggleTone, ConsoleTurn, PipeTypeOK
  <2>31. CASE UNCHANGED vars
    BY <2>31 DEF vars, PipeTypeOK
  <2> HIDE DEF TypeOK
  <2> QED
    BY <2>1, <2>2, <2>3, <2>4, <2>5, <2>6, <2>7, <2>8, <2>9, <2>10, <2>11, <2>12, <2>13,
       <2>14, <2>15, <2>16,
       <2>17, <2>18, <2>19, <2>20, <2>21, <2>22, <2>23, <2>24, <2>25, <2>26, <2>27, <2>28, <2>29, <2>30, <2>31
       DEF Next, MainLoop, SendStep, Dma, Console
<1> QED
  BY <1>1, <1>2, PTL DEF Spec
-----------------------------------------------------------------------------
(* Calibrate mode *)

\* Calibrate mode and the state machine at every step.  CalibrateModeAgrees leaves
\* out the two steps of calibrate(); and it does not say that the state is still
\* IDLE when send() is about to leave it, on which the next step relies.
Modes ==
    /\ do_nrzi <=> ~calibrate_mode
    /\ send_state = "CALIBRATE" => calibrate_mode
    /\ calibrate_mode => \/ send_state \in {"CALIBRATE", "CALIBRATE_OFF"}
                         \/ pc = "calibrate" /\ send_state = "IDLE"
    /\ pc = "calibrate" => send_state \in {"IDLE", "CALIBRATE_OFF"}
    /\ pc = "idle" => send_state = "IDLE"

\* Modes holds at every step if CALIBRATE is not given on the USB console.
LEMMA ModesAlways ==
    ASSUME ~UsbConsole
    PROVE  Spec => []Modes
<1>1. Init => Modes
  BY Zenon DEF Init, Modes
<1>2. TypeOK /\ Modes /\ [Next]_vars => Modes'
  <2> SUFFICES ASSUME TypeOK, Modes, [Next]_vars PROVE Modes'
    OBVIOUS
  <2> USE DEF queueVars, stateVars, timeVars, calVars, sendRest, consoleRest, dmaRest, In,
              Continue, Break
  <2>1. ASSUME NEW f \in Frame, Put(f)
        PROVE  Modes'
    BY <2>1, Zenon DEF Put, Modes
  <2>2. ASSUME NEW tick \in BOOLEAN, Receive(tick)
        PROVE  Modes'
    BY <2>2, Zenon DEF Receive, Modes
  <2>3. CASE Rest
    BY <2>3 DEF Rest, Modes
  <2>4. CASE ExitCalibrate
    BY <2>4, Zenon DEF ExitCalibrate, Modes
  <2>5. CASE Idle
    BY <2>5, Zenon DEF Idle, Modes
  <2>6. CASE LeaveIdle
    BY <2>6, Zenon DEF LeaveIdle, Modes
  <2>7. CASE WaitClrCh
    BY <2>7, Zenon DEF WaitClrCh, Modes
  <2>8. CASE PersistencePass
    BY <2>8, Zenon DEF PersistencePass, Modes
  <2>9. CASE PersistenceFail
    BY <2>9, Zenon DEF PersistenceFail, Modes
  <2>10. CASE WaitSlotTime
    BY <2>10, Zenon DEF WaitSlotTime, Modes
  <2>11. CASE PttOn
    BY <2>11, Zenon DEF PttOn, Modes
  <2>12. CASE SendByteFull
    BY <2>12, Zenon DEF SendByteFull, Modes
  <2>13. CASE SendFlag
    BY <2>13, Zenon DEF SendFlag, Modes
  <2>14. CASE FlagsSent
    BY <2>14, Zenon DEF FlagsSent, Modes
  <2>15. CASE DataStart
    BY <2>15, Zenon DEF DataStart, Modes
  <2>16. CASE Data
    BY <2>16, Zenon DEF Data, Modes
  <2>17. CASE DataEnd
    BY <2>17, Zenon DEF DataEnd, Modes
  <2>18. CASE HangNext
    BY <2>18, Zenon DEF HangNext, Modes
  <2>19. CASE HangOver
    BY <2>19, Zenon DEF HangOver, Modes
  <2>20. CASE HangFlag
    BY <2>20, Zenon DEF HangFlag, Modes
  <2>21. CASE CalibrateTone
    BY <2>21, Zenon DEF CalibrateTone, Modes
  <2>22. CASE CalibrateTimeout
    BY <2>22, Zenon DEF CalibrateTimeout, Modes
  <2>23. CASE CalibrateOff
    BY <2>23, Zenon DEF CalibrateOff, Modes
  <2>24. CASE SendStart
    BY <2>24, Zenon DEF SendStart, Modes
  <2>25. CASE DmaFinish
    BY <2>25, Zenon DEF DmaFinish, Modes
  <2>26. CASE DmaAdvance
    BY <2>26, Zenon DEF DmaAdvance, Modes
  <2>27. CASE DmaRelease
    BY <2>27, Zenon DEF DmaRelease, Modes
  <2>28. CASE CmdCalibrate
    BY <2>28, Zenon DEF CmdCalibrate, Modes
  <2>29. CASE CtrlC
    BY <2>29, Zenon DEF CtrlC, Modes
  <2>30. CASE ToggleTone
    BY <2>30, Zenon DEF ToggleTone, Modes
  <2>31. CASE UNCHANGED vars
    BY <2>31, Zenon DEF vars, Modes
  <2> QED
    BY <2>1, <2>2, <2>3, <2>4, <2>5, <2>6, <2>7, <2>8, <2>9, <2>10, <2>11, <2>12, <2>13,
       <2>14, <2>15, <2>16,
       <2>17, <2>18, <2>19, <2>20, <2>21, <2>22, <2>23, <2>24, <2>25, <2>26, <2>27, <2>28, <2>29, <2>30, <2>31
       DEF Next, MainLoop, SendStep, Dma, Console
<1> QED
  BY <1>1, <1>2, TypeCorrect, PTL DEF Spec

\* What decides whether key strokes go to the command line agrees with the state
\* machine, whatever the sizes and times, as long as CALIBRATE is not given in the
\* USB interrupt, which may come between SP_IDLE's look at the queue and its
\* assignment of the state.
THEOREM CalibrateModeRight ==
    ASSUME ~UsbConsole
    PROVE  Spec => []CalibrateModeAgrees
<1>1. TypeOK /\ Modes => CalibrateModeAgrees
  BY Zenon DEF TypeOK, Modes, CalibrateModeAgrees
<1> QED
  BY <1>1, TypeCorrect, ModesAlways, PTL
-----------------------------------------------------------------------------
(* The frames in the queue *)

\* Byte s[j] + 1 of q is the first of frame j of off as it lies in the queue, for
\* the frames from i on; c bytes of frame i have been taken already.
Marks(q, off, i, c, s) ==
    /\ s[i] + c = 0
    /\ s[Len(off) + 1] = Len(q)
    /\ \A j \in i .. Len(off) : s[j + 1] = s[j] + Len(off[j]) + 2
    /\ \A j, k \in i .. Len(off) + 1 : j <= k => s[j] <= s[k]
    /\ \A j \in i .. Len(off) : \A b \in 1 .. Len(off[j]) + 2 :
         s[j] + b > 0 => q[s[j] + b] = Wire(off[j])[b]

\* The queue q holds what is left of the frames off[i], off[i + 1], ..., whole and
\* in order, and nothing else; c bytes of the first have been taken.
Lies(q, off, i, c) == \E s \in [i .. Len(off) + 1 -> Int] : Marks(q, off, i, c, s)

\* An empty queue holds nothing of frames not queued yet.
LEMMA LiesEmpty ==
    ASSUME NEW off \in Seq(Frame)
    PROVE  Lies(<<>>, off, Len(off) + 1, 0)
<1> DEFINE s == [j \in Len(off) + 1 .. Len(off) + 1 |-> 0]
<1>1. s \in [Len(off) + 1 .. Len(off) + 1 -> Int]
  OBVIOUS
<1>2. Marks(<<>>, off, Len(off) + 1, 0, s)
  BY DEF Marks
<1> QED
  BY <1>1, <1>2, Zenon DEF Lies

\* A frame queued lies behind the others.
LEMMA LiesPut ==
    ASSUME NEW q \in Seq(Byte), NEW off \in Seq(Frame), NEW f \in Frame,
           NEW i \in 1 .. Len(off) + 1, NEW c \in Nat, Lies(q, off, i, c)
    PROVE  Lies(q \o Wire(f), Append(off, f), i, c)
<1> DEFINE n == Len(off)
           m == Len(q)
           w == Wire(f)
           l == Len(f)
<1>1. PICK s \in [i .. n + 1 -> Int] : Marks(q, off, i, c, s)
  BY Zenon DEF Lies
<1>2. /\ n \in Nat /\ m \in Nat /\ l \in Nat /\ i \in 1 .. n + 1
      /\ \A j \in 1 .. n : Len(off[j]) \in Nat
  BY WireFacts
<1>3. \A j \in i .. n + 1 : s[j] \in Int
  BY <1>1
<1>4. s[i] + c = 0 /\ s[n + 1] = m
  BY <1>1, Zenon DEF Marks
<1>5. \A j \in i .. n : s[j + 1] = s[j] + Len(off[j]) + 2
  BY <1>1, Zenon DEF Marks
<1>6. \A j, k \in i .. n + 1 : j <= k => s[j] <= s[k]
  BY <1>1, Zenon DEF Marks
<1>7. \A j \in i .. n : \A b \in 1 .. Len(off[j]) + 2 :
        s[j] + b > 0 => q[s[j] + b] = Wire(off[j])[b]
  BY <1>1, Zenon DEF Marks
<1> DEFINE off2 == Append(off, f)
           q2 == q \o w
<1>8. /\ Len(off2) = n + 1 /\ off2[n + 1] = f
      /\ \A j \in 1 .. n : off2[j] = off[j]
  OBVIOUS
<1>9. /\ Len(q2) = m + l + 2
      /\ \A b \in 1 .. m : q2[b] = q[b]
      /\ \A b \in 1 .. l + 2 : q2[m + b] = w[b]
  <2>1. w \in Seq(Byte) /\ Len(w) = l + 2
    BY WireFacts
  <2>2. \A u, v \in Seq(Byte) :
          /\ Len(u \o v) = Len(u) + Len(v)
          /\ \A b \in 1 .. Len(u) : (u \o v)[b] = u[b]
          /\ \A b \in 1 .. Len(v) : (u \o v)[Len(u) + b] = v[b]
    OBVIOUS
  <2> HIDE DEF w
  <2>3. /\ Len(q2) = Len(q) + Len(w)
        /\ \A b \in 1 .. Len(q) : q2[b] = q[b]
        /\ \A b \in 1 .. Len(w) : q2[Len(q) + b] = w[b]
    BY <2>1, <2>2, Zenon
  <2> HIDE DEF q2, l
  <2> QED
    BY <1>2, <2>1, <2>3
<1> DEFINE s2 == [j \in i .. n + 2 |-> IF j = n + 2 THEN m + l + 2 ELSE s[j]]
<1> HIDE DEF n, m, l, w, off2, q2
<1>10. s2 \in [i .. n + 2 -> Int]
  BY <1>2, <1>3
<1>11. s2[n + 2] = m + l + 2 /\ \A j \in i .. n + 1 : s2[j] = s[j]
  BY <1>2
<1> HIDE DEF s2
<1>12. Marks(q2, off2, i, c, s2)
  <2>1. s2[i] + c = 0 /\ s2[n + 2] = Len(q2)
    BY <1>2, <1>4, <1>9, <1>11
  <2>2. ASSUME NEW j \in i .. n + 1
        PROVE  s2[j + 1] = s2[j] + Len(off2[j]) + 2
    <3>1. CASE j = n + 1
      BY <1>2, <1>4, <1>8, <1>11, <3>1 DEF l
    <3>2. CASE j # n + 1
      <4>1. j \in i .. n /\ j \in 1 .. n /\ j \in i .. n + 1 /\ j + 1 \in i .. n + 1
        BY <1>2, <3>2
      <4>2. s2[j + 1] = s[j + 1] /\ s2[j] = s[j] /\ off2[j] = off[j]
        BY <1>8, <1>11, <4>1
      <4> QED
        BY <1>5, <4>1, <4>2
    <3> QED
      BY <3>1, <3>2
  <2>3. ASSUME NEW j \in i .. n + 2, NEW k \in i .. n + 2, j <= k
        PROVE  s2[j] <= s2[k]
    <3>1. \A h \in i .. n + 1 : s[h] <= m
      BY <1>2, <1>4, <1>6
    <3>2. CASE k = n + 2
      <4>1. s2[k] = m + l + 2
        BY <1>11, <3>2
      <4>2. CASE j = n + 2
        BY <3>2, <4>2, <1>2, <4>1
      <4>3. CASE j # n + 2
        <5>1. j \in i .. n + 1
          BY <1>2, <4>3
        <5>2. s2[j] = s[j] /\ s[j] <= m /\ s[j] \in Int
          BY <1>3, <1>11, <3>1, <5>1
        <5> QED
          BY <1>2, <4>1, <5>2
      <4> QED
        BY <4>2, <4>3
    <3>3. CASE k # n + 2
      BY <1>2, <1>6, <1>11, <2>3, <3>3
    <3> QED
      BY <3>2, <3>3
  <2>4. ASSUME NEW j \in i .. n + 1, NEW b \in 1 .. Len(off2[j]) + 2, s2[j] + b > 0
        PROVE  q2[s2[j] + b] = Wire(off2[j])[b]
    <3>1. CASE j = n + 1
      BY <1>2, <1>4, <1>8, <1>9, <1>11, <3>1 DEF w, l
    <3>2. CASE j # n + 1
      <4>1. /\ j \in i .. n /\ j \in 1 .. n /\ j \in i .. n + 1 /\ j + 1 \in i .. n + 1
            /\ n + 1 \in i .. n + 1 /\ j + 1 <= n + 1
        BY <1>2, <3>2
      <4>2. off2[j] = off[j] /\ s2[j] = s[j] /\ s[j] \in Int /\ Len(off[j]) \in Nat
        BY <1>2, <1>3, <1>8, <1>11, <4>1
      <4>3. q[s[j] + b] = Wire(off[j])[b]
        BY <1>7, <2>4, <4>1, <4>2
      <4>4. s[j + 1] <= m /\ s[j + 1] = s[j] + Len(off[j]) + 2
        BY <1>4, <1>5, <1>6, <4>1
      <4>5. s[j] + b \in 1 .. m
        <5>1. b \in 1 .. Len(off[j]) + 2 /\ s[j] + b > 0
          BY <2>4, <4>2
        <5>2. b \in Nat /\ b <= Len(off[j]) + 2 /\ s[j] + Len(off[j]) + 2 <= m
          BY <4>2, <4>4, <5>1
        <5>3. \A x, y, z \in Int : y <= z + 2 /\ x + z + 2 <= m /\ x + y > 0 => x + y \in 1 .. m
          BY <1>2
        <5>4. /\ s[j] \in Int /\ b \in Int /\ Len(off[j]) \in Int
              /\ b <= Len(off[j]) + 2 /\ s[j] + Len(off[j]) + 2 <= m /\ s[j] + b > 0
          BY <4>2, <5>1, <5>2
        <5> QED
          BY <5>3, <5>4, Zenon
      <4> QED
        BY <1>9, <4>2, <4>3, <4>5
    <3> QED
      BY <3>1, <3>2
  <2>5. n + 2 = Len(off2) + 1 /\ n + 1 = Len(off2)
    BY <1>2, <1>8
  <2> QED
    BY <2>1, <2>2, <2>3, <2>4, <2>5, Zenon DEF Marks
<1>13. n + 2 = Len(off2) + 1
  BY <1>2, <1>8
<1> QED
  BY <1>10, <1>12, <1>13, Zenon DEF Lies, off2, q2, w

\* Taking d bytes of the first frame: they are there, they are its bytes, and what is
\* left is left as it was.
LEMMA LiesTake ==
    ASSUME NEW q \in Seq(Byte), NEW off \in Seq(Frame), NEW i \in 1 .. Len(off),
           NEW c \in Nat, NEW d \in Nat, c + d <= Len(off[i]) + 2, Lies(q, off, i, c)
    PROVE  /\ d <= Len(q)
           /\ \A b \in 1 .. d : q[b] = Wire(off[i])[c + b]
           /\ \A r \in Seq(Byte) :
                Len(r) = Len(q) - d /\ (\A b \in 1 .. Len(r) : r[b] = q[b + d])
                  => Lies(r, off, i, c + d)
<1> DEFINE n == Len(off)
           m == Len(q)
<1>1. PICK s \in [i .. n + 1 -> Int] : Marks(q, off, i, c, s)
  BY Zenon DEF Lies
<1>2. n \in Nat /\ i \in 1 .. n /\ m \in Nat /\ \A j \in 1 .. n : Len(off[j]) \in Nat
  BY WireFacts, SMTT(30)
<1>3. \A j \in i .. n + 1 : s[j] \in Int
  BY <1>1
<1>4. s[i] + c = 0 /\ s[n + 1] = m
  BY <1>1, Zenon DEF Marks
<1>5. \A j \in i .. n : s[j + 1] = s[j] + Len(off[j]) + 2
  BY <1>1, Zenon DEF Marks
<1>6. \A j, k \in i .. n + 1 : j <= k => s[j] <= s[k]
  BY <1>1, Zenon DEF Marks
<1>7. \A j \in i .. n : \A b \in 1 .. Len(off[j]) + 2 :
        s[j] + b > 0 => q[s[j] + b] = Wire(off[j])[b]
  BY <1>1, Zenon DEF Marks
<1> HIDE DEF n, m
<1>8. /\ i \in i .. n /\ i \in 1 .. n /\ i \in i .. n + 1 /\ i + 1 \in i .. n + 1
      /\ n + 1 \in i .. n + 1 /\ i + 1 <= n + 1
  BY <1>2
<1>9. d <= m
  <2>1. s[i + 1] = s[i] + Len(off[i]) + 2 /\ s[i + 1] <= m
    BY <1>4, <1>5, <1>6, <1>8
  <2>2. s[i] \in Int /\ Len(off[i]) \in Nat
    BY <1>2, <1>3, <1>8
  <2> QED
    BY <1>2, <1>4, <2>1, <2>2, SMTT(30)
<1>10. ASSUME NEW b \in 1 .. d
       PROVE  q[b] = Wire(off[i])[c + b]
  <2>1. s[i] \in Int /\ Len(off[i]) \in Nat
    BY <1>2, <1>3, <1>8
  <2>2. c + b \in 1 .. Len(off[i]) + 2 /\ s[i] + (c + b) = b
    BY <1>4, <2>1, SMTT(30)
  <2>3. s[i] + (c + b) > 0 => q[s[i] + (c + b)] = Wire(off[i])[c + b]
    BY <1>7, <1>8, <2>2
  <2> QED
    BY <2>2, <2>3
<1>11. ASSUME NEW r \in Seq(Byte), Len(r) = m - d, \A b \in 1 .. Len(r) : r[b] = q[b + d]
       PROVE  Lies(r, off, i, c + d)
  <2> DEFINE s2 == [j \in i .. n + 1 |-> s[j] - d]
  <2>1. s2 \in [i .. n + 1 -> Int] /\ \A j \in i .. n + 1 : s2[j] = s[j] - d
    BY <1>3
  <2> HIDE DEF s2
  <2>2. s2[i] + (c + d) = 0 /\ s2[n + 1] = Len(r)
    <3>1. s2[i] = s[i] - d /\ s2[n + 1] = s[n + 1] - d /\ s[i] \in Int /\ s[n + 1] \in Int
      BY <1>3, <1>8, <2>1
    <3> QED
      BY <1>2, <1>4, <1>11, <3>1
  <2>3. ASSUME NEW j \in i .. n
        PROVE  s2[j + 1] = s2[j] + Len(off[j]) + 2
    <3>1. /\ j \in 1 .. n /\ j \in i .. n + 1 /\ j + 1 \in i .. n + 1
      BY <1>2
    <3>2. /\ s[j + 1] = s[j] + Len(off[j]) + 2 /\ s[j] \in Int /\ Len(off[j]) \in Nat
          /\ s2[j + 1] = s[j + 1] - d /\ s2[j] = s[j] - d
      BY <1>2, <1>3, <1>5, <2>1, <3>1
    <3> QED
      BY <3>2, SMTT(30)
  <2>4. ASSUME NEW j \in i .. n + 1, NEW k \in i .. n + 1, j <= k
        PROVE  s2[j] <= s2[k]
    BY <1>3, <1>6, <2>1, <2>4
  <2>5. ASSUME NEW j \in i .. n, NEW b \in 1 .. Len(off[j]) + 2, s2[j] + b > 0
        PROVE  r[s2[j] + b] = Wire(off[j])[b]
    <3>1. /\ j \in 1 .. n /\ j \in i .. n + 1 /\ j + 1 \in i .. n + 1
          /\ n + 1 \in i .. n + 1 /\ j + 1 <= n + 1
      BY <1>2
    <3>2. s2[j] = s[j] - d /\ s[j] \in Int /\ Len(off[j]) \in Nat
      BY <1>2, <1>3, <2>1, <3>1
    <3>3. s[j + 1] = s[j] + Len(off[j]) + 2 /\ s[j + 1] <= m
      BY <1>4, <1>5, <1>6, <3>1
    <3>4. s2[j] + b \in 1 .. Len(r) /\ (s2[j] + b) + d = s[j] + b /\ s[j] + b > 0
      <4>1. Len(r) = m - d /\ s2[j] + b > 0 /\ b \in 1 .. Len(off[j]) + 2
        BY <1>11, <2>5
      <4>2. b \in Nat /\ b <= Len(off[j]) + 2 /\ s[j] + Len(off[j]) + 2 <= m
        BY <3>2, <3>3, <4>1
      <4>3. \A x, y, z \in Int : y <= z + 2 /\ x + z + 2 <= m /\ (x - d) + y > 0 =>
               (x - d) + y \in 1 .. m - d /\ ((x - d) + y) + d = x + y /\ x + y > 0
        BY <1>2
      <4>4. /\ s[j] \in Int /\ b \in Int /\ Len(off[j]) \in Int
            /\ b <= Len(off[j]) + 2 /\ s[j] + Len(off[j]) + 2 <= m /\ (s[j] - d) + b > 0
        BY <3>2, <4>1, <4>2
      <4>5. /\ (s[j] - d) + b \in 1 .. m - d /\ ((s[j] - d) + b) + d = s[j] + b /\ s[j] + b > 0
        BY <4>3, <4>4
      <4> QED
        BY <3>2, <4>1, <4>5
    <3>5. q[s[j] + b] = Wire(off[j])[b]
      BY <1>7, <3>4
    <3> QED
      BY <1>11, <3>4, <3>5
  <2>6. Marks(r, off, i, c + d, s2)
    BY <2>2, <2>3, <2>4, <2>5, Zenon DEF Marks, n
  <2> QED
    BY <2>1, <2>6, Zenon DEF Lies, n
<1> QED
  BY <1>9, <1>10, <1>11, Zenon DEF m

\* After the last byte of a frame comes the next frame.
LEMMA LiesNext ==
    ASSUME NEW q \in Seq(Byte), NEW off \in Seq(Frame), NEW i \in 1 .. Len(off),
           Lies(q, off, i, Len(off[i]) + 2)
    PROVE  Lies(q, off, i + 1, 0)
<1> DEFINE n == Len(off)
           c == Len(off[i]) + 2
<1>1. PICK s \in [i .. n + 1 -> Int] : Marks(q, off, i, c, s)
  BY Zenon DEF Lies
<1> DEFINE s2 == [j \in i + 1 .. n + 1 |-> s[j]]
<1>2. n \in Nat /\ Len(off[i]) \in Nat
  BY WireFacts
<1>3. s2 \in [i + 1 .. n + 1 -> Int]
  BY <1>2
<1>4. Marks(q, off, i + 1, 0, s2)
  <2>1. s2[i + 1] + 0 = 0 /\ s2[n + 1] = Len(q)
    BY <1>1, <1>2, SMTT(30) DEF Marks
  <2>2. \A j \in i + 1 .. n : s2[j + 1] = s2[j] + Len(off[j]) + 2
    BY <1>1, <1>2 DEF Marks
  <2>3. \A j, k \in i + 1 .. n + 1 : j <= k => s2[j] <= s2[k]
    BY <1>1, <1>2 DEF Marks
  <2>4. \A j \in i + 1 .. n : \A b \in 1 .. Len(off[j]) + 2 :
          s2[j] + b > 0 => q[s2[j] + b] = Wire(off[j])[b]
    BY <1>1, <1>2 DEF Marks
  <2> HIDE DEF s2
  <2> QED
    BY <2>1, <2>2, <2>3, <2>4, Zenon DEF Marks
<1> QED
  BY <1>3, <1>4, Zenon DEF Lies

\* What is in the queue is a frame that was queued.
LEMMA LiesSome ==
    ASSUME NEW q \in Seq(Byte), q # <<>>, NEW off \in Seq(Frame),
           NEW i \in 1 .. Len(off) + 1, Lies(q, off, i, 0)
    PROVE  i <= Len(off)
<1>1. PICK s \in [i .. Len(off) + 1 -> Int] : Marks(q, off, i, 0, s)
  BY Zenon DEF Lies
<1>2. Len(q) > 0 /\ Len(off) \in Nat
  OBVIOUS
<1>3. s[i] = 0 /\ s[Len(off) + 1] = Len(q)
  BY <1>1 DEF Marks
<1> QED
  BY <1>2, <1>3
-----------------------------------------------------------------------------
(* What send() has of the queue *)

\* Frame i of those offered is the next one, or the one being sent, of which
\* send_data is the byte to send now and send_len bytes come after it.
Sender(i) ==
    /\ i \in 1 .. Len(offered) + 1
    /\ send_state = "DATA" =>
         /\ i <= Len(offered)
         /\ send_len \in 0 .. Len(offered[i]) - 1
         /\ send_data = offered[i][Len(offered[i]) - send_len]
         /\ Lies(send_queue, offered, i, Len(offered[i]) - send_len + 2)
    /\ send_state # "DATA" => Lies(send_queue, offered, i, 0)

LEMMA SenderFrame ==
    ASSUME TypeOK, NEW i, Sender(i), i <= Len(offered)
    PROVE  i \in 1 .. Len(offered) /\ offered[i] \in Frame
           /\ Len(offered[i]) \in Nat /\ Len(offered[i]) >= 1
<1>1. i \in 1 .. Len(offered) /\ offered \in Seq(Frame)
  BY DEF Sender, TypeOK
<1> QED
  BY <1>1, WireFacts

\* SP_DATA_START finds a whole frame, or nothing.
LEMMA FrameThere ==
    ASSUME TypeOK, NEW i, Sender(i), send_state # "DATA", send_queue # <<>>
    PROVE  /\ i <= Len(offered) /\ Len(send_queue) >= Len(offered[i]) + 2
           /\ LengthOf(send_queue[1], send_queue[2]) = Len(offered[i])
           /\ send_queue[3] = offered[i][1]
           /\ Lies(SubSeq(send_queue, 4, Len(send_queue)), offered, i, 3)
<1>1. /\ send_queue \in Seq(Byte) /\ offered \in Seq(Frame) /\ Len(send_queue) <= SendQueueLen
      /\ i \in 1 .. Len(offered) + 1 /\ Lies(send_queue, offered, i, 0)
  BY DEF TypeOK, Sender
<1>2. i <= Len(offered)
  BY <1>1, LiesSome
<1> DEFINE f == offered[i]
<1>3. i \in 1 .. Len(offered) /\ f \in Frame /\ Len(f) \in Nat /\ Len(f) >= 1
  BY <1>2, SenderFrame
<1> HIDE DEF f
<1>4. Len(f) + 2 <= Len(send_queue)
  <2>1. 0 \in Nat /\ Len(f) + 2 \in Nat /\ 0 + (Len(f) + 2) <= Len(f) + 2
    BY <1>3
  <2> QED
    BY <1>1, <1>3, <2>1, LiesTake DEF f
<1>5. /\ \A b \in 1 .. 3 : send_queue[b] = Wire(f)[0 + b]
      /\ \A r \in Seq(Byte) :
           Len(r) = Len(send_queue) - 3 /\ (\A b \in 1 .. Len(r) : r[b] = send_queue[b + 3])
             => Lies(r, offered, i, 0 + 3)
  <2>1. 3 \in Nat /\ 0 \in Nat /\ 0 + 3 <= Len(f) + 2
    BY <1>3
  <2> QED
    BY <1>1, <1>3, <2>1, LiesTake, Zenon DEF f
<1>6. Lies(SubSeq(send_queue, 4, Len(send_queue)), offered, i, 3)
  <2> DEFINE r == SubSeq(send_queue, 4, Len(send_queue))
  <2>1. r \in Seq(Byte) /\ Len(r) = Len(send_queue) - 3
        /\ \A b \in 1 .. Len(r) : r[b] = send_queue[b + 3]
    <3>1. ASSUME NEW q \in Seq(Byte), Len(q) >= 3
          PROVE  /\ SubSeq(q, 4, Len(q)) \in Seq(Byte)
                 /\ Len(SubSeq(q, 4, Len(q))) = Len(q) - 3
                 /\ \A b \in 1 .. Len(SubSeq(q, 4, Len(q))) : SubSeq(q, 4, Len(q))[b] = q[b + 3]
      <4>1. /\ SubSeq(q, 4, Len(q)) \in Seq(Byte)
            /\ Len(SubSeq(q, 4, Len(q))) = Len(q) - 3
        <5>1. 4 \in 1 .. Len(q) + 1 /\ Len(q) \in Nat
          BY <3>1
        <5>2. Len(q) - 4 + 1 = Len(q) - 3
          BY <5>1
        <5> QED
          BY <3>1, <5>1, <5>2, SubSeqProperties
      <4>2. ASSUME NEW b \in 1 .. Len(q) - 3
            PROVE  SubSeq(q, 4, Len(q))[b] = q[b + 3]
        BY <3>1, <4>2
      <4> QED
        BY <4>1, <4>2
    <3>2. Len(send_queue) >= 3
      BY <1>1, <1>3, <1>4
    <3> QED
      BY <1>1, <3>1, <3>2, Zenon
  <2>2. 0 + 3 = 3
    OBVIOUS
  <2> HIDE DEF r
  <2>3. Lies(r, offered, i, 0 + 3)
    BY <1>5, <2>1, Zenon
  <2> QED
    BY <2>2, <2>3, Zenon DEF r
<1>7. /\ send_queue[1] = LengthLo(Len(f)) /\ send_queue[2] = LengthHi(Len(f))
      /\ send_queue[3] = f[1]
  <2>1. /\ send_queue[1] = Wire(f)[0 + 1] /\ send_queue[2] = Wire(f)[0 + 2]
        /\ send_queue[3] = Wire(f)[0 + 3]
    BY <1>5
  <2>2. 0 + 1 = 1 /\ 0 + 2 = 2 /\ 0 + 3 = 1 + 2 /\ 1 \in 1 .. Len(f)
    BY <1>3
  <2> QED
    BY <1>3, <2>1, <2>2, WireFacts, Zenon
<1>8. Len(f) < Radix * Radix
  BY <1>1, <1>3, <1>4, Sizes
<1> QED
  BY <1>2, <1>3, <1>4, <1>6, <1>7, <1>8, LengthBack, Zenon DEF f

\* SP_DATA finds the next byte of the frame.
LEMMA ByteThere ==
    ASSUME TypeOK, NEW i, Sender(i), send_state = "DATA", send_len > 0
    PROVE  /\ send_queue # <<>>
           /\ Head(send_queue) = offered[i][Len(offered[i]) - (send_len - 1)]
           /\ Lies(Tail(send_queue), offered, i, Len(offered[i]) - (send_len - 1) + 2)
<1> DEFINE f == offered[i]
           c == Len(f) - send_len + 2
<1>1. /\ send_queue \in Seq(Byte) /\ offered \in Seq(Frame)
      /\ i \in 1 .. Len(offered) /\ Lies(send_queue, offered, i, c)
      /\ send_len \in 1 .. Len(f) - 1
      /\ f \in Frame /\ Len(f) \in Nat /\ Len(f) >= 1
  <2>1. i <= Len(offered) /\ send_len \in 0 .. Len(f) - 1 /\ Lies(send_queue, offered, i, c)
    BY DEF Sender
  <2>2. send_queue \in Seq(Byte) /\ offered \in Seq(Frame)
    BY DEF TypeOK
  <2> QED
    BY <2>1, <2>2, SenderFrame
<1> HIDE DEF f, c
<1>2. c \in Nat /\ c + 1 <= Len(f) + 2 /\ 1 \in Nat /\ c + 1 = Len(f) - (send_len - 1) + 2
      /\ c + 1 = (Len(f) - (send_len - 1)) + 2 /\ Len(f) - (send_len - 1) \in 1 .. Len(f)
  BY <1>1 DEF c
<1>3. /\ 1 <= Len(send_queue)
      /\ \A b \in 1 .. 1 : send_queue[b] = Wire(f)[c + b]
      /\ \A r \in Seq(Byte) :
           Len(r) = Len(send_queue) - 1 /\ (\A b \in 1 .. Len(r) : r[b] = send_queue[b + 1])
             => Lies(r, offered, i, c + 1)
  BY <1>1, <1>2, LiesTake, Zenon DEF f
<1>4. send_queue # <<>> /\ Head(send_queue) = send_queue[1]
  BY <1>1, <1>3
<1>5. send_queue[1] = f[Len(f) - (send_len - 1)]
  <2>1. send_queue[1] = Wire(f)[c + 1]
    BY <1>3
  <2> QED
    BY <1>1, <1>2, <2>1, WireFacts, Zenon
<1>6. Lies(Tail(send_queue), offered, i, c + 1)
  <2> DEFINE r == Tail(send_queue)
  <2>1. r \in Seq(Byte) /\ Len(r) = Len(send_queue) - 1
        /\ \A b \in 1 .. Len(r) : r[b] = send_queue[b + 1]
    BY <1>1, <1>4
  <2> HIDE DEF r
  <2>2. Lies(r, offered, i, c + 1)
    BY <1>3, <2>1, Zenon
  <2> QED
    BY <2>2, Zenon DEF r
<1> QED
  BY <1>2, <1>4, <1>5, <1>6, Zenon DEF f

LEMMA SenderInit ==
    ASSUME Init
    PROVE  Sender(1)
<1>1. <<>> \in Seq(Frame) /\ Len(<<>>) = 0 /\ 0 + 1 = 1 /\ 1 \in 1 .. 0 + 1
  OBVIOUS
<1>2. Lies(<<>>, <<>>, 1, 0)
  BY <1>1, LiesEmpty, Zenon
<1>3. send_queue = <<>> /\ offered = <<>> /\ send_state = "IDLE"
  BY DEF Init
<1> QED
  BY <1>1, <1>2, <1>3, Zenon DEF Sender

\* Only the last byte of a frame moves send() on to the next one.
LEMMA SenderStep ==
    ASSUME TypeOK, Modes, [Next]_vars, NEW i, Sender(i)
    PROVE  /\ DataEnd => Sender(i + 1)'
           /\ ~DataEnd => Sender(i)'
<1> DEFINE Same == UNCHANGED <<send_queue, offered>>
<1>1. ASSUME Same, send_state # "DATA", send_state' # "DATA"
      PROVE  Sender(i)'
  BY <1>1, Zenon DEF Sender
<1>2. ASSUME Same, UNCHANGED <<send_state, send_len, send_data>>
      PROVE  Sender(i)'
  BY <1>2, Zenon DEF Sender
<1> HIDE DEF Same
<1> USE DEF queueVars, stateVars, timeVars, calVars, sendRest, consoleRest, dmaRest, In,
            Continue, Break
<1>3. ASSUME NEW f \in Frame, Put(f)
      PROVE  Sender(i)'
  <2>1. /\ send_queue \in Seq(Byte) /\ offered \in Seq(Frame)
        /\ send_queue' = send_queue \o Wire(f) /\ offered' = Append(offered, f)
        /\ UNCHANGED <<send_state, send_len, send_data>>
        /\ i \in 1 .. Len(offered) + 1
    BY <1>3, Zenon DEF Put, TypeOK, Sender
  <2>2. /\ i \in 1 .. Len(offered') + 1
        /\ i <= Len(offered) => i <= Len(offered') /\ offered'[i] = offered[i]
    BY <2>1
  <2>3. CASE send_state = "DATA"
    <3>1. /\ i <= Len(offered)
          /\ send_len \in 0 .. Len(offered[i]) - 1
          /\ send_data = offered[i][Len(offered[i]) - send_len]
          /\ Lies(send_queue, offered, i, Len(offered[i]) - send_len + 2)
      BY <2>3, Zenon DEF Sender
    <3>2. Len(offered[i]) - send_len + 2 \in Nat
      BY <3>1, SenderFrame
    <3>3. Lies(send_queue', offered', i, Len(offered[i]) - send_len + 2)
      BY <1>3, <2>1, <3>1, <3>2, LiesPut, Zenon
    <3> QED
      BY <2>1, <2>2, <2>3, <3>1, <3>3, Zenon DEF Sender
  <2>4. CASE send_state # "DATA"
    <3>1. Lies(send_queue', offered', i, 0)
      <4>1. 0 \in Nat /\ Lies(send_queue, offered, i, 0)
        BY <2>4 DEF Sender
      <4> QED
        BY <1>3, <2>1, <4>1, LiesPut, Zenon
    <3> QED
      BY <2>1, <2>2, <2>4, <3>1, Zenon DEF Sender
  <2> QED
    BY <2>3, <2>4
<1>4. ASSUME DataStart
      PROVE  Sender(i)'
  <2>1. (Same /\ send_state' = "IDLE") \/ Len(send_queue) >= 3
    <3>1. CASE send_queue = <<>>
      BY <1>4, <3>1 DEF DataStart, Same
    <3>2. CASE send_queue # <<>>
      <4>1. send_state # "DATA"
        BY <1>4, Zenon DEF DataStart
      <4>2. i <= Len(offered) /\ Len(send_queue) >= Len(offered[i]) + 2
        BY <3>2, <4>1, FrameThere
      <4>3. Len(offered[i]) \in Nat /\ Len(offered[i]) >= 1
        BY <4>2, SenderFrame
      <4>4. Len(send_queue) \in Nat
        BY DEF TypeOK
      <4> QED
        BY <4>2, <4>3, <4>4
    <3> QED
      BY <3>1, <3>2
  <2>2. CASE Len(send_queue) >= 3
    <3>1. send_state # "DATA" /\ send_queue # <<>>
      <4>1. send_queue # <<>>
        BY <2>2
      <4> QED
        BY <1>4, <4>1, Zenon DEF DataStart
    <3>2. /\ send_len' = LengthOf(send_queue[1], send_queue[2]) - 1
          /\ send_data' = send_queue[3] /\ send_state' = "DATA"
          /\ send_queue' = SubSeq(send_queue, 4, Len(send_queue)) /\ offered' = offered
      BY <1>4, <2>2, Zenon DEF DataStart
    <3>3. /\ i <= Len(offered) /\ send_len' = Len(offered[i]) - 1
          /\ send_data' = offered[i][1] /\ Lies(send_queue', offered, i, 3)
      BY <3>1, <3>2, FrameThere, Zenon
    <3>4. i \in 1 .. Len(offered) + 1 /\ Len(offered[i]) \in Nat /\ Len(offered[i]) >= 1
      BY <3>3, SenderFrame DEF Sender
    <3>5. /\ send_len' \in 0 .. Len(offered[i]) - 1
          /\ Len(offered[i]) - send_len' = 1 /\ Len(offered[i]) - send_len' + 2 = 3
      BY <3>3, <3>4
    <3> QED
      BY <3>2, <3>3, <3>4, <3>5, Zenon DEF Sender
  <2>3. CASE Same /\ send_state' = "IDLE"
    BY <1>1, <1>4, <2>3, Zenon DEF DataStart
  <2> QED
    BY <2>1, <2>2, <2>3
<1>5. ASSUME Data
      PROVE  Sender(i)'
  <2>1. send_state = "DATA" /\ send_len > 0 /\ offered' = offered
    BY <1>5, Zenon DEF Data
  <2>2. /\ send_queue # <<>>
        /\ Head(send_queue) = offered[i][Len(offered[i]) - (send_len - 1)]
        /\ Lies(Tail(send_queue), offered, i, Len(offered[i]) - (send_len - 1) + 2)
    BY <2>1, ByteThere, Zenon
  <2>3. /\ send_data' = Head(send_queue) /\ send_queue' = Tail(send_queue)
        /\ send_len' = send_len - 1 /\ send_state' = send_state
    BY <1>5, <2>2, Zenon DEF Data
  <2>4. /\ i \in 1 .. Len(offered) + 1 /\ i <= Len(offered)
        /\ send_len \in 0 .. Len(offered[i]) - 1
    BY <2>1, Zenon DEF Sender
  <2>5. send_len - 1 \in 0 .. Len(offered[i]) - 1
    BY <2>1, <2>4, SenderFrame
  <2> QED
    BY <2>1, <2>2, <2>3, <2>4, <2>5, Zenon DEF Sender
<1>6. ASSUME DataEnd
      PROVE  Sender(i + 1)'
  <2>1. /\ send_state = "DATA" /\ send_state' = "SEND_FLAGS" /\ send_len <= 0
        /\ send_queue' = send_queue /\ offered' = offered
    BY <1>6, Zenon DEF DataEnd
  <2>2. /\ i \in 1 .. Len(offered) /\ send_len \in 0 .. Len(offered[i]) - 1
        /\ Lies(send_queue, offered, i, Len(offered[i]) - send_len + 2)
    BY <2>1, SenderFrame DEF Sender
  <2>3. /\ Len(offered[i]) - send_len + 2 = Len(offered[i]) + 2
        /\ i + 1 \in 1 .. Len(offered) + 1
    BY <2>1, <2>2, SenderFrame
  <2>4. send_queue \in Seq(Byte) /\ offered \in Seq(Frame)
    BY DEF TypeOK
  <2>5. Lies(send_queue, offered, i + 1, 0)
    BY <2>2, <2>3, <2>4, LiesNext, Zenon
  <2> QED
    BY <2>1, <2>3, <2>5, Zenon DEF Sender
<1>7. ASSUME CtrlC
      PROVE  Sender(i)'
  <2>1. send_state # "DATA" /\ send_state' # "DATA"
    BY <1>7, Zenon DEF CtrlC, Modes
  <2> QED
    BY <1>1, <1>7, <2>1, Zenon DEF CtrlC, Same
<1>8. ASSUME Rest \/ Idle \/ LeaveIdle \/ WaitClrCh \/ PersistencePass
           \/ PersistenceFail \/ WaitSlotTime \/ PttOn \/ FlagsSent \/ HangNext \/ HangOver
           \/ CalibrateTimeout
      PROVE  Sender(i)'
  <2>1. /\ Same
        /\ UNCHANGED stateVars \/ (send_state # "DATA" /\ send_state' # "DATA")
    <3>1. pc = "idle" => send_state = "IDLE"
      BY DEF Modes
    <3> QED
      BY <1>8, <3>1, Zenon DEF Rest, Idle, LeaveIdle, WaitClrCh, PersistencePass,
         PersistenceFail, WaitSlotTime, PttOn, FlagsSent, HangNext, HangOver,
         CalibrateTimeout, Same
  <2> QED
    BY <1>1, <1>2, <2>1, Zenon
<1>9. ASSUME SendFlag \/ CmdCalibrate
      PROVE  Sender(i)'
  BY <1>1, <1>9, Zenon DEF SendFlag, CmdCalibrate, Same
<1>10. ASSUME (\E tick \in BOOLEAN : Receive(tick)) \/ ExitCalibrate \/ SendByteFull \/ HangFlag
            \/ CalibrateTone \/ CalibrateOff \/ SendStart \/ Dma \/ ToggleTone
            \/ UNCHANGED vars
       PROVE  Sender(i)'
  <2>1. Same /\ UNCHANGED stateVars
    BY <1>10, Zenon DEF Receive, ExitCalibrate, SendByteFull, HangFlag, CalibrateTone,
       CalibrateOff, SendStart, Dma, DmaFinish, DmaAdvance, DmaRelease, ToggleTone, vars, Same
  <2> QED
    BY <1>2, <2>1, Zenon
<1>11. Sender(i)' \/ DataEnd
  BY <1>3, <1>4, <1>5, <1>7, <1>8, <1>9, <1>10, Zenon DEF Next, MainLoop, SendStep, Console
<1> QED
  BY <1>6, <1>11
-----------------------------------------------------------------------------
(* Keeping the pipe filled *)

\* How late the main loop may be for the pipe not to run dry inside a transmission:
\* from a call of send() to the next half of the pipe may be played, and no more
\* than there are flags to begin with.
FastEnough == 2 * MaxStall <= PipeLen /\ MaxStall <= TxDelayFlags

Sending == {"SEND_FLAGS", "DATA_START", "DATA", "PTT_HANG"}

\* The flags before the first frame, in the call of send() that found the channel
\* clear; the flags still to come are as good as those in the pipe.
Leading ==
    /\ send_state = "SEND_FLAGS" /\ sensed /\ send_queue # <<>>
    /\ Len(pipe) + stall + send_len >= MaxStall

\* What is in the pipe, and was when this call began, lasts for MaxStall blocks.
Supplied == (keyed \/ sensed) /\ Len(pipe) + stall >= MaxStall

\* send_byte has found the pipe full.
Full == Len(pipe) + stall >= PipeLen

StallLate == stall > MaxStall => late
FlagsLeft == send_state = "SEND_FLAGS" => send_len >= 0
SomeQueued ==
    \/ pc = "idle"
    \/ send_state \in {"WAIT_CLR_CH", "P_PERSISTENCE", "WAIT_SLOTTIME", "PTT_ON", "DATA_START"}
    => send_queue # <<>>
HeardClear == send_state \in {"P_PERSISTENCE", "PTT_ON"} => pc = "send" /\ sensed
StartOf == pc \in {"start", "startEnd"} => send_state \in Sending \/ calibrate_mode
LeftFull == send_state \in Sending /\ pc \in {"startEnd", "rest", "receive"} => Full
LeftKeyed == send_state \in Sending /\ pc \in {"rest", "receive"} => keyed
HangKeyed ==
    \/ send_state = "PTT_HANG"
    \/ send_state = "SEND_FLAGS" /\ send_queue = <<>> /\ pc # "start"
    => keyed
OnlyTone == ~keyed /\ send_state \notin Sending => \A j \in 1 .. Len(pipe) : pipe[j].kind = "cal"

Control == StallLate /\ FlagsLeft /\ SomeQueued /\ HeardClear /\ StartOf
Fed == 
    /\ send_state \in Sending => Leading \/ Supplied
    /\ LeftFull /\ LeftKeyed /\ HangKeyed /\ OnlyTone

KeepsUp == Control /\ (~late => Fed)

LEMMA KeepsUpInit == Init => KeepsUp
BY Sizes DEF Init, PipeInit, KeepsUp, Control, Fed, StallLate, FlagsLeft, SomeQueued,
   HeardClear,
   StartOf, LeftFull, LeftKeyed, HangKeyed, OnlyTone, Sending

LEMMA KeepsUpStep ==
    ASSUME FastEnough, TypeOK, Modes, KeepsUp, NEW i, Sender(i), [Next]_vars
    PROVE  KeepsUp'
<1>1. /\ send_len \in Int /\ stall \in Nat /\ pipe \in Seq(Chunk) /\ Len(pipe) \in Nat
      /\ Len(pipe) <= PipeLen /\ send_queue \in Seq(Byte)
  BY Sizes DEF TypeOK, PipeTypeOK
<1>2. /\ pc = "calibrate" => send_state \in {"IDLE", "CALIBRATE_OFF"}
      /\ pc = "idle" => send_state = "IDLE"
      /\ calibrate_mode => send_state \in {"CALIBRATE", "CALIBRATE_OFF", "IDLE"}
      /\ send_state = "CALIBRATE" => calibrate_mode
  BY DEF Modes
<1> USE DEF queueVars, stateVars, timeVars, calVars, airVars, pipeVars, sendRest, consoleRest,
            dmaRest, In, Continue, Break
<1> USE DEF KeepsUp, Control, Fed, StallLate, FlagsLeft, SomeQueued, HeardClear, StartOf,
            LeftFull, LeftKeyed, HangKeyed, OnlyTone, Leading, Supplied, Full, Sending
<1>3. ASSUME NEW f \in Frame, Put(f)
      PROVE  KeepsUp'
  <2>1. send_queue' # <<>>
    BY <1>1, <1>3, WireFacts DEF Put
  <2> QED
    BY <1>1, <1>3, <2>1 DEF Put
<1>4. ASSUME NEW tick \in BOOLEAN, Receive(tick)
      PROVE  KeepsUp'
  BY <1>1, <1>4, Sizes DEF Receive, FastEnough
<1>5. CASE Rest
  BY <1>1, <1>5 DEF Rest
<1>6. CASE ExitCalibrate
  BY <1>1, <1>2, <1>6 DEF ExitCalibrate
<1>7. CASE Idle
  BY <1>1, <1>7 DEF Idle
<1>8. CASE LeaveIdle
  BY <1>1, <1>2, <1>8 DEF LeaveIdle
<1>9. CASE WaitClrCh
  BY <1>1, <1>9 DEF WaitClrCh
<1>10. CASE PersistencePass
  BY <1>1, <1>10 DEF PersistencePass
<1>11. CASE PersistenceFail
  BY <1>1, <1>11 DEF PersistenceFail
<1>12. CASE WaitSlotTime
  BY <1>1, <1>12 DEF WaitSlotTime
<1>13. CASE PttOn
  BY <1>1, <1>13, Sizes DEF PttOn, FastEnough
<1>14. CASE SendByteFull
  BY <1>1, <1>2, <1>14, Sizes DEF SendByteFull, HasRoom
<1>15. CASE SendFlag
  BY <1>1, <1>15, Sizes DEF SendFlag, Accept, HasRoom
<1>16. CASE FlagsSent
  BY <1>1, <1>16 DEF FlagsSent
<1>17. CASE DataStart
  <2>1. send_queue # <<>> /\ send_state # "DATA" /\ Len(send_queue) \in Nat
    BY <1>1, <1>17 DEF DataStart
  <2>2. i <= Len(offered) /\ Len(send_queue) >= Len(offered[i]) + 2
    BY <2>1, FrameThere, Zenon
  <2>3. Len(send_queue) >= 3
    BY <2>1, <2>2, SenderFrame
  <2>4. /\ send_state' = "DATA" /\ pc' = "send"
        /\ UNCHANGED <<stall, late, keyed, pipe, sensed, calibrate_mode>>
    BY <1>17, <2>3, Zenon DEF DataStart
  <2>5. send_state = "DATA_START"
    BY <1>17 DEF DataStart
  <2> QED
    BY <1>1, <2>4, <2>5
<1>18. CASE Data
  <2>1. send_queue # <<>>
    BY <1>18, ByteThere, Zenon DEF Data
  <2> QED
    BY <1>1, <1>18, <2>1, Sizes DEF Data, Accept, HasRoom
<1>19. CASE DataEnd
  BY <1>1, <1>19, Sizes DEF DataEnd, Accept, HasRoom
<1>20. CASE HangNext
  BY <1>1, <1>20 DEF HangNext
<1>21. CASE HangOver
  BY <1>1, <1>21 DEF HangOver
<1>22. CASE HangFlag
  BY <1>1, <1>22, Sizes DEF HangFlag, Accept, HasRoom
<1>23. CASE CalibrateTone
  <2>1. /\ pipe' = Append(pipe, Cal) /\ send_state = "CALIBRATE" /\ pc' = "rest"
        /\ UNCHANGED <<stall, late, keyed, sensed, calibrate_mode, send_state, send_len, send_queue>>
    BY <1>23, Zenon DEF CalibrateTone, Accept
  <2>2. Cal.kind = "cal"
    BY DEF Cal
  <2> HIDE DEF Cal
  <2>3. OnlyTone => OnlyTone'
    BY <1>1, <2>1, <2>2
  <2> QED
    BY <2>1, <2>3
<1>24. CASE CalibrateTimeout
  BY <1>1, <1>24 DEF CalibrateTimeout
<1>25. CASE CalibrateOff
  BY <1>1, <1>25 DEF CalibrateOff
<1>26. CASE SendStart
  BY <1>1, <1>26 DEF SendStart, Key
<1>27. CASE DmaFinish
  BY <1>1, <1>27 DEF DmaFinish, Finish
<1>28. CASE DmaAdvance
  <2>1. /\ stall < MaxLate /\ stall' = stall + 1 /\ late' = (late \/ stall >= MaxStall)
        /\ keyed /\ pipe # <<>> /\ pipe' = Tail(pipe)
        /\ UNCHANGED <<keyed, sensed, calibrate_mode, pc, send_state, send_len, send_queue>>
    BY <1>28, Zenon DEF DmaAdvance, BlockStarts, Advance
  <2>2. Len(pipe') = Len(pipe) - 1 /\ Len(pipe') + stall' = Len(pipe) + stall
    BY <1>1, <2>1
  <2>3. late => late'
    BY <2>1, Zenon
  <2>4. stall' > MaxStall => late'
    <3>1. stall' > MaxStall => stall >= MaxStall
      BY <1>1, <2>1, Sizes
    <3> QED
      BY <2>1, <3>1, Zenon
  <2>5. /\ keyed /\ keyed'
        /\ UNCHANGED <<sensed, calibrate_mode, pc, send_state, send_len, send_queue>>
    BY <2>1, Zenon
  <2> QED
    BY <1>1, <2>2, <2>3, <2>4, <2>5
<1>29. CASE DmaRelease
  <2>1. /\ stall' = stall + 1 /\ late' = (late \/ stall >= MaxStall)
        /\ pipe = <<>> /\ keyed' = FALSE
        /\ UNCHANGED <<pipe, sensed, calibrate_mode, pc, send_state, send_len, send_queue>>
    BY <1>29, Zenon DEF DmaRelease, BlockStarts, Release
  <2>2. Len(pipe) = 0 /\ Len(pipe') = 0 /\ pipe' = pipe
    BY <2>1
  <2>3. late => late'
    BY <2>1, Zenon
  <2>4. stall >= MaxStall => late'
    BY <2>1, Zenon
  <2>5. UNCHANGED <<sensed, calibrate_mode, pc, send_state, send_len, send_queue>>
    BY <2>1, Zenon
  <2> QED
    BY <1>1, <2>1, <2>2, <2>3, <2>4, <2>5, Sizes DEF FastEnough
<1>30. CASE CmdCalibrate
  BY <1>1, <1>30 DEF CmdCalibrate
<1>31. CASE CtrlC
  BY <1>1, <1>2, <1>31, Zenon DEF CtrlC
<1>32. CASE ToggleTone
  BY <1>1, <1>32 DEF ToggleTone
<1>33. CASE UNCHANGED vars
  BY <1>33 DEF vars
<1> QED
  BY <1>3, <1>4, <1>5, <1>6, <1>7, <1>8, <1>9, <1>10, <1>11, <1>12, <1>13, <1>14, <1>15,
     <1>16, <1>17, <1>18,
     <1>19, <1>20, <1>21, <1>22, <1>23, <1>24, <1>25, <1>26, <1>27, <1>28, <1>29, <1>30, <1>31, <1>32, <1>33
     DEF Next, MainLoop, SendStep, Dma, Console

SomeSender == \E i \in Nat : Sender(i)

LEMMA SenderAlways ==
    ASSUME ~UsbConsole
    PROVE  Spec => []SomeSender
<1>1. Init => SomeSender
  BY SenderInit, Zenon DEF SomeSender
<1>2. TypeOK /\ Modes /\ SomeSender /\ [Next]_vars => SomeSender'
  <2> SUFFICES ASSUME TypeOK, Modes, SomeSender, [Next]_vars
               PROVE  SomeSender'
    OBVIOUS
  <2>1. PICK i \in Nat : Sender(i)
    BY DEF SomeSender
  <2>2. Sender(i)' \/ Sender(i + 1)'
    BY <2>1, SenderStep, Zenon
  <2>3. i + 1 \in Nat
    OBVIOUS
  <2> QED
    BY <2>2, <2>3, Zenon DEF SomeSender
<1> QED
  BY <1>1, <1>2, TypeCorrect, ModesAlways, PTL DEF Spec

LEMMA KeepsUpAlways ==
    ASSUME ~UsbConsole, FastEnough
    PROVE  Spec => []KeepsUp
<1>1. TypeOK /\ Modes /\ SomeSender /\ KeepsUp /\ [Next]_vars => KeepsUp'
  <2> SUFFICES ASSUME TypeOK, Modes, SomeSender, KeepsUp, [Next]_vars
               PROVE  KeepsUp'
    OBVIOUS
  <2>1. PICK i \in Nat : Sender(i)
    BY DEF SomeSender
  <2> QED
    BY <2>1, KeepsUpStep, Zenon
<1> QED
  BY <1>1, KeepsUpInit, TypeCorrect, ModesAlways, SenderAlways, PTL DEF Spec

\* PTT comes on only in a call of send() that has found the channel clear, or for
\* CALIBRATE, for every length of the DAC queue and of TXDELAY, as long as the main
\* loop lets no more than half the queue be played between two calls of send().
THEOREM ListensBeforeKey ==
    ASSUME ~UsbConsole, FastEnough
    PROVE  Spec => ListenBeforeKey
<1>1. KeepsUp /\ [Next]_vars => [~keyed /\ keyed' => sensed \/ calibrate_mode \/ late]_vars
  <2> SUFFICES ASSUME KeepsUp, [Next]_vars, ~keyed, keyed'
               PROVE  sensed \/ calibrate_mode \/ late
    BY Zenon
  <2>1. pc \in {"start", "startEnd"}
    BY Zenon DEF Next, vars, MainLoop, SendStep, Dma, Console, Put, Receive, Rest,
       ExitCalibrate,
       Idle, LeaveIdle, WaitClrCh, PersistencePass, PersistenceFail, WaitSlotTime, PttOn,
       SendByteFull, SendFlag, FlagsSent, DataStart, Data, DataEnd, HangNext, HangOver, HangFlag,
       CalibrateTone, CalibrateTimeout, CalibrateOff, SendStart, DmaFinish, DmaAdvance,
       DmaRelease, CmdCalibrate, CtrlC, ToggleTone, Accept, Finish, Advance, Release,
       pipeVars, consoleRest
  <2> QED
    BY <2>1, Zenon DEF KeepsUp, Control, StartOf, Fed, Leading, Supplied
<1> QED
  BY <1>1, KeepsUpAlways, PTL DEF Spec, ListenBeforeKey

\* When the transmitter has come to rest nothing of a frame is left in the DAC queue,
\* for every length of the queue, as long as the main loop is not late.
THEOREM NothingIsStranded ==
    ASSUME ~UsbConsole, FastEnough
    PROVE  Spec => []NothingStranded
<1>1. TypeOK /\ KeepsUp => NothingStranded
  <2>1. "IDLE" \notin Sending
    BY DEF Sending
  <2> QED
    BY <2>1, Zenon DEF KeepsUp, Fed, OnlyTone, NothingStranded
<1> QED
  BY <1>1, TypeCorrect, KeepsUpAlways, PTL
-----------------------------------------------------------------------------
(* What is on its way to the listener *)

\* A place in the stream of frames: p bytes of frame f are past; between frames p is
\* 0 and f the last frame that is past.
Place(off, f, p) ==
    /\ f \in 0 .. Len(off) /\ p \in Nat
    /\ p > 0 => f > 0 /\ p <= Len(off[f])

\* Chunk c leads from one place to another: to the next byte of the same frame, to the
\* first byte of a later one, or, as a flag, from the end of a frame to between the
\* frames.
Leads(c, off, f0, p0, f1, p1) ==
    /\ c.kind = "data" =>
         /\ p1 = p0 + 1 /\ c.byte = off[f1][p1]
         /\ p0 = 0 => f1 > f0
         /\ p0 > 0 => f1 = f0
    /\ c.kind # "data" =>
         /\ p1 = 0 /\ f1 = f0
         /\ p0 > 0 => c.kind = "flag" /\ p0 = Len(off[f0])

\* Places for all the chunks of a pipe, and (number 0) for what has been played.
Places(pp, off, fr, pos) ==
    /\ fr \in [0 .. Len(pp) -> Nat] /\ pos \in [0 .. Len(pp) -> Nat]
    /\ \A j \in 0 .. Len(pp) : Place(off, fr[j], pos[j])
    /\ \A j \in 1 .. Len(pp) : Leads(pp[j], off, fr[j - 1], pos[j - 1], fr[j], pos[j])

\* A listener that is in a frame has what was played of it.
Got(r, off, f, p) ==
    r.open => Len(r.got) = p /\ \A b \in 1 .. p : r.got[b] = off[f][b]

\* The frames heard, by their numbers, are past.
Past(hd, off, which, f, p) ==
    /\ hd \in Seq(Frame) /\ which \in [1 .. Len(hd) -> Nat]
    /\ \A x \in 1 .. Len(hd) :
         /\ which[x] \in 1 .. Len(off) /\ hd[x] = off[which[x]]
         /\ which[x] <= f /\ (p > 0 => which[x] < f)
    /\ \A x, y \in 1 .. Len(hd) : x < y => which[x] < which[y]

\* The byte that send() has now comes next, or the next frame does.
SendsNext(i, fr, pos) ==
    LET f == fr[Len(pipe)]
        p == pos[Len(pipe)]
    IN  /\ p > 0 => \/ send_state = "DATA" /\ f = i /\ p + send_len + 1 = Len(offered[i])
                    \/ send_state = "SEND_FLAGS" /\ send_len > 0 /\ f < i /\ p = Len(offered[f])
        /\ p = 0 => f < i /\ (send_state = "DATA" => send_len + 1 = Len(offered[i]))

\* After the first j chunks the listener is in a frame or between two.
OpenAt(pp, r, j) == IF j = 0 THEN r.open ELSE pp[j].kind # "cal"

\* Nothing is missing from the pipe, nor has been missed by the listener.
Unbroken(pp, r, fr, pos) ==
    /\ pos[0] > 0 => r.open
    /\ \A j \in 1 .. Len(pp) :
         /\ pp[j].kind # "cal" => pp[j].nrzi
         /\ pp[j].kind = "data" => OpenAt(pp, r, j - 1) /\ (pos[j - 1] = 0 => fr[j] = fr[j - 1] + 1)

\* Every frame that is past was heard.
AllHeard(hd, which, f, p) ==
    /\ Len(hd) = IF p = 0 THEN f ELSE f - 1
    /\ \A x \in 1 .. Len(hd) : which[x] = x

\* The next byte of a frame may come.
Ready ==
    \/ send_state \in {"DATA_START", "DATA", "PTT_HANG"}
    \/ send_state = "SEND_FLAGS" /\ send_len <= 0

\* send() has left nothing out, and a flag comes before the next frame.
NoneLeftOut(i, fr, pos) ==
    LET f == fr[Len(pipe)]
        p == pos[Len(pipe)]
    IN  /\ p = 0 => i = f + 1
        /\ p > 0 => Len(pipe) + stall >= MaxStall
        /\ p > 0 /\ send_state = "SEND_FLAGS" => i = f + 1
        /\ Ready => OpenAt(pipe, rx, Len(pipe))

Stream(i, fr, pos, which) ==
    /\ Sender(i)
    /\ Places(pipe, offered, fr, pos)
    /\ Got(rx, offered, fr[0], pos[0])
    /\ Past(heard, offered, which, fr[0], pos[0])
    /\ SendsNext(i, fr, pos)

Complete(i, fr, pos, which) ==
    /\ Unbroken(pipe, rx, fr, pos)
    /\ AllHeard(heard, which, fr[0], pos[0])
    /\ NoneLeftOut(i, fr, pos)

Ext(g, n, v) == [j \in 0 .. n + 1 |-> IF j = n + 1 THEN v ELSE g[j]]
Shift(g, n) == [j \in 0 .. n - 1 |-> g[j + 1]]

LEMMA ExtFacts ==
    ASSUME NEW n \in Nat, NEW g \in [0 .. n -> Nat], NEW v \in Nat
    PROVE  /\ Ext(g, n, v) \in [0 .. n + 1 -> Nat]
           /\ Ext(g, n, v)[n + 1] = v
           /\ \A j \in 0 .. n : Ext(g, n, v)[j] = g[j]
BY DEF Ext

LEMMA ShiftFacts ==
    ASSUME NEW n \in Nat, n > 0, NEW g \in [0 .. n -> Nat]
    PROVE  /\ Shift(g, n) \in [0 .. n - 1 -> Nat]
           /\ \A j \in 0 .. n - 1 : Shift(g, n)[j] = g[j + 1]
BY DEF Shift

LEMMA AppendFacts ==
    ASSUME NEW pp \in Seq(Chunk), NEW c \in Chunk
    PROVE  /\ Append(pp, c) \in Seq(Chunk) /\ Len(Append(pp, c)) = Len(pp) + 1
           /\ Append(pp, c)[Len(pp) + 1] = c
           /\ \A j \in 1 .. Len(pp) : Append(pp, c)[j] = pp[j]
OBVIOUS

LEMMA TailFacts ==
    ASSUME NEW pp \in Seq(Chunk), pp # <<>>
    PROVE  /\ Len(pp) \in Nat /\ Len(pp) > 0 /\ Head(pp) = pp[1] /\ pp[1] \in Chunk
           /\ Tail(pp) \in Seq(Chunk) /\ Len(Tail(pp)) = Len(pp) - 1
           /\ \A j \in 1 .. Len(pp) - 1 : Tail(pp)[j] = pp[j + 1]
OBVIOUS

\* A chunk put into the pipe.
LEMMA PlacesAccept ==
    ASSUME NEW pp \in Seq(Chunk), NEW c \in Chunk, NEW off, NEW fr, NEW pos,
           Places(pp, off, fr, pos), NEW f, NEW p, Place(off, f, p), f \in Nat,
           Leads(c, off, fr[Len(pp)], pos[Len(pp)], f, p)
    PROVE  Places(Append(pp, c), off, Ext(fr, Len(pp), f), Ext(pos, Len(pp), p))
<1> DEFINE n == Len(pp)
           fr2 == Ext(fr, n, f)
           pos2 == Ext(pos, n, p)
           pp2 == Append(pp, c)
<1>1. n \in Nat /\ p \in Nat /\ fr \in [0 .. n -> Nat] /\ pos \in [0 .. n -> Nat]
  BY DEF Places, Place
<1>2. /\ fr2 \in [0 .. n + 1 -> Nat] /\ fr2[n + 1] = f /\ \A j \in 0 .. n : fr2[j] = fr[j]
      /\ pos2 \in [0 .. n + 1 -> Nat] /\ pos2[n + 1] = p /\ \A j \in 0 .. n : pos2[j] = pos[j]
  <2> HIDE DEF n
  <2>1. /\ fr2 \in [0 .. n + 1 -> Nat] /\ fr2[n + 1] = f /\ \A j \in 0 .. n : fr2[j] = fr[j]
    BY <1>1 DEF Ext
  <2>2. /\ pos2 \in [0 .. n + 1 -> Nat] /\ pos2[n + 1] = p /\ \A j \in 0 .. n : pos2[j] = pos[j]
    BY <1>1 DEF Ext
  <2> QED
    BY <2>1, <2>2
<1>3. Len(pp2) = n + 1 /\ pp2[n + 1] = c /\ \A j \in 1 .. n : pp2[j] = pp[j]
  BY AppendFacts, Zenon
<1> HIDE DEF fr2, pos2, pp2, n
<1>4. ASSUME NEW j \in 0 .. n + 1
      PROVE  Place(off, fr2[j], pos2[j])
  <2>1. CASE j = n + 1
    BY <1>2, <2>1, Zenon
  <2>2. CASE j # n + 1
    <3>1. j \in 0 .. n
      BY <1>1, <2>2
    <3> QED
      BY <1>2, <3>1, Zenon DEF Places, n
  <2> QED
    BY <2>1, <2>2
<1>5. ASSUME NEW j \in 1 .. n + 1
      PROVE  Leads(pp2[j], off, fr2[j - 1], pos2[j - 1], fr2[j], pos2[j])
  <2>1. j - 1 \in 0 .. n
    BY <1>1
  <2>2. CASE j = n + 1
    <3>1. j - 1 = n
      BY <1>1, <2>2
    <3> QED
      BY <1>2, <1>3, <2>1, <2>2, <3>1, Zenon DEF n
  <2>3. CASE j # n + 1
    <3>1. j \in 0 .. n /\ j \in 1 .. n
      BY <1>1, <2>3
    <3> QED
      BY <1>2, <1>3, <2>1, <3>1, Zenon DEF Places, n
  <2> QED
    BY <2>2, <2>3
<1>6. Places(pp2, off, fr2, pos2)
  BY <1>2, <1>3, <1>4, <1>5, Zenon DEF Places
<1> QED
  BY <1>6, Zenon DEF fr2, pos2, pp2, n

LEMMA UnbrokenAccept ==
    ASSUME NEW pp \in Seq(Chunk), NEW c \in Chunk, NEW r,
           NEW fr \in [0 .. Len(pp) -> Nat], NEW pos \in [0 .. Len(pp) -> Nat],
           Unbroken(pp, r, fr, pos), NEW f \in Nat, NEW p \in Nat,
           c.kind # "cal" => c.nrzi,
           c.kind = "data" =>
             OpenAt(pp, r, Len(pp)) /\ (pos[Len(pp)] = 0 => f = fr[Len(pp)] + 1)
    PROVE  Unbroken(Append(pp, c), r, Ext(fr, Len(pp), f), Ext(pos, Len(pp), p))
<1> DEFINE n == Len(pp)
           fr2 == Ext(fr, n, f)
           pos2 == Ext(pos, n, p)
           pp2 == Append(pp, c)
<1>1. n \in Nat /\ 0 \in 0 .. n
  OBVIOUS
<1>2. /\ fr2[n + 1] = f /\ \A j \in 0 .. n : fr2[j] = fr[j]
      /\ pos2[n + 1] = p /\ \A j \in 0 .. n : pos2[j] = pos[j]
  <2>1. fr \in [0 .. n -> Nat] /\ pos \in [0 .. n -> Nat]
    OBVIOUS
  <2> HIDE DEF n
  <2>2. fr2[n + 1] = f /\ \A j \in 0 .. n : fr2[j] = fr[j]
    BY <1>1, <2>1 DEF Ext
  <2>3. pos2[n + 1] = p /\ \A j \in 0 .. n : pos2[j] = pos[j]
    BY <1>1, <2>1 DEF Ext
  <2> QED
    BY <2>2, <2>3
<1>3. Len(pp2) = n + 1 /\ pp2[n + 1] = c /\ \A j \in 1 .. n : pp2[j] = pp[j]
  BY AppendFacts, Zenon
<1> HIDE DEF fr2, pos2, pp2, n
<1>4. pos2[0] > 0 => r.open
  BY <1>1, <1>2, Zenon DEF Unbroken
<1>5. ASSUME NEW j \in 0 .. n
      PROVE  OpenAt(pp2, r, j) <=> OpenAt(pp, r, j)
  <2>1. j = 0 \/ j \in 1 .. n
    BY <1>1
  <2> QED
    BY <1>3, <2>1, Zenon DEF OpenAt
<1>6. ASSUME NEW j \in 1 .. n + 1
      PROVE  /\ pp2[j].kind # "cal" => pp2[j].nrzi
             /\ pp2[j].kind = "data" =>
                  OpenAt(pp2, r, j - 1) /\ (pos2[j - 1] = 0 => fr2[j] = fr2[j - 1] + 1)
  <2>1. j - 1 \in 0 .. n
    BY <1>1
  <2>2. CASE j = n + 1
    <3>1. j - 1 = n
      BY <1>1, <2>2
    <3> QED
      BY <1>2, <1>3, <1>5, <2>1, <2>2, <3>1 DEF n
  <2>3. CASE j # n + 1
    <3>1. j \in 0 .. n /\ j \in 1 .. n
      BY <1>1, <2>3
    <3> QED
      BY <1>2, <1>3, <1>5, <2>1, <3>1 DEF Unbroken, n
  <2> QED
    BY <2>2, <2>3
<1>7. Unbroken(pp2, r, fr2, pos2)
  BY <1>3, <1>4, <1>6, Zenon DEF Unbroken
<1> QED
  BY <1>7, Zenon DEF fr2, pos2, pp2, n

\* A chunk taken from the pipe.
LEMMA PlacesAdvance ==
    ASSUME NEW pp \in Seq(Chunk), pp # <<>>, NEW off, NEW fr, NEW pos,
           Places(pp, off, fr, pos)
    PROVE  Places(Tail(pp), off, Shift(fr, Len(pp)), Shift(pos, Len(pp)))
<1> DEFINE n == Len(pp)
           fr2 == Shift(fr, n)
           pos2 == Shift(pos, n)
           pp2 == Tail(pp)
<1>1. n \in Nat /\ n > 0 /\ Len(pp2) = n - 1 /\ \A j \in 1 .. n - 1 : pp2[j] = pp[j + 1]
  BY TailFacts, Zenon
<1>2. fr \in [0 .. n -> Nat] /\ pos \in [0 .. n -> Nat]
  BY DEF Places
<1>3. /\ fr2 \in [0 .. n - 1 -> Nat] /\ \A j \in 0 .. n - 1 : fr2[j] = fr[j + 1]
      /\ pos2 \in [0 .. n - 1 -> Nat] /\ \A j \in 0 .. n - 1 : pos2[j] = pos[j + 1]
  BY <1>1, <1>2, ShiftFacts, Zenon
<1> HIDE DEF fr2, pos2, pp2, n
<1>4. ASSUME NEW j \in 0 .. n - 1
      PROVE  Place(off, fr2[j], pos2[j])
  <2>1. j + 1 \in 0 .. n
    BY <1>1
  <2> QED
    BY <1>3, <2>1, Zenon DEF Places, n
<1>5. ASSUME NEW j \in 1 .. n - 1
      PROVE  Leads(pp2[j], off, fr2[j - 1], pos2[j - 1], fr2[j], pos2[j])
  <2>1. j + 1 \in 1 .. n /\ j \in 0 .. n - 1 /\ j - 1 \in 0 .. n - 1
        /\ (j + 1) - 1 = j /\ (j - 1) + 1 = j
    BY <1>1
  <2>2. Leads(pp[j + 1], off, fr[j], pos[j], fr[j + 1], pos[j + 1])
    BY <2>1 DEF Places, n
  <2> QED
    BY <1>1, <1>3, <2>1, <2>2, Zenon
<1>6. Places(pp2, off, fr2, pos2)
  BY <1>1, <1>3, <1>4, <1>5, Zenon DEF Places
<1> QED
  BY <1>6, Zenon DEF fr2, pos2, pp2, n

LEMMA UnbrokenAdvance ==
    ASSUME NEW pp \in Seq(Chunk), pp # <<>>, NEW r, NEW r2, NEW off, NEW fr, NEW pos,
           Places(pp, off, fr, pos), Unbroken(pp, r, fr, pos),
           r2.open <=> pp[1].kind # "cal"
    PROVE  Unbroken(Tail(pp), r2, Shift(fr, Len(pp)), Shift(pos, Len(pp)))
<1> DEFINE n == Len(pp)
           fr2 == Shift(fr, n)
           pos2 == Shift(pos, n)
           pp2 == Tail(pp)
<1>1. n \in Nat /\ n > 0 /\ Len(pp2) = n - 1 /\ \A j \in 1 .. n - 1 : pp2[j] = pp[j + 1]
  BY TailFacts, Zenon
<1>2. fr \in [0 .. n -> Nat] /\ pos \in [0 .. n -> Nat]
  BY DEF Places
<1>3. /\ \A j \in 0 .. n - 1 : fr2[j] = fr[j + 1]
      /\ \A j \in 0 .. n - 1 : pos2[j] = pos[j + 1]
  BY <1>1, <1>2, ShiftFacts, Zenon
<1>4. Leads(pp[1], off, fr[0], pos[0], fr[1], pos[1])
  <2>1. 1 \in 1 .. n /\ 1 - 1 = 0
    BY <1>1
  <2> QED
    BY <2>1, Zenon DEF Places
<1> HIDE DEF fr2, pos2, pp2, n
<1>5. pos2[0] > 0 => r2.open
  <2>1. pos2[0] = pos[1] /\ pos[1] \in Nat
    BY <1>1, <1>2, <1>3
  <2>2. pos[1] > 0 => pos[1] # 0
    BY <2>1
  <2>3. pp[1].kind # "data" => pos[1] = 0
    BY <1>4, Zenon DEF Leads
  <2> QED
    BY <2>1, <2>2, <2>3, Zenon
<1>6. ASSUME NEW j \in 0 .. n - 1
      PROVE  OpenAt(pp2, r2, j) <=> OpenAt(pp, r, j + 1)
  <2>1. (j = 0 \/ j \in 1 .. n - 1) /\ j + 1 # 0 /\ (j = 0 => j + 1 = 1) /\ (j \in 1 .. n - 1 => j # 0)
    BY <1>1
  <2> QED
    BY <1>1, <2>1, Zenon DEF OpenAt
<1>7. ASSUME NEW j \in 1 .. n - 1
      PROVE  /\ pp2[j].kind # "cal" => pp2[j].nrzi
             /\ pp2[j].kind = "data" =>
                  OpenAt(pp2, r2, j - 1) /\ (pos2[j - 1] = 0 => fr2[j] = fr2[j - 1] + 1)
  <2>1. j + 1 \in 1 .. n /\ j \in 0 .. n - 1 /\ j - 1 \in 0 .. n - 1
        /\ (j + 1) - 1 = j /\ (j - 1) + 1 = j
    BY <1>1
  <2>2. /\ pp[j + 1].kind # "cal" => pp[j + 1].nrzi
        /\ pp[j + 1].kind = "data" =>
             OpenAt(pp, r, (j + 1) - 1) /\ (pos[(j + 1) - 1] = 0 => fr[j + 1] = fr[(j + 1) - 1] + 1)
    BY <2>1, Zenon DEF Unbroken, n
  <2> QED
    BY <1>1, <1>3, <1>6, <2>1, <2>2
<1>8. Unbroken(pp2, r2, fr2, pos2)
  BY <1>1, <1>5, <1>7, Zenon DEF Unbroken
<1> QED
  BY <1>8, Zenon DEF fr2, pos2, pp2, n

\* A frame queued changes nothing of what is past.
LEMMA StreamPut ==
    ASSUME NEW off \in Seq(Frame), NEW g \in Frame, NEW pp, NEW fr, NEW pos,
           Places(pp, off, fr, pos), NEW r, NEW hd, NEW which, Len(pp) \in Nat,
           Got(r, off, fr[0], pos[0]), Past(hd, off, which, fr[0], pos[0])
    PROVE  /\ Places(pp, Append(off, g), fr, pos)
           /\ Got(r, Append(off, g), fr[0], pos[0])
           /\ Past(hd, Append(off, g), which, fr[0], pos[0])
<1> DEFINE off2 == Append(off, g)
           n == Len(off)
<1>1. /\ n \in Nat /\ Len(off2) = n + 1 /\ \A k \in 1 .. n : off2[k] = off[k]
  OBVIOUS
<1> HIDE DEF off2, n
<1>2. fr \in [0 .. Len(pp) -> Nat] /\ pos \in [0 .. Len(pp) -> Nat]
  BY DEF Places
<1>3. ASSUME NEW j \in 0 .. Len(pp)
      PROVE  /\ Place(off2, fr[j], pos[j])
             /\ pos[j] > 0 => off2[fr[j]] = off[fr[j]]
  <2>1. Place(off, fr[j], pos[j])
    BY DEF Places
  <2>2. pos[j] > 0 => fr[j] \in 1 .. n
    BY <1>1, <1>2, <2>1 DEF Place, n
  <2>3. fr[j] \in 0 .. n + 1
    BY <1>1, <1>2, <2>1 DEF Place, n
  <2> QED
    BY <1>1, <2>1, <2>2, <2>3, Zenon DEF Place
<1>4. ASSUME NEW j \in 1 .. Len(pp)
      PROVE  Leads(pp[j], off2, fr[j - 1], pos[j - 1], fr[j], pos[j])
  <2>1. Leads(pp[j], off, fr[j - 1], pos[j - 1], fr[j], pos[j])
    BY DEF Places
  <2>2. j - 1 \in 0 .. Len(pp) /\ j \in 0 .. Len(pp)
    OBVIOUS
  <2>3. pos[j - 1] \in Nat /\ pos[j] \in Nat
    BY <1>2, <2>2
  <2>4. pp[j].kind = "data" => pos[j] > 0
    BY <2>1, <2>3 DEF Leads
  <2> QED
    BY <1>3, <2>1, <2>2, <2>4, Zenon DEF Leads
<1>5. Places(pp, off2, fr, pos)
  BY <1>2, <1>3, <1>4, Zenon DEF Places
<1>6. Got(r, off2, fr[0], pos[0])
  <2>1. 0 \in 0 .. Len(pp) /\ pos[0] \in Nat
    BY <1>2
  <2>2. \A b \in 1 .. pos[0] : pos[0] > 0
    BY <2>1
  <2> QED
    BY <1>3, <2>1, <2>2, Zenon DEF Got
<1>7. Past(hd, off2, which, fr[0], pos[0])
  <2>1. 1 .. n \subseteq 1 .. n + 1
    BY <1>1
  <2> QED
    BY <1>1, <2>1, Zenon DEF Past, n
<1> QED
  BY <1>5, <1>6, <1>7, Zenon DEF off2

\* Steps that hand over and play nothing.
Silent ==
    \/ \E tick \in BOOLEAN : Receive(tick)
    \/ Rest \/ ExitCalibrate \/ Idle \/ LeaveIdle \/ WaitClrCh \/ PersistencePass
    \/ PersistenceFail \/ WaitSlotTime \/ PttOn \/ SendByteFull \/ FlagsSent \/ DataStart
    \/ HangNext \/ HangOver \/ CalibrateTimeout \/ CalibrateOff \/ SendStart \/ DmaFinish
    \/ Console \/ UNCHANGED vars

\* send() is in no frame.
Between ==
    \/ send_state \notin {"DATA", "SEND_FLAGS"}
    \/ send_state = "SEND_FLAGS" /\ send_len <= 0

\* What such a step does to the frame under way: nothing, or it leaves one behind, or
\* it begins one.
LEMMA SilentEffect ==
    ASSUME TypeOK, Modes, NEW i, Sender(i), Silent
    PROVE  /\ UNCHANGED <<pipe, rx, heard, offered>>
           /\ \/ UNCHANGED <<send_state, send_len>>
              \/ Between /\ send_state' # "DATA"
              \/ Between /\ send_state' = "DATA" /\ send_len' + 1 = Len(offered[i])
           /\ Ready' => Ready
           /\ late' = late
           /\ stall' = stall \/ (pc = "receive" /\ stall' = 0)
<1> USE DEF queueVars, stateVars, timeVars, calVars, airVars, pipeVars, sendRest, consoleRest,
            dmaRest, In, Continue, Break
<1>1. send_state # "IDLE" => pc # "idle"
  BY Zenon DEF Modes
<1>2. CASE DataStart
  <2>1. /\ UNCHANGED <<pipe, rx, heard, offered, late, stall>> /\ send_state = "DATA_START"
    BY <1>2, Zenon DEF DataStart
  <2>2. CASE Len(send_queue) >= 3
    <3>1. send_len' = LengthOf(send_queue[1], send_queue[2]) - 1 /\ send_state' = "DATA"
      BY <1>2, <2>2, Zenon DEF DataStart
    <3>2. send_state # "DATA" /\ send_queue # <<>>
      BY <2>1, <2>2
    <3>3. send_len' = Len(offered[i]) - 1 /\ i <= Len(offered)
      BY <3>1, <3>2, FrameThere, Zenon
    <3>4. send_len' + 1 = Len(offered[i])
      BY <3>3, SenderFrame
    <3> QED
      BY <2>1, <3>1, <3>4, Zenon DEF Between, Ready
  <2>3. CASE ~(Len(send_queue) >= 3)
    <3>1. send_state' = "IDLE"
      BY <1>2, <2>3, Zenon DEF DataStart
    <3> QED
      BY <2>1, <3>1, Zenon DEF Between, Ready
  <2> QED
    BY <2>2, <2>3
<1>3. CASE PttOn
  <2>1. send_state = "PTT_ON" /\ send_state' = "SEND_FLAGS" /\ send_len' = TxDelayFlags
        /\ UNCHANGED <<pipe, rx, heard, offered, late, stall>>
    BY <1>3, Zenon DEF PttOn
  <2>2. ~(TxDelayFlags <= 0)
    BY Sizes
  <2> QED
    BY <2>1, <2>2, Zenon DEF Between, Ready
<1>4. CASE Console
  <2>1. UNCHANGED <<pipe, rx, heard, offered, late, stall, send_len>>
    BY <1>4, Zenon DEF Console, CmdCalibrate, CtrlC, ToggleTone
  <2>2. calibrate_mode => send_state \in {"CALIBRATE", "CALIBRATE_OFF", "IDLE"}
    BY Zenon DEF Modes
  <2>3. \/ send_state' = send_state
        \/ /\ send_state \notin {"DATA", "SEND_FLAGS"}
           /\ send_state' \in {"CALIBRATE", "CALIBRATE_OFF"}
    BY <1>4, <2>2, Zenon DEF Console, CmdCalibrate, CtrlC, ToggleTone
  <2> QED
    BY <2>1, <2>3, Zenon DEF Between, Ready
<1>5. CASE \E tick \in BOOLEAN : Receive(tick)
  BY <1>5, Zenon DEF Receive, Ready
<1>6. CASE SendStart \/ UNCHANGED vars \/ ExitCalibrate \/ DmaFinish \/ SendByteFull \/ CalibrateOff
  BY <1>6, Zenon DEF SendStart, vars, ExitCalibrate, DmaFinish, Finish, Key, SendByteFull,
     CalibrateOff, Ready
<1>7. CASE Rest \/ Idle \/ LeaveIdle \/ WaitClrCh \/ PersistencePass
  BY <1>1, <1>7, Zenon DEF Rest, Idle, LeaveIdle, WaitClrCh, PersistencePass, Ready, Between
<1>8. CASE PersistenceFail \/ WaitSlotTime \/ FlagsSent \/ HangNext \/ HangOver \/ CalibrateTimeout
  BY <1>8, Zenon DEF PersistenceFail, WaitSlotTime, FlagsSent, HangNext, HangOver,
     CalibrateTimeout, Ready, Between
<1> QED
  BY <1>2, <1>3, <1>4, <1>5, <1>6, <1>7, <1>8, Zenon DEF Silent

LEMMA StreamTyped ==
    ASSUME TypeOK, NEW i, NEW fr, NEW pos, NEW which, Stream(i, fr, pos, which)
    PROVE  /\ pipe \in Seq(Chunk) /\ Len(pipe) \in Nat /\ offered \in Seq(Frame)
           /\ 0 \in 0 .. Len(pipe) /\ Len(pipe) \in 0 .. Len(pipe)
           /\ fr \in [0 .. Len(pipe) -> Nat] /\ pos \in [0 .. Len(pipe) -> Nat]
           /\ fr[0] \in Nat /\ pos[0] \in Nat
           /\ fr[Len(pipe)] \in Nat /\ pos[Len(pipe)] \in Nat
           /\ i \in Nat /\ send_len \in Int
<1>1. /\ pipe \in Seq(Chunk) /\ Len(pipe) \in Nat /\ offered \in Seq(Frame) /\ Len(offered) \in Nat
      /\ send_len \in Int
  BY DEF TypeOK, PipeTypeOK
<1>2. 0 \in 0 .. Len(pipe) /\ Len(pipe) \in 0 .. Len(pipe)
  BY <1>1
<1>3. fr \in [0 .. Len(pipe) -> Nat] /\ pos \in [0 .. Len(pipe) -> Nat]
  BY Zenon DEF Stream, Places
<1>4. i \in Nat
  BY <1>1 DEF Stream, Sender
<1> QED
  BY <1>1, <1>2, <1>3, <1>4

LEMMA StreamSilent ==
    ASSUME TypeOK, Modes, NEW i, NEW fr, NEW pos, NEW which, Stream(i, fr, pos, which),
           [Next]_vars, Silent, ~DataEnd
    PROVE  Stream(i, fr, pos, which)'
<1>1. Sender(i) /\ SendsNext(i, fr, pos)
  BY Zenon DEF Stream
<1>2. Sender(i)'
  BY <1>1, SenderStep, Zenon
<1>3. /\ pipe' = pipe /\ rx' = rx /\ heard' = heard /\ offered' = offered
      /\ \/ send_state' = send_state /\ send_len' = send_len
         \/ Between /\ send_state' # "DATA"
         \/ Between /\ send_state' = "DATA" /\ send_len' + 1 = Len(offered[i])
  BY <1>1, SilentEffect, Zenon
<1>4. SendsNext(i, fr, pos)'
  <2>1. CASE send_state' = send_state /\ send_len' = send_len
    BY <1>1, <1>3, <2>1, Zenon DEF SendsNext
  <2>2. CASE Between
    <3>1. pos[Len(pipe)] = 0
      BY <1>1, <2>2, StreamTyped DEF Between, SendsNext
    <3>2. fr[Len(pipe)] < i
      BY <1>1, <3>1, Zenon DEF SendsNext
    <3>3. ~(0 > 0)
      OBVIOUS
    <3>4. send_state' = "DATA" => \/ send_state = "DATA" /\ send_len' = send_len
                                  \/ send_len' + 1 = Len(offered[i])
      BY <1>3, Zenon
    <3>5. send_state = "DATA" => send_len + 1 = Len(offered[i])
      BY <1>1, <3>1, Zenon DEF SendsNext
    <3> QED
      BY <1>3, <3>1, <3>2, <3>3, <3>4, <3>5, Zenon DEF SendsNext
  <2> QED
    BY <1>3, <2>1, <2>2
<1> QED
  BY <1>2, <1>3, <1>4, Zenon DEF Stream

LEMMA CompleteSilent ==
    ASSUME FastEnough, TypeOK, Modes, KeepsUp, ~late', NEW i, NEW fr, NEW pos, NEW which,
           Stream(i, fr, pos, which), Complete(i, fr, pos, which), Silent
    PROVE  Complete(i, fr, pos, which)'
<1>1. Sender(i) /\ SendsNext(i, fr, pos) /\ NoneLeftOut(i, fr, pos)
  BY Zenon DEF Stream, Complete
<1>2. /\ pipe' = pipe /\ rx' = rx /\ heard' = heard /\ offered' = offered
      /\ Ready' => Ready
      /\ late' = late
  BY <1>1, SilentEffect, Zenon
<1>3. \/ send_state' = send_state /\ send_len' = send_len
      \/ Between /\ send_state' # "DATA"
      \/ Between /\ send_state' = "DATA" /\ send_len' + 1 = Len(offered[i])
  BY <1>1, SilentEffect, Zenon
<1>4. stall' = stall \/ (pc = "receive" /\ stall' = 0)
  BY <1>1, SilentEffect, Zenon
<1>5. pos[Len(pipe)] > 0 => send_state' = send_state /\ send_state \in {"DATA", "SEND_FLAGS"}
  BY <1>1, <1>3, StreamTyped DEF Between, SendsNext
<1>6. pos[Len(pipe)] > 0 => Len(pipe) + stall' >= MaxStall
  <2>1. CASE stall' = stall
    BY <1>1, <2>1, Zenon DEF NoneLeftOut
  <2>2. CASE pc = "receive" /\ stall' = 0 /\ pos[Len(pipe)] > 0
    <3>1. send_state \in Sending
      BY <1>5, <2>2 DEF Sending
    <3>2. ~late
      BY <1>2
    <3>3. Full /\ stall <= MaxStall
      <4>1. StallLate /\ LeftFull /\ stall \in Nat /\ MaxStall \in Nat
        BY <3>2, Sizes DEF KeepsUp, Control, Fed, TypeOK
      <4> QED
        BY <2>2, <3>1, <3>2, <4>1 DEF StallLate, LeftFull
    <3> QED
      BY <2>2, <3>3, StreamTyped, Sizes DEF Full, FastEnough, TypeOK
  <2> QED
    BY <1>4, <2>1, <2>2
<1>7. NoneLeftOut(i, fr, pos)'
  BY <1>1, <1>2, <1>5, <1>6, Zenon DEF NoneLeftOut
<1> QED
  BY <1>2, <1>7, Zenon DEF Complete

LEMMA StreamPutStep ==
    ASSUME TypeOK, Modes, NEW i, NEW fr, NEW pos, NEW which, Stream(i, fr, pos, which),
           [Next]_vars, NEW g \in Frame, Put(g)
    PROVE  Stream(i, fr, pos, which)'
<1> USE DEF stateVars, timeVars, calVars, airVars, pipeVars
<1>1. /\ offered' = Append(offered, g) /\ pipe' = pipe /\ rx' = rx /\ heard' = heard
      /\ send_state' = send_state /\ send_len' = send_len
  BY Zenon DEF Put
<1>2. /\ Sender(i) /\ SendsNext(i, fr, pos) /\ Places(pipe, offered, fr, pos)
      /\ Got(rx, offered, fr[0], pos[0]) /\ Past(heard, offered, which, fr[0], pos[0])
  BY Zenon DEF Stream
<1>3. /\ Len(offered) \in Nat /\ Len(offered') = Len(offered) + 1
      /\ \A k \in 1 .. Len(offered) : offered'[k] = offered[k]
  BY <1>1, StreamTyped
<1>4. ~DataEnd
  <2>1. DataEnd => offered' = offered
    BY Zenon DEF DataEnd, sendRest
  <2> QED
    BY <1>3, <2>1
<1>5. Sender(i)'
  BY <1>2, <1>4, SenderStep, Zenon
<1>6. /\ Places(pipe', offered', fr, pos)
      /\ Got(rx', offered', fr[0], pos[0]) /\ Past(heard', offered', which, fr[0], pos[0])
  BY <1>1, <1>2, StreamTyped, StreamPut, Zenon
<1>7. SendsNext(i, fr, pos)'
  <2> DEFINE f == fr[Len(pipe)]
             p == pos[Len(pipe)]
  <2>1. send_state = "DATA" => offered'[i] = offered[i]
    <3>1. send_state = "DATA" => i \in 1 .. Len(offered)
      BY <1>2, <1>3, SenderFrame DEF Sender
    <3> QED
      BY <1>3, <3>1
  <2>2. p > 0 => offered'[f] = offered[f]
    <3>1. Place(offered, f, p) /\ f \in Nat
      BY <1>2, StreamTyped DEF Places
    <3>2. p > 0 => f \in 1 .. Len(offered)
      BY <1>3, <3>1 DEF Place
    <3> QED
      BY <1>3, <3>2
  <2>3. fr[Len(pipe')] = f /\ pos[Len(pipe')] = p
    BY <1>1
  <2>4. /\ p > 0 => \/ send_state = "DATA" /\ f = i /\ p + send_len + 1 = Len(offered[i])
                    \/ send_state = "SEND_FLAGS" /\ send_len > 0 /\ f < i /\ p = Len(offered[f])
        /\ p = 0 => f < i /\ (send_state = "DATA" => send_len + 1 = Len(offered[i]))
    BY <1>2, Zenon DEF SendsNext
  <2> HIDE DEF f, p
  <2> QED
    BY <1>1, <2>1, <2>2, <2>3, <2>4, Zenon DEF SendsNext
<1> QED
  BY <1>5, <1>6, <1>7, Zenon DEF Stream

LEMMA CompletePut ==
    ASSUME NEW i, NEW fr, NEW pos, NEW which, Complete(i, fr, pos, which),
           NEW g \in Frame, Put(g)
    PROVE  Complete(i, fr, pos, which)'
<1>1. UNCHANGED <<pipe, rx, heard, send_state, send_len, stall>>
  BY Zenon DEF Put, stateVars, airVars, pipeVars
<1> QED
  BY <1>1, Zenon DEF Complete, NoneLeftOut, Ready

\* send() hands over the chunk c, which leads to byte p of frame f.
LEMMA StreamAccept ==
    ASSUME TypeOK, NEW i, NEW fr, NEW pos, NEW which, Stream(i, fr, pos, which),
           NEW c \in Chunk, Accept(c), rx' = rx, heard' = heard, offered' = offered,
           NEW j, Sender(j)', NEW f \in Nat, NEW p, Place(offered, f, p),
           Leads(c, offered, fr[Len(pipe)], pos[Len(pipe)], f, p),
           p > 0 => \/ send_state' = "DATA" /\ f = j /\ p + send_len' + 1 = Len(offered[j])
                    \/ send_state' = "SEND_FLAGS" /\ send_len' > 0 /\ f < j /\ p = Len(offered[f]),
           p = 0 => f < j /\ send_state' # "DATA",
           NEW fr2, fr2 = Ext(fr, Len(pipe), f), NEW pos2, pos2 = Ext(pos, Len(pipe), p)
    PROVE  Stream(j, fr2, pos2, which)'
<1>1. /\ Places(pipe, offered, fr, pos)
      /\ Got(rx, offered, fr[0], pos[0]) /\ Past(heard, offered, which, fr[0], pos[0])
  BY Zenon DEF Stream
<1>2. p \in Nat /\ pipe' = Append(pipe, c) /\ Len(pipe') = Len(pipe) + 1
  BY StreamTyped DEF Accept, Place
<1>3. Places(pipe', offered', fr2, pos2)
  BY <1>1, <1>2, StreamTyped, PlacesAccept, Zenon
<1>4. /\ fr2[Len(pipe')] = f /\ fr2[0] = fr[0]
      /\ pos2[Len(pipe')] = p /\ pos2[0] = pos[0]
  <2>1. /\ Len(pipe) \in Nat /\ 0 \in 0 .. Len(pipe) /\ p \in Nat
        /\ fr \in [0 .. Len(pipe) -> Nat] /\ pos \in [0 .. Len(pipe) -> Nat]
    BY <1>2, StreamTyped
  <2>2. ASSUME NEW v \in Nat, NEW h \in [0 .. Len(pipe) -> Nat]
        PROVE  Ext(h, Len(pipe), v)[Len(pipe) + 1] = v /\ Ext(h, Len(pipe), v)[0] = h[0]
    BY <2>1 DEF Ext
  <2>3. /\ fr2[Len(pipe) + 1] = f /\ fr2[0] = fr[0]
        /\ pos2[Len(pipe) + 1] = p /\ pos2[0] = pos[0]
    BY <2>1, <2>2
  <2> QED
    BY <1>2, <2>3, Zenon
<1>5. SendsNext(j, fr2, pos2)'
  BY <1>4, Zenon DEF SendsNext
<1> QED
  BY <1>1, <1>3, <1>4, <1>5, Zenon DEF Stream

LEMMA CompleteAccept ==
    ASSUME TypeOK, NEW i, NEW fr, NEW pos, NEW which, Stream(i, fr, pos, which),
           Complete(i, fr, pos, which),
           NEW c \in Chunk, Accept(c), rx' = rx, heard' = heard, stall' = stall,
           NEW j, NEW f \in Nat, NEW p \in Nat,
           c.kind # "cal" => c.nrzi,
           c.kind = "data" =>
             OpenAt(pipe, rx, Len(pipe)) /\ (pos[Len(pipe)] = 0 => f = fr[Len(pipe)] + 1),
           p = 0 => j = f + 1,
           p > 0 => Len(pipe) + stall >= MaxStall,
           p > 0 /\ send_state' = "SEND_FLAGS" => j = f + 1,
           Ready' => c.kind # "cal",
           NEW fr2, fr2 = Ext(fr, Len(pipe), f), NEW pos2, pos2 = Ext(pos, Len(pipe), p)
    PROVE  Complete(j, fr2, pos2, which)'
<1>1. Unbroken(pipe, rx, fr, pos) /\ AllHeard(heard, which, fr[0], pos[0])
  BY Zenon DEF Complete
<1>2. pipe' = Append(pipe, c) /\ Len(pipe') = Len(pipe) + 1 /\ pipe'[Len(pipe')] = c
  BY StreamTyped DEF Accept
<1>3. Unbroken(pipe', rx', fr2, pos2)
  BY <1>1, <1>2, StreamTyped, UnbrokenAccept, Zenon
<1>4. /\ fr2[Len(pipe')] = f /\ fr2[0] = fr[0]
      /\ pos2[Len(pipe')] = p /\ pos2[0] = pos[0]
  <2>1. /\ Len(pipe) \in Nat /\ 0 \in 0 .. Len(pipe) /\ p \in Nat
        /\ fr \in [0 .. Len(pipe) -> Nat] /\ pos \in [0 .. Len(pipe) -> Nat]
    BY <1>2, StreamTyped
  <2>2. ASSUME NEW v \in Nat, NEW h \in [0 .. Len(pipe) -> Nat]
        PROVE  Ext(h, Len(pipe), v)[Len(pipe) + 1] = v /\ Ext(h, Len(pipe), v)[0] = h[0]
    BY <2>1 DEF Ext
  <2>3. /\ fr2[Len(pipe) + 1] = f /\ fr2[0] = fr[0]
        /\ pos2[Len(pipe) + 1] = p /\ pos2[0] = pos[0]
    BY <2>1, <2>2
  <2> QED
    BY <1>2, <2>3, Zenon
<1>5. p > 0 => Len(pipe') + stall' >= MaxStall
  <2>1. stall \in Nat /\ MaxStall \in Nat
    BY Sizes DEF TypeOK
  <2> QED
    BY <1>2, <2>1, StreamTyped
<1>6. Ready' => OpenAt(pipe', rx', Len(pipe'))
  <2>1. Len(pipe') # 0
    BY <1>2, StreamTyped
  <2> QED
    BY <1>2, <2>1, Zenon DEF OpenAt
<1>7. NoneLeftOut(j, fr2, pos2)'
  BY <1>4, <1>5, <1>6, Zenon DEF NoneLeftOut
<1> QED
  BY <1>1, <1>3, <1>4, <1>7, Zenon DEF Complete

\* What Listen makes of chunk c.
Hears(r, c, r2, hd, hd2) ==
    /\ c.kind = "flag" /\ c.nrzi =>
         r2.got = <<>> /\ hd2 = IF r.open /\ r.got # <<>> THEN Append(hd, r.got) ELSE hd
    /\ c.kind = "data" /\ c.nrzi /\ r.open => r2.got = Append(r.got, c.byte) /\ hd2 = hd
    /\ ~(c.kind = "flag" /\ c.nrzi) /\ ~(c.kind = "data" /\ c.nrzi /\ r.open) =>
         ~r2.open /\ hd2 = hd

\* Nothing is missing before chunk c, and nothing was.
Whole(r, c, hd, which, f0, p0, f1) ==
    /\ p0 > 0 => r.open
    /\ c.kind # "cal" => c.nrzi
    /\ c.kind = "data" => r.open /\ (p0 = 0 => f1 = f0 + 1)
    /\ AllHeard(hd, which, f0, p0)

\* What a listener makes of a chunk: it has in hand what is past of the frame it is in,
\* it has heard frames that are past, each once and in order; and all of them, if
\* nothing was missing.
LEMMA Played ==
    ASSUME NEW off \in Seq(Frame), NEW c, NEW f0 \in Nat, NEW p0 \in Nat, NEW f1, NEW p1,
           Place(off, f0, p0), Place(off, f1, p1), Leads(c, off, f0, p0, f1, p1),
           NEW r, r.got \in Seq(Byte), NEW r2, NEW hd, NEW hd2, NEW which,
           Got(r, off, f0, p0), Past(hd, off, which, f0, p0), Hears(r, c, r2, hd, hd2)
    PROVE  \E which2 :
             /\ Got(r2, off, f1, p1)
             /\ Past(hd2, off, which2, f1, p1)
             /\ Whole(r, c, hd, which, f0, p0, f1) => AllHeard(hd2, which2, f1, p1)
<1> DEFINE n == Len(hd)
           W == Whole(r, c, hd, which, f0, p0, f1)
<1> USE DEF Hears
<1>1. /\ hd \in Seq(Frame) /\ n \in Nat /\ which \in [1 .. n -> Nat]
      /\ \A x \in 1 .. n : which[x] \in 1 .. Len(off) /\ hd[x] = off[which[x]] /\ which[x] <= f0
      /\ p0 > 0 => \A x \in 1 .. n : which[x] < f0
      /\ \A x, y \in 1 .. n : x < y => which[x] < which[y]
  BY DEF Past
<1>2. Len(off) \in Nat /\ f0 <= Len(off) /\ f1 \in Nat /\ p1 \in Nat
  BY DEF Place
<1>3. p0 = 0 \/ p0 > 0
  OBVIOUS
<1>4. CASE c.kind = "flag" /\ c.nrzi
  <2>1. p1 = 0 /\ f1 = f0 /\ (p0 > 0 => p0 = Len(off[f0]))
    BY <1>4 DEF Leads
  <2>2. Got(r2, off, f1, p1)
    <3>1. r2.got = <<>>
      BY <1>4
    <3> QED
      BY <2>1, <3>1 DEF Got
  <2>3. CASE r.open /\ r.got # <<>>
    <3> DEFINE which2 == [x \in 1 .. n + 1 |-> IF x = n + 1 THEN f0 ELSE which[x]]
    <3>1. hd2 = Append(hd, r.got)
      BY <1>4, <2>3
    <3>2. p0 > 0 /\ Len(r.got) = p0 /\ \A b \in 1 .. p0 : r.got[b] = off[f0][b]
      <4>1. Len(r.got) = p0 /\ \A b \in 1 .. p0 : r.got[b] = off[f0][b]
        BY <2>3, Zenon DEF Got
      <4>2. Len(r.got) # 0
        BY <2>3
      <4> QED
        BY <4>1, <4>2
    <3>3. f0 \in 1 .. Len(off) /\ off[f0] \in Frame /\ p0 = Len(off[f0])
      BY <1>2, <2>1, <3>2 DEF Place
    <3>4. r.got = off[f0]
      <4>1. off[f0] \in Seq(Byte)
        BY <3>3, WireFacts
      <4> QED
        BY <3>2, <3>3, <4>1
    <3>5. /\ hd2 \in Seq(Frame) /\ Len(hd2) = n + 1 /\ hd2[n + 1] = off[f0]
          /\ \A x \in 1 .. n : hd2[x] = hd[x]
      BY <1>1, <3>1, <3>3, <3>4
    <3>6. /\ which2 \in [1 .. n + 1 -> Nat] /\ which2[n + 1] = f0
          /\ \A x \in 1 .. n : which2[x] = which[x]
      BY <1>1, SMTT(30)
    <3> HIDE DEF which2, n
    <3>7. Past(hd2, off, which2, f1, p1)
      <4>1. ASSUME NEW x \in 1 .. n + 1
            PROVE  /\ which2[x] \in 1 .. Len(off) /\ hd2[x] = off[which2[x]]
                   /\ which2[x] <= f1 /\ (p1 > 0 => which2[x] < f1)
        <5>1. x = n + 1 \/ x \in 1 .. n
          BY <1>1
        <5> QED
          BY <1>1, <2>1, <3>3, <3>5, <3>6, <5>1, SMTT(30)
      <4>2. ASSUME NEW x \in 1 .. n + 1, NEW y \in 1 .. n + 1, x < y
            PROVE  which2[x] < which2[y]
        <5>1. x \in 1 .. n /\ (y = n + 1 \/ y \in 1 .. n)
          BY <1>1, <4>2
        <5> QED
          BY <1>1, <3>2, <3>6, <4>2, <5>1
      <4> QED
        BY <3>5, <3>6, <4>1, <4>2, Zenon DEF Past
    <3>8. W => AllHeard(hd2, which2, f1, p1)
      <4> SUFFICES ASSUME W PROVE AllHeard(hd2, which2, f1, p1)
        OBVIOUS
      <4>1. ~(p0 = 0)
        BY <3>2
      <4>2. n = f0 - 1 /\ \A x \in 1 .. n : which[x] = x
        BY <4>1, Zenon DEF AllHeard, n, Whole
      <4>3. ASSUME NEW x \in 1 .. n + 1
            PROVE  which2[x] = x
        <5>1. x = n + 1 \/ x \in 1 .. n
          BY <1>1
        <5> QED
          BY <1>1, <3>6, <4>2, <5>1
      <4>4. Len(hd2) = f1
        BY <1>1, <2>1, <3>5, <4>2
      <4> QED
        BY <2>1, <3>5, <4>3, <4>4, Zenon DEF AllHeard
    <3> QED
      BY <2>2, <3>7, <3>8, Zenon
  <2>4. CASE ~(r.open /\ r.got # <<>>)
    <3>1. hd2 = hd
      BY <1>4, <2>4
    <3>2. Past(hd2, off, which, f1, p1)
      BY <1>1, <2>1, <3>1 DEF Past
    <3>3. W => AllHeard(hd2, which, f1, p1)
      <4> SUFFICES ASSUME W PROVE AllHeard(hd2, which, f1, p1)
        OBVIOUS
      <4>1. p0 > 0 => r.got = <<>> /\ Len(r.got) = p0
        BY <2>4, Zenon DEF Got, Whole
      <4>2. p0 = 0
        BY <1>3, <4>1
      <4> QED
        BY <2>1, <3>1, <4>2, Zenon DEF Whole
    <3> QED
      BY <2>2, <3>2, <3>3, Zenon
  <2> QED
    BY <2>3, <2>4
<1>5. CASE c.kind = "data" /\ c.nrzi /\ r.open
  <2>1. /\ p1 = p0 + 1 /\ c.byte = off[f1][p1]
        /\ p0 = 0 => f1 > f0
        /\ p0 > 0 => f1 = f0
    BY <1>5, Zenon DEF Leads
  <2>2. r2.got = Append(r.got, c.byte) /\ hd2 = hd
    BY <1>5
  <2>3. Len(r.got) = p0 /\ \A b \in 1 .. p0 : r.got[b] = off[f0][b]
    BY <1>5, Zenon DEF Got
  <2>4. Got(r2, off, f1, p1)
    <3>1. /\ Len(r2.got) = p1 /\ r2.got[p1] = off[f1][p1]
          /\ \A b \in 1 .. p0 : r2.got[b] = r.got[b]
      BY <2>1, <2>2, <2>3
    <3>2. ASSUME NEW b \in 1 .. p1
          PROVE  r2.got[b] = off[f1][b]
      <4>1. b = p1 \/ (b \in 1 .. p0 /\ p0 > 0)
        BY <2>1
      <4> QED
        BY <2>1, <2>3, <3>1, <4>1, Zenon
    <3> QED
      BY <3>1, <3>2, Zenon DEF Got
  <2>5. Past(hd2, off, which, f1, p1)
    <3>1. \A x \in 1 .. n : which[x] <= f1 /\ which[x] < f1
      BY <1>1, <1>2, <1>3, <2>1
    <3> QED
      BY <1>1, <2>2, <3>1, Zenon DEF Past
  <2>6. W => AllHeard(hd2, which, f1, p1)
    <3> SUFFICES ASSUME W PROVE AllHeard(hd2, which, f1, p1)
      OBVIOUS
    <3>1. p0 = 0 => f1 = f0 + 1
      BY <1>5, Zenon DEF Whole
    <3>2. /\ n = IF p0 = 0 THEN f0 ELSE f0 - 1
          /\ \A x \in 1 .. n : which[x] = x
      BY Zenon DEF AllHeard, Whole
    <3>3. n = f1 - 1 /\ p1 # 0
      BY <1>1, <1>2, <1>3, <2>1, <3>1, <3>2
    <3> QED
      BY <2>2, <3>2, <3>3, Zenon DEF AllHeard
  <2> QED
    BY <2>4, <2>5, <2>6, Zenon
<1>6. CASE ~(c.kind = "flag" /\ c.nrzi) /\ ~(c.kind = "data" /\ c.nrzi /\ r.open)
  <2>1. ~r2.open /\ hd2 = hd
    BY <1>6
  <2>2. Got(r2, off, f1, p1)
    BY <2>1, Zenon DEF Got
  <2>3. Past(hd2, off, which, f1, p1)
    <3>1. (f1 = f0 /\ p1 = 0) \/ f1 > f0 \/ (f1 = f0 /\ p0 > 0)
      BY <1>3 DEF Leads
    <3>2. \A x \in 1 .. n : which[x] <= f1 /\ (p1 > 0 => which[x] < f1)
      BY <1>1, <1>2, <3>1
    <3> QED
      BY <1>1, <2>1, <3>2, Zenon DEF Past
  <2>4. W => AllHeard(hd2, which, f1, p1)
    <3> SUFFICES ASSUME W PROVE AllHeard(hd2, which, f1, p1)
      OBVIOUS
    <3>1. c.kind # "flag" /\ c.kind # "data"
      BY <1>6, Zenon DEF Whole
    <3>2. p1 = 0 /\ f1 = f0 /\ ~(p0 > 0)
      BY <3>1, Zenon DEF Leads, Whole
    <3>3. p0 = 0
      BY <1>3, <3>2
    <3> QED
      BY <2>1, <3>2, <3>3, Zenon DEF Whole
  <2> QED
    BY <2>2, <2>3, <2>4, Zenon
<1> QED
  BY <1>4, <1>5, <1>6, Zenon

LEMMA StreamAdvance ==
    ASSUME TypeOK, NEW i, NEW fr, NEW pos, NEW which, Stream(i, fr, pos, which),
           DmaAdvance, Sender(i)',
           NEW fr2, fr2 = Shift(fr, Len(pipe)), NEW pos2, pos2 = Shift(pos, Len(pipe))
    PROVE  \E which2 :
             /\ Stream(i, fr2, pos2, which2)'
             /\ Complete(i, fr, pos, which) => Complete(i, fr2, pos2, which2)'
<1> DEFINE c == pipe[1]
<1>1. /\ pipe # <<>> /\ pipe' = Tail(pipe) /\ Listen(Head(pipe)) /\ stall' = stall + 1
      /\ offered' = offered /\ send_state' = send_state /\ send_len' = send_len
  BY Zenon DEF DmaAdvance, BlockStarts, Advance, dmaRest, queueVars, stateVars
<1>2. /\ Len(pipe) \in Nat /\ Len(pipe) > 0 /\ Head(pipe) = c /\ c \in Chunk
      /\ Len(pipe') = Len(pipe) - 1
      /\ \A j \in 1 .. Len(pipe) - 1 : pipe'[j] = pipe[j + 1]
  BY <1>1, StreamTyped, TailFacts, Zenon
<1>3. /\ Places(pipe, offered, fr, pos) /\ SendsNext(i, fr, pos)
      /\ Got(rx, offered, fr[0], pos[0]) /\ Past(heard, offered, which, fr[0], pos[0])
  BY Zenon DEF Stream
<1>4. /\ fr \in [0 .. Len(pipe) -> Nat] /\ pos \in [0 .. Len(pipe) -> Nat]
      /\ fr[0] \in Nat /\ pos[0] \in Nat
  BY StreamTyped
<1>5. /\ \A j \in 0 .. Len(pipe) - 1 : fr2[j] = fr[j + 1]
      /\ \A j \in 0 .. Len(pipe) - 1 : pos2[j] = pos[j + 1]
  BY <1>2, <1>4, ShiftFacts
<1>6. /\ fr2[0] = fr[1] /\ fr2[Len(pipe')] = fr[Len(pipe)]
      /\ pos2[0] = pos[1] /\ pos2[Len(pipe')] = pos[Len(pipe)]
  BY <1>2, <1>5
<1>7. /\ Place(offered, fr[0], pos[0]) /\ Place(offered, fr[1], pos[1])
      /\ Leads(c, offered, fr[0], pos[0], fr[1], pos[1])
  <2>1. 0 \in 0 .. Len(pipe) /\ 1 \in 0 .. Len(pipe) /\ 1 \in 1 .. Len(pipe) /\ 1 - 1 = 0
    BY <1>2
  <2> QED
    BY <1>3, <2>1, Zenon DEF Places
<1>8. rx.got \in Seq(Byte) /\ offered \in Seq(Frame)
  BY DEF TypeOK
<1>9. /\ c.kind = "flag" /\ c.nrzi =>
           /\ rx'.open /\ rx'.got = <<>>
           /\ heard' = IF rx.open /\ rx.got # <<>> THEN Append(heard, rx.got) ELSE heard
      /\ c.kind = "data" /\ c.nrzi /\ rx.open =>
           rx'.open /\ rx'.got = Append(rx.got, c.byte) /\ heard' = heard
      /\ ~(c.kind = "flag" /\ c.nrzi) /\ ~(c.kind = "data" /\ c.nrzi /\ rx.open) =>
           ~rx'.open /\ heard' = heard
  <2> HIDE DEF c
  <2>1. CASE c.kind = "flag" /\ c.nrzi
    <3>1. /\ rx' = [open |-> TRUE, got |-> <<>>]
          /\ heard' = IF rx.open /\ rx.got # <<>> THEN Append(heard, rx.got) ELSE heard
      BY <1>1, <1>2, <2>1, Zenon DEF Listen
    <3>2. c.kind # "data"
      BY <2>1
    <3>3. rx'.open = TRUE /\ rx'.got = <<>>
      BY <3>1
    <3> QED
      BY <2>1, <3>1, <3>2, <3>3, Zenon
  <2>2. CASE c.kind = "data" /\ c.nrzi /\ rx.open
    <3>1. c.kind # "flag"
      BY <2>2
    <3>2. rx' = [rx EXCEPT !.got = Append(@, c.byte)] /\ heard' = heard
      BY <1>1, <1>2, <2>2, <3>1, Zenon DEF Listen
    <3>3. rx'.open = rx.open /\ rx'.got = Append(rx.got, c.byte)
      <4>1. rx \in [open : BOOLEAN, got : Seq(Byte)]
        BY DEF TypeOK
      <4> QED
        BY <3>2, <4>1
    <3> QED
      BY <2>2, <3>1, <3>2, <3>3, Zenon
  <2>3. CASE ~(c.kind = "flag" /\ c.nrzi) /\ ~(c.kind = "data" /\ c.nrzi /\ rx.open)
    <3>1. rx' = Closed /\ heard' = heard
      BY <1>1, <1>2, <2>3, Zenon DEF Listen
    <3>2. rx'.open = FALSE
      BY <3>1 DEF Closed
    <3> QED
      BY <2>3, <3>1, <3>2, Zenon
  <2> QED
    BY <2>1, <2>2, <2>3, Zenon
<1>10. PICK which2 :
         /\ Got(rx', offered, fr[1], pos[1])
         /\ Past(heard', offered, which2, fr[1], pos[1])
         /\ Whole(rx, c, heard, which, fr[0], pos[0], fr[1]) => AllHeard(heard', which2, fr[1], pos[1])
  <2> HIDE DEF c
  <2>1. Hears(rx, c, rx', heard, heard')
    BY <1>9, Zenon DEF Hears
  <2> QED
    BY <1>3, <1>4, <1>7, <1>8, <2>1, Played, Zenon
<1>11. Places(pipe', offered', fr2, pos2)
  BY <1>1, <1>3, PlacesAdvance, StreamTyped, Zenon
<1>12. SendsNext(i, fr2, pos2)'
  BY <1>1, <1>3, <1>6, Zenon DEF SendsNext
<1>13. Stream(i, fr2, pos2, which2)'
  BY <1>1, <1>6, <1>10, <1>11, <1>12, Zenon DEF Stream
<1>14. ASSUME Complete(i, fr, pos, which)
       PROVE  Complete(i, fr2, pos2, which2)'
  <2>1. Unbroken(pipe, rx, fr, pos) /\ AllHeard(heard, which, fr[0], pos[0]) /\ NoneLeftOut(i, fr, pos)
    BY <1>14, Zenon DEF Complete
  <2>2. /\ pos[0] > 0 => rx.open
        /\ c.kind # "cal" => c.nrzi
        /\ c.kind = "data" => rx.open /\ (pos[0] = 0 => fr[1] = fr[0] + 1)
    <3>1. 1 \in 1 .. Len(pipe) /\ 1 - 1 = 0
      BY <1>2
    <3> QED
      BY <2>1, <3>1, Zenon DEF Unbroken, OpenAt
  <2>3. AllHeard(heard', which2, fr2[0], pos2[0])
    BY <1>6, <1>10, <2>1, <2>2, Zenon DEF Whole
  <2>4. rx'.open <=> c.kind # "cal"
    <3>1. c.kind \in {"flag", "data", "cal"}
      BY <1>2, TransmitterAssumption, Zenon DEF TxChunk
    <3> QED
      BY <1>9, <2>2, <3>1, Zenon
  <2>5. Unbroken(pipe', rx', fr2, pos2)
    BY <1>1, <1>3, <2>1, <2>4, UnbrokenAdvance, StreamTyped, Zenon
  <2>6. Len(pipe') + stall' = Len(pipe) + stall
    BY <1>1, <1>2 DEF TypeOK
  <2>7. OpenAt(pipe, rx, Len(pipe)) => OpenAt(pipe', rx', Len(pipe'))
    <3>1. CASE Len(pipe) = 1
      BY <1>2, <2>4, <3>1 DEF OpenAt
    <3>2. CASE Len(pipe) # 1
      BY <1>2, <3>2 DEF OpenAt
    <3> QED
      BY <3>1, <3>2
  <2>8. NoneLeftOut(i, fr2, pos2)'
    BY <1>1, <1>6, <2>1, <2>6, <2>7, Zenon DEF NoneLeftOut, Ready
  <2> QED
    BY <2>3, <2>5, <2>8, Zenon DEF Complete
<1> QED
  BY <1>13, <1>14

LEMMA StreamRelease ==
    ASSUME TypeOK, NEW i, NEW fr, NEW pos, NEW which, Stream(i, fr, pos, which),
           DmaRelease, Sender(i)'
    PROVE  Stream(i, fr, pos, which)'
<1>1. /\ pipe = <<>> /\ pipe' = pipe /\ rx' = Closed /\ heard' = heard
      /\ offered' = offered /\ send_state' = send_state /\ send_len' = send_len
  BY Zenon DEF DmaRelease, BlockStarts, Release, dmaRest, queueVars, stateVars
<1>2. rx'.open = FALSE
  BY <1>1 DEF Closed
<1>3. Got(rx', offered', fr[0], pos[0])
  BY <1>2, Zenon DEF Got
<1> QED
  BY <1>1, <1>3, Zenon DEF Stream, SendsNext

LEMMA CompleteRelease ==
    ASSUME FastEnough, TypeOK, KeepsUp, ~late', NEW i, NEW fr, NEW pos, NEW which,
           Stream(i, fr, pos, which), Complete(i, fr, pos, which), DmaRelease
    PROVE  Complete(i, fr, pos, which)'
<1>1. /\ pipe = <<>> /\ pipe' = pipe /\ heard' = heard /\ stall' = stall + 1
      /\ late' = (late \/ stall >= MaxStall)
      /\ offered' = offered /\ send_state' = send_state /\ send_len' = send_len
  BY Zenon DEF DmaRelease, BlockStarts, Release, dmaRest, queueVars, stateVars
<1>2. ~late /\ ~(stall >= MaxStall) /\ Len(pipe) = 0
  BY <1>1
<1>3. stall \in Nat /\ MaxStall \in Nat /\ send_len \in Int
  BY Sizes DEF TypeOK
<1>4. ~(Len(pipe) + stall >= MaxStall)
  BY <1>2, <1>3
<1>5. Unbroken(pipe, rx, fr, pos) /\ AllHeard(heard, which, fr[0], pos[0]) /\ NoneLeftOut(i, fr, pos)
  BY Zenon DEF Complete
<1>6. ~(pos[Len(pipe)] > 0) /\ ~(pos[0] > 0)
  BY <1>2, <1>4, <1>5, Zenon DEF NoneLeftOut
<1>7. ~Ready
  <2>1. Ready => send_state \in Sending
    BY Zenon DEF Ready, Sending
  <2>2. Ready /\ send_state = "SEND_FLAGS" => send_len <= 0
    BY Zenon DEF Ready
  <2>3. send_state \in Sending => Leading \/ Supplied
    BY <1>2, Zenon DEF KeepsUp, Fed
  <2>4. Leading => send_state = "SEND_FLAGS" /\ Len(pipe) + stall + send_len >= MaxStall
    BY DEF Leading
  <2>5. ~Supplied
    BY <1>4, Zenon DEF Supplied
  <2>6. send_len <= 0 => ~(Len(pipe) + stall + send_len >= MaxStall)
    BY <1>2, <1>3, <1>4
  <2> QED
    BY <2>1, <2>2, <2>3, <2>4, <2>5, <2>6, Zenon
<1>8. Unbroken(pipe', rx', fr, pos)
  <2>1. \A j \in 1 .. Len(pipe') : FALSE
    BY <1>1, <1>2
  <2> QED
    BY <1>6, <2>1, Zenon DEF Unbroken
<1>9. NoneLeftOut(i, fr, pos)'
  <2>1. ~Ready'
    BY <1>1, <1>7, Zenon DEF Ready
  <2> QED
    BY <1>1, <1>5, <1>6, <2>1, Zenon DEF NoneLeftOut
<1> QED
  BY <1>1, <1>5, <1>8, <1>9, Zenon DEF Complete

\* A step that hands over a chunk.
Handing == SendFlag \/ Data \/ DataEnd \/ HangFlag \/ CalibrateTone

\* The chunk, the frame and the byte it leads to.
LEMMA StreamHanding ==
    ASSUME TypeOK, Modes, NEW i, NEW fr, NEW pos, NEW which, Stream(i, fr, pos, which),
           [Next]_vars, Handing
    PROVE  \E j, fr2, pos2 :
             /\ Stream(j, fr2, pos2, which)'
             /\ FastEnough /\ KeepsUp /\ ~late' /\ Complete(i, fr, pos, which)
                  => Complete(j, fr2, pos2, which)'
<1> DEFINE f0 == fr[Len(pipe)]
           p0 == pos[Len(pipe)]
           Thorough == FastEnough /\ KeepsUp /\ ~late' /\ Complete(i, fr, pos, which)
<1> USE DEF In, Continue, Break
<1>1. /\ f0 \in Nat /\ p0 \in Nat /\ Place(offered, f0, p0) /\ f0 \in 0 .. Len(offered)
      /\ offered \in Seq(Frame) /\ send_len \in Int /\ send_data \in Byte
      /\ Len(pipe) \in Nat /\ stall \in Nat /\ MaxStall \in Nat
  BY StreamTyped, Sizes DEF Stream, Places, Place, TypeOK
<1>2. Sender(i) /\ SendsNext(i, fr, pos)
  BY Zenon DEF Stream
<1>3. /\ rx' = rx /\ heard' = heard /\ offered' = offered /\ stall' = stall /\ late' = late
  BY Zenon DEF Handing, SendFlag, Data, DataEnd, HangFlag, CalibrateTone, sendRest, airVars
<1>4. Thorough =>
        /\ p0 = 0 => i = f0 + 1
        /\ p0 > 0 /\ send_state = "SEND_FLAGS" => i = f0 + 1
        /\ Ready => OpenAt(pipe, rx, Len(pipe))
  BY Zenon DEF Complete, NoneLeftOut
<1>5. CASE SendFlag \/ HangFlag \/ CalibrateTone
  <2>1. PICK c : /\ Accept(c)
                 /\ \/ c = Cal /\ send_state = "CALIBRATE" /\ send_state' = "CALIBRATE"
                    \/ /\ c = [Flag EXCEPT !.nrzi = do_nrzi]
                       /\ \/ send_state = "PTT_HANG" /\ send_state' = "PTT_HANG"
                          \/ send_state = "SEND_FLAGS" /\ send_state' = "SEND_FLAGS"
    BY <1>5, Zenon DEF SendFlag, HangFlag, CalibrateTone, stateVars
  <2>2. /\ c \in Chunk /\ c.kind # "data"
        /\ \/ c.kind = "cal" /\ send_state = "CALIBRATE" /\ send_state' = "CALIBRATE"
           \/ c.kind = "flag" /\ c.nrzi = do_nrzi /\ send_state \in {"PTT_HANG", "SEND_FLAGS"}
    <3>1. do_nrzi \in BOOLEAN /\ 0 \in Byte
      BY Sizes DEF TypeOK, Byte
    <3>2. CASE c = Cal /\ send_state = "CALIBRATE" /\ send_state' = "CALIBRATE"
      BY <3>1, <3>2, Chunks DEF Cal
    <3>3. CASE c = [Flag EXCEPT !.nrzi = do_nrzi] /\ send_state \in {"PTT_HANG", "SEND_FLAGS"}
      <4>1. c = [kind |-> "flag", byte |-> 0, nrzi |-> do_nrzi] /\ c \in Chunk
        BY <3>1, <3>3, Chunks
      <4>2. c.kind = "flag" /\ c.nrzi = do_nrzi
        BY <4>1
      <4> QED
        BY <3>3, <4>1, <4>2
    <3> QED
      BY <2>1, <3>2, <3>3
  <2>3. c.kind # "cal" => c.nrzi
    <3> SUFFICES ASSUME c.kind # "cal" PROVE c.nrzi
      OBVIOUS
    <3>1. c.nrzi = do_nrzi /\ send_state \in {"PTT_HANG", "SEND_FLAGS"}
      BY <2>2
    <3>2. do_nrzi
      BY <3>1, Zenon DEF Modes
    <3> QED
      BY <3>1, <3>2, Zenon
  <2>4. ~DataEnd
    BY <2>1, Zenon DEF DataEnd
  <2>5. Sender(i)'
    BY <1>2, <2>4, SenderStep, Zenon
  <2>6. f0 < i /\ (p0 > 0 => send_state = "SEND_FLAGS" /\ c.kind = "flag" /\ p0 = Len(offered[f0]))
    BY <1>1, <1>2, <2>2 DEF SendsNext
  <2>7. c.kind = "cal" => send_state = "CALIBRATE"
    BY <2>1, <2>2
  <2>8. Leads(c, offered, f0, p0, f0, 0)
    BY <1>1, <2>2, <2>6 DEF Leads
  <2>9. PICK fr2, pos2 : fr2 = Ext(fr, Len(pipe), f0) /\ pos2 = Ext(pos, Len(pipe), 0)
    OBVIOUS
  <2>10. Place(offered, f0, 0) /\ send_state' # "DATA" /\ 0 \in Nat /\ ~(0 > 0)
    BY <1>1, <2>1 DEF Place
  <2> HIDE DEF f0, p0
  <2>11. Stream(i, fr2, pos2, which)'
    BY <1>1, <1>3, <2>1, <2>2, <2>5, <2>6, <2>8, <2>9, <2>10, StreamAccept DEF f0, p0
  <2>12. ASSUME Thorough
         PROVE  Complete(i, fr2, pos2, which)'
    <3>1. i = f0 + 1
      <4>1. p0 = 0 \/ p0 > 0
        BY <1>1
      <4> QED
        BY <1>4, <2>6, <2>12, <4>1, Zenon
    <3>2. Ready' => c.kind # "cal"
      BY <2>2, Zenon DEF Ready
    <3>3. Complete(i, fr, pos, which)
      BY <2>12
    <3> QED
      BY <1>1, <1>3, <2>1, <2>2, <2>3, <2>9, <2>10, <3>1, <3>2, <3>3, CompleteAccept DEF f0,
         p0
  <2> QED
    BY <2>11, <2>12, Zenon
<1>6. CASE Data \/ DataEnd
  <2> DEFINE c == [kind |-> "data", byte |-> send_data, nrzi |-> do_nrzi]
             p == p0 + 1
             l == Len(offered[i])
  <2>1. send_state = "DATA" /\ Accept(c)
    BY <1>6, Zenon DEF Data, DataEnd
  <2>2. c \in Chunk /\ c.kind = "data" /\ c.byte = send_data /\ c.nrzi = do_nrzi /\ do_nrzi
    <3>1. do_nrzi \in BOOLEAN
      BY DEF TypeOK
    <3>2. do_nrzi
      BY <2>1, Zenon DEF Modes
    <3>3. c \in Chunk
      BY <1>1, <3>1, Chunks, Zenon
    <3>4. c.kind = "data" /\ c.byte = send_data /\ c.nrzi = do_nrzi
      OBVIOUS
    <3> HIDE DEF c
    <3> QED
      BY <3>2, <3>3, <3>4
  <2>3. /\ i \in 1 .. Len(offered) /\ l \in Nat /\ l >= 1 /\ send_len \in 0 .. l - 1
        /\ send_data = offered[i][l - send_len]
    BY <1>2, <2>1, SenderFrame DEF Sender
  <2>4. /\ p0 > 0 => f0 = i /\ p0 + send_len + 1 = l
        /\ p0 = 0 => f0 < i /\ send_len + 1 = l
    BY <1>1, <1>2, <2>1 DEF SendsNext
  <2>5. p = l - send_len /\ p \in 1 .. l /\ p > 0 /\ p \in Nat
    BY <1>1, <2>3, <2>4, SMTT(30)
  <2>6. Place(offered, i, p) /\ i \in Nat
    BY <2>3, <2>5 DEF Place
  <2> HIDE DEF c, p, l
  <2>7. Leads(c, offered, f0, p0, i, p)
    BY <2>2, <2>3, <2>4, <2>5 DEF Leads, p
  <2>8. PICK fr2, pos2 : fr2 = Ext(fr, Len(pipe), i) /\ pos2 = Ext(pos, Len(pipe), p)
    OBVIOUS
  <2>9. PICK j \in Nat :
          /\ Sender(j)'
          /\ \/ send_state' = "DATA" /\ i = j /\ p + send_len' + 1 = l
             \/ send_state' = "SEND_FLAGS" /\ send_len' > 0 /\ i < j /\ p = l /\ j = i + 1
    <3>1. CASE Data
      <4>1. send_len > 0
        BY <3>1, Zenon DEF Data
      <4>2. send_queue # <<>>
        BY <1>2, <2>1, <4>1, ByteThere, Zenon
      <4>3. send_state' = "DATA" /\ send_len' = send_len - 1
        BY <2>1, <3>1, <4>2, Zenon DEF Data
      <4>4. ~DataEnd
        <5>1. DataEnd => send_state' = "SEND_FLAGS"
          BY Zenon DEF DataEnd
        <5> QED
          BY <4>3, <5>1
      <4>5. Sender(i)'
        BY <1>2, <4>4, SenderStep, Zenon
      <4>6. p + send_len' + 1 = l
        BY <2>3, <2>5, <4>3
      <4> QED
        BY <2>6, <4>3, <4>5, <4>6, Zenon
    <3>2. CASE DataEnd
      <4>1. send_state' = "SEND_FLAGS" /\ send_len' = 1 /\ send_len <= 0
        BY <3>2, Zenon DEF DataEnd
      <4>2. Sender(i + 1)'
        BY <1>2, <3>2, SenderStep, Zenon
      <4>3. send_len' > 0 /\ i < i + 1 /\ p = l /\ i + 1 \in Nat
        BY <2>3, <2>5, <2>6, <4>1
      <4> QED
        BY <4>1, <4>2, <4>3, Zenon
    <3> QED
      BY <1>6, <3>1, <3>2
  <2> HIDE DEF f0, p0
  <2>10. ~(p = 0)
    BY <2>5
  <2>11. \/ send_state' = "DATA" /\ i = j /\ p + send_len' + 1 = Len(offered[j])
         \/ send_state' = "SEND_FLAGS" /\ send_len' > 0 /\ i < j /\ p = Len(offered[i])
    BY <2>9, Zenon DEF l
  <2>12. Stream(j, fr2, pos2, which)'
    BY <1>1, <1>3, <2>1, <2>2, <2>6, <2>7, <2>8, <2>9, <2>10, <2>11, StreamAccept DEF f0, p0
  <2>13. ASSUME Thorough
         PROVE  Complete(j, fr2, pos2, which)'
    <3>1. OpenAt(pipe, rx, Len(pipe)) /\ (p0 = 0 => i = f0 + 1)
      BY <1>4, <2>1, <2>13, Zenon DEF Ready
    <3>2. Len(pipe) + stall >= MaxStall
      <4>1. KeepsUp /\ ~late
        BY <1>3, <2>13, Zenon
      <4>2. "DATA" \in Sending /\ "DATA" # "SEND_FLAGS"
        BY DEF Sending
      <4> QED
        BY <2>1, <4>1, <4>2, Zenon DEF KeepsUp, Fed, Leading, Supplied
    <3>3. send_state' = "SEND_FLAGS" => j = i + 1
      BY <2>9
    <3>4. Complete(i, fr, pos, which)
      BY <2>13
    <3>5. c.kind # "cal" /\ (c.kind # "cal" => c.nrzi)
      BY <2>2
    <3> QED
      BY <1>1, <1>3, <2>1, <2>2, <2>5, <2>6, <2>8, <2>10, <3>1, <3>2, <3>3, <3>4, <3>5,
         CompleteAccept
         DEF f0, p0
  <2> QED
    BY <2>12, <2>13, Zenon
<1> QED
  BY <1>5, <1>6, Zenon DEF Handing

LEMMA StreamInit ==
    ASSUME Init
    PROVE  \E i, fr, pos, which : Stream(i, fr, pos, which) /\ Complete(i, fr, pos, which)
<1> DEFINE zero == [j \in 0 .. 0 |-> 0]
<1>1. /\ pipe = <<>> /\ offered = <<>> /\ heard = <<>> /\ rx = Closed /\ send_state = "IDLE"
  BY Zenon DEF Init, PipeInit
<1>2. Len(<<>>) = 0 /\ zero \in [0 .. 0 -> Nat] /\ zero[0] = 0 /\ (\A j \in 1 .. 0 : FALSE) /\ ~(0 > 0)
  OBVIOUS
<1> HIDE DEF zero
<1>3. Places(pipe, offered, zero, zero)
  BY <1>1, <1>2 DEF Places, Place
<1>4. rx.open = FALSE
  BY <1>1 DEF Closed
<1>5. Past(heard, offered, <<>>, zero[0], zero[0])
  BY <1>1, <1>2 DEF Past
<1>6. Got(rx, offered, zero[0], zero[0])
  BY <1>4, Zenon DEF Got
<1>7. SendsNext(1, zero, zero)
  BY <1>1, <1>2 DEF SendsNext
<1>8. Stream(1, zero, zero, <<>>)
  BY <1>3, <1>5, <1>6, <1>7, SenderInit, Zenon DEF Stream
<1>9. Unbroken(pipe, rx, zero, zero)
  BY <1>1, <1>2 DEF Unbroken
<1>10. AllHeard(heard, <<>>, zero[0], zero[0])
  BY <1>1, <1>2 DEF AllHeard
<1>11. NoneLeftOut(1, zero, zero)
  <2>1. ~Ready
    BY <1>1 DEF Ready
  <2>2. 1 = 0 + 1
    OBVIOUS
  <2> QED
    BY <1>1, <1>2, <2>1, <2>2, Zenon DEF NoneLeftOut
<1> QED
  BY <1>8, <1>9, <1>10, <1>11, Zenon DEF Complete

\* A step keeps the places right; and nothing missing, if the main loop is not late.
LEMMA StreamStep ==
    ASSUME TypeOK, Modes, NEW i, NEW fr, NEW pos, NEW which, Stream(i, fr, pos, which),
           [Next]_vars
    PROVE  \E j, fr2, pos2, which2 :
             /\ Stream(j, fr2, pos2, which2)'
             /\ FastEnough /\ KeepsUp /\ ~late' /\ Complete(i, fr, pos, which)
                  => Complete(j, fr2, pos2, which2)'
<1>1. CASE Handing
  BY <1>1, StreamHanding, Zenon
<1>2. CASE Silent /\ ~DataEnd
  BY <1>2, StreamSilent, CompleteSilent, Zenon
<1>3. CASE \E g \in Frame : Put(g)
  BY <1>3, StreamPutStep, CompletePut, Zenon
<1>4. Sender(i)
  BY Zenon DEF Stream
<1>5. CASE DmaAdvance
  <2>1. send_state' = send_state
    BY <1>5, Zenon DEF DmaAdvance, dmaRest, stateVars
  <2>2. ~DataEnd
    BY <2>1, Zenon DEF DataEnd, In
  <2>3. Sender(i)'
    BY <1>4, <2>2, SenderStep, Zenon
  <2>4. PICK fr2, pos2 : fr2 = Shift(fr, Len(pipe)) /\ pos2 = Shift(pos, Len(pipe))
    OBVIOUS
  <2>5. PICK which2 :
          /\ Stream(i, fr2, pos2, which2)'
          /\ Complete(i, fr, pos, which) => Complete(i, fr2, pos2, which2)'
    BY <1>5, <2>3, <2>4, StreamAdvance
  <2> QED
    BY <2>5, Zenon
<1>6. CASE DmaRelease
  <2>1. send_state' = send_state
    BY <1>6, Zenon DEF DmaRelease, dmaRest, stateVars
  <2>2. ~DataEnd
    BY <2>1, Zenon DEF DataEnd, In
  <2>3. Sender(i)'
    BY <1>4, <2>2, SenderStep, Zenon
  <2> QED
    BY <1>6, <2>3, StreamRelease, CompleteRelease, Zenon
<1> QED
  BY <1>1, <1>2, <1>3, <1>5, <1>6, Zenon DEF Next, MainLoop, SendStep, Dma, Silent, Handing

\* All that is said of the stream, in any case and if the main loop has never been late.
Flows == \E i, fr, pos, which : Stream(i, fr, pos, which)
FlowsWhole == \E i, fr, pos, which : Stream(i, fr, pos, which) /\ (~late => Complete(i, fr, pos, which))

LEMMA FlowsAlways ==
    ASSUME ~UsbConsole
    PROVE  Spec => []Flows
<1>1. Init => Flows
  BY StreamInit, Zenon DEF Flows
<1>2. TypeOK /\ Modes /\ Flows /\ [Next]_vars => Flows'
  <2> SUFFICES ASSUME TypeOK, Modes, Flows, [Next]_vars
               PROVE  Flows'
    OBVIOUS
  <2>1. PICK i, fr, pos, which : Stream(i, fr, pos, which)
    BY Zenon DEF Flows
  <2>2. \E j, fr2, pos2, which2 : Stream(j, fr2, pos2, which2)'
    BY <2>1, StreamStep, Zenon
  <2> QED
    BY <2>2, Zenon DEF Flows
<1> QED
  BY <1>1, <1>2, TypeCorrect, ModesAlways, PTL DEF Spec

LEMMA FlowsWholeAlways ==
    ASSUME ~UsbConsole, FastEnough
    PROVE  Spec => []FlowsWhole
<1>1. Init => FlowsWhole
  BY StreamInit, Zenon DEF FlowsWhole
<1>2. TypeOK /\ Modes /\ KeepsUp /\ FlowsWhole /\ [Next]_vars => FlowsWhole'
  <2> SUFFICES ASSUME TypeOK, Modes, KeepsUp, FlowsWhole, [Next]_vars
               PROVE  FlowsWhole'
    OBVIOUS
  <2>1. PICK i, fr, pos, which :
          Stream(i, fr, pos, which) /\ (~late => Complete(i, fr, pos, which))
    BY Zenon DEF FlowsWhole
  <2>2. PICK j, fr2, pos2, which2 :
          /\ Stream(j, fr2, pos2, which2)'
          /\ FastEnough /\ KeepsUp /\ ~late' /\ Complete(i, fr, pos, which)
               => Complete(j, fr2, pos2, which2)'
    BY <2>1, StreamStep, Zenon
  <2>3. late => late'
    BY Zenon DEF Next, vars, MainLoop, SendStep, Dma, Console, Put, Receive, Rest,
       ExitCalibrate,
       Idle, LeaveIdle, WaitClrCh, PersistencePass, PersistenceFail, WaitSlotTime, PttOn,
       SendByteFull, SendFlag, FlagsSent, DataStart, Data, DataEnd, HangNext, HangOver, HangFlag,
       CalibrateTone, CalibrateTimeout, CalibrateOff, SendStart, DmaFinish, DmaAdvance,
       DmaRelease, BlockStarts, CmdCalibrate, CtrlC, ToggleTone, sendRest, airVars, consoleRest
  <2> QED
    BY <2>1, <2>2, <2>3, Zenon DEF FlowsWhole
<1> QED
  BY <1>1, <1>2, TypeCorrect, ModesAlways, KeepsUpAlways, PTL DEF Spec

\* However late the main loop is and whatever the sizes, a listener never hears anything
\* but frames that were queued, each at most once and in the order they were queued.
THEOREM HeardAsQueued ==
    ASSUME ~UsbConsole
    PROVE  Spec => []HeardInOrder
<1>1. TypeOK /\ Flows => HeardInOrder
  <2> SUFFICES ASSUME TypeOK, Flows PROVE HeardInOrder
    OBVIOUS
  <2>1. PICK i, fr, pos, which : Stream(i, fr, pos, which)
    BY Zenon DEF Flows
  <2>2. /\ heard \in Seq(Frame) /\ which \in [1 .. Len(heard) -> Nat]
        /\ \A x \in 1 .. Len(heard) : which[x] \in 1 .. Len(offered) /\ heard[x] = offered[which[x]]
        /\ \A x, y \in 1 .. Len(heard) : x < y => which[x] < which[y]
    BY <2>1, Zenon DEF Stream, Past
  <2>3. DOMAIN heard = 1 .. Len(heard) /\ DOMAIN offered = 1 .. Len(offered)
    BY <2>2 DEF TypeOK
  <2>4. which \in [1 .. Len(heard) -> 1 .. Len(offered)]
    BY <2>2
  <2> QED
    BY <2>2, <2>3, <2>4, Zenon DEF HeardInOrder
<1> QED
  BY <1>1, TypeCorrect, FlowsAlways, PTL

\* Every frame that was queued is heard whole before any later one is, for every length
\* of the DAC queue and of TXDELAY, as long as the main loop lets no more than half the
\* queue be played between two calls of send().
THEOREM NothingIsCut ==
    ASSUME ~UsbConsole, FastEnough
    PROVE  Spec => []NothingCut
<1>1. TypeOK /\ FlowsWhole => NothingCut
  <2> SUFFICES ASSUME TypeOK, FlowsWhole, ~late PROVE IsPrefix(heard, offered)
    BY Zenon DEF NothingCut
  <2>1. PICK i, fr, pos, which : Stream(i, fr, pos, which) /\ Complete(i, fr, pos, which)
    BY Zenon DEF FlowsWhole
  <2>2. /\ heard \in Seq(Frame)
        /\ \A x \in 1 .. Len(heard) : which[x] \in 1 .. Len(offered) /\ heard[x] = offered[which[x]]
        /\ \A x \in 1 .. Len(heard) : which[x] = x
    BY <2>1, Zenon DEF Stream, Past, Complete, AllHeard
  <2>3. offered \in Seq(Frame) /\ Len(heard) \in Nat /\ Len(offered) \in Nat
    BY <2>2 DEF TypeOK
  <2>4. \A x \in 1 .. Len(heard) : x \in 1 .. Len(offered) /\ heard[x] = offered[x]
    BY <2>2, Zenon
  <2>5. Len(heard) <= Len(offered)
    <3>1. Len(heard) > 0 => Len(heard) \in 1 .. Len(offered)
      BY <2>3, <2>4
    <3> QED
      BY <2>3, <3>1
  <2>6. SubSeq(heard, 1, Len(heard)) = SubSeq(offered, 1, Len(heard))
    BY <2>2, <2>3, <2>4, <2>5
  <2> QED
    BY <2>5, <2>6, Zenon DEF IsPrefix
<1> QED
  BY <1>1, TypeCorrect, FlowsWholeAlways, PTL
=============================================================================
