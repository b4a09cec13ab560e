---------------------------- MODULE Transmitter ----------------------------
(***************************************************************************)
(* The transmit side of the TNC: send() (send.c:317-456) takes frames from *)
(* tp->send_queue, waits for a clear channel, precedes them by flags,      *)
(* hands the bytes to the modulator and holds PTT for AXHANG; the DMA      *)
(* interrupt plays them; the CALIBRATE command borrows the transmitter.    *)
(* The modulator is AudioPipe (PipeLen is DAC_QUEUE_LEN), which module Dac *)
(* implements.                                                             *)
(*                                                                         *)
(* The main loop is sequential: receive() (where time passes and cdt is    *)
(* set), send() (one step per iteration of its loop), then the rest of the *)
(* loop.  The DMA and USB interrupts come between any two of these steps.  *)
(* Frames are queued whole here; what happens when an interrupt tears one  *)
(* is the subject of module SendQueue.                                     *)
(***************************************************************************)
EXTENDS AudioPipe, Wire, Integers, SequencesExt, Functions

CONSTANTS
    Frame,          \* frames: non-empty sequences of bytes, FCS included
    SendQueueLen,   \* SEND_QUEUE_LEN
    TxDelayFlags,   \* (kiss_txdelay * 3) / 2 + 1
    SlotTime,       \* kiss_slottime, ticks of 10 ms
    AxHang,         \* the settings of axhang, ticks
    CalTimeout,     \* CAL_TIMEOUT, ticks
    FullDuplex,     \* kiss_fullduplex
    UsbConsole,     \* CALIBRATE is given on the USB console, in its interrupt
    MaxFrames,      \* bound: frames queued
    MaxCmds,        \* bound: console commands
    MaxStall,       \* blocks played from one call of send() to the next, in time
    MaxLate         \* bound: blocks played from one call of send() to the next

VARIABLES
    send_queue, send_state, send_len, send_data,
    age,            \* tnc_time() - send_time, up to AgeCap
    cal_age,        \* tnc_time() - cal_time, up to CalTimeout
    cdt,            \* carrier detected
    axhang,         \* axhang, as set
    do_nrzi, calibrate_mode,
    pc,             \* where the main loop is
    stall,          \* blocks started since send() was entered
    late,           \* history: the main loop has once stayed away from send()
                    \* while more than MaxStall blocks were played
    sensed,         \* history: the channel was found clear in this call of send()
    rx,             \* history: the frame a listening station has under way
    offered,        \* history: frames queued
    heard,          \* history: frames a listening station has received
    cmds            \* console commands given

Byte == 0 .. Radix - 1
Flag == [kind |-> "flag", byte |-> 0, nrzi |-> TRUE]
Cal == [kind |-> "cal", byte |-> 0, nrzi |-> FALSE]
TxChunk == [kind : {"flag", "data", "cal"}, byte : Byte, nrzi : BOOLEAN]

ASSUME TransmitterAssumption ==
    /\ Frame \subseteq Seq(0 .. Radix - 1) \ {<<>>}
    /\ PipeLen \in Nat \ {0} /\ TxDelayFlags \in Nat \ {0}
    /\ Chunk = TxChunk /\ Silence \notin Chunk
    /\ SendQueueLen \in Nat /\ SendQueueLen <= Radix * Radix
    /\ SlotTime \in Nat /\ AxHang \subseteq Nat /\ CalTimeout \in Nat
    /\ \E m \in {SlotTime} \cup AxHang : \A n \in {SlotTime} \cup AxHang : n <= m
    /\ FullDuplex \in BOOLEAN /\ UsbConsole \in BOOLEAN
    /\ MaxStall \in Nat /\ MaxLate \in Nat

queueVars == <<send_queue, offered>>
stateVars == <<send_state, send_len, send_data>>
timeVars == <<age, cal_age, cdt, axhang>>
calVars == <<do_nrzi, calibrate_mode, cmds>>
airVars == <<stall, late, rx, heard>>
vars == <<queueVars, stateVars, timeVars, calVars, airVars, pipeVars, pc, sensed>>

SendState == {"IDLE", "WAIT_CLR_CH", "P_PERSISTENCE", "WAIT_SLOTTIME", "PTT_ON",
              "SEND_FLAGS", "DATA_START", "DATA", "PTT_HANG",
              "CALIBRATE", "CALIBRATE_OFF"}

\* receive, send, idle (in send, about to leave SP_IDLE), start (in send_start,
\* send() goes on), startEnd (in send_start, send() returns), rest, calibrate (in
\* calibrate, send_state is assigned).
Pc == {"receive", "send", "idle", "start", "startEnd", "rest", "calibrate"}

\* Ages beyond the limits they are compared with are the same.
AgeCap == CHOOSE m \in {SlotTime} \cup AxHang : \A n \in {SlotTime} \cup AxHang : n <= m

Closed == [open |-> FALSE, got |-> <<>>]

TypeOK ==
    /\ send_queue \in Seq(Byte) /\ Len(send_queue) <= SendQueueLen
    /\ send_state \in SendState
    /\ send_len \in Int /\ send_data \in Byte
    /\ age \in 0 .. AgeCap /\ cal_age \in 0 .. CalTimeout
    /\ cdt \in BOOLEAN /\ axhang \in AxHang
    /\ do_nrzi \in BOOLEAN /\ calibrate_mode \in BOOLEAN
    /\ pc \in Pc
    /\ PipeTypeOK
    /\ stall \in 0 .. MaxLate /\ late \in BOOLEAN
    /\ rx \in [open : BOOLEAN, got : Seq(Byte)]
    /\ offered \in Seq(Frame)

Init ==
    /\ send_queue = <<>> /\ offered = <<>>
    /\ send_state = "IDLE" /\ send_len = 0 /\ send_data = 0
    /\ age = 0 /\ cal_age = 0 /\ cdt = FALSE
    /\ axhang \in AxHang
    /\ do_nrzi = TRUE /\ calibrate_mode = FALSE /\ cmds = 0
    /\ pc = "receive"
    /\ PipeInit
    /\ stall = 0 /\ late = FALSE /\ rx = Closed /\ heard = <<>>
    /\ sensed = FALSE
-----------------------------------------------------------------------------
(* Producers, in the main loop or in the USB interrupt.  Each frame is queued *)
(* once, so that those heard can be told apart.                               *)

PutUnchecked(f) ==
    /\ Len(offered) < MaxFrames /\ f \notin Range(offered)
    /\ send_queue' = send_queue \o Wire(f)
    /\ offered' = Append(offered, f)
    /\ UNCHANGED <<stateVars, timeVars, calVars, airVars, pipeVars, pc, sensed>>

Put(f) ==
    /\ Len(offered) < MaxFrames /\ f \notin Range(offered)
    /\ SendQueueLen - Len(send_queue) >= Len(f) + 2
    /\ send_queue' = send_queue \o Wire(f)
    /\ offered' = Append(offered, f)
    /\ UNCHANGED <<stateVars, timeVars, calVars, airVars, pipeVars, pc, sensed>>
-----------------------------------------------------------------------------
(* The main loop outside send() *)

\* (An age counts only while send() looks at it; it starts at 0 each time.)
Aged(a, cap, tick, counts) ==
    CASE ~counts -> 0
      [] counts /\ tick /\ a < cap -> a + 1
      [] OTHER -> a

\* receive(): one tick per ADC buffer, and what the demodulator says of the
\* channel.  Then send() is called.
Receive(tick) ==
    /\ pc = "receive"
    /\ age' = Aged(age, AgeCap, tick, send_state \in {"WAIT_SLOTTIME", "PTT_HANG"})
    /\ cal_age' = Aged(cal_age, CalTimeout, tick, send_state = "CALIBRATE")
    /\ cdt' \in BOOLEAN
    /\ pc' = "send"
    /\ stall' = 0
    /\ sensed' = FALSE
    /\ UNCHANGED <<queueVars, stateVars, axhang, calVars, pipeVars, late, rx, heard>>

\* The rest of the loop.  calibrate() ends calibrate mode in two steps, and the
\* USB interrupt may come in between.
Rest ==
    /\ pc = "rest"
    /\ IF send_state = "CALIBRATE_OFF"
         THEN send_state' = "IDLE" /\ pc' = "calibrate"
         ELSE UNCHANGED send_state /\ pc' = "receive"
    /\ UNCHANGED <<queueVars, send_len, send_data, timeVars, calVars, airVars,
                   pipeVars, sensed>>

ExitCalibrate ==
    /\ pc = "calibrate"
    /\ do_nrzi' = TRUE
    /\ calibrate_mode' = FALSE
    /\ pc' = "receive"
    /\ UNCHANGED <<queueVars, stateVars, timeVars, cmds, airVars, pipeVars, sensed>>
-----------------------------------------------------------------------------
(* send(): one action per case, or per branch of a case *)

\* Go on with the loop (continue, fall-through) or leave it (break).
Continue == pc' = "send"
Break == pc' = "rest"

In(state) == pc = "send" /\ send_state = state

sendRest == <<offered, timeVars, calVars, airVars, sensed>>

\* SP_IDLE: the queue is looked at ...
Idle ==
    /\ In("IDLE")
    /\ IF send_queue # <<>> THEN pc' = "idle" ELSE Break
    /\ UNCHANGED <<sendRest, stateVars, send_queue, pipeVars>>

\* ... and the state is assigned, whatever it is by then.
LeaveIdle ==
    /\ pc = "idle"
    /\ send_state' = "WAIT_CLR_CH"
    /\ Continue
    /\ UNCHANGED <<sendRest, send_len, send_data, send_queue, pipeVars>>

WaitClrCh ==
    /\ In("WAIT_CLR_CH")
    /\ IF FullDuplex \/ ~cdt
         THEN send_state' = "P_PERSISTENCE" /\ sensed' = TRUE /\ Continue
         ELSE UNCHANGED <<send_state, sensed>> /\ Break
    /\ UNCHANGED <<queueVars, send_len, send_data, timeVars, calVars, airVars, pipeVars>>

\* SP_P_PERSISTENCE: rand() is at most kiss_p ...
PersistencePass ==
    /\ In("P_PERSISTENCE")
    /\ send_state' = "PTT_ON"
    /\ Continue
    /\ UNCHANGED <<sendRest, send_len, send_data, send_queue, pipeVars>>

\* ... or not.
PersistenceFail ==
    /\ In("P_PERSISTENCE")
    /\ age' = 0
    /\ send_state' = "WAIT_SLOTTIME"
    /\ Break
    /\ UNCHANGED <<queueVars, send_len, send_data, cal_age, cdt, axhang, calVars, airVars,
                   pipeVars, sensed>>

WaitSlotTimeToPtt ==
    /\ In("WAIT_SLOTTIME")
    /\ IF age >= SlotTime THEN send_state' = "PTT_ON" /\ Continue
                          ELSE UNCHANGED send_state /\ Break
    /\ UNCHANGED <<sendRest, send_len, send_data, send_queue, pipeVars>>

WaitSlotTime ==
    /\ In("WAIT_SLOTTIME")
    /\ IF age >= SlotTime THEN send_state' = "WAIT_CLR_CH" /\ Continue
                          ELSE UNCHANGED send_state /\ Break
    /\ UNCHANGED <<sendRest, send_len, send_data, send_queue, pipeVars>>

PttOn ==
    /\ In("PTT_ON")
    /\ send_len' = TxDelayFlags
    /\ send_state' = "SEND_FLAGS"
    /\ Continue
    /\ UNCHANGED <<sendRest, send_data, send_queue, pipeVars>>

\* send_byte with a full pipe: send_start, and send() leaves its loop.
SendByteFull ==
    /\ pc = "send"
    /\ \/ send_state = "SEND_FLAGS" /\ send_len > 0
       \/ send_state = "DATA"
       \/ send_state = "PTT_HANG" /\ send_queue = <<>> /\ age < axhang
       \/ send_state = "CALIBRATE" /\ cal_age < CalTimeout
    /\ ~HasRoom
    /\ pc' = "startEnd"
    /\ UNCHANGED <<sendRest, stateVars, send_queue, pipeVars>>

SendFlag ==
    /\ In("SEND_FLAGS")
    /\ send_len > 0
    /\ Accept([Flag EXCEPT !.nrzi = do_nrzi])
    /\ send_len' = send_len - 1
    /\ Continue
    /\ UNCHANGED <<sendRest, send_state, send_data, send_queue>>

\* SP_SEND_FLAGS after the last flag.
FlagsSent ==
    /\ In("SEND_FLAGS")
    /\ send_len <= 0
    /\ IF send_queue = <<>>
         THEN age' = 0 /\ send_state' = "PTT_HANG"
         ELSE send_state' = "DATA_START" /\ UNCHANGED age
    /\ Continue
    /\ UNCHANGED <<queueVars, send_len, send_data, cal_age, cdt, axhang, calVars, airVars,
                   pipeVars, sensed>>

DataStartWhole ==
    /\ In("DATA_START")
    /\ Len(send_queue) >= 3
    /\ send_len' = LengthOf(send_queue[1], send_queue[2])
    /\ send_data' = send_queue[3]
    /\ send_queue' = SubSeq(send_queue, 4, Len(send_queue))
    /\ send_state' = "DATA"
    /\ Continue
    /\ UNCHANGED <<sendRest, pipeVars>>

\* SP_DATA_START: the length and the first byte, if they are there.
DataStart ==
    /\ In("DATA_START")
    /\ IF Len(send_queue) >= 3
         THEN /\ send_len' = LengthOf(send_queue[1], send_queue[2]) - 1
              /\ send_data' = send_queue[3]
              /\ send_queue' = SubSeq(send_queue, 4, Len(send_queue))
              /\ send_state' = "DATA"
              /\ Continue
         ELSE /\ send_queue' = <<>>
              /\ send_state' = "IDLE"
              /\ Break
              /\ UNCHANGED <<send_len, send_data>>
    /\ UNCHANGED <<sendRest, pipeVars>>

DataEndNoFlag ==
    /\ In("DATA")
    /\ send_len <= 0
    /\ Accept([kind |-> "data", byte |-> send_data, nrzi |-> do_nrzi])
    /\ send_len' = 0
    /\ send_state' = "SEND_FLAGS"
    /\ pc' = "start"
    /\ UNCHANGED <<sendRest, send_data, send_queue>>

DataEndUnstarted ==
    /\ In("DATA")
    /\ send_len <= 0
    /\ Accept([kind |-> "data", byte |-> send_data, nrzi |-> do_nrzi])
    /\ send_len' = 1
    /\ send_state' = "SEND_FLAGS"
    /\ Continue
    /\ UNCHANGED <<sendRest, send_data, send_queue>>

\* SP_DATA, the last byte: the closing flag is left to SP_SEND_FLAGS, the
\* modulator is started.
DataEnd ==
    /\ In("DATA")
    /\ send_len <= 0
    /\ Accept([kind |-> "data", byte |-> send_data, nrzi |-> do_nrzi])
    /\ send_len' = 1
    /\ send_state' = "SEND_FLAGS"
    /\ pc' = "start"
    /\ UNCHANGED <<sendRest, send_data, send_queue>>

\* SP_DATA, not the last byte: the next one is fetched, or the queue has run
\* out and the frame is given up.
Data ==
    /\ In("DATA")
    /\ send_len > 0
    /\ Accept([kind |-> "data", byte |-> send_data, nrzi |-> do_nrzi])
    /\ IF send_queue # <<>>
         THEN /\ send_data' = Head(send_queue)
              /\ send_queue' = Tail(send_queue)
              /\ send_len' = send_len - 1
              /\ Continue
              /\ UNCHANGED send_state
         ELSE /\ send_state' = "IDLE"
              /\ Break
              /\ UNCHANGED <<send_queue, send_len, send_data>>
    /\ UNCHANGED sendRest

\* SP_PTT_HANG: another frame came, ...
HangNext ==
    /\ In("PTT_HANG")
    /\ send_queue # <<>>
    /\ send_state' = "DATA_START"
    /\ Continue
    /\ UNCHANGED <<sendRest, send_len, send_data, send_queue, pipeVars>>

\* ... AXHANG is over, ...
HangOver ==
    /\ In("PTT_HANG")
    /\ send_queue = <<>>
    /\ age >= axhang
    /\ send_state' = "IDLE"
    /\ Break
    /\ UNCHANGED <<sendRest, send_len, send_data, send_queue, pipeVars>>

HangFlagRestarts ==
    /\ In("PTT_HANG")
    /\ send_queue = <<>>
    /\ age < axhang
    /\ age' = 0
    /\ Accept([Flag EXCEPT !.nrzi = do_nrzi])
    /\ pc' = "start"
    /\ UNCHANGED <<offered, cal_age, cdt, axhang, calVars, airVars, sensed, stateVars, send_queue>>

\* ... or PTT is held by another flag.
HangFlag ==
    /\ In("PTT_HANG")
    /\ send_queue = <<>>
    /\ age < axhang
    /\ Accept([Flag EXCEPT !.nrzi = do_nrzi])
    /\ pc' = "start"
    /\ UNCHANGED <<sendRest, stateVars, send_queue>>

CalibrateForever ==
    /\ In("CALIBRATE")
    /\ Accept(Cal)
    /\ Break
    /\ UNCHANGED <<sendRest, stateVars, send_queue>>

\* SP_CALIBRATE: a byte of tone, ...
CalibrateTone ==
    /\ In("CALIBRATE")
    /\ cal_age < CalTimeout
    /\ Accept(Cal)
    /\ Break
    /\ UNCHANGED <<sendRest, stateVars, send_queue>>

\* ... until the time is over.
CalibrateTimeout ==
    /\ In("CALIBRATE")
    /\ cal_age >= CalTimeout
    /\ send_state' = "CALIBRATE_OFF"
    /\ Break
    /\ UNCHANGED <<sendRest, send_len, send_data, send_queue, pipeVars>>

\* No case: the state waits for calibrate().
CalibrateOff ==
    /\ In("CALIBRATE_OFF")
    /\ Break
    /\ UNCHANGED <<sendRest, stateVars, send_queue, pipeVars>>

\* send_start, called by send_byte or by send().
SendStart ==
    /\ pc \in {"start", "startEnd"}
    /\ pc' = IF pc = "start" THEN "send" ELSE "rest"
    /\ IF keyed THEN UNCHANGED pipeVars ELSE Key
    /\ UNCHANGED <<sendRest, stateVars, send_queue>>

SendStep ==
    \/ Idle \/ LeaveIdle \/ WaitClrCh \/ PersistencePass \/ PersistenceFail
    \/ WaitSlotTime \/ PttOn \/ SendByteFull \/ SendFlag \/ FlagsSent
    \/ DataStart \/ Data \/ DataEnd \/ HangNext \/ HangOver \/ HangFlag
    \/ CalibrateTone \/ CalibrateTimeout \/ CalibrateOff \/ SendStart
-----------------------------------------------------------------------------
(* The DMA and its interrupt, and who listens *)

\* A station on the channel: a frame is what lies between two flags of one
\* transmission, NRZI coded (what decode_bit looks for).
Listen(c) ==
    CASE c.kind = "flag" /\ c.nrzi ->
           /\ rx' = [open |-> TRUE, got |-> <<>>]
           /\ heard' = IF rx.open /\ rx.got # <<>> THEN Append(heard, rx.got) ELSE heard
      [] c.kind = "data" /\ c.nrzi /\ rx.open ->
           /\ rx' = [rx EXCEPT !.got = Append(@, c.byte)]
           /\ UNCHANGED heard
      [] OTHER -> rx' = Closed /\ UNCHANGED heard

dmaRest == <<queueVars, stateVars, timeVars, calVars, pc, sensed>>

BlockStarts ==
    /\ stall < MaxLate
    /\ stall' = stall + 1
    /\ late' = (late \/ stall >= MaxStall)

DmaFinish ==
    /\ Finish
    /\ UNCHANGED <<dmaRest, airVars>>

DmaAdvance ==
    /\ BlockStarts
    /\ Advance
    /\ Listen(Head(pipe))
    /\ UNCHANGED dmaRest

DmaRelease ==
    /\ BlockStarts
    /\ Release
    /\ rx' = Closed
    /\ UNCHANGED <<dmaRest, heard>>
-----------------------------------------------------------------------------
(* The console *)

\* What the USB terminal sends is seen at any moment, what the UART terminal sends
\* in the rest of the main loop.  calibrate_mode is for both: whoever gave the
\* command, either can end it.
ConsoleTurn == cmds < MaxCmds /\ cmds' = cmds + 1

consoleRest == <<queueVars, send_len, send_data, age, cdt, axhang, airVars, pipeVars, pc, sensed>>

CmdCalibrate ==
    /\ ConsoleTurn
    /\ UsbConsole \/ pc = "rest"
    /\ ~calibrate_mode
    /\ send_state = "IDLE"
    /\ send_state' = "CALIBRATE"
    /\ do_nrzi' = FALSE
    /\ calibrate_mode' = TRUE
    /\ cal_age' = 0
    /\ UNCHANGED consoleRest

CtrlCToIdle ==
    /\ ConsoleTurn
    /\ calibrate_mode
    /\ send_state' = "IDLE"
    /\ UNCHANGED <<consoleRest, do_nrzi, calibrate_mode, cal_age>>

CtrlC ==
    /\ ConsoleTurn
    /\ calibrate_mode
    /\ send_state' = "CALIBRATE_OFF"
    /\ UNCHANGED <<consoleRest, do_nrzi, calibrate_mode, cal_age>>

ToggleTone ==
    /\ ConsoleTurn
    /\ calibrate_mode
    /\ cal_age' = 0
    /\ UNCHANGED <<consoleRest, send_state, do_nrzi, calibrate_mode>>
-----------------------------------------------------------------------------
MainLoop == (\E tick \in BOOLEAN : Receive(tick)) \/ SendStep \/ Rest \/ ExitCalibrate
Dma == DmaFinish \/ DmaAdvance \/ DmaRelease
Console == CmdCalibrate \/ CtrlC \/ ToggleTone

Next == (\E f \in Frame : Put(f)) \/ MainLoop \/ Dma \/ Console

Spec == Init /\ [][Next]_vars

\* The processor and the DMA do not stop; ticks come from the ADC for ever; the
\* channel is clear again and again when send() looks, and rand() lets a frame
\* pass again and again (kiss_p is 63 of 255).
Fairness ==
    /\ WF_vars(MainLoop)
    /\ SF_vars(Receive(TRUE))
    /\ SF_vars(send_state = "WAIT_CLR_CH" /\ Receive(TRUE) /\ ~cdt')
    /\ SF_vars(PersistencePass)
    /\ WF_vars(Dma)

FairSpec == Spec /\ Fairness
-----------------------------------------------------------------------------
(* Properties *)

\* Frames reach the channel whole and in order, each at most once, and with no
\* frame left out, as long as the main loop returns to send() before the pipe
\* runs dry (MaxStall).
NothingCut == ~late => IsPrefix(heard, offered)

\* However long the main loop stays away, a listener never receives anything
\* but frames that were queued, in the order they were queued: a frame cut by
\* a dry pipe is lost, it is not patched together with the next one.
HeardInOrder ==
    \E which \in [DOMAIN heard -> DOMAIN offered] :
        /\ \A i, j \in DOMAIN heard : i < j => which[i] < which[j]
        /\ \A i \in DOMAIN heard : heard[i] = offered[which[i]]

\* PTT comes on only in the call of send() that has found the channel clear
\* (full duplex counts as clear), or for CALIBRATE.  (A transmission that a dry
\* pipe has interrupted goes on without listening again: late.)
ListenBeforeKey ==
    [][~keyed /\ keyed' => sensed \/ calibrate_mode \/ late]_vars

\* Whenever the transmitter has come to rest nothing of a frame, not even its
\* closing flag, is left behind in the DAC queue with no interrupt to play it;
\* again as long as the pipe does not run dry inside one call of send().
NothingStranded ==
    (send_state = "IDLE" /\ ~keyed /\ ~late) => \A i \in 1 .. Len(pipe) : pipe[i].kind = "cal"

\* calibrate_mode ("indicate calibrate mode", cmd.c:86), which decides whether
\* key strokes go to the command line, agrees with the state machine, and NRZI
\* coding is off in calibrate mode only.  (CTRL-C from USB inside calibrate() may
\* leave SP_CALIBRATE_OFF behind, for one more turn of the loop.)
CalibrateModeAgrees ==
    pc # "calibrate" =>
        /\ send_state = "CALIBRATE" => calibrate_mode
        /\ calibrate_mode => send_state \in {"CALIBRATE", "CALIBRATE_OFF"}
        /\ do_nrzi = ~calibrate_mode

\* Every frame queued is heard in the end, if the main loop is never late.
EveryFrameHeard == Len(heard) < Len(offered) ~> heard = offered \/ late

\* PTT is always released again.
PttReleased == keyed ~> ~keyed

\* Calibrate mode ends, by CTRL-C or after CAL_TIMEOUT.
CalibrateEnds == calibrate_mode ~> ~calibrate_mode
=============================================================================
