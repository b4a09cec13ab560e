------------------------------ MODULE AdcRing ------------------------------
(***************************************************************************)
(* The sample buffers of receive.c.  The ADC's DMA channel fills           *)
(* buf[0..BUF_NUM-1] in turn, ten milliseconds each; when one is full,     *)
(* DMA_IRQ_1's handler points the channel to the next and releases a       *)
(* semaphore; receive() acquires it, advances the clock (tnc_time) and     *)
(* demodulates the oldest buffer, one per turn of the main loop.           *)
(*                                                                         *)
(* The handler and the reader each have an index of their own and never    *)
(* compare them.  The semaphore is all that relates them, and it saturates *)
(* at BUF_NUM; the handler's test for an overrun is compiled out.  The     *)
(* history variable overrun records that the main loop fell so far behind  *)
(* that the channel was pointed at a buffer not yet read.                  *)
(***************************************************************************)
EXTENDS Naturals

CONSTANTS
    BufNum,         \* BUF_NUM, 16
    Wrap            \* tnc_time counts modulo 2^32; so are the fills counted

ASSUME AdcRingAssumption ==
    BufNum \in Nat \ {0, 1} /\ Wrap \in Nat /\ Wrap > BufNum

Index == 0 .. BufNum - 1
Waiting == BufNum               \* the channel waits for the handler
Count == 0 .. Wrap - 1
Torn == Wrap                    \* content of a buffer while it is being filled

VARIABLES
    buf,            \* what each buffer holds: its fill's number, or Torn
    writing,        \* the buffer the channel fills, or Waiting; then the
                    \*   interrupt is pending
    irq_next,       \* dma_handler's buf_next
    sem,            \* permits of the semaphore
    read_next,      \* receive's buf_next
    reading,        \* receive is inside its loop over a buffer
    filled,         \* history: number of the fill under way
    tnc_time,       \* __tnc_time
    overrun         \* history: an unread buffer was given to the channel

adcVars == <<buf, writing, irq_next, sem, read_next, reading, filled, tnc_time, overrun>>

AdcTypeOK ==
    /\ buf \in [Index -> Count \cup {Torn}]
    /\ writing \in Index \cup {Waiting}
    /\ irq_next \in Index
    /\ sem \in 0 .. BufNum
    /\ read_next \in Index
    /\ reading \in BOOLEAN
    /\ filled \in Count
    /\ tnc_time \in Count
    /\ overrun \in BOOLEAN

AdcInitSame ==
    /\ buf = [b \in Index |-> Torn]
    /\ writing = 0 /\ irq_next = 0
    /\ sem = 0
    /\ read_next = 0 /\ reading = FALSE
    /\ filled = 0 /\ tnc_time = 0
    /\ overrun = FALSE

AdcInit ==
    /\ buf = [b \in Index |-> Torn]
    /\ writing = 0 /\ irq_next = 1
    /\ sem = 0
    /\ read_next = 0 /\ reading = FALSE
    /\ filled = 0 /\ tnc_time = 0
    /\ overrun = FALSE
-----------------------------------------------------------------------------
AfterUnmasked(b) == b + 1

\* ++buf_next; buf_next &= BUF_NUM - 1
After(b) == IF b + 1 = BufNum THEN 0 ELSE b + 1

\* The count k steps on, k <= BufNum.
Later(n, k) == IF n + k < Wrap THEN n + k ELSE n + k - Wrap

\* The channel has filled its buffer and raises the interrupt.
BufferFull ==
    /\ writing # Waiting
    /\ buf' = [buf EXCEPT ![writing] = filled]
    /\ filled' = Later(filled, 1)
    /\ writing' = Waiting
    /\ UNCHANGED <<irq_next, sem, read_next, reading, tnc_time, overrun>>

\* Buffers that hold samples receive() has still to read, or is reading.
Unread == sem + (IF reading THEN 1 ELSE 0)

AdcDmaHandlerUnsignalled ==
    /\ writing = Waiting
    /\ buf' = [buf EXCEPT ![irq_next] = Torn]
    /\ writing' = irq_next
    /\ sem' = IF sem < BufNum - 2 THEN sem + 1 ELSE sem
    /\ overrun' = (overrun \/ Unread + 1 >= BufNum)
    /\ irq_next' = After(irq_next)
    /\ UNCHANGED <<read_next, reading, filled, tnc_time>>

\* The interrupt: the channel goes on with the next buffer, whoever uses it.
AdcDmaHandler ==
    /\ writing = Waiting
    /\ buf' = [buf EXCEPT ![irq_next] = Torn]
    /\ writing' = irq_next
    /\ sem' = IF sem < BufNum THEN sem + 1 ELSE sem
    /\ overrun' = (overrun \/ Unread + 1 >= BufNum)
    /\ irq_next' = After(irq_next)
    /\ UNCHANGED <<read_next, reading, filled, tnc_time>>

\* receive() finds a permit; without one it returns.
Acquire ==
    /\ ~reading
    /\ sem > 0
    /\ sem' = sem - 1
    /\ tnc_time' = Later(tnc_time, 1)
    /\ reading' = TRUE
    /\ UNCHANGED <<buf, writing, irq_next, read_next, filled, overrun>>

\* The loop over the samples ends.
Demodulated ==
    /\ reading
    /\ read_next' = After(read_next)
    /\ reading' = FALSE
    /\ UNCHANGED <<buf, writing, irq_next, sem, filled, tnc_time, overrun>>

AdcNext == BufferFull \/ AdcDmaHandler \/ Acquire \/ Demodulated

AdcSpec == AdcInit /\ [][AdcNext]_adcVars
-----------------------------------------------------------------------------
(* Properties *)

\* As long as the main loop has not fallen BUF_NUM - 1 buffers behind, the two
\* indices, which nothing ever compares, stay in step: the buffer receive()
\* reads at tick t is the one filled t-th, whole, and not the one being
\* filled.  Every buffer is so demodulated once, in order.
InStep ==
    (~overrun /\ reading) =>
        /\ writing # read_next
        /\ buf[read_next] # Torn
        /\ tnc_time = Later(buf[read_next], 1)

\* ... and the clock is right: it is behind the ADC by the buffers that wait,
\* no tick is lost.
ClockRight ==
    ~overrun => filled = Later(tnc_time, sem + (IF writing = Waiting THEN 1 ELSE 0))
=============================================================================
