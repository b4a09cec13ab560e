-------------------------------- MODULE Dac --------------------------------
(***************************************************************************)
(* The modulator of send.c: send_byte renders one byte into the block      *)
(* dma_blocks[next] (a list of wave-table addresses ended by NULL) and     *)
(* puts the block's address on dac_queue; the DMA control channel walks    *)
(* the block; reading its NULL raises DMA_IRQ_0, whose handler starts the  *)
(* next block or, with an empty queue, drops PTT.  send_start raises the   *)
(* first interrupt of a transmission by triggering a NULL.                 *)
(*                                                                         *)
(* The main loop and the interrupt share dac_queue, busy and the blocks.   *)
(* There are only DacQueueLen + 1 blocks and no record of which are free:  *)
(* that a block is never rendered into while it is queued or being played  *)
(* follows from the queue's capacity alone.                                *)
(***************************************************************************)
EXTENDS Naturals, Sequences

CONSTANTS
    DacQueueLen,    \* DAC_QUEUE_LEN, 64 in tnc.h
    Chunk,          \* what one byte becomes
    Silence,        \* AudioPipe: nothing is being played
    Garbage         \* a block not rendered yet, or rendered in part

ASSUME DacAssumption ==
    /\ DacQueueLen \in Nat \ {0}
    /\ Silence \notin Chunk
    /\ Garbage \notin Chunk

DacBlockLen == DacQueueLen + 1          \* DAC_BLOCK_LEN

Block == 0 .. DacBlockLen - 1
None == DacBlockLen                     \* no block: the control channel is idle

VARIABLES
    dac_queue,      \* addresses (indices) of rendered blocks, in order
    dma_blocks,     \* the contents of the blocks
    next,           \* tp->next: the block rendered next
    busy,           \* tp->busy
    ptt,            \* the PTT pin
    playing,        \* the block the DMA control channel reads, or None
    irq,            \* DMA_IRQ_0 is pending for the data channel
    pc,             \* where the main loop is: "out", "render" or "start"
    byte            \* the chunk send_byte is rendering

vars == <<dac_queue, dma_blocks, next, busy, ptt, playing, irq, pc, byte>>

TypeOK ==
    /\ dac_queue \in Seq(Block)
    /\ dma_blocks \in [Block -> Chunk \cup {Garbage}]
    /\ next \in Block
    /\ busy \in BOOLEAN
    /\ ptt \in BOOLEAN
    /\ playing \in Block \cup {None}
    /\ irq \in BOOLEAN
    /\ pc \in {"out", "render", "start"}
    /\ byte \in Chunk

Init ==
    /\ dac_queue = <<>>
    /\ dma_blocks = [b \in Block |-> Garbage]
    /\ next = 0
    /\ busy = FALSE
    /\ ptt = FALSE
    /\ playing = None
    /\ irq = FALSE
    /\ pc = "out"
    /\ byte \in Chunk
-----------------------------------------------------------------------------
(* The main loop *)

QueueIsFullLate == Len(dac_queue) >= DacQueueLen + 1

\* queue_is_full
QueueIsFull == Len(dac_queue) >= DacQueueLen

NextBlockSame == next
NextBlockUnwrapped == next + 1

NextBlock == IF next + 1 >= DacBlockLen THEN 0 ELSE next + 1

\* send_byte with room: samples are written to the block one by one, so from
\* here to SendByteAdd the block holds part of a byte.
SendByteRender(c) ==
    /\ pc = "out"
    /\ ~QueueIsFull
    /\ dma_blocks' = [dma_blocks EXCEPT ![next] = Garbage]
    /\ byte' = c
    /\ pc' = "render"
    /\ UNCHANGED <<dac_queue, next, busy, ptt, playing, irq>>

\* ... the NULL mark is written and the block queued; a full queue would only
\* be reported ("queue add fail") and the block used again.
SendByteAdd ==
    /\ pc = "render"
    /\ dma_blocks' = [dma_blocks EXCEPT ![next] = byte]
    /\ IF Len(dac_queue) < DacQueueLen
         THEN /\ dac_queue' = Append(dac_queue, next)
              /\ next' = NextBlock
         ELSE UNCHANGED <<dac_queue, next>>
    /\ pc' = "out"
    /\ UNCHANGED <<busy, ptt, playing, irq, byte>>

\* send_byte with a full queue goes to send_start.
SendByteFull ==
    /\ pc = "out"
    /\ QueueIsFull
    /\ pc' = "start"
    /\ UNCHANGED <<dac_queue, dma_blocks, next, busy, ptt, playing, irq, byte>>

\* send() calls send_start itself: after a frame's last byte and while it
\* holds PTT.
CallSendStart ==
    /\ pc = "out"
    /\ pc' = "start"
    /\ UNCHANGED <<dac_queue, dma_blocks, next, busy, ptt, playing, irq, byte>>

\* One step: no interrupt is pending and none can come while busy is false.
SendStart ==
    /\ pc = "start"
    /\ IF ~busy
         THEN /\ ptt' = TRUE
              /\ busy' = TRUE
              /\ irq' = TRUE
         ELSE UNCHANGED <<ptt, busy, irq>>
    /\ pc' = "out"
    /\ UNCHANGED <<dac_queue, dma_blocks, next, playing, byte>>
-----------------------------------------------------------------------------
(* The DMA and its interrupt *)

\* The control channel reads the block's NULL and raises the interrupt.
BlockEnd ==
    /\ playing # None
    /\ playing' = None
    /\ irq' = TRUE
    /\ UNCHANGED <<dac_queue, dma_blocks, next, busy, ptt, pc, byte>>

DmaHandlerPttOnly ==
    /\ irq
    /\ irq' = FALSE
    /\ IF dac_queue # <<>>
         THEN /\ playing' = Head(dac_queue)
              /\ dac_queue' = Tail(dac_queue)
              /\ UNCHANGED <<busy, ptt>>
         ELSE /\ ptt' = FALSE
              /\ UNCHANGED <<dac_queue, playing, busy>>
    /\ UNCHANGED <<dma_blocks, next, pc, byte>>

DmaHandler ==
    /\ irq
    /\ irq' = FALSE
    /\ IF dac_queue # <<>>
         THEN /\ playing' = Head(dac_queue)
              /\ dac_queue' = Tail(dac_queue)
              /\ UNCHANGED <<busy, ptt>>
         ELSE /\ ptt' = FALSE
              /\ busy' = FALSE
              /\ UNCHANGED <<dac_queue, playing>>
    /\ UNCHANGED <<dma_blocks, next, pc, byte>>
-----------------------------------------------------------------------------
Main ==
    \/ \E c \in Chunk : SendByteRender(c)
    \/ SendByteAdd
    \/ SendByteFull
    \/ CallSendStart
    \/ SendStart

Next == Main \/ BlockEnd \/ DmaHandler

Spec == Init /\ [][Next]_vars
-----------------------------------------------------------------------------
(* Properties *)

\* The block send_byte renders into (send.c:149) is neither waiting in
\* dac_queue nor being read by the DMA: DAC_BLOCK_LEN = DAC_QUEUE_LEN + 1
\* blocks are enough although nothing counts the block on the air.
NoBlockReuse ==
    pc = "render" =>
        /\ next # playing
        /\ \A i \in 1 .. Len(dac_queue) : dac_queue[i] # next

\* busy, which keeps send_start from triggering a running DMA chain, tells the
\* truth: it is set exactly while a block plays or an interrupt is pending,
\* never both of them, and PTT follows it.
BusyIsTrue ==
    /\ busy = (irq \/ playing # None)
    /\ ~(irq /\ playing # None)
    /\ ptt = busy

\* The pipe the blocks stand for.
pipe == [i \in 1 .. Len(dac_queue) |-> dma_blocks[dac_queue[i]]]
onair == IF playing = None THEN Silence ELSE dma_blocks[playing]

Pipe == INSTANCE AudioPipe WITH
            PipeLen <- DacQueueLen, keyed <- ptt

\* The DMA blocks implement the pipe: what is played is what send_byte was
\* given, whole, in order and once, and PTT drops only on an empty pipe.
ImplementsPipe == Pipe!PipeSpec
=============================================================================
