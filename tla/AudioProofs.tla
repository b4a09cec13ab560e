----------------------------- MODULE AudioProofs -----------------------------
(***************************************************************************)
(* Proofs about the two rings of blocks between the main loop and a DMA    *)
(* channel: the one send_byte renders into (Dac) and the one the ADC fills *)
(* (AdcRing), for every length of either.  They share nothing but their    *)
(* argument, an inductive invariant that says where on the ring every      *)
(* block in use lies.                                                      *)
(*                                                                         *)
(* Dac: the queued blocks are the ones just before next, in order, and the *)
(* playing block is the one before those (indices taken round the ring).   *)
(* With at most DacQueueLen of them queued, and fewer while a block is     *)
(* being rendered, next is none of them.                                   *)
(*                                                                         *)
(* AdcRing: while nothing has been overrun, from read_next on come the     *)
(* full buffers, numbered on from the clock, then the one being filled,    *)
(* then irq_next.                                                          *)
(***************************************************************************)
EXTENDS Dac, AdcRing, SequenceTheorems, TLAPS

-----------------------------------------------------------------------------
(* The blocks of the modulator *)

\* The block k places before block n.
Before(n, k) == IF n >= k THEN n - k ELSE n + DacBlockLen - k

Capacity ==
    /\ Len(dac_queue) <= DacQueueLen
    /\ pc = "render" => Len(dac_queue) < DacQueueLen

Queued ==
    \A i \in 1 .. Len(dac_queue) :
        /\ dac_queue[i] = Before(next, Len(dac_queue) - i + 1)
        /\ dma_blocks[dac_queue[i]] \in Chunk

Playing ==
    playing # None =>
        /\ playing = Before(next, Len(dac_queue) + 1)
        /\ dma_blocks[playing] \in Chunk

IInv == TypeOK /\ Capacity /\ Queued /\ Playing /\ BusyIsTrue
-----------------------------------------------------------------------------
\* The blocks up to a full turn before n are not n.
LEMMA BeforeIsAnother ==
    ASSUME NEW n \in Block, NEW k \in 1 .. DacQueueLen
    PROVE  Before(n, k) \in Block /\ Before(n, k) # n
BY DacAssumption DEF Before, Block, DacBlockLen

\* next advances by one place round the ring.
LEMMA NextBlockInBlock ==
    ASSUME next \in Block
    PROVE  /\ NextBlock \in Block
           /\ NextBlock = IF next = DacQueueLen THEN 0 ELSE next + 1
BY DacAssumption DEF NextBlock, Block, DacBlockLen

\* The block rendered into is not in use: send.c:149 writes only to a block
\* that is neither queued nor on the air.
LEMMA RenderedIsFree ==
    ASSUME IInv, Len(dac_queue) < DacQueueLen
    PROVE  /\ next # playing
           /\ \A i \in 1 .. Len(dac_queue) : dac_queue[i] # next
<1> USE DacAssumption DEF IInv
<1>1. Len(dac_queue) \in Nat
  BY DEF TypeOK
<1>2. next \in Block /\ None \notin Block
  BY DEF TypeOK, Block, None, DacBlockLen
<1>3. next # playing
  <2>1. CASE playing = None
    BY <2>1, <1>2
  <2>2. CASE playing # None
    <3>1. Len(dac_queue) + 1 \in 1 .. DacQueueLen
      BY <1>1
    <3> QED BY <3>1, <2>2, <1>2, BeforeIsAnother DEF Playing
  <2> QED BY <2>1, <2>2
<1>4. ASSUME NEW i \in 1 .. Len(dac_queue) PROVE dac_queue[i] # next
  <2>1. Len(dac_queue) - i + 1 \in 1 .. DacQueueLen
    BY <1>1
  <2> QED BY <2>1, <1>2, BeforeIsAnother DEF Queued
<1> QED BY <1>3, <1>4

\* IInv holds initially.
LEMMA InitIInv == Init => IInv
<1> SUFFICES ASSUME Init PROVE IInv
  OBVIOUS
<1> USE DacAssumption DEF Init
<1>1. TypeOK
  BY DEF TypeOK, Block, None, DacBlockLen
<1>2. Capacity /\ Queued /\ Playing
  BY DEF Capacity, Queued, Playing
<1>3. BusyIsTrue
  BY DEF BusyIsTrue
<1> QED BY <1>1, <1>2, <1>3 DEF IInv

\* Every step of the main loop, of the DMA and of its handler preserves IInv.
LEMMA StepIInv == IInv /\ [Next]_vars => IInv'
<1> SUFFICES ASSUME IInv, [Next]_vars PROVE IInv'
  OBVIOUS
<1> USE DacAssumption
<1>1. /\ Len(dac_queue) \in Nat
      /\ next \in Block
      /\ None \notin Block
      /\ dac_queue \in Seq(Block)
  BY DEF IInv, TypeOK, Block, None, DacBlockLen
<1>2. ASSUME NEW c \in Chunk, SendByteRender(c) PROVE IInv'
  <2>1. Len(dac_queue) < DacQueueLen
    BY <1>1, <1>2 DEF SendByteRender, QueueIsFull
  <2>2. \A b \in Block : b # next => dma_blocks'[b] = dma_blocks[b]
    BY <1>2 DEF SendByteRender, IInv, TypeOK
  <2>3. TypeOK'
    BY <1>2 DEF IInv, TypeOK, SendByteRender
  <2>4. Capacity'
    BY <1>2, <2>1 DEF Capacity, SendByteRender
  <2>5. Queued'
    <3> SUFFICES ASSUME NEW i \in 1 .. Len(dac_queue)
                 PROVE  /\ dac_queue[i] = Before(next, Len(dac_queue) - i + 1)
                        /\ dma_blocks'[dac_queue[i]] \in Chunk
      BY <1>2 DEF Queued, SendByteRender
    <3> QED BY <1>1, <2>1, <2>2, RenderedIsFree DEF IInv, Queued
  <2>6. Playing'
    <3> SUFFICES ASSUME playing # None
                 PROVE  /\ playing = Before(next, Len(dac_queue) + 1)
                        /\ dma_blocks'[playing] \in Chunk
      BY <1>2 DEF Playing, SendByteRender, None
    <3> QED BY <2>1, <2>2, RenderedIsFree DEF IInv, Playing, TypeOK
  <2>7. BusyIsTrue'
    BY <1>2 DEF IInv, BusyIsTrue, SendByteRender, None
  <2> QED BY <2>3, <2>4, <2>5, <2>6, <2>7 DEF IInv
<1>3. ASSUME SendByteAdd PROVE IInv'
  <2>1. Len(dac_queue) < DacQueueLen
    BY <1>3 DEF IInv, Capacity, SendByteAdd
  <2>2. /\ dac_queue' = Append(dac_queue, next)
        /\ next' = NextBlock
        /\ playing' = playing
        /\ dma_blocks' = [dma_blocks EXCEPT ![next] = byte]
    BY <1>3, <2>1 DEF SendByteAdd
  <2>3. /\ \A b \in Block : b # next => dma_blocks'[b] = dma_blocks[b]
        /\ dma_blocks'[next] \in Chunk
    BY <2>2, <1>1 DEF IInv, TypeOK
  <2>4. Len(dac_queue') = Len(dac_queue) + 1
    BY <1>1, <2>2
  <2>5. \A k \in 1 .. DacQueueLen : Before(next', k + 1) = Before(next, k)
    BY <1>1, <2>2, NextBlockInBlock DEF Before, Block, DacBlockLen
  <2>6. Before(next', 1) = next
    BY <1>1, <2>2, NextBlockInBlock DEF Before, Block, DacBlockLen
  <2>7. TypeOK'
    BY <1>1, <1>3, <2>2, NextBlockInBlock DEF IInv, TypeOK, SendByteAdd
  <2>8. Capacity'
    BY <1>1, <1>3, <2>1, <2>4 DEF Capacity, SendByteAdd
  <2>9. Queued'
    <3> SUFFICES ASSUME NEW i \in 1 .. Len(dac_queue')
                 PROVE  /\ dac_queue'[i] = Before(next', Len(dac_queue') - i + 1)
                        /\ dma_blocks'[dac_queue'[i]] \in Chunk
      BY DEF Queued
    <3>1. CASE i = Len(dac_queue) + 1
      <4>1. dac_queue'[i] = next
        BY <1>1, <2>2, <3>1
      <4>2. Len(dac_queue') - i + 1 = 1
        BY <1>1, <2>4, <3>1
      <4> QED BY <4>1, <4>2, <2>3, <2>6
    <3>2. CASE i \in 1 .. Len(dac_queue)
      <4>1. dac_queue'[i] = dac_queue[i]
        BY <1>1, <2>2, <3>2
      <4>2. Len(dac_queue) - i + 1 \in 1 .. DacQueueLen
        BY <1>1, <2>1, <3>2
      <4>3. Len(dac_queue') - i + 1 = (Len(dac_queue) - i + 1) + 1
        BY <1>1, <2>4, <3>2
      <4>4. dac_queue[i] \in Block
        BY <1>1, <3>2
      <4>5. dac_queue[i] # next
        BY <3>2, <2>1, RenderedIsFree
      <4>6. /\ dac_queue[i] = Before(next, Len(dac_queue) - i + 1)
            /\ dma_blocks[dac_queue[i]] \in Chunk
        BY <3>2 DEF IInv, Queued
      <4>7. Before(next', (Len(dac_queue) - i + 1) + 1) = Before(next, Len(dac_queue) - i + 1)
        BY <4>2, <2>5
      <4> QED BY <4>1, <4>3, <4>4, <4>5, <4>6, <4>7, <2>3
    <3> QED BY <3>1, <3>2, <1>1, <2>4
  <2>10. Playing'
    <3> SUFFICES ASSUME playing # None
                 PROVE  /\ playing = Before(next', Len(dac_queue') + 1)
                        /\ dma_blocks'[playing] \in Chunk
      BY <2>2 DEF Playing, None
    <3>1. Len(dac_queue) + 1 \in 1 .. DacQueueLen
      BY <1>1, <2>1
    <3>2. Before(next', Len(dac_queue') + 1) = Before(next, Len(dac_queue) + 1)
      BY <3>1, <2>4, <2>5
    <3> QED BY <3>2, <2>1, <2>3, RenderedIsFree DEF IInv, Playing, TypeOK
  <2>11. BusyIsTrue'
    BY <1>3 DEF IInv, BusyIsTrue, SendByteAdd, None
  <2> QED BY <2>7, <2>8, <2>9, <2>10, <2>11 DEF IInv
<1>4. ASSUME SendByteFull \/ CallSendStart PROVE IInv'
  <2>1. TypeOK' /\ Capacity' /\ Queued' /\ Playing'
    BY <1>4 DEF SendByteFull, CallSendStart, IInv, TypeOK, Capacity, Queued, Playing, None
  <2>2. BusyIsTrue'
    BY <1>4 DEF SendByteFull, CallSendStart, IInv, BusyIsTrue, None
  <2> QED BY <2>1, <2>2 DEF IInv
<1>5. ASSUME SendStart PROVE IInv'
  <2>1. TypeOK' /\ Capacity' /\ Queued' /\ Playing'
    BY <1>5 DEF SendStart, IInv, TypeOK, Capacity, Queued, Playing, None
  <2>2. BusyIsTrue'
    BY <1>5 DEF SendStart, IInv, BusyIsTrue, None, TypeOK
  <2> QED BY <2>1, <2>2 DEF IInv
<1>6. ASSUME BlockEnd PROVE IInv'
  <2>1. TypeOK' /\ Capacity' /\ Queued' /\ Playing'
    BY <1>6 DEF BlockEnd, IInv, TypeOK, Capacity, Queued, Playing, None
  <2>2. BusyIsTrue'
    BY <1>6 DEF BlockEnd, IInv, BusyIsTrue, None, TypeOK
  <2> QED BY <2>1, <2>2 DEF IInv
<1>7. ASSUME DmaHandler PROVE IInv'
  <2>1. playing = None
    BY <1>7 DEF DmaHandler, IInv, BusyIsTrue
  <2>2. CASE dac_queue = <<>>
    <3>1. TypeOK' /\ Capacity' /\ Queued' /\ Playing'
      BY <1>7, <2>1, <2>2 DEF DmaHandler, IInv, TypeOK, Capacity, Queued, Playing, None
    <3>2. BusyIsTrue'
      BY <1>7, <2>1, <2>2 DEF DmaHandler, IInv, BusyIsTrue, None, TypeOK
    <3> QED BY <3>1, <3>2 DEF IInv
  <2>3. CASE dac_queue # <<>>
    <3>1. /\ playing' = Head(dac_queue)
          /\ dac_queue' = Tail(dac_queue)
          /\ UNCHANGED <<dma_blocks, next, pc, byte, busy, ptt>>
          /\ irq /\ irq' = FALSE
      BY <1>7, <2>3 DEF DmaHandler
    <3>2. /\ Len(dac_queue) \in Nat \ {0}
          /\ Len(dac_queue') = Len(dac_queue) - 1
          /\ Head(dac_queue) = dac_queue[1]
          /\ Head(dac_queue) \in Block
          /\ Tail(dac_queue) \in Seq(Block)
          /\ \A i \in 1 .. Len(dac_queue') : dac_queue'[i] = dac_queue[i + 1]
      BY <1>1, <2>3, <3>1
    <3>3. TypeOK'
      <4>1. irq' \in BOOLEAN /\ playing' \in Block \cup {None}
        BY <3>1, <3>2
      <4> QED BY <3>1, <3>2, <4>1 DEF IInv, TypeOK, None, Block
    <3>4. Capacity'
      BY <3>1, <3>2 DEF IInv, Capacity
    <3>5. Queued'
      <4> SUFFICES ASSUME NEW i \in 1 .. Len(dac_queue')
                   PROVE  /\ dac_queue'[i] = Before(next, Len(dac_queue') - i + 1)
                          /\ dma_blocks[dac_queue'[i]] \in Chunk
        BY <3>1 DEF Queued
      <4>1. i + 1 \in 1 .. Len(dac_queue)
        BY <3>2
      <4>2. Len(dac_queue') - i + 1 = Len(dac_queue) - (i + 1) + 1
        BY <3>2
      <4> QED BY <3>2, <4>1, <4>2 DEF IInv, Queued
    <3>6. Playing'
      <4>1. 1 \in 1 .. Len(dac_queue)
        BY <3>2
      <4>2. Len(dac_queue') + 1 = Len(dac_queue) - 1 + 1
        BY <3>2
      <4>3. playing' = Before(next, Len(dac_queue') + 1)
        BY <3>1, <3>2, <4>1, <4>2 DEF IInv, Queued
      <4>4. dma_blocks[playing'] \in Chunk
        BY <3>1, <3>2, <4>1 DEF IInv, Queued
      <4> QED BY <3>1, <4>3, <4>4 DEF Playing
    <3>7. BusyIsTrue'
      BY <3>1, <3>2, <2>1, <1>1 DEF IInv, BusyIsTrue, None
    <3> QED BY <3>3, <3>4, <3>5, <3>6, <3>7 DEF IInv
  <2> QED BY <2>2, <2>3
<1>8. ASSUME UNCHANGED vars PROVE IInv'
  BY <1>8 DEF vars, IInv, TypeOK, Capacity, Queued, Playing, BusyIsTrue, None
<1> QED BY <1>2, <1>3, <1>4, <1>5, <1>6, <1>7, <1>8 DEF Next, Main
-----------------------------------------------------------------------------
\* IInv holds in every reachable state.
LEMMA Invariance == Spec => []IInv
BY InitIInv, StepIInv, PTL DEF Spec

\* Every variable keeps its type: block addresses on dac_queue and in the
\* control channel are addresses of blocks.
THEOREM TypeCorrect == Spec => []TypeOK
<1>1. IInv => TypeOK
  BY DEF IInv
<1> QED BY <1>1, Invariance, PTL

\* send_byte never renders into a block that waits in dac_queue or is being
\* read by the DMA, whatever the queue's length.
THEOREM NoReuse == Spec => []NoBlockReuse
<1>1. IInv => NoBlockReuse
  BY RenderedIsFree DEF IInv, Capacity, NoBlockReuse
<1> QED BY <1>1, Invariance, PTL

\* busy is set exactly while the DMA runs or its interrupt is pending, the two
\* exclude each other, and the PTT pin follows busy.
THEOREM BusyAndPttAgree == Spec => []BusyIsTrue
<1>1. IInv => BusyIsTrue
  BY DEF IInv
<1> QED BY <1>1, Invariance, PTL
-----------------------------------------------------------------------------
\* The initial state of the blocks is an empty, silent, unkeyed pipe.
LEMMA InitPipe == Init => Pipe!PipeInit
BY DEF Init, Pipe!PipeInit, pipe, onair

\* Every step moves the pipe as AudioPipe allows, or leaves it alone.
LEMMA StepPipe == IInv /\ [Next]_vars => [Pipe!PipeNext]_(Pipe!pipeVars)
<1> SUFFICES ASSUME IInv, [Next]_vars
             PROVE  [Pipe!PipeNext]_(Pipe!pipeVars)
  OBVIOUS
<1> USE DacAssumption
<1>1. /\ Len(dac_queue) \in Nat
      /\ next \in Block
      /\ None \notin Block
      /\ dac_queue \in Seq(Block)
      /\ \A i \in 1 .. Len(dac_queue) : dac_queue[i] \in Block
  BY DEF IInv, TypeOK, Block, None, DacBlockLen
<1>2. ASSUME NEW c \in Chunk, SendByteRender(c)
      PROVE  UNCHANGED Pipe!pipeVars
  <2>1. Len(dac_queue) < DacQueueLen
    BY <1>1, <1>2 DEF SendByteRender, QueueIsFull
  <2>2. \A b \in Block : b # next => dma_blocks'[b] = dma_blocks[b]
    BY <1>2 DEF SendByteRender, IInv, TypeOK
  <2>3. UNCHANGED <<dac_queue, playing, ptt>>
    BY <1>2 DEF SendByteRender
  <2>4. pipe' = pipe
    BY <1>1, <2>1, <2>2, <2>3, RenderedIsFree DEF pipe
  <2>5. onair' = onair
    BY <2>1, <2>2, <2>3, RenderedIsFree DEF onair, IInv, TypeOK, None
  <2> QED BY <2>3, <2>4, <2>5 DEF Pipe!pipeVars
<1>3. ASSUME SendByteAdd PROVE Pipe!Accept(byte)
  <2>1. Len(dac_queue) < DacQueueLen
    BY <1>3 DEF IInv, Capacity, SendByteAdd
  <2>2. /\ dac_queue' = Append(dac_queue, next)
        /\ UNCHANGED <<playing, ptt>>
        /\ dma_blocks' = [dma_blocks EXCEPT ![next] = byte]
    BY <1>3, <2>1 DEF SendByteAdd
  <2>3. /\ \A b \in Block : b # next => dma_blocks'[b] = dma_blocks[b]
        /\ dma_blocks'[next] = byte
    BY <1>1, <2>2 DEF IInv, TypeOK
  <2>4. pipe \in Seq(Chunk) /\ Len(pipe) = Len(dac_queue)
    BY <1>1 DEF pipe, IInv, Queued
  <2>5. pipe' = Append(pipe, byte)
    <3>1. byte \in Chunk
      BY DEF IInv, TypeOK
    <3>2. /\ Len(dac_queue') = Len(dac_queue) + 1
          /\ dac_queue'[Len(dac_queue) + 1] = next
          /\ \A i \in 1 .. Len(dac_queue) : dac_queue'[i] = dac_queue[i]
      BY <1>1, <2>2
    <3>3. \A i \in 1 .. Len(dac_queue) : dma_blocks'[dac_queue'[i]] = pipe[i]
      BY <1>1, <2>1, <2>3, <3>2, RenderedIsFree DEF pipe
    <3>4. dma_blocks'[dac_queue'[Len(dac_queue) + 1]] = byte
      BY <2>3, <3>2
    <3>5. /\ Append(pipe, byte) \in Seq(Chunk)
          /\ Len(Append(pipe, byte)) = Len(dac_queue) + 1
          /\ Append(pipe, byte)[Len(dac_queue) + 1] = byte
          /\ \A i \in 1 .. Len(dac_queue) : Append(pipe, byte)[i] = pipe[i]
      BY <2>4, <3>1, AppendProperties
    <3>6. \A i \in 1 .. Len(dac_queue') :
             dma_blocks'[dac_queue'[i]] = Append(pipe, byte)[i]
      BY <1>1, <3>2, <3>3, <3>4, <3>5
    <3>7. /\ pipe' \in Seq(Chunk)
          /\ Len(pipe') = Len(dac_queue')
          /\ \A i \in 1 .. Len(dac_queue') : pipe'[i] = Append(pipe, byte)[i]
      <4>1. \A i \in 1 .. Len(dac_queue') : dma_blocks'[dac_queue'[i]] \in Chunk
        BY <3>6, <3>5, <3>2, <1>1, ElementOfSeq
      <4> QED BY <4>1, <3>6, <3>2, <1>1 DEF pipe
    <3> QED BY <3>2, <3>5, <3>7, SeqEqual
  <2>6. onair' = onair
    BY <2>1, <2>2, <2>3, RenderedIsFree DEF onair, IInv, TypeOK, None
  <2> QED BY <2>1, <2>2, <2>4, <2>5, <2>6 DEF Pipe!Accept, Pipe!HasRoom
<1>4. ASSUME SendByteFull \/ CallSendStart PROVE UNCHANGED Pipe!pipeVars
  BY <1>4 DEF SendByteFull, CallSendStart, Pipe!pipeVars, pipe, onair, None
<1>5. ASSUME SendStart PROVE [Pipe!Key]_(Pipe!pipeVars)
  <2>1. UNCHANGED <<pipe, onair>>
    BY <1>5 DEF SendStart, pipe, onair, None
  <2>2. CASE busy
    BY <1>5, <2>1, <2>2 DEF SendStart, Pipe!pipeVars
  <2>3. CASE ~busy
    BY <1>5, <2>1, <2>3 DEF SendStart, Pipe!Key, IInv, BusyIsTrue
  <2> QED BY <2>2, <2>3
<1>6. ASSUME BlockEnd PROVE Pipe!Finish
  <2>1. onair \in Chunk
    BY <1>6 DEF BlockEnd, onair, IInv, Playing
  <2>2. onair' = Silence
    BY <1>6 DEF BlockEnd, onair, None
  <2>3. UNCHANGED <<pipe, ptt>>
    BY <1>6 DEF BlockEnd, pipe
  <2> QED BY <2>1, <2>2, <2>3 DEF Pipe!Finish
<1>7. ASSUME DmaHandler PROVE Pipe!Advance \/ Pipe!Release
  <2>1. playing = None /\ ptt /\ onair = Silence
    BY <1>7 DEF DmaHandler, IInv, BusyIsTrue, onair
  <2>2. pipe \in Seq(Chunk) /\ Len(pipe) = Len(dac_queue)
    BY <1>1 DEF pipe, IInv, Queued
  <2>3. CASE dac_queue = <<>>
    <3>1. pipe = <<>> /\ pipe' = <<>>
      BY <1>7, <2>3 DEF DmaHandler, pipe
    <3>2. onair' = Silence /\ ptt' = FALSE
      BY <1>7, <2>1, <2>3 DEF DmaHandler, onair, None
    <3> QED BY <2>1, <3>1, <3>2 DEF Pipe!Release
  <2>4. CASE dac_queue # <<>>
    <3>1. /\ playing' = Head(dac_queue)
          /\ dac_queue' = Tail(dac_queue)
          /\ UNCHANGED <<dma_blocks, ptt>>
      BY <1>7, <2>4 DEF DmaHandler
    <3>2. /\ Len(dac_queue) \in Nat \ {0}
          /\ Len(dac_queue') = Len(dac_queue) - 1
          /\ Head(dac_queue) = dac_queue[1]
          /\ Head(dac_queue) \in Block
          /\ \A i \in 1 .. Len(dac_queue') : dac_queue'[i] = dac_queue[i + 1]
      BY <1>1, <2>4, <3>1
    <3>3. onair' = Head(pipe)
      <4>1. onair' = dma_blocks[dac_queue[1]]
        BY <1>1, <3>1, <3>2 DEF onair, None
      <4> QED BY <2>2, <3>2, <4>1 DEF pipe
    <3>4. pipe' = Tail(pipe)
      <4>1. /\ Tail(pipe) \in Seq(Chunk)
            /\ Len(Tail(pipe)) = Len(pipe) - 1
            /\ \A i \in 1 .. Len(Tail(pipe)) : Tail(pipe)[i] = pipe[i + 1]
        BY <2>2, <3>2, HeadTailProperties
      <4>2. \A i \in 1 .. Len(dac_queue') :
               dma_blocks'[dac_queue'[i]] = pipe[i + 1]
        BY <3>1, <3>2 DEF pipe
      <4>3. \A i \in 1 .. Len(dac_queue') : pipe[i + 1] \in Chunk
        BY <2>2, <3>2, ElementOfSeq
      <4>4. /\ Len(dac_queue') \in Nat
             /\ \A i \in 1 .. Len(dac_queue') : dma_blocks'[dac_queue'[i]] \in Chunk
        BY <3>2, <4>2, <4>3
      <4>5. /\ pipe' \in Seq(Chunk)
            /\ Len(pipe') = Len(dac_queue')
            /\ \A i \in 1 .. Len(dac_queue') : pipe'[i] = pipe[i + 1]
        BY <4>2, <4>4 DEF pipe
      <4> QED BY <4>1, <4>5, <2>2, <3>2, SeqEqual
    <3>5. pipe # <<>>
      BY <2>2, <3>2
    <3> QED BY <2>1, <3>1, <3>3, <3>4, <3>5 DEF Pipe!Advance
  <2> QED BY <2>3, <2>4
<1>8. ASSUME UNCHANGED vars PROVE UNCHANGED Pipe!pipeVars
  BY <1>8 DEF vars, Pipe!pipeVars, pipe, onair, None
<1>9. ASSUME SendByteAdd PROVE Pipe!PipeNext
  <2>1. byte \in Chunk
    BY DEF IInv, TypeOK
  <2> QED BY <1>3, <1>9, <2>1 DEF Pipe!PipeNext
<1> QED
  BY <1>2, <1>4, <1>5, <1>6, <1>7, <1>8, <1>9 DEF Next, Main, Pipe!PipeNext

\* The DMA blocks, the queue of their addresses and the interrupt implement
\* the pipe of AudioPipe: chunks are played whole, in order, each once, and
\* PTT drops only when nothing is left.
THEOREM DacImplementsPipe == Spec => ImplementsPipe
BY InitPipe, StepPipe, Invariance, PTL DEF Spec, ImplementsPipe, Pipe!PipeSpec

-----------------------------------------------------------------------------
(* The buffers of the receiver *)

\* The buffer k after b, k <= BufNum.
Fwd(b, k) == IF b + k < BufNum THEN b + k ELSE b + k - BufNum

One(cond) == IF cond THEN 1 ELSE 0

\* Full buffers: those signalled and the one whose interrupt is pending.
Full == Unread + One(writing = Waiting)

InPlace ==
    /\ Unread + 1 <= BufNum
    /\ irq_next = Fwd(read_next, Unread + 1)
    /\ writing # Waiting => writing = Fwd(read_next, Unread)

Numbered ==
    \A k \in 0 .. BufNum - 1 : k < Full =>
        /\ buf[Fwd(read_next, k)] \in Count
        /\ Later(buf[Fwd(read_next, k)], One(reading)) = Later(tnc_time, k)

AdcIInv == AdcTypeOK /\ (~overrun => InPlace /\ Numbered /\ ClockRight)
-----------------------------------------------------------------------------
(* The ring and the clock *)

\* Steps forward on the ring stay on it, and compose.
LEMMA FwdFacts ==
    /\ \A b \in Index : After(b) \in Index
    /\ \A b \in Index, k \in 0 .. BufNum : Fwd(b, k) \in Index
    /\ \A b \in Index, k \in 0 .. BufNum - 1 :
          After(Fwd(b, k)) = Fwd(b, k + 1) /\ Fwd(After(b), k) = Fwd(b, k + 1)
    /\ \A b \in Index : Fwd(b, 0) = b /\ Fwd(b, BufNum) = b
BY AdcRingAssumption DEF Index, Fwd, After

\* Fewer than BufNum steps apart are different buffers.
LEMMA FwdApart ==
    \A b \in Index, k, l \in 0 .. BufNum - 1 : k # l => Fwd(b, k) # Fwd(b, l)
BY AdcRingAssumption DEF Index, Fwd

\* The same for the count, which is longer than the ring.
LEMMA LaterFacts ==
    /\ \A n \in Count, k \in 0 .. BufNum : Later(n, k) \in Count
    /\ \A n \in Count, k \in 0 .. BufNum - 1 :
          /\ Later(Later(n, 1), k) = Later(n, k + 1)
          /\ Later(Later(n, k), 1) = Later(n, k + 1)
    /\ \A n \in Count : Later(n, 0) = n
BY AdcRingAssumption DEF Count, Later

LEMMA LaterCancel ==
    \A m, n \in Count : Later(m, 1) = Later(n, 1) => m = n
BY AdcRingAssumption DEF Count, Later
-----------------------------------------------------------------------------
LEMMA AdcInitIInv == AdcInit => AdcIInv
<1> SUFFICES ASSUME AdcInit
             PROVE  AdcTypeOK /\ InPlace /\ Numbered /\ ClockRight
  BY DEF AdcIInv
<1> USE AdcRingAssumption
<1>1. AdcTypeOK
  <2>1. 0 \in Index /\ 1 \in Index /\ 0 \in Count /\ 0 \in 0 .. BufNum
    BY DEF Index, Count
  <2>2. buf \in [Index -> Count \cup {Torn}]
    BY Zenon DEF AdcInit
  <2> QED
    BY <2>1, <2>2 DEF AdcInit, AdcTypeOK
<1>2. Unread = 0 /\ Full = 0
  BY DEF AdcInit, Unread, Full, One, Waiting
<1>3. InPlace
  BY <1>2 DEF AdcInit, InPlace, Fwd
<1>4. Numbered
  BY <1>2 DEF Numbered
<1>5. ClockRight
  BY DEF AdcInit, ClockRight, Later, Waiting
<1> QED
  BY <1>1, <1>3, <1>4, <1>5

LEMMA AdcStepType == AdcTypeOK /\ [AdcNext]_adcVars => AdcTypeOK'
<1> SUFFICES ASSUME AdcTypeOK, [AdcNext]_adcVars
             PROVE  AdcTypeOK'
  OBVIOUS
<1> USE AdcRingAssumption
<1>1. CASE BufferFull
  BY <1>1, LaterFacts DEF AdcTypeOK, BufferFull, Waiting, Index
<1>2. CASE AdcDmaHandler
  <2>1. After(irq_next) \in Index
    BY FwdFacts DEF AdcTypeOK
  <2>2. sem' \in 0 .. BufNum
    BY <1>2 DEF AdcTypeOK, AdcDmaHandler
  <2> QED
    BY <1>2, <2>1, <2>2 DEF AdcTypeOK, AdcDmaHandler
<1>3. CASE Acquire
  <2>1. Later(tnc_time, 1) \in Count
    BY LaterFacts DEF AdcTypeOK
  <2>2. sem - 1 \in 0 .. BufNum
    BY <1>3 DEF AdcTypeOK, Acquire
  <2> QED
    BY <1>3, <2>1, <2>2 DEF AdcTypeOK, Acquire
<1>4. CASE Demodulated
  BY <1>4, FwdFacts DEF AdcTypeOK, Demodulated
<1>5. CASE UNCHANGED adcVars
  BY <1>5 DEF AdcTypeOK, adcVars
<1> QED
  BY <1>1, <1>2, <1>3, <1>4, <1>5 DEF AdcNext

LEMMA AdcStepIInv == AdcIInv /\ [AdcNext]_adcVars => AdcIInv'
<1> SUFFICES ASSUME AdcIInv, [AdcNext]_adcVars, ~overrun'
             PROVE  InPlace' /\ Numbered' /\ ClockRight'
  BY AdcStepType DEF AdcIInv
<1> USE AdcRingAssumption
<1>0. ~overrun
  BY DEF AdcNext, adcVars, BufferFull, AdcDmaHandler, Acquire, Demodulated, AdcIInv, AdcTypeOK
<1>a. AdcTypeOK /\ InPlace /\ Numbered /\ ClockRight
  BY <1>0 DEF AdcIInv
<1>b. Unread \in 0 .. BufNum - 1 /\ Full \in 0 .. BufNum
  BY <1>a DEF AdcTypeOK, InPlace, Unread, Full, One
<1>1. CASE BufferFull
  <2>1. Unread' = Unread /\ Full = Unread /\ Full' = Unread + 1
    BY <1>1, <1>a DEF BufferFull, AdcTypeOK, Unread, Full, One
  <2>2. InPlace'
    BY <1>1, <1>a, <2>1 DEF BufferFull, InPlace, Fwd
  <2>3. writing = Fwd(read_next, Unread) /\ writing \in Index
    BY <1>1, <1>a DEF BufferFull, InPlace, AdcTypeOK
  <2>4. filled = Later(tnc_time, sem)
    BY <1>0, <1>1, <1>a, LaterFacts DEF BufferFull, ClockRight, AdcTypeOK
  <2>5. Numbered'
    <3> SUFFICES ASSUME NEW k \in 0 .. BufNum - 1, k < Unread + 1
                 PROVE  /\ buf'[Fwd(read_next, k)] \in Count
                        /\ Later(buf'[Fwd(read_next, k)], One(reading)) = Later(tnc_time, k)
      BY <1>1, <2>1 DEF Numbered, BufferFull, Fwd, Later, One
    <3>1. CASE k = Unread
      <4>1. buf'[Fwd(read_next, k)] = filled
        BY <1>1, <2>3, <3>1, <1>a DEF BufferFull, AdcTypeOK
      <4>2. Later(filled, One(reading)) = Later(tnc_time, Unread)
        BY <2>4, <1>a, <1>b, LaterFacts DEF AdcTypeOK, One, Unread, Count
      <4> QED
        BY <3>1, <4>1, <4>2, <1>a DEF AdcTypeOK
    <3>2. CASE k < Unread
      <4>1. Fwd(read_next, k) # writing
        BY <2>3, <3>2, <1>a, <1>b, FwdApart DEF AdcTypeOK
      <4>2. buf'[Fwd(read_next, k)] = buf[Fwd(read_next, k)]
        BY <1>1, <4>1, <1>a, FwdFacts DEF BufferFull, AdcTypeOK
      <4> QED
        BY <4>2, <3>2, <2>1, <1>a DEF Numbered
    <3> QED
      BY <3>1, <3>2, <1>b
  <2>6. ClockRight'
    <3>1. Later(filled, 1) = Later(tnc_time, sem + 1)
      BY <2>4, <1>a, <1>b, LaterFacts DEF AdcTypeOK, Unread
    <3> QED
      BY <1>1, <3>1 DEF ClockRight, BufferFull, Later
  <2> QED
    BY <2>2, <2>5, <2>6
<1>2. CASE AdcDmaHandler
  <2>1. /\ Unread + 1 < BufNum
        /\ sem' = sem + 1
        /\ Unread' = Unread + 1
        /\ Full = Unread + 1 /\ Full' = Unread + 1
    <3>1. Unread + 1 < BufNum
      <4>1. ~(Unread + 1 >= BufNum)
        BY <1>2 DEF AdcDmaHandler
      <4> QED
        BY <4>1, <1>b
    <3>2. sem' = sem + 1
      BY <1>2, <3>1, <1>a DEF AdcDmaHandler, AdcTypeOK, Unread
    <3>3. writing' # Waiting
      BY <1>2, <1>a DEF AdcDmaHandler, AdcTypeOK, Index, Waiting
    <3> QED
      BY <1>2, <3>1, <3>2, <3>3, <1>a DEF AdcDmaHandler, AdcTypeOK, Unread, Full, One
  <2>2. InPlace'
    <3>1. After(irq_next) = Fwd(read_next, Unread + 2)
      BY <1>a, <1>b, <2>1, FwdFacts DEF InPlace, AdcTypeOK
    <3> QED
      BY <1>2, <1>a, <1>b, <2>1, <3>1 DEF AdcDmaHandler, InPlace, Fwd, AdcTypeOK
  <2>3. Numbered'
    <3> SUFFICES ASSUME NEW k \in 0 .. BufNum - 1, k < Unread + 1
                 PROVE  /\ buf'[Fwd(read_next, k)] \in Count
                        /\ Later(buf'[Fwd(read_next, k)], One(reading)) = Later(tnc_time, k)
      BY <1>2, <2>1 DEF Numbered, AdcDmaHandler, Fwd, Later, One
    <3>1. Fwd(read_next, k) # irq_next
      BY <2>1, <1>a, <1>b, FwdApart DEF InPlace, AdcTypeOK
    <3>2. buf'[Fwd(read_next, k)] = buf[Fwd(read_next, k)]
      BY <1>2, <3>1, <1>a, FwdFacts DEF AdcDmaHandler, AdcTypeOK
    <3> QED
      BY <3>2, <2>1, <1>a DEF Numbered
  <2>4. ClockRight'
    <3>1. writing' # Waiting
      BY <1>2, <1>a DEF AdcDmaHandler, AdcTypeOK, Index, Waiting
    <3> QED
      BY <1>0, <1>2, <1>a, <2>1, <3>1 DEF ClockRight, AdcDmaHandler, Later, AdcTypeOK
  <2> QED
    BY <2>2, <2>3, <2>4
<1>3. CASE Acquire
  <2>1. Unread' = Unread /\ Full' = Full
    BY <1>3, <1>a DEF Acquire, AdcTypeOK, Unread, Full, One
  <2>2. InPlace'
    BY <1>3, <1>a, <2>1 DEF Acquire, InPlace, Fwd
  <2>3. Numbered'
    <3> SUFFICES ASSUME NEW k \in 0 .. BufNum - 1, k < Full
                 PROVE  /\ buf[Fwd(read_next, k)] \in Count
                        /\ Later(buf[Fwd(read_next, k)], 1) = Later(tnc_time', k)
      BY <1>3, <2>1 DEF Numbered, Acquire, Fwd, Later, One
    <3>1. /\ buf[Fwd(read_next, k)] \in Count
          /\ Later(buf[Fwd(read_next, k)], 0) = Later(tnc_time, k)
      BY <1>3, <1>a DEF Numbered, Acquire, One
    <3>2. tnc_time' = Later(tnc_time, 1)
      BY <1>3 DEF Acquire
    <3>3. Later(Later(tnc_time, k), 1) = Later(Later(tnc_time, 1), k)
      BY <1>a, LaterFacts DEF AdcTypeOK
    <3> QED
      BY <3>1, <3>2, <3>3, LaterFacts
  <2>4. ClockRight'
    <3>1. Later(tnc_time, sem + One(writing = Waiting)) =
            Later(Later(tnc_time, 1), sem - 1 + One(writing = Waiting))
      BY <1>3, <1>a, <1>b, LaterFacts DEF Acquire, AdcTypeOK, One, Unread
    <3> QED
      BY <1>0, <1>3, <1>a, <3>1 DEF ClockRight, Acquire, Later, One
  <2> QED
    BY <2>2, <2>3, <2>4
<1>4. CASE Demodulated
  <2>1. /\ Unread = sem + 1 /\ Full = sem + 1 + One(writing = Waiting)
        /\ Unread' = sem /\ Full' = sem + One(writing = Waiting)
        /\ sem \in 0 .. BufNum - 2 /\ One(writing = Waiting) \in {0, 1}
    BY <1>4, <1>a, <1>b DEF Demodulated, AdcTypeOK, Unread, Full, One
  <2>2. InPlace'
    <3>1. Fwd(After(read_next), sem + 1) = Fwd(read_next, sem + 2)
      BY <1>a, <2>1, FwdFacts DEF AdcTypeOK
    <3>2. Fwd(After(read_next), sem) = Fwd(read_next, sem + 1)
      BY <1>a, <2>1, FwdFacts DEF AdcTypeOK
    <3>3. /\ irq_next = Fwd(read_next, sem + 2)
          /\ writing # Waiting => writing = Fwd(read_next, sem + 1)
      BY <1>a, <2>1 DEF InPlace, Fwd
    <3> QED
      BY <1>4, <2>1, <3>1, <3>2, <3>3 DEF Demodulated, InPlace, Fwd
  <2>3. Numbered'
    <3> SUFFICES ASSUME NEW k \in 0 .. BufNum - 1, k < Full'
                 PROVE  /\ buf[Fwd(After(read_next), k)] \in Count
                        /\ Later(buf[Fwd(After(read_next), k)], 0) = Later(tnc_time, k)
      BY <1>4 DEF Numbered, Demodulated, Fwd, Later, One
    <3>1. Fwd(After(read_next), k) = Fwd(read_next, k + 1)
      BY <1>a, FwdFacts DEF AdcTypeOK
    <3>2. k + 1 \in 0 .. BufNum - 1 /\ k + 1 < Full
      BY <2>1, <1>b
    <3>3. /\ buf[Fwd(read_next, k + 1)] \in Count
          /\ Later(buf[Fwd(read_next, k + 1)], 1) = Later(tnc_time, k + 1)
      BY <1>4, <1>a, <3>2 DEF Numbered, Demodulated, One
    <3>4. Later(Later(tnc_time, k), 1) = Later(tnc_time, k + 1) /\ Later(tnc_time, k) \in Count
      BY <1>a, LaterFacts DEF AdcTypeOK
    <3>5. buf[Fwd(read_next, k + 1)] = Later(tnc_time, k)
      BY <3>3, <3>4, LaterCancel
    <3> QED
      BY <3>1, <3>5, <3>4, LaterFacts
  <2>4. ClockRight'
    BY <1>0, <1>4, <1>a DEF ClockRight, Demodulated, Later
  <2> QED
    BY <2>2, <2>3, <2>4
<1>5. CASE UNCHANGED adcVars
  BY <1>5, <1>a DEF adcVars, InPlace, Numbered, ClockRight, Full, Unread, One, Fwd, Later
<1> QED
  BY <1>1, <1>2, <1>3, <1>4, <1>5 DEF AdcNext

LEMMA AdcInvariance == AdcSpec => []AdcIInv
<1>1. AdcInit => AdcIInv
  BY AdcInitIInv
<1>2. AdcIInv /\ [AdcNext]_adcVars => AdcIInv'
  BY AdcStepIInv
<1> QED
  BY <1>1, <1>2, PTL DEF AdcSpec
-----------------------------------------------------------------------------
\* The type invariant of the sample buffers (receive.c:67-88, 198-239).
THEOREM AdcTypeCorrect == AdcSpec => []AdcTypeOK
<1>1. AdcIInv => AdcTypeOK
  BY DEF AdcIInv
<1> QED
  BY AdcInvariance, <1>1, PTL

\* Whatever the number of buffers: short of an overrun, receive() reads at tick
\* t the buffer that was filled t-th, and not the one being filled.
THEOREM ReaderInStep == AdcSpec => []InStep
<1>1. AdcIInv => InStep
  <2> SUFFICES ASSUME AdcIInv, ~overrun, reading
               PROVE  /\ writing # read_next
                      /\ buf[read_next] # Torn
                      /\ tnc_time = Later(buf[read_next], 1)
    BY DEF InStep
  <2> USE AdcRingAssumption
  <2>1. AdcTypeOK /\ InPlace /\ Numbered
    BY DEF AdcIInv
  <2>2. Unread \in 1 .. BufNum - 1 /\ 0 < Full
    BY <2>1 DEF AdcTypeOK, InPlace, Unread, Full, One
  <2>3. Fwd(read_next, 0) = read_next
    BY <2>1, FwdFacts DEF AdcTypeOK
  <2>4. writing # read_next
    BY <2>1, <2>2, <2>3, FwdApart DEF AdcTypeOK, InPlace, Index, Waiting
  <2>5. buf[read_next] \in Count /\ Later(buf[read_next], 1) = Later(tnc_time, 0)
    BY <2>1, <2>2, <2>3 DEF Numbered, One
  <2> QED
    BY <2>1, <2>4, <2>5, LaterFacts DEF AdcTypeOK, Torn, Count
<1> QED
  BY AdcInvariance, <1>1, PTL

\* Short of an overrun no tick of the clock is lost.
THEOREM ClockIsRight == AdcSpec => []ClockRight
<1>1. AdcIInv => ClockRight
  BY DEF AdcIInv, ClockRight
<1> QED
  BY AdcInvariance, <1>1, PTL
=============================================================================
