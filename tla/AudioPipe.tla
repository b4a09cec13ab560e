----------------------------- MODULE AudioPipe -----------------------------
(***************************************************************************)
(* What the modulator promises to the rest of the TNC: a bounded FIFO of   *)
(* audio chunks (one chunk is one transmitted byte) that is played while   *)
(* the transmitter is keyed.  Chunks go on the air whole, in the order in  *)
(* which they were accepted, each once, and PTT drops only when nothing    *)
(* is left to play.                                                        *)
(*                                                                         *)
(* Module Dac is the detailed version (DMA blocks, block addresses, the    *)
(* DMA interrupt) and implements this one.  Module Transmitter uses this   *)
(* one below the transmit state machine.                                   *)
(***************************************************************************)
EXTENDS Naturals, Sequences

CONSTANTS
    PipeLen,    \* chunks the pipe holds besides the one on the air
    Chunk,      \* what one call of send_byte can hand over
    Silence     \* nothing is being played

VARIABLES
    pipe,       \* chunks accepted and not yet played
    onair,      \* the chunk being played, or Silence
    keyed       \* PTT output

pipeVars == <<pipe, onair, keyed>>

PipeTypeOK ==
    /\ pipe \in Seq(Chunk)
    /\ Len(pipe) <= PipeLen
    /\ onair \in Chunk \cup {Silence}
    /\ keyed \in BOOLEAN

PipeInit ==
    /\ pipe = <<>>
    /\ onair = Silence
    /\ keyed = FALSE

HasRoom == Len(pipe) < PipeLen

\* send_byte with room in the queue: the chunk is appended.
Accept(c) ==
    /\ HasRoom
    /\ pipe' = Append(pipe, c)
    /\ UNCHANGED <<onair, keyed>>

\* send_start: key the transmitter unless it is keyed already.
Key ==
    /\ ~keyed
    /\ keyed' = TRUE
    /\ UNCHANGED <<pipe, onair>>

\* The data channel has played the chunk to its end.
Finish ==
    /\ onair # Silence
    /\ onair' = Silence
    /\ UNCHANGED <<pipe, keyed>>

\* The interrupt handler starts the next chunk.
Advance ==
    /\ keyed
    /\ onair = Silence
    /\ pipe # <<>>
    /\ onair' = Head(pipe)
    /\ pipe' = Tail(pipe)
    /\ UNCHANGED keyed

\* The interrupt handler finds nothing to play.
Release ==
    /\ keyed
    /\ onair = Silence
    /\ pipe = <<>>
    /\ keyed' = FALSE
    /\ UNCHANGED <<pipe, onair>>

PipeNext ==
    \/ \E c \in Chunk : Accept(c)
    \/ Key
    \/ Finish
    \/ Advance
    \/ Release

PipeSpec == PipeInit /\ [][PipeNext]_pipeVars
=============================================================================
