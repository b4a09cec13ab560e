----------------------------- MODULE SendQueue -----------------------------
(***************************************************************************)
(* tp->send_queue and its producers.  The main loop queues frames with     *)
(* send_unproto (beacon, GPS, converse on the UART) and send_packet        *)
(* (digipeater, KISS on the UART), byte after byte.  The USB interrupt     *)
(* queues frames too (converse, KISS, sign), and changes UNPROTO, and may  *)
(* run between any two steps of the main loop, which cannot run before the *)
(* interrupt is done.  Both compute the FCS in the one DMA sniffer.  The   *)
(* consumer, send(), runs in the main loop.                                *)
(*                                                                         *)
(* An interrupt in the middle of send_unproto or send_packet can tear the  *)
(* frame: the model keeps track of it in disturbed.  Everything claimed    *)
(* below holds while that has not happened, and again once send() has seen *)
(* the queue empty.  Address fields, the information field and the FCS are *)
(* one byte each.                                                          *)
(***************************************************************************)
EXTENDS Wire, Integers, SequencesExt

CONSTANTS
    SendQueueLen,   \* SEND_QUEUE_LEN
    MaxRepeaters,   \* UNPROTO_N - 1
    Info,           \* information fields (byte values)
    MaxFrames       \* bound: frames queued until the queue is seen empty

ASSUME SendQueueAssumption ==
    /\ SendQueueLen \in Nat /\ SendQueueLen <= Radix * Radix
    /\ MaxRepeaters \in Nat /\ MaxFrames \in Nat
    /\ Info \subseteq 0 .. Radix - 1

VARIABLES
    send_queue,     \* the bytes queued
    repeaters,      \* how many repeaters param.unproto names
    sniffer,        \* whose bytes the DMA sniffer has summed up
    todo,           \* what the main-loop producer has still to do
    job,            \* its frame
    sending,        \* send() is inside a frame (SP_DATA)
    send_len,       \* bytes of that frame still in the queue
    sent,           \* bytes of that frame already sent
    offered,        \* history: frames the producers meant to queue
    taken,          \* history: frames send() has sent
    disturbed       \* history: an interrupt ran inside a main-loop producer

vars == <<send_queue, repeaters, sniffer, todo, job, sending, send_len, sent,
          offered, taken, disturbed>>

producer == <<todo, job>>
consumer == <<sending, send_len, sent>>
-----------------------------------------------------------------------------
\* Byte values of the fields; they only have to be bytes.
Dst == 1
Src == 0
Repeater == 1
FcsGood == 0
FcsBad == 1

Kind == {"unproto", "packet"}
Step == ({"lo", "hi", "dst", "src", "info", "sum", "fcs"} \X {0})
            \cup ({"rep"} \X (1 .. MaxRepeaters))

\* What a producer does for a frame over that many repeaters.
Steps(reps) ==
    <<<<"lo", 0>>, <<"hi", 0>>, <<"dst", 0>>, <<"src", 0>>>>
        \o [j \in 1 .. reps |-> <<"rep", j>>]
        \o <<<<"info", 0>>, <<"sum", 0>>, <<"fcs", 0>>>>

FrameOf(reps, info) ==
    <<Dst, Src>> \o [j \in 1 .. reps |-> Repeater] \o <<info, FcsGood>>

PktLen(reps) == 4 + reps

TypeOK ==
    /\ send_queue \in Seq(0 .. Radix - 1)
    /\ Len(send_queue) <= SendQueueLen
    /\ repeaters \in 0 .. MaxRepeaters
    /\ sniffer \in {"main", "usb"}
    /\ todo \in Seq(Step)
    /\ job \in [kind : Kind, reps : 0 .. MaxRepeaters, info : Info]
    /\ sending \in BOOLEAN
    /\ send_len \in Int
    /\ sent \in Seq(0 .. Radix - 1)
    /\ disturbed \in BOOLEAN

Init ==
    /\ send_queue = <<>>
    /\ repeaters = 0
    /\ sniffer = "main"
    /\ todo = <<>>
    /\ job \in [kind : {"unproto"}, reps : {0}, info : Info]
    /\ sending = FALSE /\ send_len = 0 /\ sent = <<>>
    /\ offered = <<>> /\ taken = <<>>
    /\ disturbed = FALSE
-----------------------------------------------------------------------------
(* The main-loop producers *)

send_queue_free == SendQueueLen - Len(send_queue)

\* queue_try_add: its result is ignored, a full queue swallows the byte.
TryAdd(b) ==
    send_queue' = IF send_queue_free > 0 THEN Append(send_queue, b) ELSE send_queue

BeginNoCheck(kind, reps, info) ==
    /\ todo = <<>>
    /\ Len(offered) < MaxFrames
    /\ job' = [kind |-> kind, reps |-> reps, info |-> info]
    /\ todo' = Steps(reps)
    /\ offered' = Append(offered, FrameOf(reps, info))
    /\ UNCHANGED <<send_queue, repeaters, sniffer, consumer, taken, disturbed>>

\* The check of free space; a frame that does not fit is dropped unreported.
Begin(kind, reps, info) ==
    /\ todo = <<>>
    /\ Len(offered) < MaxFrames
    /\ send_queue_free >= PktLen(reps) + 2
    /\ job' = [kind |-> kind, reps |-> reps, info |-> info]
    /\ todo' = Steps(reps)
    /\ offered' = Append(offered, FrameOf(reps, info))
    /\ UNCHANGED <<send_queue, repeaters, sniffer, consumer, taken, disturbed>>

\* send_unproto counts the repeaters once and relies on the count later.
SendUnproto(info) == Begin("unproto", repeaters, info)

\* send_packet copies a frame that has its address fields.
SendPacket(reps, info) == Begin("packet", reps, info)

\* The byte a step of the producer adds.
ByteOf(step) ==
    CASE step[1] = "lo"   -> LengthLo(PktLen(job.reps))
      [] step[1] = "hi"   -> LengthHi(PktLen(job.reps))
      [] step[1] = "dst"  -> Dst
      [] step[1] = "src"  -> Src
      [] step[1] = "rep"  -> Repeater
      [] step[1] = "info" -> job.info
      [] step[1] = "fcs"  -> IF sniffer = "main" THEN FcsGood ELSE FcsBad

\* send_unproto leaves out a repeater that is no longer set.
Skipped(step) ==
    /\ step[1] = "rep"
    /\ job.kind = "unproto"
    /\ step[2] > repeaters

\* One iteration of the loops that copy the frame into the queue.
PutByte ==
    /\ todo # <<>>
    /\ Head(todo)[1] # "sum"
    /\ IF Skipped(Head(todo)) THEN UNCHANGED send_queue ELSE TryAdd(ByteOf(Head(todo)))
    /\ todo' = Tail(todo)
    /\ UNCHANGED <<repeaters, sniffer, job, consumer, offered, taken, disturbed>>

\* ax25_fcs: from here to the reading of the result the sniffer is in use.
SumFcs ==
    /\ todo # <<>>
    /\ Head(todo)[1] = "sum"
    /\ sniffer' = "main"
    /\ todo' = Tail(todo)
    /\ UNCHANGED <<send_queue, repeaters, job, consumer, offered, taken, disturbed>>
-----------------------------------------------------------------------------
(* The USB interrupt *)

Disturb == disturbed' = (disturbed \/ todo # <<>>)

UsbSendNoCheck(info) ==
    /\ Len(offered) < MaxFrames
    /\ send_queue' = send_queue \o Wire(FrameOf(repeaters, info))
    /\ sniffer' = "usb"
    /\ offered' = Append(offered, FrameOf(repeaters, info))
    /\ Disturb
    /\ UNCHANGED <<repeaters, producer, consumer, taken>>

\* send_unproto in the interrupt, to the end.
UsbSend(info) ==
    /\ Len(offered) < MaxFrames
    /\ send_queue_free >= PktLen(repeaters) + 2
    /\ send_queue' = send_queue \o Wire(FrameOf(repeaters, info))
    /\ sniffer' = "usb"
    /\ offered' = Append(offered, FrameOf(repeaters, info))
    /\ Disturb
    /\ UNCHANGED <<repeaters, producer, consumer, taken>>

\* The UNPROTO command.
UsbUnproto(reps) ==
    /\ repeaters' = reps
    /\ Disturb
    /\ UNCHANGED <<send_queue, sniffer, producer, consumer, offered, taken>>
-----------------------------------------------------------------------------
(* The consumer: send() *)

Running == todo = <<>>      \* the main loop is not inside a producer

Forget == offered' = <<>> /\ taken' = <<>> /\ disturbed' = FALSE

\* An underrun empties the queue; if frames were torn, the trouble ends here.
Resync == IF disturbed THEN Forget ELSE UNCHANGED <<offered, taken, disturbed>>

\* SP_IDLE with an empty queue.
SeeEmpty ==
    /\ Running /\ ~sending
    /\ send_queue = <<>>
    /\ Forget
    /\ UNCHANGED <<send_queue, repeaters, sniffer, producer, consumer>>

\* SP_DATA_START: the length and the first byte.
DataStart ==
    /\ Running /\ ~sending
    /\ Len(send_queue) >= 3
    /\ send_len' = LengthOf(send_queue[1], send_queue[2]) - 1
    /\ sent' = <<send_queue[3]>>
    /\ send_queue' = SubSeq(send_queue, 4, Len(send_queue))
    /\ sending' = TRUE
    /\ UNCHANGED <<repeaters, sniffer, producer, offered, taken, disturbed>>

\* SP_DATA_START underrun: the bytes that are there are gone.
DataStartUnderrun ==
    /\ Running /\ ~sending
    /\ Len(send_queue) \in 1 .. 2
    /\ send_queue' = <<>>
    /\ Resync
    /\ UNCHANGED <<repeaters, sniffer, producer, consumer>>

\* SP_DATA: the next byte.
Data ==
    /\ Running /\ sending
    /\ send_len > 0
    /\ send_queue # <<>>
    /\ sent' = Append(sent, Head(send_queue))
    /\ send_queue' = Tail(send_queue)
    /\ send_len' = send_len - 1
    /\ UNCHANGED <<repeaters, sniffer, producer, sending, offered, taken, disturbed>>

\* SP_DATA after the last byte: the frame is closed by a flag.
DataEnd ==
    /\ Running /\ sending
    /\ send_len <= 0
    /\ taken' = Append(taken, sent)
    /\ sending' = FALSE
    /\ sent' = <<>>
    /\ UNCHANGED <<send_queue, repeaters, sniffer, producer, send_len,
                   offered, disturbed>>

DataUnderrunStays ==
    /\ Running /\ sending
    /\ send_len > 0
    /\ send_queue = <<>>
    /\ Resync
    /\ UNCHANGED <<send_queue, repeaters, sniffer, producer, sending, send_len, sent>>

\* SP_DATA underrun: the frame is given up.
DataUnderrun ==
    /\ Running /\ sending
    /\ send_len > 0
    /\ send_queue = <<>>
    /\ sending' = FALSE
    /\ sent' = <<>>
    /\ Resync
    /\ UNCHANGED <<send_queue, repeaters, sniffer, producer, send_len>>
-----------------------------------------------------------------------------
Next ==
    \/ \E info \in Info : SendUnproto(info)
    \/ \E reps \in 0 .. MaxRepeaters, info \in Info : SendPacket(reps, info)
    \/ PutByte
    \/ SumFcs
    \/ \E info \in Info : UsbSend(info)
    \/ \E reps \in 0 .. MaxRepeaters : UsbUnproto(reps)
    \/ SeeEmpty
    \/ DataStart
    \/ DataStartUnderrun
    \/ Data
    \/ DataEnd
    \/ DataUnderrun

Spec == Init /\ [][Next]_vars
-----------------------------------------------------------------------------
(* Properties *)

\* Unless an interrupt has run inside a main-loop producer since send() last
\* found the queue empty, the frames send() takes out are the ones the
\* producers put in: whole, in order, with a good FCS.  In particular a frame
\* torn by an interrupt spoils nothing that is queued after the queue has run
\* empty once.
FramesIntact == ~disturbed => IsPrefix(taken, offered)

\* ... and none is lost or cut short by a full queue or an underrun: when
\* everything is at rest, all that passed the check of free space was sent.
NothingLost ==
    (~disturbed /\ Running /\ ~sending /\ send_queue = <<>>) => taken = offered
=============================================================================
