------------------------------ MODULE UsbOutput ------------------------------
(***************************************************************************)
(* Output to the USB terminal (usb_output.c): usb_queue in front of the    *)
(* transmit FIFO of the CDC endpoint.                                      *)
(*                                                                         *)
(* The main loop writes in the steps of usb_write (a usb_write_char is a   *)
(* usb_write of one byte); between any two of them the USB interrupt may   *)
(* echo a key, answer a command, or report that a transfer is complete.    *)
(* usb_output(), which would restart a queue that nobody empties, is       *)
(* called from nowhere and has no action here.                             *)
(*                                                                         *)
(* The endpoint is TinyUSB's, as usb_output.c uses it: a FIFO, of which a  *)
(* packet at a time is in flight; a last packet that is full is followed   *)
(* by an empty one.                                                        *)
(***************************************************************************)
EXTENDS Integers, Sequences, FiniteSets

CONSTANTS
    Char,       \* the bytes written
    QueueSize,  \* QUEUE_SIZE
    FifoSize,   \* room in the endpoint's FIFO
    Packet,     \* bytes in a packet
    MaxDone     \* bound: transfers completed between two steps of usb_write

VARIABLES
    connected,  \* tud_cdc_connected()
    usb_queue,
    endpoint,   \* the FIFO, and the packet in flight
    main,       \* the main loop's usb_write: where it is, what is left, free
    due,        \* history: per writer, what the host has still to get
    raced,      \* history: the interrupt has written since main looked for room
    done        \* history: transfers completed since main's last step

Writer == {"main", "usb"}
Byte == [from : Writer, ch : Char]
Idle == [pc |-> "idle", data |-> <<>>, free |-> 0]

ASSUME UsbOutputAssumption ==
    /\ QueueSize \in Nat \ {0} /\ Packet \in Nat \ {0}
    /\ FifoSize \in Nat /\ FifoSize >= Packet /\ MaxDone \in Nat

outVars == <<connected, usb_queue, endpoint, main, due, raced, done>>

TypeOKOut ==
    /\ connected \in BOOLEAN
    /\ usb_queue \in Seq(Byte) /\ Len(usb_queue) <= QueueSize
    /\ endpoint \in [fifo : Seq(Byte), flight : Seq(Byte), busy : BOOLEAN]
    /\ Len(endpoint.fifo) <= FifoSize /\ Len(endpoint.flight) <= Packet
    /\ endpoint.flight # <<>> => endpoint.busy
    /\ main \in [pc : {"idle", "room", "write", "add"}, data : Seq(Byte), free : 0 .. FifoSize]
    /\ due \in [Writer -> Seq(Byte)]
    /\ raced \in BOOLEAN /\ done \in 0 .. MaxDone

InitOut ==
    /\ connected = TRUE
    /\ usb_queue = <<>>
    /\ endpoint = [fifo |-> <<>>, flight |-> <<>>, busy |-> FALSE]
    /\ main = Idle
    /\ due = [w \in Writer |-> <<>>]
    /\ raced = FALSE /\ done = 0

Upto(s, n) == SubSeq(s, 1, n)
From(s, n) == SubSeq(s, n + 1, Len(s))
AtMost(m, n) == IF m < n THEN m ELSE n

\* Bytes of w among the first n of s.
Count(w, s, n) == Cardinality({i \in 1 .. n : s[i].from = w})

Bytes(w, text) == [i \in DOMAIN text |-> [from |-> w, ch |-> text[i]]]
-----------------------------------------------------------------------------
(* The endpoint *)

tud_cdc_write_available(e) == FifoSize - Len(e.fifo)

\* What fits is taken, and the first packet is sent if none is in flight.
WriteFlush(e, s) ==
    LET fifo == e.fifo \o Upto(s, AtMost(Len(s), tud_cdc_write_available(e)))
        n == AtMost(Packet, Len(fifo)) IN
    IF e.busy \/ fifo = <<>>
      THEN [e EXCEPT !.fifo = fifo]
      ELSE [fifo |-> From(fifo, n), flight |-> Upto(fifo, n), busy |-> TRUE]

\* A full packet with nothing behind it is followed by an empty one.
EndTransfer(e, sent) ==
    IF ~e.busy /\ Len(sent) = Packet THEN [e EXCEPT !.busy = TRUE] ELSE e
-----------------------------------------------------------------------------
(* usb_write in the main loop *)

UsbWriteDirect(text) ==
    LET data == Bytes("main", text) IN
    /\ main.pc = "idle"
    /\ IF connected
         THEN /\ main' = [pc |-> "room", data |-> data, free |-> 0]
              /\ due' = [due EXCEPT !["main"] = @ \o data]
         ELSE UNCHANGED <<main, due>>
    /\ done' = 0
    /\ UNCHANGED <<connected, usb_queue, endpoint, raced>>

\* Not connected: nothing is written.  Behind a queue that is not empty the data is
\* queued; else the room in the endpoint is looked for.
UsbWrite(text) ==
    LET data == Bytes("main", text) IN
    /\ main.pc = "idle"
    /\ IF connected
         THEN /\ main' = [pc |-> IF usb_queue = <<>> THEN "room" ELSE "add",
                          data |-> data, free |-> 0]
              /\ due' = [due EXCEPT !["main"] = @ \o data]
         ELSE UNCHANGED <<main, due>>
    /\ done' = 0
    /\ UNCHANGED <<connected, usb_queue, endpoint, raced>>

UsbWriteRoom ==
    /\ main.pc = "room"
    /\ main' = [main EXCEPT !.pc = "write", !.free = tud_cdc_write_available(endpoint)]
    /\ raced' = FALSE /\ done' = 0
    /\ UNCHANGED <<connected, usb_queue, endpoint, due>>

UsbWriteNoFlush ==
    LET n == AtMost(Len(main.data), tud_cdc_write_available(endpoint))
        rest == From(main.data, n) IN
    /\ main.pc = "write" /\ ~raced
    /\ endpoint' = [endpoint EXCEPT !.fifo = @ \o Upto(main.data, n)]
    /\ main' = IF rest = <<>> THEN Idle ELSE [pc |-> "add", data |-> rest, free |-> 0]
    /\ done' = 0
    /\ UNCHANGED <<connected, usb_queue, due, raced>>

\* What there was room for is written; what the FIFO does not take after all, because
\* the interrupt has written meanwhile, is lost.
UsbWriteWrite ==
    LET n == AtMost(Len(main.data), main.free)
        taken == AtMost(n, tud_cdc_write_available(endpoint))
        rest == From(main.data, n) IN
    /\ main.pc = "write"
    /\ endpoint' = WriteFlush(endpoint, Upto(main.data, n))
    /\ main' = IF rest = <<>> THEN Idle ELSE [pc |-> "add", data |-> rest, free |-> 0]
    /\ due' = IF raced
                THEN [due EXCEPT !["main"] =
                        Upto(@, Len(@) - Len(main.data) + taken) \o rest]
                ELSE due
    /\ raced' = FALSE /\ done' = 0
    /\ UNCHANGED <<connected, usb_queue>>

\* The rest is queued, up to the first byte that does not fit.
UsbWriteAdd ==
    /\ main.pc = "add"
    /\ IF main.data # <<>> /\ Len(usb_queue) < QueueSize
         THEN /\ usb_queue' = Append(usb_queue, Head(main.data))
              /\ main' = [main EXCEPT !.data = Tail(@)]
              /\ UNCHANGED due
         ELSE /\ main' = Idle
              /\ due' = [due EXCEPT !["main"] = Upto(@, Len(@) - Len(main.data))]
              /\ UNCHANGED usb_queue
    /\ done' = 0
    /\ UNCHANGED <<connected, endpoint, raced>>

WriteStep == UsbWriteRoom \/ UsbWriteWrite \/ UsbWriteAdd
-----------------------------------------------------------------------------
(* The USB interrupt *)

\* A whole usb_write: an echo or an answer.
UsbInterruptWrite(text) ==
    LET data == Bytes("usb", text)
        direct == IF usb_queue = <<>>
                    THEN AtMost(Len(data), tud_cdc_write_available(endpoint)) ELSE 0
        queued == AtMost(Len(data) - direct, QueueSize - Len(usb_queue)) IN
    /\ IF connected
         THEN /\ endpoint' = IF usb_queue = <<>>
                               THEN WriteFlush(endpoint, Upto(data, direct)) ELSE endpoint
              /\ usb_queue' = usb_queue \o Upto(From(data, direct), queued)
              /\ due' = [due EXCEPT !["usb"] = @ \o Upto(data, direct + queued)]
              /\ raced' = (main.pc = "write" /\ (raced \/ direct > 0))
         ELSE UNCHANGED <<endpoint, usb_queue, due, raced>>
    /\ UNCHANGED <<connected, main, done>>

\* tud_cdc_tx_complete_cb: what fits of the queue goes to the endpoint.  (n is what it
\* takes from the queue.)
tud_cdc_tx_complete_cb(e, n) == WriteFlush(e, Upto(usb_queue, n))

\* The host has taken the packet in flight.  It does so only while it has the port
\* open.
TxComplete ==
    LET sent == endpoint.flight
        e == [endpoint EXCEPT !.flight = <<>>, !.busy = FALSE]
        n == AtMost(Len(usb_queue), tud_cdc_write_available(e)) IN
    /\ connected /\ endpoint.busy
    /\ main.pc # "idle" => done < MaxDone
    /\ endpoint' = EndTransfer(tud_cdc_tx_complete_cb(e, n), sent)
    /\ usb_queue' = From(usb_queue, n)
    /\ due' = [w \in Writer |-> From(due[w], Count(w, sent, Len(sent)))]
    /\ done' = IF main.pc = "idle" THEN 0 ELSE done + 1
    /\ UNCHANGED <<connected, main, raced>>

\* The host opens or closes the port.
LineState ==
    /\ connected' = ~connected
    /\ UNCHANGED <<usb_queue, endpoint, main, due, raced, done>>
-----------------------------------------------------------------------------
(* Properties *)

\* d is what there is of w in s, in order.
Ordered(w, s, d) ==
    /\ Len(d) = Count(w, s, Len(s))
    /\ \A j \in DOMAIN s : s[j].from = w => d[Count(w, s, j)] = s[j]

\* What a writer has written is in the endpoint and the queue in the order in which
\* it was written and without a gap, but for what found the queue full or the endpoint
\* filled by the interrupt since usb_write looked for room.
InOrder ==
    \A w \in Writer :
        Ordered(w, endpoint.flight \o endpoint.fifo \o usb_queue \o main.data, due[w])

\* Nothing waits in the queue unless a transfer is in flight, whose completion takes it
\* up: nothing else would.
Awake == usb_queue # <<>> => endpoint.busy
=============================================================================
