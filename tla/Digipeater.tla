----------------------------- MODULE Digipeater -----------------------------
(***************************************************************************)
(* Stations that repeat each other's frames (digipeat.c, output_packet).   *)
(*                                                                         *)
(* The address field of a frame lists the repeaters it is to go through;   *)
(* the H bit of each tells whether it has.  A station that hears the frame *)
(* looks for the first repeater without the bit, and repeats the frame     *)
(* with the bit set if that is its call sign or its alias, which several   *)
(* stations may share.  The search does not stop at the end of the address *)
(* field: once all repeaters have the bit, text that reads like a call     *)
(* sign is taken for one.  On the air a frame may be lost to any listener. *)
(***************************************************************************)
EXTENDS Integers, Sequences

CONSTANTS
    Station,
    Calls,      \* per station, param.mycall and param.myalias
    Hears,      \* pairs <<s, r>>: s hears r
    Frames,     \* the frames that stations originate
    MAX_DIGIPEATER,
    QueueLen,   \* room in a send queue, in frames
    MaxFrames   \* bound: frames originated

VARIABLES
    send_queue, \* per station, the frames waiting to be transmitted
    originated, \* frames originated so far
    air         \* history: who (by) has transmitted which frame

digiVars == <<send_queue, originated, air>>

\* What digipeat() reads seven bytes at a time, going by the length of the frame only:
\* slots of which the first digis are the repeaters; control, PID and text follow.
Slot == [call : STRING, h : BOOLEAN]
Ax25 == [ui : BOOLEAN, src : Station, digis : Nat, slots : Seq(Slot)]

ASSUME DigipeaterAssumption ==
    /\ Calls \in [Station -> SUBSET STRING]
    /\ Hears \subseteq Station \X Station
    /\ MAX_DIGIPEATER \in Nat \ {0} /\ QueueLen \in Nat \ {0} /\ MaxFrames \in Nat
    /\ Frames \subseteq Ax25
    /\ \A f \in Frames : f.digis <= Len(f.slots) /\ \A i \in 1 .. f.digis : ~f.slots[i].h

DigiInit ==
    /\ send_queue = [s \in Station |-> <<>>]
    /\ originated = 0
    /\ air = {}

\* The first slot without the H bit.
Unmarked(f) == {i \in DOMAIN f.slots : ~f.slots[i].h}
IsNext(f, i) == i \in Unmarked(f) /\ \A j \in Unmarked(f) : i <= j

Mark(f, i) == [f EXCEPT !.slots[i].h = TRUE]

DigipeatAny(s, f) ==
    {Mark(f, i) : i \in {i \in Unmarked(f) :
        f.ui /\ f.digis > 0 /\ f.slots[i].call \in Calls[s]}}

DigipeatUnmarked(s, f) ==
    {f : i \in {i \in Unmarked(f) :
        /\ f.ui /\ f.digis > 0
        /\ IsNext(f, i) /\ i < MAX_DIGIPEATER /\ f.slots[i].call \in Calls[s]}}

\* digipeat: what the station repeats of a frame it has received, if anything.  A
\* frame that is not UI or has no repeaters is not looked at; the loop gives up before
\* it looks at slot MAX_DIGIPEATER.  (The copy that goes on to the monitor and to the
\* KISS host has the H bit cleared again.)
Digipeat(s, f) ==
    {Mark(f, i) : i \in {i \in Unmarked(f) :
        /\ f.ui /\ f.digis > 0
        /\ IsNext(f, i) /\ i < MAX_DIGIPEATER /\ f.slots[i].call \in Calls[s]}}

\* send_packet: a frame that does not fit the queue is dropped.
Queued(q, f) == IF Len(q) < QueueLen THEN Append(q, f) ELSE q

\* A station has something to send: a beacon, a position, a line of text.
Originate(f) ==
    /\ originated < MaxFrames
    /\ originated' = originated + 1
    /\ send_queue' = [send_queue EXCEPT ![f.src] = Queued(@, f)]
    /\ UNCHANGED air

\* A station transmits its next frame, which those in heard, of those that hear it,
\* receive with a good FCS.
Transmit(s) ==
    \E heard \in SUBSET {r \in Station : <<r, s>> \in Hears} :
        LET f == Head(send_queue[s])
            repeats(r) == IF r \in heard THEN Digipeat(r, f) ELSE {} IN
        /\ send_queue[s] # <<>>
        /\ send_queue' = [r \in Station |->
             LET q == IF r = s THEN Tail(send_queue[r]) ELSE send_queue[r] IN
             IF repeats(r) = {} THEN q ELSE Queued(q, CHOOSE g \in repeats(r) : TRUE)]
        /\ air' = air \cup {[by |-> s, frame |-> f]}
        /\ UNCHANGED originated

DigiNext == (\E f \in Frames : Originate(f)) \/ (\E s \in Station : Transmit(s))

\* A station with frames to send gets the channel in the end (Transmitter).
DigiSpec == DigiInit /\ [][DigiNext]_digiVars /\ \A s \in Station : WF_digiVars(Transmit(s))
-----------------------------------------------------------------------------
(* Properties *)

\* f with its first k slots marked.
WithMarks(f, k) ==
    [f EXCEPT !.slots = [i \in DOMAIN f.slots |->
        IF i <= k THEN [f.slots[i] EXCEPT !.h = TRUE] ELSE f.slots[i]]]

\* Station s has e, marked up to slot k, from its source or, by slot k, from another.
AtHop(s, e, k) ==
    IF k = 0
      THEN s = e.src
      ELSE /\ k < MAX_DIGIPEATER
           /\ ~e.slots[k].h /\ e.slots[k].call \in Calls[s]
           /\ \E sent \in air :
                /\ <<s, sent.by>> \in Hears
                /\ IsNext(sent.frame, k) /\ Mark(sent.frame, k) = WithMarks(e, k)

\* Every frame on the air is one that a station has originated, with its first k
\* slots marked and nothing else changed; slot k was not marked at first and names
\* the station that transmits it, which has heard the frame when slot k was the
\* next one.  So the repeaters take a frame in order, each marking its own slot; a
\* slot behind them, part of the text, is only ever changed by a station that it
\* reads like, after all of them.
HopsInOrder ==
    \A sent \in air : \E e \in Frames, k \in 0 .. Len(sent.frame.slots) :
        sent.frame = WithMarks(e, k) /\ AtHop(sent.by, e, k)

\* Repeating comes to an end: not even stations that share an alias and hear each
\* other repeat a frame forever.
StormDies == <>[](\A s \in Station : send_queue[s] = <<>>)
=============================================================================
